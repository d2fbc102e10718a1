------------------------------- MODULE DsvVar -------------------------------
(***************************************************************************)
(* The variable table of the server (dsv_server/src/dsv_var.cpp) and its   *)
(* save file.  `gmap' is g_map: it gives a name the dsv_info_t the handle  *)
(* points to.  A value is a sequence of items: the characters of a string, *)
(* the elements of an integer array, or one item for a numeric type.       *)
(* `disk' is /var/run/dsv.save as its sequence of "name=value;" records.   *)
(***************************************************************************)
EXTENDS Integers, Sequences, FiniteSets, Functions

CONSTANTS Names,      \* names of system variables
          TypeOf,     \* the type the creators of a name give it
          Data,       \* characters, array elements, numbers
          Handles,    \* addresses malloc may return
          MaxLen,     \* bound: items in a value
          MaxDisk,    \* bound: records in the save file
          Absent      \* a name that is not in g_map

Types == {"STR", "NUM", "ARR"}

ASSUME ConstantsAssumption ==
  /\ IsFiniteSet(Names)
  /\ TypeOf \in [Names -> Types]
  /\ MaxLen \in Nat \ {0}
  /\ MaxDisk \in Nat

Values == UNION {[1..k -> Data] : k \in 0..MaxLen}

\* The values a variable of type y can be given.
ValuesOf(y) == IF y = "NUM" THEN [1..1 -> Data] ELSE Values

\* dsv_info_t.  `len' is that of strings and arrays: no handler reads what a
\* client sends as the length of a number.  `raw' says that pArray points to a
\* plain block of integers although every user takes it for a std::vector.
Entry == [hndl: Handles, flags: SUBSET {"SAVE", "TRACK"}, dirty: BOOLEAN,
          len: 0..MaxLen, val: Values, raw: BOOLEAN]

ASSUME AbsentAssumption == Absent \notin Entry /\ Absent \notin Values

Record == [name: Names, val: Values]

VARIABLES gmap,     \* g_map
          disk,     \* the save file
          exists,   \* whether the save file exists
          status,   \* "up", "down", "ub": ended by undefined behaviour, or
                    \* "cut": ended in var_restore after it truncated the file
          issued,   \* handles ever given to a client
          written   \* history: names written since they were created

vars == <<gmap, disk, exists, status, issued, written>>

Init == /\ gmap = [n \in Names |-> Absent]
        /\ disk = <<>>
        /\ exists = FALSE
        /\ status = "up"
        /\ issued = {}
        /\ written = {}

Created == {n \in Names : gmap[n] # Absent}
Live == {gmap[n].hndl : n \in Created}

\* The server process ends with status s: its memory is gone.
Ended(s) == /\ status' = s
            /\ gmap' = [n \in Names |-> Absent]
            /\ written' = {}
            /\ UNCHANGED issued

\* A use of memory that is not what the code takes it for.
Undefined == Ended("ub") /\ UNCHANGED <<disk, exists>>

-----------------------------------------------------------------------------
(* Create and the writes.                                                  *)

LenOf(y, v) == IF y = "NUM" THEN 0 ELSE Len(v)

\* A bug's form: the second creator of a name replaces the entry.
VacantReplacing(n, h) == h \in Handles \ Live

Vacant(n, h) == n \notin Created /\ h \in Handles \ Live

\* var_create: the flags and the dirty byte are the client's.  A name that
\* exists is left alone.
VarCreate(n, v, F, d, h) ==
  /\ status = "up"
  /\ Vacant(n, h)
  /\ v \in ValuesOf(TypeOf[n])
  /\ gmap' = [gmap EXCEPT ![n] = [hndl |-> h, flags |-> F, dirty |-> d,
                                  len |-> LenOf(TypeOf[n], v), val |-> v, raw |-> FALSE]]
  /\ issued' = issued \cup {h}
  /\ written' = written \ {n}
  /\ UNCHANGED <<disk, exists, status>>

\* A handler has stored the value w in entry e.  (It prints the value of a
\* tracked entry; the byte that DSV_Array2Str then writes before its buffer if
\* the array is empty is taken to hit nothing, here and in a save.)  A bug's
\* form: it forgets the dirty mark; it does not follow a change of size with len.
StoredClean(e, w) == [e EXCEPT !.val = w]
Stored(e, w) == [e EXCEPT !.val = w, !.dirty = TRUE]
ResizedKeepsLen(e, w) == Stored(e, w)
Resized(e, w) == [Stored(e, w) EXCEPT !.len = Len(w)]

\* var_set frees a string and copies the new one but leaves len; an array is
\* rebuilt from len bytes, so a shorter one is filled up from the buffer and
\* a longer one is cut; a number is one item.
SetSize(e, y) == IF y = "NUM" THEN 1 ELSE e.len
SetValues(e, y, v) ==
  IF y = "STR" THEN {v}
  ELSE {w \in [1..SetSize(e, y) -> Data] :
          \A i \in 1..SetSize(e, y) : i <= Len(v) => w[i] = v[i]}

\* A request that names the entry by its handle h.
At(h, n) == n \in Created /\ gmap[n].hndl = h
Usable(n) == ~gmap[n].raw

\* The handler of a request on handle h that replaces entry n by e.
Update(n, e) ==
  /\ gmap' = [gmap EXCEPT ![n] = e]
  /\ written' = written \cup {n}
  /\ UNCHANGED <<disk, exists, status, issued>>

VarSet(h, v) ==
  /\ status = "up"
  /\ \E n \in Names :
       /\ At(h, n) /\ Usable(n)
       /\ \E w \in SetValues(gmap[n], TypeOf[n], v) : Update(n, Stored(gmap[n], w))

\* The array that a request on h works on.
ArrayAt(h, n) == At(h, n) /\ TypeOf[n] = "ARR" /\ Usable(n)

VarAddItem(h, x) ==
  /\ status = "up"
  /\ \E n \in Names :
       /\ ArrayAt(h, n)
       /\ Len(gmap[n].val) < MaxLen
       /\ Update(n, Resized(gmap[n], Append(gmap[n].val, x)))

VarSetItem(h, i, x) ==
  /\ status = "up"
  /\ \E n \in Names :
       /\ ArrayAt(h, n)
       /\ i \in DOMAIN gmap[n].val
       /\ Update(n, Stored(gmap[n], [gmap[n].val EXCEPT ![i] = x]))

Inserted(s, i, x) ==
  [k \in 1..Len(s) + 1 |-> IF k < i THEN s[k] ELSE IF k = i THEN x ELSE s[k - 1]]

VarInsItem(h, i, x) ==
  /\ status = "up"
  /\ \E n \in Names :
       /\ ArrayAt(h, n)
       /\ Len(gmap[n].val) < MaxLen
       /\ i \in 1..Len(gmap[n].val) + 1
       /\ Update(n, Resized(gmap[n], Inserted(gmap[n].val, i, x)))

Deleted(s, i) == [k \in 1..Len(s) - 1 |-> IF k < i THEN s[k] ELSE s[k + 1]]

VarDelItem(h, i) ==
  /\ status = "up"
  /\ \E n \in Names :
       /\ ArrayAt(h, n)
       /\ i \in DOMAIN gmap[n].val
       /\ Update(n, Resized(gmap[n], Deleted(gmap[n].val, i)))

\* No handler checks the handle: one of an earlier server is undefined, and so
\* is a use of an array that restore left raw.
VarMisuse(h) ==
  /\ status = "up"
  /\ h \in Live => \E n \in Created : At(h, n) /\ ~Usable(n)
  /\ Undefined

\* None but var_get_item checks an index (i is the client's index + 1); only an
\* insert may use the end of the array.
VarMisindex(h, i, last) ==
  /\ status = "up"
  /\ \E n \in Names : ArrayAt(h, n) /\ i \notin 1..Len(gmap[n].val) + last
  /\ Undefined

\* var_track on one of the names it enumerates.
VarTrack(n, on) ==
  /\ status = "up"
  /\ n \in Created
  /\ gmap' = [gmap EXCEPT ![n].flags = IF on THEN @ \cup {"TRACK"}
                                       ELSE @ \ {"TRACK"}]
  /\ UNCHANGED <<disk, exists, status, issued, written>>

-----------------------------------------------------------------------------
(* The save file.                                                          *)

\* Record i is the last of name n: the one whose value a restore leaves.
IsLast(d, n, i) == /\ i \in DOMAIN d
                   /\ d[i].name = n
                   /\ \A j \in DOMAIN d : j > i => d[j].name # n

Saved(d, n) == \E i \in DOMAIN d : IsLast(d, n, i)
LastVal(d, n) == d[CHOOSE i \in DOMAIN d : IsLast(d, n, i)].val

ToSave(t) == {n \in Names : t[n] # Absent /\ t[n].dirty /\ "SAVE" \in t[n].flags}

Cleaned(t, S) == [n \in Names |-> IF n \in S THEN [t[n] EXCEPT !.dirty = FALSE]
                                  ELSE t[n]]

\* The orders in which the hash map can enumerate S.
Orders(S) == Bijection(1..Cardinality(S), S)

\* DSV_Array2Str writes nothing of an empty array: the buffer keeps the text
\* of an earlier entry or what the stack held.
EmptyArray(t, n) == TypeOf[n] = "ARR" /\ t[n].val = <<>>
Blank(t, S) == {n \in S : EmptyArray(t, n)}

Text(t, n, g) == IF EmptyArray(t, n) THEN g[n] ELSE t[n].val

\* What var_save may append for table t: a record of each dirty saveable entry.
PassRecords(t) ==
  {[k \in DOMAIN ord |-> [name |-> ord[k], val |-> Text(t, ord[k], g)]] :
     ord \in Orders(ToSave(t)), g \in [Blank(t, ToSave(t)) -> Values]}

\* Only var_restore meets a raw array in its pass: what it leaves raw is
\* never to be saved (RawNotSaved).
RawToSave(t) == \E n \in ToSave(t) : t[n].raw
Fits(base, t) == Len(base) + Cardinality(ToSave(t)) <= MaxDisk

VarSave ==
  /\ status = "up" /\ Fits(disk, gmap)
  /\ \E recs \in PassRecords(gmap) : disk' = disk \o recs
  /\ gmap' = Cleaned(gmap, ToSave(gmap))
  /\ exists' = TRUE
  /\ UNCHANGED <<status, issued, written>>

\* The table once var_restore has read the whole file d: DSV_Str2Value gives
\* an array a plain block, and every entry it touches becomes dirty (a bug's
\* form: it does not).
RestoredUnmarked(e, y, v) ==
  [e EXCEPT !.val = v, !.len = LenOf(y, v), !.raw = (y = "ARR")]
RestoredEntry(e, y, v) ==
  [e EXCEPT !.val = v, !.len = LenOf(y, v),
            !.dirty = TRUE, !.raw = (y = "ARR")]

Restored(t, d) ==
  [n \in Names |-> IF t[n] # Absent /\ Saved(d, n)
                   THEN RestoredEntry(t[n], TypeOf[n], LastVal(d, n))
                   ELSE t[n]]

\* Nothing of an array's text is nothing to memdup, which asserts that there is
\* something (DSV_Str2Array): var_restore aborts before it truncates the file.
Unreadable(d) == \E i \in DOMAIN d : /\ d[i].name \in Created
                                     /\ TypeOf[d[i].name] = "ARR"
                                     /\ d[i].val = <<>>

VarRestoreAborts ==
  /\ status = "up" /\ exists
  /\ Unreadable(disk)
  /\ Ended("down")
  /\ UNCHANGED <<disk, exists>>

\* var_restore truncates the file and saves again: records of a name that has
\* not been created, or without the SAVE flag, do not come back.
VarRestore ==
  /\ status = "up" /\ exists /\ ~Unreadable(disk)
  /\ LET t == Restored(gmap, disk)
     IN /\ ~RawToSave(t) /\ Fits(<<>>, t)
        /\ disk' \in PassRecords(t)
        /\ gmap' = Cleaned(t, ToSave(t))
  /\ written' = written \cup {n \in Created : Saved(disk, n)}
  /\ UNCHANGED <<exists, status, issued>>

VarRestoreUndefined ==
  /\ status = "up" /\ exists /\ ~Unreadable(disk)
  /\ RawToSave(Restored(gmap, disk))
  /\ Ended("cut")
  /\ disk' = <<>>
  /\ UNCHANGED exists

-----------------------------------------------------------------------------
(* The life of the process.                                                *)

\* A signal ends mainloop, which saves before it returns.
Shutdown ==
  /\ status = "up" /\ Fits(disk, gmap)
  /\ \E recs \in PassRecords(gmap) : disk' = disk \o recs
  /\ exists' = TRUE
  /\ Ended("down")

\* What the file holds when k records of a save have reached it: a bug's form,
\* of a save that writes the file anew, and the code's.
ReachedAlone(recs, k) == SubSeq(recs, 1, k)
Reached(recs, k) == disk \o SubSeq(recs, 1, k)

\* The process is killed: while it waits, or during a save, when a prefix of
\* the pass has reached the file.
Crash ==
  /\ status = "up"
  /\ \/ UNCHANGED <<disk, exists>>
     \/ /\ Fits(disk, gmap)
        /\ \E recs \in PassRecords(gmap) :
             \E k \in 0..Len(recs) : disk' = Reached(recs, k)
        /\ exists' = TRUE
  /\ Ended("down")

\* The process is killed in var_restore after the truncation.
CrashInRestore ==
  /\ status = "up" /\ exists /\ ~Unreadable(disk)
  /\ LET t == Restored(gmap, disk)
     IN /\ ~RawToSave(t) /\ Fits(<<>>, t)
        /\ \E recs \in PassRecords(t) :
             \E k \in 0..Len(recs) : disk' = SubSeq(recs, 1, k)
  /\ UNCHANGED exists
  /\ Ended("cut")

Start == /\ status # "up"
         /\ status' = "up"
         /\ UNCHANGED <<gmap, disk, exists, issued, written>>

Request(h) ==
  \/ \E v \in Values : VarSet(h, v)
  \/ \E x \in Data : VarAddItem(h, x)
  \/ \E i \in 1..MaxLen, x \in Data : VarSetItem(h, i, x) \/ VarInsItem(h, i, x)
  \/ \E i \in 1..MaxLen : VarDelItem(h, i)
  \/ \E i \in 0..MaxLen + 2, last \in {0, 1} : VarMisindex(h, i, last)
  \/ VarMisuse(h)

Next ==
  \/ \E n \in Names, v \in Values, F \in SUBSET {"SAVE"}, d \in BOOLEAN,
        h \in Handles : VarCreate(n, v, F, d, h)
  \/ \E h \in issued : Request(h)
  \/ \E n \in Names, on \in BOOLEAN : VarTrack(n, on)
  \/ VarSave \/ VarRestore \/ VarRestoreAborts \/ VarRestoreUndefined
  \/ Shutdown \/ Crash \/ CrashInRestore \/ Start

Spec == Init /\ [][Next]_vars

-----------------------------------------------------------------------------
(* Properties.                                                             *)

TypeOK == /\ gmap \in [Names -> Entry \cup {Absent}]
          /\ disk \in Seq(Record)
          /\ exists \in BOOLEAN
          /\ status \in {"up", "down", "ub", "cut"}
          /\ issued \subseteq Handles
          /\ written \subseteq Names

\* DSV_Memcpy copies len bytes of a vector, var_set builds one from len bytes:
\* after every sequence of item operations, sets and restores len is the size
\* of the array (util.cpp DSV_Memcpy).
LenCoherent ==
  \A n \in Created : TypeOf[n] = "ARR" => gmap[n].len = Len(gmap[n].val)

\* An entry that is not dirty needs no saving: if it was written in this life
\* of the server, the last record of its name in the file holds its value
\* (var_save skips clean entries, var_restore lets the last record win).
\* The text of an empty array is no text of it.
CleanIsSaved ==
  \A n \in Created \cap written :
    /\ "SAVE" \in gmap[n].flags
    /\ ~gmap[n].dirty
    /\ ~EmptyArray(gmap, n)
    => Saved(disk, n) /\ LastVal(disk, n) = gmap[n].val

\* A numeric entry, and its records, have one item.
NumHasOneItem ==
  /\ \A n \in Created : TypeOf[n] = "NUM" => gmap[n].val \in [1..1 -> Data]
  /\ \A i \in DOMAIN disk : TypeOf[disk[i].name] = "NUM" => disk[i].val \in [1..1 -> Data]

\* A raw array has no SAVE flag: a later var_save does not read it.
RawNotSaved == \A n \in Created : gmap[n].raw => "SAVE" \notin gmap[n].flags

\* The inductive invariant.
IInv == TypeOK /\ NumHasOneItem /\ LenCoherent /\ RawNotSaved /\ CleanIsSaved

\* A name keeps its entry, and so its handle, as long as the server runs: the
\* handles clients cache stay good (dsv_var.cpp:136).
HandleKept ==
  [][\A n \in Created : status' = "up" =>
       n \in Created' /\ gmap'[n].hndl = gmap[n].hndl]_vars

\* A value in the file stays there as long as every name in the file belongs
\* to a created entry with the SAVE flag, the condition var_restore states
\* (dsv_var.cpp:679), and the server is not killed while it rewrites it.
SavedKept ==
  [][/\ status = "up"
     /\ status' = "up"
     /\ \A n \in Names : Saved(disk, n) => n \in Created /\ "SAVE" \in gmap[n].flags
     => \A n \in Names : Saved(disk, n) => Saved(disk', n)]_vars

Life == IF status \in {"up", "cut"} THEN status ELSE "ended"

\* The table and its append-only file keep the promise of DsvStore: a kill, in
\* the middle of a save too, loses nothing that the file had, unless it comes
\* between the truncation and the end of a restore.
Store == INSTANCE DsvStore WITH
  None <- Absent,
  mem <- [n \in Names |-> IF n \in Created THEN gmap[n].val ELSE Absent],
  keep <- {n \in Created : "SAVE" \in gmap[n].flags},
  stored <- [n \in Names |-> IF Saved(disk, n) THEN LastVal(disk, n) ELSE Absent],
  pending <- ToSave(gmap),
  life <- Life

StoreSpec == Store!Spec

\* "restore dsv value from persistent file" (dsv.h:241): it does, whatever the
\* type of the dsv, and the server goes on.
RestoreDefined == [][~VarRestoreUndefined]_vars
=============================================================================
