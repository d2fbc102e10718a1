---------------------------- MODULE DsvVarProofs ----------------------------
(* Theorems about DsvVar: its inductive invariant and what follows from it. *)
EXTENDS DsvVar, TLAPS, SequenceTheorems, FiniteSetTheorems

(* A value is a sequence of at most MaxLen items. *)
LEMMA ValueIsSeq ==
  ASSUME NEW v \in Values
  PROVE  /\ v \in Seq(Data)
         /\ Len(v) \in 0..MaxLen
         /\ v \in [1..Len(v) -> Data]
         /\ DOMAIN v = 1..Len(v)
<1>1. PICK k \in 0..MaxLen : v \in [1..k -> Data]
  BY DEF Values
<1>2. k \in Nat
  BY ConstantsAssumption
<1>3. v \in Seq(Data)
  BY <1>1, <1>2
<1> QED
  BY <1>1, <1>2, <1>3, LenProperties, ConstantsAssumption

LEMMA SeqIsValue ==
  ASSUME NEW k \in 0..MaxLen, NEW v \in [1..k -> Data]
  PROVE  v \in Values /\ Len(v) = k
<1>1. v \in Values
  BY DEF Values
<1>2. DOMAIN v = 1..k /\ DOMAIN v = 1..Len(v) /\ Len(v) \in Nat
  BY <1>1, ValueIsSeq, ConstantsAssumption
<1> QED
  BY <1>1, <1>2, ConstantsAssumption

LEMMA NumValue ==
  ASSUME NEW v \in [1..1 -> Data]
  PROVE  v \in Values /\ Len(v) = 1
<1>1. 1 \in 0..MaxLen
  BY ConstantsAssumption
<1> QED
  BY <1>1, SeqIsValue

(* The last record of a name is unique, so LastVal is its value. *)
LEMMA LastValIs ==
  ASSUME NEW d \in Seq(Record), NEW n \in Names, NEW i, IsLast(d, n, i)
  PROVE  Saved(d, n) /\ LastVal(d, n) = d[i].val
<1>1. i \in DOMAIN d /\ DOMAIN d = 1..Len(d) /\ Len(d) \in Nat
  BY LenProperties DEF IsLast
<1>2. \A j \in DOMAIN d : IsLast(d, n, j) => j = i
  BY <1>1 DEF IsLast
<1> QED
  BY <1>1, <1>2 DEF Saved, LastVal

LEMMA LastValType ==
  ASSUME NEW d \in Seq(Record), NEW n \in Names, Saved(d, n)
  PROVE  \E i \in DOMAIN d : d[i].name = n /\ LastVal(d, n) = d[i].val /\ d[i] \in Record
<1>1. PICK i \in DOMAIN d : IsLast(d, n, i)
  BY DEF Saved
<1>2. LastVal(d, n) = d[i].val
  BY <1>1, LastValIs
<1>3. d[i] \in Record
  BY LenProperties, ElementOfSeq
<1> QED
  BY <1>1, <1>2, <1>3 DEF IsLast

LEMMA Appended ==
  ASSUME NEW d \in Seq(Record), NEW r \in Seq(Record)
  PROVE  /\ d \o r \in Seq(Record)
         /\ DOMAIN (d \o r) = 1..Len(d) + Len(r)
         /\ DOMAIN d = 1..Len(d) /\ DOMAIN r = 1..Len(r)
         /\ Len(d) \in Nat /\ Len(r) \in Nat
         /\ \A i \in 1..Len(d) + Len(r) :
              (d \o r)[i] = IF i <= Len(d) THEN d[i] ELSE r[i - Len(d)]
<1>1. d \o r \in Seq(Record) /\ Len(d \o r) = Len(d) + Len(r)
  BY ConcatProperties
<1> QED
  BY <1>1, ConcatProperties, LenProperties

(* The last record of a name once the records r follow the file d: the last   *)
(* in r when the name is in r, else the last in d.                            *)
LEMMA LastOfTail ==
  ASSUME NEW d \in Seq(Record), NEW r \in Seq(Record), NEW n \in Names, NEW i, IsLast(r, n, i)
  PROVE  IsLast(d \o r, n, Len(d) + i) /\ (d \o r)[Len(d) + i] = r[i]
<1> DEFINE c == d \o r
<1>1. /\ DOMAIN c = 1..Len(d) + Len(r) /\ DOMAIN r = 1..Len(r)
      /\ Len(d) \in Nat /\ Len(r) \in Nat
      /\ \A j \in 1..Len(d) + Len(r) : c[j] = IF j <= Len(d) THEN d[j] ELSE r[j - Len(d)]
  BY Appended
<1> HIDE DEF c
<1>2. i \in 1..Len(r) /\ r[i].name = n /\ \A j \in 1..Len(r) : j > i => r[j].name # n
  BY <1>1 DEF IsLast
<1>3. Len(d) + i \in 1..Len(d) + Len(r) /\ c[Len(d) + i] = r[i]
  BY <1>1, <1>2
<1>4. ASSUME NEW j \in 1..Len(d) + Len(r), j > Len(d) + i
      PROVE  c[j].name # n
  <2>1. j - Len(d) \in 1..Len(r) /\ j - Len(d) > i /\ ~(j <= Len(d))
    BY <1>1, <1>2, <1>4
  <2>2. c[j] = r[j - Len(d)]
    BY <1>1, <2>1
  <2> QED
    BY <1>2, <2>1, <2>2
<1>5. IsLast(c, n, Len(d) + i)
  BY <1>1, <1>2, <1>3, <1>4 DEF IsLast
<1> QED
  BY <1>3, <1>5 DEF c

LEMMA LastOfHead ==
  ASSUME NEW d \in Seq(Record), NEW r \in Seq(Record), NEW n \in Names, NEW i, IsLast(d, n, i),
         \A j \in DOMAIN r : r[j].name # n
  PROVE  IsLast(d \o r, n, i) /\ (d \o r)[i] = d[i]
<1> DEFINE c == d \o r
<1>1. /\ DOMAIN c = 1..Len(d) + Len(r) /\ DOMAIN d = 1..Len(d) /\ DOMAIN r = 1..Len(r)
      /\ Len(d) \in Nat /\ Len(r) \in Nat
      /\ \A j \in 1..Len(d) + Len(r) : c[j] = IF j <= Len(d) THEN d[j] ELSE r[j - Len(d)]
  BY Appended
<1> HIDE DEF c
<1>2. i \in 1..Len(d) /\ d[i].name = n /\ \A j \in 1..Len(d) : j > i => d[j].name # n
  BY <1>1 DEF IsLast
<1>3. i \in 1..Len(d) + Len(r) /\ c[i] = d[i]
  BY <1>1, <1>2
<1>4. ASSUME NEW j \in 1..Len(d) + Len(r), j > i
      PROVE  c[j].name # n
  <2>1. CASE j <= Len(d)
    BY <1>1, <1>2, <1>4, <2>1
  <2>2. CASE ~(j <= Len(d))
    <3>1. j - Len(d) \in DOMAIN r /\ c[j] = r[j - Len(d)]
      BY <1>1, <2>2
    <3> QED
      BY <3>1
  <2> QED
    BY <2>1, <2>2
<1>5. IsLast(c, n, i)
  BY <1>1, <1>2, <1>3, <1>4 DEF IsLast
<1> QED
  BY <1>3, <1>5 DEF c

Tables == [Names -> Entry \cup {Absent}]

NumEntries(t) ==
  \A n \in Names : t[n] # Absent /\ TypeOf[n] = "NUM" => t[n].val \in [1..1 -> Data]

NumRecords(d) ==
  \A i \in DOMAIN d : TypeOf[d[i].name] = "NUM" => d[i].val \in [1..1 -> Data]

LEMMA NumAppended ==
  ASSUME NEW d \in Seq(Record), NEW r \in Seq(Record), NumRecords(d), NumRecords(r)
  PROVE  NumRecords(d \o r)
<1> DEFINE c == d \o r
<1> SUFFICES ASSUME NEW i \in DOMAIN c, TypeOf[c[i].name] = "NUM"
             PROVE  c[i].val \in [1..1 -> Data]
  BY DEF NumRecords
<1>1. /\ DOMAIN c = 1..Len(d) + Len(r) /\ DOMAIN d = 1..Len(d) /\ DOMAIN r = 1..Len(r)
      /\ Len(d) \in Nat /\ Len(r) \in Nat
      /\ c[i] = IF i <= Len(d) THEN d[i] ELSE r[i - Len(d)]
  BY Appended
<1> HIDE DEF c
<1>2. CASE i <= Len(d)
  BY <1>1, <1>2 DEF NumRecords
<1>3. CASE ~(i <= Len(d))
  <2>1. i - Len(d) \in DOMAIN r
    BY <1>1, <1>3
  <2> QED
    BY <1>1, <1>3, <2>1 DEF NumRecords
<1> QED
  BY <1>2, <1>3

LEMMA NumPrefix ==
  ASSUME NEW r \in Seq(Record), NumRecords(r), NEW k \in 0..Len(r)
  PROVE  SubSeq(r, 1, k) \in Seq(Record) /\ NumRecords(SubSeq(r, 1, k))
<1> DEFINE p == SubSeq(r, 1, k)
<1>1. DOMAIN r = 1..Len(r) /\ Len(r) \in Nat /\ \A i \in 1..Len(r) : r[i] \in Record
  BY LenProperties, ElementOfSeq
<1>2. k \in Nat /\ \A i \in 1..k : i \in 1..Len(r)
  BY <1>1
<1>3. p \in Seq(Record) /\ Len(p) = k /\ \A i \in 1..k : p[i] = r[i]
  BY <1>1, <1>2, SubSeqProperties
<1> HIDE DEF p
<1>4. DOMAIN p = 1..k
  BY <1>3, LenProperties
<1> QED
  BY <1>1, <1>2, <1>3, <1>4 DEF NumRecords, p

(* What a pass of var_save appends: records of entries to save, one and only  *)
(* one of each, with its value unless it is an empty array.                   *)
LEMMA PassFacts ==
  ASSUME NEW t \in Tables, NEW recs \in PassRecords(t), NumEntries(t)
  PROVE  /\ recs \in Seq(Record)
         /\ NumRecords(recs)
         /\ \A i \in DOMAIN recs : recs[i].name \in ToSave(t)
         /\ \A n \in ToSave(t) : \E i :
              IsLast(recs, n, i) /\ (~EmptyArray(t, n) => recs[i].val = t[n].val)
<1> DEFINE S == ToSave(t)
           m == Cardinality(S)
<1>1. S \subseteq Names /\ \A n \in S : t[n] \in Entry
  BY DEF ToSave, Tables
<1>2. m \in Nat
  BY <1>1, ConstantsAssumption, FS_Subset, FS_CardinalityType
<1>3. PICK ord \in Orders(S), g \in [Blank(t, S) -> Values] :
        recs = [k \in DOMAIN ord |-> [name |-> ord[k], val |-> Text(t, ord[k], g)]]
  BY DEF PassRecords
<1> HIDE DEF m, S
<1>4. /\ ord \in [1..m -> S]
      /\ \A a, b \in 1..m : ord[a] = ord[b] => a = b
      /\ \A n \in S : \E k \in 1..m : ord[k] = n
  BY <1>3 DEF Orders, Bijection, Injection, Surjection, IsInjective, m
<1>5. \A k \in 1..m : /\ recs[k].name = ord[k]
                      /\ recs[k].val = Text(t, ord[k], g)
                      /\ recs[k] \in Record
  <2> TAKE k \in 1..m
  <2> DEFINE x == Text(t, ord[k], g)
  <2>1. ord[k] \in S /\ ord[k] \in Names /\ t[ord[k]] \in Entry
    BY <1>1, <1>4
  <2>2. x \in Values
    <3>1. CASE EmptyArray(t, ord[k])
      BY <1>3, <1>4, <2>1, <3>1 DEF Blank, Text
    <3>2. CASE ~EmptyArray(t, ord[k])
      BY <1>3, <1>4, <2>1, <3>2 DEF Text, Entry
    <3> QED
      BY <3>1, <3>2
  <2>3. recs[k] = [name |-> ord[k], val |-> x]
    BY <1>3, <1>4
  <2> HIDE DEF x
  <2>4. [name |-> ord[k], val |-> x] \in Record
    BY <2>1, <2>2 DEF Record
  <2>5. recs[k].name = ord[k] /\ recs[k].val = x
    BY <2>3
  <2> QED
    BY <2>3, <2>4, <2>5 DEF x
<1>6. recs \in [1..m -> Record] /\ DOMAIN recs = 1..m
  BY <1>3, <1>4, <1>5
<1>7. recs \in Seq(Record)
  BY <1>2, <1>6
<1>8. \A i \in DOMAIN recs : recs[i].name \in S
  BY <1>4, <1>5, <1>6
<1>9. NumRecords(recs)
  <2> SUFFICES ASSUME NEW i \in 1..m, TypeOf[recs[i].name] = "NUM"
               PROVE  recs[i].val \in [1..1 -> Data]
    BY <1>6 DEF NumRecords
  <2>1. ord[i] \in S /\ ord[i] \in Names /\ TypeOf[ord[i]] = "NUM" /\ t[ord[i]] # Absent
    BY <1>1, <1>4, <1>5 DEF S, ToSave
  <2>2. recs[i].val = t[ord[i]].val
    BY <1>5, <2>1 DEF Text, EmptyArray
  <2> QED
    BY <2>1, <2>2 DEF NumEntries
<1>10. ASSUME NEW n \in S
       PROVE  \E i : IsLast(recs, n, i) /\ (~EmptyArray(t, n) => recs[i].val = t[n].val)
  <2>1. PICK k \in 1..m : ord[k] = n
    BY <1>4
  <2>2. \A j \in 1..m : recs[j].name = n => j = k
    BY <1>4, <1>5, <2>1
  <2>3. IsLast(recs, n, k)
    BY <1>2, <1>5, <1>6, <2>1, <2>2 DEF IsLast
  <2>4. ~EmptyArray(t, n) => recs[k].val = t[n].val
    BY <1>5, <1>10, <2>1 DEF Text
  <2> QED
    BY <2>3, <2>4
<1> QED
  BY <1>7, <1>8, <1>9, <1>10 DEF S

-----------------------------------------------------------------------------
LEMMA InitInv == Init => IInv
<1> SUFFICES ASSUME Init PROVE IInv
  OBVIOUS
<1>1. Created = {}
  BY DEF Init, Created
<1>2. TypeOK
  <2>1. disk \in Seq(Record)
    BY EmptySeq DEF Init
  <2>2. gmap \in [Names -> Entry \cup {Absent}]
    BY DEF Init
  <2> QED
    BY <2>1, <2>2 DEF Init, TypeOK
<1>3. DOMAIN disk = {}
  BY DEF Init
<1> QED
  BY <1>1, <1>2, <1>3 DEF IInv, NumHasOneItem, LenCoherent, RawNotSaved, CleanIsSaved

(* The handlers that replace one entry: the new one is dirty, so nothing is   *)
(* asked of the file.                                                         *)
LEMMA UpdateInv ==
  ASSUME IInv, NEW n \in Created, NEW e \in Entry, Update(n, e), status = "up",
         e.dirty, e.flags = gmap[n].flags, e.raw = gmap[n].raw,
         TypeOf[n] = "NUM" => e.val \in [1..1 -> Data],
         TypeOf[n] = "ARR" => e.len = Len(e.val)
  PROVE  IInv'
<1>1. /\ n \in Names /\ n \in DOMAIN gmap /\ e # Absent
      /\ gmap' = [gmap EXCEPT ![n] = e]
      /\ UNCHANGED <<disk, exists, status, issued>>
      /\ written' = written \cup {n}
  BY AbsentAssumption DEF Update, Created, IInv, TypeOK
<1>2. gmap'[n] = e /\ \A m \in Names \ {n} : gmap'[m] = gmap[m]
  BY <1>1 DEF IInv, TypeOK
<1>3. Created' = Created
  BY <1>1, <1>2 DEF Created
<1>4. TypeOK'
  BY <1>1 DEF IInv, TypeOK
<1>5. NumHasOneItem'
  BY <1>1, <1>2, <1>3 DEF IInv, NumHasOneItem, Created
<1>6. LenCoherent'
  BY <1>1, <1>2, <1>3 DEF IInv, LenCoherent, Created
<1>7. RawNotSaved'
  BY <1>1, <1>2, <1>3 DEF IInv, RawNotSaved, Created
<1>8. CleanIsSaved'
  <2> SUFFICES ASSUME NEW m \in Created \cap written', ~gmap'[m].dirty,
                      "SAVE" \in gmap'[m].flags, ~EmptyArray(gmap', m)
               PROVE  Saved(disk', m) /\ LastVal(disk', m) = gmap'[m].val
    BY <1>3 DEF CleanIsSaved
  <2>1. m # n
    BY <1>2
  <2>2. m \in Names /\ m \in written /\ gmap'[m] = gmap[m]
    BY <1>1, <1>2, <2>1 DEF Created
  <2> QED
    BY <1>1, <2>2 DEF IInv, CleanIsSaved, EmptyArray
<1> QED
  BY <1>4, <1>5, <1>6, <1>7, <1>8 DEF IInv

(* The end of the process, whatever well-formed file it leaves.               *)
LEMMA EndInv ==
  ASSUME IInv, NEW s \in {"down", "ub", "cut"}, Ended(s),
         disk' \in Seq(Record), NumRecords(disk'), exists' \in BOOLEAN
  PROVE  IInv'
<1>1. Created' = {} /\ gmap' \in [Names -> Entry \cup {Absent}]
  BY DEF Ended, Created
<1>2. TypeOK'
  BY <1>1 DEF Ended, IInv, TypeOK
<1>3. NumHasOneItem'
  BY <1>1 DEF NumHasOneItem, NumRecords
<1> QED
  BY <1>1, <1>2, <1>3 DEF IInv, LenCoherent, RawNotSaved, CleanIsSaved

\* The length an entry is given is one.
LEMMA LenIsLen ==
  ASSUME NEW y, NEW v \in Values
  PROVE  LenOf(y, v) \in 0..MaxLen /\ (y = "ARR" => LenOf(y, v) = Len(v))
BY ValueIsSeq, ConstantsAssumption DEF LenOf

LEMMA CreateInv ==
  ASSUME IInv, NEW n \in Names, NEW v \in Values, NEW F \in SUBSET {"SAVE"},
         NEW d \in BOOLEAN, NEW h \in Handles, VarCreate(n, v, F, d, h)
  PROVE  IInv'
<1> DEFINE e == [hndl |-> h, flags |-> F, dirty |-> d, len |-> LenOf(TypeOf[n], v), val |-> v, raw |-> FALSE]
<1>1. e \in Entry
  BY ValueIsSeq, LenIsLen DEF Entry
<1>2. /\ gmap' = [gmap EXCEPT ![n] = e]
      /\ UNCHANGED <<disk, exists, status>>
      /\ issued' = issued \cup {h}
      /\ written' = written \ {n}
      /\ TypeOf[n] = "NUM" => v \in [1..1 -> Data]
  BY DEF VarCreate, ValuesOf
<1>3. (TypeOf[n] = "ARR" => e.len = Len(v)) /\ e.val = v /\ ~e.raw
  BY LenIsLen
<1> HIDE DEF e
<1>4. gmap'[n] = e /\ (\A m \in Names \ {n} : gmap'[m] = gmap[m])
      /\ gmap' \in [Names -> Entry \cup {Absent}]
  BY <1>1, <1>2 DEF IInv, TypeOK
<1>5. TypeOK'
  BY <1>2, <1>4 DEF IInv, TypeOK
<1>6. \A m \in Created' : m = n \/ (m \in Created /\ gmap'[m] = gmap[m])
  BY <1>4 DEF Created
<1>7. NumHasOneItem'
  BY <1>2, <1>3, <1>4, <1>6 DEF IInv, NumHasOneItem
<1>8. LenCoherent'
  BY <1>3, <1>4, <1>6 DEF IInv, LenCoherent
<1>9. CleanIsSaved'
  BY <1>2, <1>6 DEF IInv, CleanIsSaved, EmptyArray
<1>10. RawNotSaved'
  BY <1>3, <1>4, <1>6 DEF IInv, RawNotSaved
<1> QED
  BY <1>5, <1>7, <1>8, <1>9, <1>10 DEF IInv

(* An item handler gives the array w to entry e: what Stored and Resized make *)
(* of it is an entry again.                                                   *)
LEMMA StoredEntry ==
  ASSUME NEW e \in Entry, NEW w \in Values
  PROVE  /\ Stored(e, w) \in Entry
         /\ Stored(e, w).dirty /\ Stored(e, w).val = w /\ Stored(e, w).len = e.len
         /\ Stored(e, w).flags = e.flags /\ Stored(e, w).raw = e.raw
         /\ Resized(e, w) \in Entry
         /\ Resized(e, w).dirty /\ Resized(e, w).val = w /\ Resized(e, w).len = Len(w)
         /\ Resized(e, w).flags = e.flags /\ Resized(e, w).raw = e.raw
BY ValueIsSeq DEF Stored, Resized, Entry

LEMMA EntryOf ==
  ASSUME IInv, NEW n \in Created
  PROVE  /\ n \in Names /\ gmap[n] \in Entry
         /\ gmap[n].val \in Values /\ gmap[n].len \in 0..MaxLen
<1>1. n \in Names /\ gmap[n] \in Entry
  BY DEF Created, IInv, TypeOK
<1>2. gmap[n].val \in Values /\ gmap[n].len \in 0..MaxLen
  BY <1>1 DEF Entry
<1> QED
  BY <1>1, <1>2

\* What var_set leaves in a number or an array has the size of the entry.
LEMMA SetSizes ==
  ASSUME IInv, NEW n \in Created, TypeOf[n] # "STR", NEW v, NEW w \in SetValues(gmap[n], TypeOf[n], v)
  PROVE  SetSize(gmap[n], TypeOf[n]) \in 0..MaxLen /\ w \in [1..SetSize(gmap[n], TypeOf[n]) -> Data]
<1>1. SetSize(gmap[n], TypeOf[n]) \in 0..MaxLen
  BY EntryOf, ConstantsAssumption DEF SetSize
<1> QED
  BY <1>1 DEF SetValues

LEMMA SetValue ==
  ASSUME IInv, NEW n \in Created, NEW v \in Values, NEW w \in SetValues(gmap[n], TypeOf[n], v)
  PROVE  w \in Values
<1>1. CASE TypeOf[n] = "STR"
  BY <1>1 DEF SetValues
<1>2. CASE TypeOf[n] # "STR"
  BY <1>2, SetSizes, SeqIsValue
<1> QED
  BY <1>1, <1>2

LEMMA SetInv ==
  ASSUME IInv, NEW h, NEW v \in Values, VarSet(h, v)
  PROVE  IInv'
<1>1. PICK n \in Created : \E w \in SetValues(gmap[n], TypeOf[n], v) : Update(n, Stored(gmap[n], w))
  BY DEF VarSet, At
<1>2. PICK w \in SetValues(gmap[n], TypeOf[n], v) : Update(n, Stored(gmap[n], w))
  BY <1>1
<1>3. w \in Values
  BY SetValue
<1>4. /\ TypeOf[n] = "NUM" => w \in [1..1 -> Data]
      /\ TypeOf[n] = "ARR" => Len(w) = gmap[n].len
  <2>1. CASE TypeOf[n] = "STR"
    BY <2>1
  <2>2. CASE TypeOf[n] # "STR"
    BY <2>2, SetValue, SeqIsValue, SetSizes DEF SetSize
  <2> QED
    BY <2>1, <2>2
<1> DEFINE e == Stored(gmap[n], w)
<1>5. /\ e \in Entry /\ e.dirty /\ e.val = w /\ e.len = gmap[n].len
      /\ e.flags = gmap[n].flags /\ e.raw = gmap[n].raw
  BY <1>3, EntryOf, StoredEntry
<1>6. TypeOf[n] = "ARR" => e.len = Len(e.val)
  BY <1>4, <1>5
<1>7. Update(n, e) /\ status = "up"
  BY <1>1, <1>2 DEF VarSet
<1> HIDE DEF e
<1> QED
  BY <1>4, <1>5, <1>6, <1>7, UpdateInv

(* The handlers on an array that change its size to that of w.                *)
LEMMA ResizeInv ==
  ASSUME IInv, status = "up", NEW h, NEW n \in Names, ArrayAt(h, n),
         NEW k \in 0..MaxLen, NEW w \in [1..k -> Data],
         Update(n, Resized(gmap[n], w))
  PROVE  IInv'
<1>1. n \in Created /\ TypeOf[n] = "ARR"
  BY DEF ArrayAt, At
<1>2. w \in Values
  BY SeqIsValue
<1> DEFINE e == Resized(gmap[n], w)
<1>3. /\ e \in Entry /\ e.dirty /\ e.val = w /\ e.len = Len(w)
      /\ e.flags = gmap[n].flags /\ e.raw = gmap[n].raw
  BY <1>1, <1>2, EntryOf, StoredEntry
<1>4. Update(n, e)
  OBVIOUS
<1> HIDE DEF e
<1> QED
  BY <1>1, <1>3, <1>4, UpdateInv

(* What the item handlers make of an array is a value again.                  *)
LEMMA ItemAppended ==
  ASSUME NEW s \in Values, NEW x \in Data, Len(s) < MaxLen
  PROVE  Append(s, x) \in [1..Len(s) + 1 -> Data] /\ Len(s) + 1 \in 0..MaxLen
<1>1. s \in Seq(Data) /\ Len(s) \in Nat
  BY ValueIsSeq, ConstantsAssumption
<1>2. Append(s, x) \in Seq(Data) /\ Len(Append(s, x)) = Len(s) + 1
  BY <1>1, AppendProperties
<1>3. Append(s, x) \in [1..Len(s) + 1 -> Data]
  BY <1>2, LenProperties
<1> QED
  BY <1>1, <1>3, ConstantsAssumption

LEMMA ItemReplaced ==
  ASSUME NEW s \in Values, NEW i \in DOMAIN s, NEW x \in Data
  PROVE  [s EXCEPT ![i] = x] \in Values /\ Len([s EXCEPT ![i] = x]) = Len(s)
<1>1. s \in [1..Len(s) -> Data] /\ Len(s) \in 0..MaxLen
  BY ValueIsSeq
<1>2. [s EXCEPT ![i] = x] \in [1..Len(s) -> Data]
  BY <1>1
<1> QED
  BY <1>1, <1>2, SeqIsValue

LEMMA ItemInserted ==
  ASSUME NEW s \in Values, NEW i \in 1..Len(s) + 1, NEW x \in Data, Len(s) < MaxLen
  PROVE  Inserted(s, i, x) \in [1..Len(s) + 1 -> Data] /\ Len(s) + 1 \in 0..MaxLen
<1>1. s \in [1..Len(s) -> Data] /\ Len(s) \in Nat
  BY ValueIsSeq, ConstantsAssumption
<1>2. \A k \in 1..Len(s) + 1 : (k < i => k \in 1..Len(s)) /\ (k > i => k - 1 \in 1..Len(s))
  BY <1>1
<1>3. \A k \in 1..Len(s) + 1 :
        (IF k < i THEN s[k] ELSE IF k = i THEN x ELSE s[k - 1]) \in Data
  BY <1>1, <1>2
<1> QED
  BY <1>1, <1>3, ConstantsAssumption DEF Inserted

LEMMA ItemDeleted ==
  ASSUME NEW s \in Values, NEW i \in DOMAIN s
  PROVE  Deleted(s, i) \in [1..Len(s) - 1 -> Data] /\ Len(s) - 1 \in 0..MaxLen
<1>1. s \in [1..Len(s) -> Data] /\ Len(s) \in 0..MaxLen /\ i \in 1..Len(s)
  BY ValueIsSeq
<1>2. Len(s) \in Nat /\ Len(s) - 1 \in 0..MaxLen
  BY <1>1, ConstantsAssumption
<1>3. \A k \in 1..Len(s) - 1 : (IF k < i THEN s[k] ELSE s[k + 1]) \in Data
  BY <1>1, <1>2
<1> QED
  BY <1>2, <1>3 DEF Deleted

LEMMA AddItemInv ==
  ASSUME IInv, NEW h, NEW x \in Data, VarAddItem(h, x)
  PROVE  IInv'
<1>1. PICK n \in Names : /\ ArrayAt(h, n) /\ Len(gmap[n].val) < MaxLen
                         /\ Update(n, Resized(gmap[n], Append(gmap[n].val, x)))
  BY DEF VarAddItem
<1>2. gmap[n].val \in Values
  BY <1>1, EntryOf DEF ArrayAt, At
<1> QED
  BY <1>1, <1>2, ItemAppended, ResizeInv DEF VarAddItem

LEMMA SetItemInv ==
  ASSUME IInv, NEW h, NEW i, NEW x \in Data, VarSetItem(h, i, x)
  PROVE  IInv'
<1> DEFINE w(n) == [gmap[n].val EXCEPT ![i] = x]
<1>1. PICK n \in Names : /\ ArrayAt(h, n) /\ i \in DOMAIN gmap[n].val
                         /\ Update(n, Stored(gmap[n], w(n)))
  BY DEF VarSetItem
<1>2. n \in Created /\ TypeOf[n] = "ARR"
  BY <1>1 DEF ArrayAt, At
<1>3. w(n) \in Values /\ Len(w(n)) = Len(gmap[n].val)
  BY <1>1, <1>2, EntryOf, ItemReplaced
<1>4. Len(gmap[n].val) = gmap[n].len
  BY <1>2 DEF IInv, LenCoherent
<1>5. gmap[n] \in Entry /\ Update(n, Stored(gmap[n], w(n))) /\ status = "up"
  BY <1>1, <1>2, EntryOf DEF VarSetItem
<1> HIDE DEF w
<1>6. /\ Stored(gmap[n], w(n)) \in Entry /\ Stored(gmap[n], w(n)).dirty
      /\ Stored(gmap[n], w(n)).len = Len(Stored(gmap[n], w(n)).val)
      /\ Stored(gmap[n], w(n)).flags = gmap[n].flags /\ Stored(gmap[n], w(n)).raw = gmap[n].raw
  BY <1>3, <1>4, <1>5, StoredEntry
<1> QED
  BY <1>2, <1>5, <1>6, UpdateInv

LEMMA InsItemInv ==
  ASSUME IInv, NEW h, NEW i, NEW x \in Data, VarInsItem(h, i, x)
  PROVE  IInv'
<1>1. PICK n \in Names : /\ ArrayAt(h, n) /\ Len(gmap[n].val) < MaxLen
                         /\ i \in 1..Len(gmap[n].val) + 1
                         /\ Update(n, Resized(gmap[n], Inserted(gmap[n].val, i, x)))
  BY DEF VarInsItem
<1>2. gmap[n].val \in Values
  BY <1>1, EntryOf DEF ArrayAt, At
<1> QED
  BY <1>1, <1>2, ItemInserted, ResizeInv DEF VarInsItem

LEMMA DelItemInv ==
  ASSUME IInv, NEW h, NEW i, VarDelItem(h, i)
  PROVE  IInv'
<1>1. PICK n \in Names : /\ ArrayAt(h, n) /\ i \in DOMAIN gmap[n].val
                         /\ Update(n, Resized(gmap[n], Deleted(gmap[n].val, i)))
  BY DEF VarDelItem
<1>2. gmap[n].val \in Values
  BY <1>1, EntryOf DEF ArrayAt, At
<1> QED
  BY <1>1, <1>2, ItemDeleted, ResizeInv DEF VarDelItem

LEMMA TrackInv ==
  ASSUME IInv, NEW n \in Names, NEW on \in BOOLEAN, VarTrack(n, on)
  PROVE  IInv'
<1> DEFINE e == gmap'[n]
<1>1. n \in Created /\ gmap[n] \in Entry
  BY EntryOf DEF VarTrack
<1>2. /\ gmap' = [gmap EXCEPT ![n] = e]
      /\ e \in Entry /\ e.val = gmap[n].val /\ e.len = gmap[n].len
      /\ e.dirty = gmap[n].dirty /\ e.raw = gmap[n].raw
      /\ "SAVE" \in e.flags <=> "SAVE" \in gmap[n].flags
  BY <1>1 DEF VarTrack, Entry, IInv, TypeOK
<1>3. UNCHANGED <<disk, exists, status, issued, written>>
  BY DEF VarTrack
<1>4. \A m \in Names : m # n => gmap'[m] = gmap[m]
  BY <1>2 DEF IInv, TypeOK
<1>5. Created' = Created
  BY <1>1, <1>2, <1>4, AbsentAssumption DEF Created
<1>6. TypeOK'
  BY <1>2, <1>3 DEF IInv, TypeOK
<1>7. NumHasOneItem'
  BY <1>2, <1>3, <1>4, <1>5 DEF IInv, NumHasOneItem, Created
<1>8. LenCoherent'
  BY <1>2, <1>4, <1>5 DEF IInv, LenCoherent, Created
<1>9. CleanIsSaved'
  BY <1>2, <1>3, <1>4, <1>5 DEF IInv, CleanIsSaved, Created, EmptyArray
<1>10. RawNotSaved'
  BY <1>2, <1>4, <1>5 DEF IInv, RawNotSaved, Created
<1> QED
  BY <1>6, <1>7, <1>8, <1>9, <1>10 DEF IInv

-----------------------------------------------------------------------------
(* The pass of var_save over table t.                                         *)
LEMMA CleanedFacts ==
  ASSUME NEW t \in Tables
  PROVE  /\ Cleaned(t, ToSave(t)) \in Tables
         /\ \A n \in Names : LET c == Cleaned(t, ToSave(t))[n] IN
              /\ c = Absent <=> t[n] = Absent
              /\ t[n] # Absent => /\ c.val = t[n].val /\ c.len = t[n].len
                                  /\ c.flags = t[n].flags /\ c.hndl = t[n].hndl
                                  /\ c.raw = t[n].raw
                                  /\ c.dirty => t[n].dirty /\ n \notin ToSave(t)
                                  /\ ~c.dirty => n \in ToSave(t) \/ ~t[n].dirty
<1> DEFINE S == ToSave(t)
           C == Cleaned(t, S)
<1>1. \A n \in S : n \in Names /\ t[n] \in Entry
  BY DEF ToSave, Tables
<1> HIDE DEF S
<1>2. ASSUME NEW n \in Names
      PROVE  /\ C[n] \in Entry \cup {Absent}
             /\ C[n] = Absent <=> t[n] = Absent
             /\ t[n] # Absent => /\ C[n].val = t[n].val /\ C[n].len = t[n].len
                                 /\ C[n].flags = t[n].flags /\ C[n].hndl = t[n].hndl
                                 /\ C[n].raw = t[n].raw
                                 /\ C[n].dirty => t[n].dirty /\ n \notin S
                                 /\ ~C[n].dirty => n \in S \/ ~t[n].dirty
  <2>1. CASE n \in S
    <3>1. t[n] \in Entry /\ t[n] # Absent
      BY <1>1, <2>1, AbsentAssumption
    <3>2. C[n] = [t[n] EXCEPT !.dirty = FALSE]
      BY <2>1 DEF Cleaned
    <3>3. C[n] \in Entry /\ C[n] # Absent
      BY <3>1, <3>2, AbsentAssumption DEF Entry
    <3> QED
      BY <2>1, <3>1, <3>2, <3>3 DEF Entry
  <2>2. CASE n \notin S
    BY <2>2 DEF Cleaned, Tables
  <2> QED
    BY <2>1, <2>2
<1>3. C \in [Names -> Entry \cup {Absent}]
  BY <1>2 DEF Cleaned
<1> QED
  BY <1>2, <1>3 DEF S, Tables

(* The records of a pass hold the value of every entry it saves, and leave    *)
(* the last record of every other name the last.                              *)
LEMMA PassSaves ==
  ASSUME NEW t \in Tables, NumEntries(t),
         NEW d \in Seq(Record), NEW recs \in PassRecords(t),
         NEW n \in Names, ~EmptyArray(t, n),
         n \notin ToSave(t) => Saved(d, n) /\ LastVal(d, n) = t[n].val
  PROVE  Saved(d \o recs, n) /\ LastVal(d \o recs, n) = t[n].val
<1> DEFINE c == d \o recs
<1>1. recs \in Seq(Record) /\ \A i \in DOMAIN recs : recs[i].name \in ToSave(t)
  BY PassFacts
<1>2. c \in Seq(Record)
  BY <1>1, Appended
<1>3. CASE n \in ToSave(t)
  <2>1. PICK i : IsLast(recs, n, i) /\ recs[i].val = t[n].val
    BY <1>3, PassFacts
  <2>2. IsLast(c, n, Len(d) + i) /\ c[Len(d) + i] = recs[i]
    BY <1>1, <2>1, LastOfTail
  <2> HIDE DEF c
  <2>3. Saved(c, n) /\ LastVal(c, n) = c[Len(d) + i].val
    BY <1>2, <2>2, LastValIs
  <2> QED
    BY <2>1, <2>2, <2>3 DEF c
<1>4. CASE n \notin ToSave(t)
  <2>1. PICK i : IsLast(d, n, i)
    BY <1>4 DEF Saved
  <2>2. d[i].val = t[n].val
    BY <1>4, <2>1, LastValIs
  <2>3. \A j \in DOMAIN recs : recs[j].name # n
    BY <1>1, <1>4
  <2>4. IsLast(c, n, i) /\ c[i] = d[i]
    BY <1>1, <2>1, <2>3, LastOfHead
  <2> HIDE DEF c
  <2>5. Saved(c, n) /\ LastVal(c, n) = c[i].val
    BY <1>2, <2>4, LastValIs
  <2> QED
    BY <2>2, <2>4, <2>5 DEF c
<1> QED
  BY <1>3, <1>4

(* After a pass over t, whose records recs end the file d, an entry is clean  *)
(* only if it is saved, or was clean before and has no record in the pass.    *)
LEMMA PassInv ==
  ASSUME NEW t \in Tables, NumEntries(t),
         NEW d \in Seq(Record), NEW recs \in PassRecords(t), NEW W \in SUBSET Names,
         NumRecords(d),
         \A n \in Names : t[n] # Absent /\ TypeOf[n] = "ARR" => t[n].len = Len(t[n].val),
         \A n \in Names : t[n] # Absent /\ t[n].raw => "SAVE" \notin t[n].flags,
         \A n \in W : /\ t[n] # Absent /\ ~t[n].dirty /\ "SAVE" \in t[n].flags
                      /\ ~EmptyArray(t, n)
                      => Saved(d, n) /\ LastVal(d, n) = t[n].val,
         gmap' = Cleaned(t, ToSave(t)), disk' = d \o recs, written' = W,
         exists' \in BOOLEAN, status' \in {"up", "down", "ub", "cut"}, issued' \subseteq Handles
  PROVE  IInv'
<1>1. /\ recs \in Seq(Record) /\ NumRecords(recs)
      /\ \A i \in DOMAIN recs : recs[i].name \in ToSave(t)
  BY PassFacts
<1>2. disk' \in Seq(Record)
  BY <1>1, Appended
<1>3. TypeOK'
  BY <1>2, CleanedFacts DEF TypeOK, Tables
<1>4. \A n \in Names : /\ n \in Created' <=> t[n] # Absent
                       /\ n \in Created' => /\ gmap'[n].val = t[n].val /\ gmap'[n].len = t[n].len
                                            /\ gmap'[n].raw = t[n].raw
                                            /\ gmap'[n].flags = t[n].flags
  BY CleanedFacts DEF Created
<1>5. NumHasOneItem'
  <2>1. NumRecords(disk')
    BY <1>1, NumAppended
  <2>2. \A n \in Created' : TypeOf[n] = "NUM" => gmap'[n].val \in [1..1 -> Data]
    BY <1>4 DEF NumEntries, Created
  <2> QED
    BY <2>1, <2>2 DEF NumHasOneItem, NumRecords
<1>6. LenCoherent' /\ RawNotSaved'
  BY <1>4 DEF LenCoherent, RawNotSaved, Created
<1>7. CleanIsSaved'
  <2> SUFFICES ASSUME NEW n \in Created' \cap W, ~gmap'[n].dirty,
                      "SAVE" \in gmap'[n].flags, ~EmptyArray(gmap', n)
               PROVE  Saved(disk', n) /\ LastVal(disk', n) = gmap'[n].val
    BY DEF CleanIsSaved
  <2>1. /\ n \in Names /\ t[n] # Absent /\ gmap'[n].val = t[n].val
        /\ gmap'[n].flags = t[n].flags
        /\ n \in ToSave(t) \/ ~t[n].dirty
    BY <1>4, CleanedFacts
  <2>2. ~EmptyArray(t, n)
    BY <2>1 DEF EmptyArray
  <2>3. n \notin ToSave(t) => Saved(d, n) /\ LastVal(d, n) = t[n].val
    BY <2>1, <2>2
  <2>4. Saved(d \o recs, n) /\ LastVal(d \o recs, n) = t[n].val
    BY <2>1, <2>2, <2>3, PassSaves
  <2> QED
    BY <2>1, <2>4
<1> QED
  BY <1>3, <1>5, <1>6, <1>7 DEF IInv

LEMMA TableFacts ==
  ASSUME IInv
  PROVE  /\ gmap \in Tables /\ NumEntries(gmap)
         /\ disk \in Seq(Record) /\ NumRecords(disk)
BY DEF IInv, TypeOK, Tables, NumEntries, NumRecords, NumHasOneItem, Created

LEMMA SaveInv ==
  ASSUME IInv, VarSave
  PROVE  IInv'
<1>1. PICK recs \in PassRecords(gmap) : disk' = disk \o recs
  BY DEF VarSave
<1>2. /\ gmap' = Cleaned(gmap, ToSave(gmap)) /\ exists' \in BOOLEAN
      /\ UNCHANGED <<status, issued, written>>
  BY DEF VarSave
<1>3. \A n \in Names : gmap[n] # Absent /\ TypeOf[n] = "ARR" => gmap[n].len = Len(gmap[n].val)
  BY DEF IInv, LenCoherent, Created
<1>4. written \in SUBSET Names
  BY DEF IInv, TypeOK
<1>5. \A n \in written : /\ gmap[n] # Absent /\ ~gmap[n].dirty /\ "SAVE" \in gmap[n].flags
                         /\ ~EmptyArray(gmap, n)
                         => Saved(disk, n) /\ LastVal(disk, n) = gmap[n].val
  BY <1>4 DEF IInv, CleanIsSaved, Created
<1>6. status' \in {"up", "down", "ub", "cut"} /\ issued' \subseteq Handles /\ written' = written
  BY <1>2 DEF IInv, TypeOK
<1>7. \A n \in Names : gmap[n] # Absent /\ gmap[n].raw => "SAVE" \notin gmap[n].flags
  BY DEF IInv, RawNotSaved, Created
<1> QED
  BY <1>1, <1>2, <1>3, <1>4, <1>5, <1>6, <1>7, TableFacts, PassInv

(* The table as var_restore leaves it before it saves again.                  *)
LEMMA RestoredFacts ==
  ASSUME IInv
  PROVE  LET t == Restored(gmap, disk) IN
         /\ t \in Tables /\ NumEntries(t)
         /\ \A n \in Names : gmap[n] # Absent =>
              t[n] # Absent /\ t[n].hndl = gmap[n].hndl /\ t[n].flags = gmap[n].flags
         /\ \A n \in Names : /\ t[n] # Absent /\ TypeOf[n] = "ARR" => t[n].len = Len(t[n].val)
                             /\ t[n] # Absent /\ ~t[n].dirty => t[n] = gmap[n] /\ ~Saved(disk, n)
<1> DEFINE t == Restored(gmap, disk)
<1>1. ASSUME NEW n \in Names, gmap[n] # Absent, Saved(disk, n)
      PROVE  /\ t[n] \in Entry /\ t[n].dirty /\ t[n] # Absent
             /\ t[n].hndl = gmap[n].hndl /\ t[n].flags = gmap[n].flags
             /\ TypeOf[n] = "ARR" => t[n].len = Len(t[n].val)
             /\ TypeOf[n] = "NUM" => t[n].val \in [1..1 -> Data]
  <2> DEFINE v == LastVal(disk, n)
  <2>1. v \in Values /\ (TypeOf[n] = "NUM" => v \in [1..1 -> Data])
    <3>1. disk \in Seq(Record) /\ NumRecords(disk)
      BY TableFacts
    <3>2. PICK i \in DOMAIN disk : disk[i].name = n /\ v = disk[i].val /\ disk[i] \in Record
      BY <1>1, <3>1, LastValType
    <3> QED
      BY <3>1, <3>2 DEF Record, NumRecords
  <2>2. n \in Created /\ gmap[n] \in Entry
    BY <1>1, EntryOf DEF Created
  <2>3. LenOf(TypeOf[n], v) \in 0..MaxLen /\ (TypeOf[n] = "ARR" => LenOf(TypeOf[n], v) = Len(v))
    BY <2>1, LenIsLen
  <2>4. t[n] = RestoredEntry(gmap[n], TypeOf[n], v)
    BY <1>1 DEF Restored
  <2> HIDE DEF v, t
  <2>5. (TypeOf[n] = "ARR") \in BOOLEAN
    OBVIOUS
  <2>6. /\ t[n] \in Entry /\ t[n].dirty = TRUE /\ t[n].val = v
        /\ t[n].hndl = gmap[n].hndl /\ t[n].flags = gmap[n].flags
        /\ t[n].len = LenOf(TypeOf[n], v)
    BY <2>1, <2>2, <2>3, <2>4, <2>5 DEF RestoredEntry, Entry
  <2> QED
    BY <2>1, <2>2, <2>3, <2>6, AbsentAssumption
<1>2. ASSUME NEW n \in Names, gmap[n] = Absent \/ ~Saved(disk, n)
      PROVE  t[n] = gmap[n]
  BY <1>2 DEF Restored
<1>3. t \in Tables
  BY <1>1, <1>2, TableFacts DEF Tables, Restored
<1>4. \A n \in Names : t[n] # Absent => gmap[n] # Absent
  BY <1>2
<1> HIDE DEF t
<1>5. NumEntries(t)
  BY <1>1, <1>2, <1>4, TableFacts DEF NumEntries
<1>6. \A n \in Names : t[n] # Absent /\ TypeOf[n] = "ARR" => t[n].len = Len(t[n].val)
  BY <1>1, <1>2, <1>4 DEF IInv, LenCoherent, Created
<1>7. \A n \in Names : t[n] # Absent /\ ~t[n].dirty => t[n] = gmap[n] /\ ~Saved(disk, n)
  BY <1>1, <1>2, <1>4
<1>8. \A n \in Names : gmap[n] # Absent =>
        t[n] # Absent /\ t[n].hndl = gmap[n].hndl /\ t[n].flags = gmap[n].flags
  BY <1>1, <1>2
<1> QED
  BY <1>3, <1>5, <1>6, <1>7, <1>8 DEF t

LEMMA RestoreInv ==
  ASSUME IInv, VarRestore
  PROVE  IInv'
<1> DEFINE t == Restored(gmap, disk)
           W == written \cup {n \in Created : Saved(disk, n)}
<1>1. /\ disk' \in PassRecords(t) /\ gmap' = Cleaned(t, ToSave(t)) /\ written' = W
      /\ UNCHANGED <<exists, status, issued>> /\ ~RawToSave(t)
  BY DEF VarRestore
<1>2. <<>> \in Seq(Record) /\ NumRecords(<<>>) /\ \A n \in Names : ~Saved(<<>>, n)
  BY EmptySeq DEF NumRecords, Saved
<1>3. t \in Tables /\ NumEntries(t)
  BY RestoredFacts
<1>4. disk' = <<>> \o disk'
  BY <1>1, <1>3, PassFacts, ConcatEmptySeq
<1>5. W \in SUBSET Names
  BY DEF IInv, TypeOK, Created
<1>6. ASSUME NEW n \in W, t[n] # Absent, ~t[n].dirty, "SAVE" \in t[n].flags, ~EmptyArray(t, n)
      PROVE  FALSE
  <2>1. n \in Names /\ t[n] = gmap[n] /\ ~Saved(disk, n)
    BY <1>5, <1>6, RestoredFacts
  <2>2. n \in written /\ n \in Created /\ ~EmptyArray(gmap, n)
    BY <1>6, <2>1 DEF EmptyArray, Created
  <2> QED
    BY <1>6, <2>1, <2>2 DEF IInv, CleanIsSaved
<1>7. \A n \in Names : t[n] # Absent /\ TypeOf[n] = "ARR" => t[n].len = Len(t[n].val)
  BY RestoredFacts
<1>8. exists' \in BOOLEAN /\ status' \in {"up", "down", "ub", "cut"} /\ issued' \subseteq Handles
  BY <1>1 DEF IInv, TypeOK
<1>9. ASSUME NEW n \in Names, t[n] # Absent, t[n].raw, "SAVE" \in t[n].flags
      PROVE  FALSE
  <2>1. CASE t[n].dirty
    BY <1>1, <1>9, <2>1 DEF RawToSave, ToSave
  <2>2. CASE ~t[n].dirty
    BY <1>9, <2>2, RestoredFacts DEF IInv, RawNotSaved, Created
  <2> QED
    BY <2>1, <2>2
<1> HIDE DEF t, W
<1> QED
  BY <1>1, <1>2, <1>3, <1>4, <1>5, <1>6, <1>7, <1>8, <1>9, PassInv

(* The ways the process ends, and what it leaves in the file.                 *)
LEMMA StopInv ==
  ASSUME IInv,
         Undefined \/ VarRestoreAborts \/ VarRestoreUndefined \/ Shutdown \/ Crash \/ CrashInRestore
  PROVE  IInv'
<1>1. /\ disk \in Seq(Record) /\ NumRecords(disk) /\ exists \in BOOLEAN
      /\ gmap \in Tables /\ NumEntries(gmap)
  BY TableFacts DEF IInv, TypeOK
<1>2. CASE Undefined \/ VarRestoreAborts
  BY <1>1, <1>2, EndInv DEF Undefined, VarRestoreAborts
<1>3. CASE VarRestoreUndefined
  <2>1. Ended("cut") /\ disk' = <<>> /\ exists' = exists
    BY <1>3 DEF VarRestoreUndefined
  <2>2. <<>> \in Seq(Record) /\ NumRecords(<<>>)
    BY EmptySeq DEF NumRecords
  <2> QED
    BY <1>1, <2>1, <2>2, EndInv
<1>4. CASE Shutdown
  <2>1. PICK recs \in PassRecords(gmap) : disk' = disk \o recs
    BY <1>4 DEF Shutdown
  <2>2. recs \in Seq(Record) /\ NumRecords(recs)
    BY <1>1, PassFacts
  <2>3. disk' \in Seq(Record) /\ NumRecords(disk')
    BY <1>1, <2>1, <2>2, Appended, NumAppended
  <2>4. Ended("down") /\ exists' = TRUE
    BY <1>4 DEF Shutdown
  <2> QED
    BY <2>3, <2>4, EndInv
<1>5. CASE Crash
  <2>1. CASE UNCHANGED <<disk, exists>>
    BY <1>1, <1>5, <2>1, EndInv DEF Crash
  <2>2. CASE ~UNCHANGED <<disk, exists>>
    <3>1. PICK recs \in PassRecords(gmap) : \E k \in 0..Len(recs) : disk' = disk \o SubSeq(recs, 1, k)
      BY <1>5, <2>2 DEF Crash, Reached
    <3> PICK k \in 0..Len(recs) : disk' = disk \o SubSeq(recs, 1, k)
      BY <3>1
    <3>2. recs \in Seq(Record) /\ NumRecords(recs)
      BY <1>1, PassFacts
    <3>3. SubSeq(recs, 1, k) \in Seq(Record) /\ NumRecords(SubSeq(recs, 1, k))
      BY <3>2, NumPrefix
    <3>4. disk' \in Seq(Record) /\ NumRecords(disk')
      BY <1>1, <3>1, <3>3, Appended, NumAppended
    <3>5. Ended("down") /\ exists' = TRUE
      BY <1>5, <2>2 DEF Crash
    <3> QED
      BY <3>4, <3>5, EndInv
  <2> QED
    BY <2>1, <2>2
<1>6. CASE CrashInRestore
  <2> DEFINE t == Restored(gmap, disk)
  <2>1. PICK recs \in PassRecords(t) : \E k \in 0..Len(recs) : disk' = SubSeq(recs, 1, k)
    BY <1>6 DEF CrashInRestore
  <2> PICK k \in 0..Len(recs) : disk' = SubSeq(recs, 1, k)
    BY <2>1
  <2>2. t \in Tables /\ NumEntries(t)
    BY RestoredFacts
  <2> HIDE DEF t
  <2>3. recs \in Seq(Record) /\ NumRecords(recs)
    BY <2>1, <2>2, PassFacts
  <2>4. disk' \in Seq(Record) /\ NumRecords(disk')
    BY <2>1, <2>3, NumPrefix
  <2>5. Ended("cut") /\ exists' = exists
    BY <1>6 DEF CrashInRestore
  <2> QED
    BY <1>1, <2>4, <2>5, EndInv
<1> QED
  BY <1>2, <1>3, <1>4, <1>5, <1>6

LEMMA StartInv ==
  ASSUME IInv, Start
  PROVE  IInv'
<1>1. UNCHANGED <<gmap, disk, exists, issued, written>> /\ status' = "up"
  BY DEF Start
<1>2. Created' = Created
  BY <1>1 DEF Created
<1> QED
  BY <1>1, <1>2 DEF IInv, TypeOK, NumHasOneItem, LenCoherent, RawNotSaved, CleanIsSaved, EmptyArray

LEMMA StutterInv ==
  ASSUME IInv, UNCHANGED vars
  PROVE  IInv'
BY DEF vars, IInv, TypeOK, NumHasOneItem, LenCoherent, RawNotSaved, CleanIsSaved, EmptyArray, Created

LEMMA RequestInv ==
  ASSUME IInv, NEW h, Request(h)
  PROVE  IInv'
<1>1. CASE \E v \in Values : VarSet(h, v)
  BY <1>1, SetInv
<1>2. CASE \E x \in Data : VarAddItem(h, x)
  BY <1>2, AddItemInv
<1>3. CASE \E i \in 1..MaxLen, x \in Data : VarSetItem(h, i, x) \/ VarInsItem(h, i, x)
  BY <1>3, SetItemInv, InsItemInv
<1>4. CASE \E i \in 1..MaxLen : VarDelItem(h, i)
  BY <1>4, DelItemInv
<1>5. CASE VarMisuse(h) \/ \E i \in 0..MaxLen + 2, last \in {0, 1} : VarMisindex(h, i, last)
  BY <1>5, StopInv DEF VarMisuse, VarMisindex
<1> QED
  BY <1>1, <1>2, <1>3, <1>4, <1>5 DEF Request

LEMMA NextInv == IInv /\ [Next]_vars => IInv'
<1> SUFFICES ASSUME IInv, [Next]_vars PROVE IInv'
  OBVIOUS
<1>1. CASE \E n \in Names, v \in Values, F \in SUBSET {"SAVE"}, d \in BOOLEAN,
              h \in Handles : VarCreate(n, v, F, d, h)
  BY <1>1, CreateInv
<1>2. CASE \E h \in issued : Request(h)
  BY <1>2, RequestInv
<1>3. CASE \E n \in Names, on \in BOOLEAN : VarTrack(n, on)
  BY <1>3, TrackInv
<1>4. CASE VarSave
  BY <1>4, SaveInv
<1>5. CASE VarRestore
  BY <1>5, RestoreInv
<1>6. CASE VarRestoreAborts \/ VarRestoreUndefined \/ Shutdown \/ Crash \/ CrashInRestore
  BY <1>6, StopInv
<1>7. CASE Start
  BY <1>7, StartInv
<1>8. CASE UNCHANGED vars
  BY <1>8, StutterInv
<1> QED
  BY <1>1, <1>2, <1>3, <1>4, <1>5, <1>6, <1>7, <1>8 DEF Next

-----------------------------------------------------------------------------
(* The table, the file and the history keep their types, and the inductive    *)
(* invariant holds, whatever the clients ask for, in whatever order var_save  *)
(* enumerates the table, and wherever the server is killed.                   *)
THEOREM Invariance == Spec => []IInv
<1>1. Init => IInv
  BY InitInv
<1>2. IInv /\ [Next]_vars => IInv'
  BY NextInv
<1> QED
  BY <1>1, <1>2, PTL DEF Spec

(* len is the size of the array after every sequence of item handlers, sets   *)
(* and restores, so DSV_Memcpy never copies past the vector (util.cpp:132).   *)
THEOREM LenStaysCoherent == Spec => []LenCoherent
<1>1. IInv => LenCoherent
  BY DEF IInv
<1> QED
  BY <1>1, Invariance, PTL

(* An entry that var_save would skip as clean has its value as the last       *)
(* record of its name in the file (dsv_var.cpp:659-671).                      *)
THEOREM CleanStaysSaved == Spec => []CleanIsSaved
<1>1. IInv => CleanIsSaved
  BY DEF IInv
<1> QED
  BY <1>1, Invariance, PTL

-----------------------------------------------------------------------------
(* A request either is undefined and ends the server, or gives one created    *)
(* name an entry with the handle and flags it had, marked dirty.              *)
Written(n, e) == /\ e \in Entry /\ e.dirty
                 /\ e.hndl = gmap[n].hndl /\ e.flags = gmap[n].flags
                 /\ Update(n, e)

LEMMA StoredWritten ==
  ASSUME IInv, NEW n \in Created, NEW w \in Values
  PROVE  /\ Update(n, Stored(gmap[n], w)) => Written(n, Stored(gmap[n], w))
         /\ Update(n, Resized(gmap[n], w)) => Written(n, Resized(gmap[n], w))
<1>1. gmap[n] \in Entry
  BY EntryOf
<1> QED
  BY <1>1, StoredEntry DEF Written, Stored, Resized, Entry

LEMMA RequestWrites ==
  ASSUME IInv, NEW h, Request(h)
  PROVE  \/ status = "up" /\ Undefined
         \/ status = "up" /\ \E n \in Created : \E e \in Entry : Written(n, e)
<1>1. ASSUME NEW v \in Values, VarSet(h, v)
      PROVE  status = "up" /\ \E n \in Created : \E e \in Entry : Written(n, e)
  <2>1. PICK n \in Created : \E w \in SetValues(gmap[n], TypeOf[n], v) : Update(n, Stored(gmap[n], w))
    BY <1>1 DEF VarSet, At
  <2>2. PICK w \in SetValues(gmap[n], TypeOf[n], v) : Update(n, Stored(gmap[n], w))
    BY <2>1
  <2> QED
    BY <1>1, <2>2, SetValue, StoredWritten DEF VarSet, Written
<1>2. ASSUME NEW x \in Data, VarAddItem(h, x)
      PROVE  status = "up" /\ \E n \in Created : \E e \in Entry : Written(n, e)
  <2>1. PICK n \in Names : /\ ArrayAt(h, n) /\ Len(gmap[n].val) < MaxLen
                           /\ Update(n, Resized(gmap[n], Append(gmap[n].val, x)))
    BY <1>2 DEF VarAddItem
  <2>2. n \in Created /\ gmap[n].val \in Values
    BY <2>1, EntryOf DEF ArrayAt, At
  <2>3. Append(gmap[n].val, x) \in Values
    BY <2>1, <2>2, ItemAppended, SeqIsValue
  <2> QED
    BY <1>2, <2>1, <2>2, <2>3, StoredWritten DEF VarAddItem, Written
<1>3. ASSUME NEW i, NEW x \in Data, VarSetItem(h, i, x)
      PROVE  status = "up" /\ \E n \in Created : \E e \in Entry : Written(n, e)
  <2>1. PICK n \in Names : /\ ArrayAt(h, n) /\ i \in DOMAIN gmap[n].val
                           /\ Update(n, Stored(gmap[n], [gmap[n].val EXCEPT ![i] = x]))
    BY <1>3 DEF VarSetItem
  <2>2. n \in Created /\ gmap[n].val \in Values
    BY <2>1, EntryOf DEF ArrayAt, At
  <2>3. [gmap[n].val EXCEPT ![i] = x] \in Values
    BY <2>1, <2>2, ItemReplaced
  <2> QED
    BY <1>3, <2>1, <2>2, <2>3, StoredWritten DEF VarSetItem, Written
<1>4. ASSUME NEW i, NEW x \in Data, VarInsItem(h, i, x)
      PROVE  status = "up" /\ \E n \in Created : \E e \in Entry : Written(n, e)
  <2>1. PICK n \in Names : /\ ArrayAt(h, n) /\ Len(gmap[n].val) < MaxLen
                           /\ i \in 1..Len(gmap[n].val) + 1
                           /\ Update(n, Resized(gmap[n], Inserted(gmap[n].val, i, x)))
    BY <1>4 DEF VarInsItem
  <2>2. n \in Created /\ gmap[n].val \in Values
    BY <2>1, EntryOf DEF ArrayAt, At
  <2>3. Inserted(gmap[n].val, i, x) \in Values
    BY <2>1, <2>2, ItemInserted, SeqIsValue
  <2> QED
    BY <1>4, <2>1, <2>2, <2>3, StoredWritten DEF VarInsItem, Written
<1>5. ASSUME NEW i, VarDelItem(h, i)
      PROVE  status = "up" /\ \E n \in Created : \E e \in Entry : Written(n, e)
  <2>1. PICK n \in Names : /\ ArrayAt(h, n) /\ i \in DOMAIN gmap[n].val
                           /\ Update(n, Resized(gmap[n], Deleted(gmap[n].val, i)))
    BY <1>5 DEF VarDelItem
  <2>2. n \in Created /\ gmap[n].val \in Values
    BY <2>1, EntryOf DEF ArrayAt, At
  <2>3. Deleted(gmap[n].val, i) \in Values
    BY <2>1, <2>2, ItemDeleted, SeqIsValue
  <2> QED
    BY <1>5, <2>1, <2>2, <2>3, StoredWritten DEF VarDelItem, Written
<1>6. ASSUME NEW i, NEW last, VarMisuse(h) \/ VarMisindex(h, i, last)
      PROVE  status = "up" /\ Undefined
  BY <1>6 DEF VarMisuse, VarMisindex
<1> QED
  BY <1>1, <1>2, <1>3, <1>4, <1>5, <1>6 DEF Request

(* A step of a server that goes on keeps every entry, with its handle.        *)
Kept == \A n \in Created : status' = "up" =>
          n \in Created' /\ gmap'[n].hndl = gmap[n].hndl

LEMMA KeptStep ==
  ASSUME IInv, [Next]_vars
  PROVE  [Kept]_vars
<1> USE DEF Kept
<1>1. ASSUME NEW n \in Names, NEW v \in Values, NEW F \in SUBSET {"SAVE"},
             NEW d \in BOOLEAN, NEW h \in Handles, VarCreate(n, v, F, d, h)
      PROVE  Kept
  BY <1>1 DEF VarCreate, Vacant, Created, IInv, TypeOK
<1>2. ASSUME NEW h \in issued, Request(h) PROVE Kept
  <2>1. CASE Undefined
    BY <2>1 DEF Undefined, Ended
  <2>2. ASSUME NEW n \in Created, NEW e \in Entry, Written(n, e) PROVE Kept
    BY <2>2, AbsentAssumption DEF Written, Update, Created, IInv, TypeOK
  <2> QED
    BY <1>2, <2>1, <2>2, RequestWrites
<1>3. ASSUME NEW n \in Names, NEW on \in BOOLEAN, VarTrack(n, on) PROVE Kept
  <2> DEFINE e == gmap'[n]
  <2>1. n \in Created /\ gmap[n] \in Entry
    BY <1>3, EntryOf DEF VarTrack
  <2>2. gmap' = [gmap EXCEPT ![n] = e] /\ e \in Entry /\ e.hndl = gmap[n].hndl
    BY <1>3, <2>1 DEF VarTrack, Entry, IInv, TypeOK
  <2> QED
    BY <2>1, <2>2, AbsentAssumption DEF Created, IInv, TypeOK
<1>4. ASSUME NEW t \in Tables,
             \A n \in Created : t[n] # Absent /\ t[n].hndl = gmap[n].hndl,
             gmap' = Cleaned(t, ToSave(t))
      PROVE  Kept
  BY <1>4, CleanedFacts DEF Created
<1>5. CASE VarSave
  BY <1>4, <1>5, TableFacts DEF VarSave, Created
<1>6. CASE VarRestore
  BY <1>4, <1>6, RestoredFacts DEF VarRestore, Created
<1>7. CASE VarRestoreAborts \/ VarRestoreUndefined \/ Shutdown \/ Crash \/ CrashInRestore
  BY <1>7 DEF VarRestoreAborts, VarRestoreUndefined, Shutdown, Crash, CrashInRestore,
              Undefined, Ended
<1>8. CASE Start
  BY <1>8 DEF Start, Created
<1> QED
  BY <1>1, <1>2, <1>3, <1>5, <1>6, <1>7, <1>8 DEF Next

(* An entry keeps its place in g_map, and so its handle, for as long as the   *)
(* server runs: var_create leaves an existing one alone, and no handler       *)
(* removes or moves one (dsv_var.cpp:136).                                    *)
THEOREM HandlesKept == Spec => HandleKept
<1>1. IInv /\ [Next]_vars => [Kept]_vars
  BY KeptStep
<1> QED
  BY <1>1, Invariance, PTL DEF Spec, HandleKept, Kept

(* A pass over a table leaves a record of every name that the file d has.     *)
LEMMA PassKeeps ==
  ASSUME NEW t \in Tables, NumEntries(t), NEW d \in Seq(Record),
         NEW recs \in PassRecords(t), NEW n \in Names, Saved(d, n)
  PROVE  Saved(d \o recs, n)
<1>1. recs \in Seq(Record) /\ \A i \in DOMAIN recs : recs[i].name \in ToSave(t)
  BY PassFacts
<1>2. CASE n \in ToSave(t)
  <2>1. PICK i : IsLast(recs, n, i)
    BY <1>2, PassFacts
  <2>2. IsLast(d \o recs, n, Len(d) + i)
    BY <1>1, <2>1, LastOfTail
  <2> QED
    BY <2>2 DEF Saved, IsLast
<1>3. CASE n \notin ToSave(t)
  <2>1. PICK i : IsLast(d, n, i)
    BY DEF Saved
  <2>2. \A j \in DOMAIN recs : recs[j].name # n
    BY <1>1, <1>3
  <2>3. IsLast(d \o recs, n, i)
    BY <1>1, <2>1, <2>2, LastOfHead
  <2> QED
    BY <2>3 DEF Saved, IsLast
<1> QED
  BY <1>2, <1>3

\* The condition of var_restore, and what it is for.
AllKept == \A n \in Names : Saved(disk, n) => n \in Created /\ "SAVE" \in gmap[n].flags
FileKeeps == status = "up" /\ status' = "up" /\ AllKept =>
               \A n \in Names : Saved(disk, n) => Saved(disk', n)

LEMMA RestoreKeeps ==
  ASSUME IInv, VarRestore, AllKept, NEW n \in Names, Saved(disk, n)
  PROVE  Saved(disk', n)
<1> DEFINE t == Restored(gmap, disk)
<1>1. /\ t \in Tables /\ NumEntries(t) /\ disk' \in PassRecords(t)
      /\ t[n] # Absent /\ t[n].flags = gmap[n].flags /\ t[n].dirty
  BY RestoredFacts DEF VarRestore, AllKept, Created
<1>2. n \in ToSave(t)
  BY <1>1 DEF ToSave, AllKept
<1> HIDE DEF t
<1>3. PICK i : IsLast(disk', n, i)
  BY <1>1, <1>2, PassFacts
<1> QED
  BY <1>3 DEF Saved, IsLast

LEMMA FileStep ==
  ASSUME IInv, [Next]_vars
  PROVE  FileKeeps
<1>1. disk' = disk \/ status' # "up" \/ status # "up" => FileKeeps
  BY DEF FileKeeps
<1>2. ASSUME NEW n \in Names, NEW v \in Values, NEW F \in SUBSET {"SAVE"},
             NEW d \in BOOLEAN, NEW h \in Handles, VarCreate(n, v, F, d, h)
      PROVE  disk' = disk
  BY <1>2 DEF VarCreate
<1>3. ASSUME NEW h \in issued, Request(h)
      PROVE  disk' = disk
  BY <1>3, RequestWrites DEF Undefined, Written, Update
<1>4. ASSUME NEW n \in Names, NEW on \in BOOLEAN, VarTrack(n, on)
      PROVE  disk' = disk
  BY <1>4 DEF VarTrack
<1>5. CASE VarSave
  <2>1. PICK recs \in PassRecords(gmap) : disk' = disk \o recs
    BY <1>5 DEF VarSave
  <2> QED
    BY <2>1, TableFacts, PassKeeps DEF FileKeeps
<1>6. CASE VarRestore
  BY <1>6, RestoreKeeps DEF FileKeeps
<1>7. CASE VarRestoreAborts \/ VarRestoreUndefined \/ Shutdown \/ Crash \/ CrashInRestore
  BY <1>1, <1>7 DEF VarRestoreAborts, VarRestoreUndefined, Shutdown, Crash, CrashInRestore,
                    Undefined, Ended
<1>8. CASE Start \/ UNCHANGED vars
  BY <1>1, <1>8 DEF Start, vars
<1> QED
  BY <1>1, <1>2, <1>3, <1>4, <1>5, <1>6, <1>7, <1>8 DEF Next

(* A value in the file stays there through every save and restore, whatever   *)
(* is created, set and saved between them, when all names in the file are of  *)
(* created entries with the SAVE flag, and unless the server is killed while  *)
(* it rewrites the file (dsv_var.cpp:679).                                    *)
THEOREM SavedStays == Spec => SavedKept
<1>1. IInv /\ [Next]_vars => [FileKeeps]_vars
  BY FileStep
<1> QED
  BY <1>1, Invariance, PTL DEF Spec, SavedKept, FileKeeps, AllKept

(* Where the entries of a table come from: a new one has a handle that no     *)
(* entry has, the others were there with theirs.                              *)
Carried == /\ issued' = issued
           /\ \A n \in Created' : n \in Created /\ gmap'[n].hndl = gmap[n].hndl

Added(n, h) == /\ n \in Names /\ n \notin Created /\ h \notin Live
               /\ issued' = issued \cup {h}
               /\ gmap'[n].hndl = h
               /\ \A k \in Names \ {n} : gmap'[k] = gmap[k]

LEMMA EntryStep ==
  ASSUME IInv, [Next]_vars
  PROVE  Carried \/ \E n, h : Added(n, h)
<1>1. ASSUME NEW n \in Names, NEW v \in Values, NEW F \in SUBSET {"SAVE"},
             NEW d \in BOOLEAN, NEW h \in Handles, VarCreate(n, v, F, d, h)
      PROVE  Added(n, h)
  BY <1>1 DEF VarCreate, Vacant, IInv, TypeOK, Added
<1>2. ASSUME \/ Undefined \/ VarRestoreUndefined \/ VarRestoreAborts
             \/ Shutdown \/ Crash \/ CrashInRestore
      PROVE  Carried
  BY <1>2 DEF Undefined, VarRestoreUndefined, VarRestoreAborts, Shutdown, Crash,
              CrashInRestore, Ended, Created, Carried
<1>3. ASSUME NEW n \in Created, NEW e \in Entry, Written(n, e)
      PROVE  Carried
  BY <1>3 DEF Written, Update, Created, IInv, TypeOK, Carried
<1>4. ASSUME NEW h \in issued, Request(h)
      PROVE  Carried
  BY <1>2, <1>3, <1>4, RequestWrites
<1>5. ASSUME NEW n \in Names, NEW on \in BOOLEAN, VarTrack(n, on)
      PROVE  Carried
  <2> DEFINE e == gmap'[n]
  <2>1. n \in Created /\ gmap[n] \in Entry
    BY <1>5, EntryOf DEF VarTrack
  <2>2. gmap' = [gmap EXCEPT ![n] = e] /\ e.hndl = gmap[n].hndl /\ issued' = issued
    BY <1>5, <2>1 DEF VarTrack, Entry, IInv, TypeOK
  <2> QED
    BY <2>1, <2>2 DEF Created, IInv, TypeOK, Carried
<1>6. CASE VarSave
  <2>1. gmap \in Tables /\ gmap' = Cleaned(gmap, ToSave(gmap)) /\ issued' = issued
    BY <1>6, TableFacts DEF VarSave
  <2> QED
    BY <2>1, CleanedFacts DEF Created, Carried
<1>7. CASE VarRestore
  <2> DEFINE t == Restored(gmap, disk)
  <2>1. t \in Tables /\ gmap' = Cleaned(t, ToSave(t)) /\ issued' = issued
    BY <1>7, RestoredFacts DEF VarRestore
  <2>2. \A n \in Names : t[n] # Absent => gmap[n] # Absent /\ t[n].hndl = gmap[n].hndl
    BY RestoredFacts DEF Restored
  <2> HIDE DEF t
  <2> QED
    BY <2>1, <2>2, CleanedFacts DEF Created, Carried
<1>8. CASE Start \/ UNCHANGED vars
  BY <1>8 DEF Start, vars, Created, Carried
<1> QED
  BY <1>1, <1>2, <1>4, <1>5, <1>6, <1>7, <1>8 DEF Next

(* No two entries have one handle, so a request by handle means one entry.    *)
HandlesDistinct ==
  \A n, k \in Created : gmap[n].hndl = gmap[k].hndl => n = k

LEMMA DistinctStep ==
  ASSUME IInv, HandlesDistinct, [Next]_vars
  PROVE  HandlesDistinct'
<1>1. CASE Carried
  BY <1>1 DEF Carried, HandlesDistinct
<1>2. ASSUME NEW n, NEW h, Added(n, h)
      PROVE  HandlesDistinct'
  BY <1>2 DEF Added, HandlesDistinct, Live, Created
<1> QED
  BY <1>1, <1>2, EntryStep

\* A handle means one entry: a write reaches no other (var_create, malloc).
THEOREM DistinctHandles == Spec => []HandlesDistinct
<1>1. Init => HandlesDistinct
  BY DEF Init, HandlesDistinct, Created
<1>2. IInv /\ HandlesDistinct /\ [Next]_vars => HandlesDistinct'
  BY DistinctStep
<1> QED
  BY <1>1, <1>2, Invariance, PTL DEF Spec
=============================================================================
