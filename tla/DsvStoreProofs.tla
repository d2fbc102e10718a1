---------------------------- MODULE DsvStoreProofs ----------------------------
(* The table with its append-only file implements the abstract store: numbers *)
(* and strings keep the promise of DsvStore, crashes included.  An array does *)
(* not: an empty one has no text, and a restored one is not an array.         *)
EXTENDS DsvVarProofs

NoArrays == \A n \in Names : TypeOf[n] # "ARR"

\* The value the file d has of each name.
StoredIn(d) == [n \in Names |-> IF Saved(d, n) THEN LastVal(d, n) ELSE Absent]

\* Records of distinct names with the values of table t.
Once(r) == \A i, j \in DOMAIN r : r[i].name = r[j].name => i = j
NamesIn(r) == {r[i].name : i \in DOMAIN r}
Copies(r, t) == /\ r \in Seq(Record) /\ Once(r)
                /\ \A i \in DOMAIN r : r[i].val = t[r[i].name].val

LEMMA PassCopies ==
  ASSUME NoArrays, NEW t \in Tables, NumEntries(t), NEW recs \in PassRecords(t)
  PROVE  Copies(recs, t) /\ NamesIn(recs) = ToSave(t)
<1> DEFINE S == ToSave(t)
           m == Cardinality(S)
<1>1. S \subseteq Names
  BY DEF ToSave
<1>2. PICK ord \in Orders(S), g \in [Blank(t, S) -> Values] :
        recs = [k \in DOMAIN ord |-> [name |-> ord[k], val |-> Text(t, ord[k], g)]]
  BY DEF PassRecords
<1> HIDE DEF m, S
<1>3. /\ ord \in [1..m -> S]
      /\ \A a, b \in 1..m : ord[a] = ord[b] => a = b
      /\ \A n \in S : \E k \in 1..m : ord[k] = n
  BY <1>2 DEF Orders, Bijection, Injection, Surjection, IsInjective, m
<1>4. \A k \in 1..m : recs[k].name = ord[k] /\ recs[k].val = t[ord[k]].val
  BY <1>1, <1>2, <1>3 DEF Text, EmptyArray, NoArrays
<1>5. DOMAIN recs = 1..m
  BY <1>2, <1>3
<1>6. Once(recs) /\ \A i \in DOMAIN recs : recs[i].val = t[recs[i].name].val
  BY <1>3, <1>4, <1>5 DEF Once
<1>7. NamesIn(recs) = S
  BY <1>3, <1>4, <1>5 DEF NamesIn
<1> QED
  BY <1>6, <1>7, PassFacts DEF Copies, S

LEMMA PrefixCopies ==
  ASSUME NEW t \in Tables, NEW r, Copies(r, t), NEW k \in 0..Len(r)
  PROVE  Copies(SubSeq(r, 1, k), t) /\ NamesIn(SubSeq(r, 1, k)) \subseteq NamesIn(r)
<1> DEFINE p == SubSeq(r, 1, k)
<1>1. r \in Seq(Record) /\ DOMAIN r = 1..Len(r) /\ Len(r) \in Nat /\ \A i \in 1..Len(r) : r[i] \in Record
  BY LenProperties, ElementOfSeq DEF Copies
<1>2. k \in Nat /\ \A i \in 1..k : i \in 1..Len(r)
  BY <1>1
<1>3. p \in Seq(Record) /\ Len(p) = k /\ \A i \in 1..k : p[i] = r[i]
  BY <1>1, <1>2, SubSeqProperties
<1> HIDE DEF p
<1>4. DOMAIN p = 1..k
  BY <1>3, LenProperties
<1> QED
  BY <1>1, <1>2, <1>3, <1>4 DEF Copies, Once, NamesIn, p

(* What a file holds once copies of entries of t follow it.                   *)
LEMMA StoredAfter ==
  ASSUME NEW t \in Tables, NEW d \in Seq(Record), NEW r, Copies(r, t), NEW n \in Names
  PROVE  StoredIn(d \o r)[n] = IF n \in NamesIn(r) THEN t[n].val ELSE StoredIn(d)[n]
<1> DEFINE c == d \o r
<1>1. /\ c \in Seq(Record) /\ r \in Seq(Record)
      /\ DOMAIN c = 1..Len(d) + Len(r) /\ DOMAIN d = 1..Len(d) /\ DOMAIN r = 1..Len(r)
      /\ Len(d) \in Nat /\ Len(r) \in Nat
      /\ \A j \in 1..Len(d) + Len(r) : c[j] = IF j <= Len(d) THEN d[j] ELSE r[j - Len(d)]
  BY Appended DEF Copies
<1>2. CASE n \in NamesIn(r)
  <2>1. PICK i \in DOMAIN r : r[i].name = n
    BY <1>2 DEF NamesIn
  <2>2. IsLast(r, n, i) /\ r[i].val = t[n].val
    BY <1>1, <2>1 DEF IsLast, Copies, Once
  <2>3. IsLast(c, n, Len(d) + i) /\ c[Len(d) + i] = r[i]
    BY <1>1, <2>2, LastOfTail
  <2> HIDE DEF c
  <2>4. Saved(c, n) /\ LastVal(c, n) = c[Len(d) + i].val
    BY <1>1, <2>3, LastValIs
  <2> QED
    BY <1>2, <2>2, <2>3, <2>4 DEF StoredIn, c
<1>3. CASE n \notin NamesIn(r)
  <2>1. \A j \in DOMAIN r : r[j].name # n
    BY <1>3 DEF NamesIn
  <2>2. ASSUME NEW i, IsLast(d, n, i)
        PROVE  Saved(c, n) /\ LastVal(c, n) = LastVal(d, n) /\ Saved(d, n)
    <3>1. IsLast(c, n, i) /\ c[i] = d[i]
      BY <1>1, <2>1, <2>2, LastOfHead
    <3> HIDE DEF c
    <3> QED
      BY <1>1, <2>2, <3>1, LastValIs
  <2> HIDE DEF c
  <2>3. ASSUME NEW i, IsLast(c, n, i)
        PROVE  IsLast(d, n, i)
    <3>1. i \in 1..Len(d) + Len(r) /\ c[i].name = n
      BY <1>1, <2>3 DEF IsLast
    <3>2. i <= Len(d)
      <4> SUFFICES ASSUME ~(i <= Len(d)) PROVE FALSE
        OBVIOUS
      <4>1. i - Len(d) \in DOMAIN r /\ c[i] = r[i - Len(d)]
        BY <1>1, <3>1
      <4> QED
        BY <2>1, <3>1, <4>1
    <3>3. \A j \in 1..Len(d) : j \in 1..Len(d) + Len(r) /\ c[j] = d[j]
      BY <1>1
    <3> QED
      BY <1>1, <2>3, <3>1, <3>2, <3>3 DEF IsLast
  <2>4. Saved(c, n) <=> Saved(d, n)
    BY <2>2, <2>3 DEF Saved
  <2>5. Saved(d, n) => LastVal(c, n) = LastVal(d, n)
    BY <2>2 DEF Saved
  <2> QED
    BY <1>3, <2>4, <2>5 DEF StoredIn, c
<1> QED
  BY <1>2, <1>3

LEMMA StoredNew ==
  ASSUME NEW t \in Tables, NEW r, Copies(r, t), NEW n \in Names
  PROVE  StoredIn(r)[n] = IF n \in NamesIn(r) THEN t[n].val ELSE Absent
<1>1. <<>> \in Seq(Record) /\ <<>> \o r = r
  BY EmptySeq, ConcatEmptySeq DEF Copies
<1>2. StoredIn(<<>>)[n] = Absent
  BY DEF StoredIn, Saved, IsLast
<1>3. StoredIn(<<>> \o r)[n] = IF n \in NamesIn(r) THEN t[n].val ELSE StoredIn(<<>>)[n]
  BY <1>1, StoredAfter
<1> QED
  BY <1>1, <1>2, <1>3

LEMMA StoredType ==
  ASSUME IInv, NEW n \in Names
  PROVE  /\ StoredIn(disk)[n] = Absent <=> ~Saved(disk, n)
         /\ Saved(disk, n) => StoredIn(disk)[n] = LastVal(disk, n)
<1>1. Saved(disk, n) => LastVal(disk, n) \in Values
  BY LastValType, TableFacts DEF Record
<1> QED
  BY <1>1, AbsentAssumption DEF StoredIn

-----------------------------------------------------------------------------
(* The refinement mapping: what DsvVar's Store instance is made of.           *)
Mem == [n \in Names |-> IF n \in Created THEN gmap[n].val ELSE Absent]
Keep == {n \in Created : "SAVE" \in gmap[n].flags}

LEMMA Mapped ==
  ASSUME IInv
  PROVE  /\ \A n \in Created : n \in Names /\ gmap[n] \in Entry /\ Mem[n] = gmap[n].val
                               /\ gmap[n].val \in Values /\ gmap[n].val # Absent
         /\ \A n \in Names \ Created : Mem[n] = Absent
         /\ Store!Created = Created
         /\ ToSave(gmap) \subseteq Keep
<1>1. \A n \in Created : n \in Names /\ gmap[n] \in Entry /\ Mem[n] = gmap[n].val
                         /\ gmap[n].val \in Values /\ gmap[n].val # Absent
  BY EntryOf, AbsentAssumption DEF Mem, Created
<1>2. \A n \in Names \ Created : Mem[n] = Absent
  BY DEF Mem
<1>3. Store!Created = Created
  BY <1>1, <1>2 DEF Store!Created, Mem, Created
<1>4. ToSave(gmap) \subseteq Keep
  BY DEF ToSave, Keep, Created
<1> QED
  BY <1>1, <1>2, <1>3, <1>4

LEMMA InitStep == Init => Store!Init
<1> SUFFICES ASSUME Init PROVE Store!Init
  OBVIOUS
<1>1. Created = {} /\ ToSave(gmap) = {}
  BY DEF Init, Created, ToSave
<1>2. \A n \in Names : ~Saved(disk, n)
  BY DEF Init, Saved, IsLast
<1> QED
  BY <1>1, <1>2 DEF Store!Init, Store!Nothing, Init, Life

LEMMA CreateStep ==
  ASSUME IInv, NEW n \in Names, NEW v \in Values, NEW F \in SUBSET {"SAVE"},
         NEW d \in BOOLEAN, NEW h \in Handles, VarCreate(n, v, F, d, h)
  PROVE  Store!Create(n, v)
<1> DEFINE e == [hndl |-> h, flags |-> F, dirty |-> d, len |-> LenOf(TypeOf[n], v), val |-> v, raw |-> FALSE]
           p == IF "SAVE" \in F THEN {n} ELSE {}
           q == IF "SAVE" \in F /\ d THEN {n} ELSE {}
<1>1. e \in Entry
  BY LenIsLen DEF Entry
<1>2. /\ gmap' = [gmap EXCEPT ![n] = e] /\ disk' = disk /\ n \notin Created
      /\ e.val = v /\ e.flags = F /\ e.dirty = d /\ e # Absent
  BY <1>1, AbsentAssumption DEF VarCreate, Vacant
<1> HIDE DEF e
<1>3. gmap'[n] = e /\ \A m \in Names \ {n} : gmap'[m] = gmap[m]
  BY <1>2 DEF IInv, TypeOK
<1>4. Created' = Created \cup {n} /\ n \notin Store!Created
  BY <1>2, <1>3, Mapped DEF Created
<1>5. Mem' = [Mem EXCEPT ![n] = v]
  <2>1. \A m \in Names : Mem'[m] = IF m = n THEN v ELSE Mem[m]
    BY <1>2, <1>3, <1>4 DEF Mem
  <2> QED
    BY <2>1 DEF Mem
<1>6. Keep' = Keep \cup p
  BY <1>2, <1>3, <1>4 DEF Keep, Created
<1>7. ToSave(gmap)' = ToSave(gmap) \cup q
  BY <1>2, <1>3, <1>4 DEF ToSave, Created
<1>8. p \in SUBSET {n} /\ q \in SUBSET p
  OBVIOUS
<1>9. Life = "up" /\ Life' = Life
  BY DEF VarCreate, Life
<1> HIDE DEF p, q
<1> QED
  BY <1>2, <1>4, <1>5, <1>6, <1>7, <1>8, <1>9 DEF Store!Create, Mem, Keep

LEMMA WriteStep ==
  ASSUME IInv, status = "up", NEW n \in Created, NEW e \in Entry, Written(n, e)
  PROVE  Store!Write(n, e.val)
<1>1. /\ gmap' = [gmap EXCEPT ![n] = e] /\ disk' = disk /\ status' = status /\ e # Absent
      /\ e.flags = gmap[n].flags /\ e.dirty
  BY AbsentAssumption DEF Written, Update
<1>2. gmap'[n] = e /\ n \in Names /\ \A m \in Names \ {n} : gmap'[m] = gmap[m]
  BY <1>1 DEF IInv, TypeOK, Created
<1>3. Created' = Created
  BY <1>1, <1>2 DEF Created
<1>4. Mem' = [Mem EXCEPT ![n] = e.val]
  BY <1>2, <1>3 DEF Mem
<1>5. Keep' = Keep
  BY <1>1, <1>2, <1>3 DEF Keep, Created
<1>6. ToSave(gmap)' = ToSave(gmap) \cup (Keep \cap {n})
  BY <1>1, <1>2, <1>3 DEF ToSave, Keep, Created
<1> QED
  BY <1>1, <1>4, <1>5, <1>6, Mapped DEF Store!Write, Mem, Keep, Life

LEMMA TrackStep ==
  ASSUME IInv, NEW n \in Names, NEW on \in BOOLEAN, VarTrack(n, on)
  PROVE  UNCHANGED Store!svars
<1>1. n \in Created /\ gmap[n] \in Entry
  BY EntryOf DEF VarTrack
<1> PICK e : e = gmap'[n]
  OBVIOUS
<1>2. /\ gmap' = [gmap EXCEPT ![n] = e] /\ disk' = disk
      /\ e \in Entry /\ e.val = gmap[n].val /\ e.dirty = gmap[n].dirty
      /\ "SAVE" \in e.flags <=> "SAVE" \in gmap[n].flags
  BY <1>1 DEF VarTrack, Entry, IInv, TypeOK
<1>3. n \in Names /\ e # Absent /\ gmap'[n] = e /\ \A m \in Names \ {n} : gmap'[m] = gmap[m]
  BY <1>1, <1>2, AbsentAssumption DEF IInv, TypeOK, Created
<1>4. Created' = Created
  BY <1>1, <1>2, <1>3 DEF Created
<1>5. Mem' = Mem
  BY <1>2, <1>3, <1>4 DEF Mem
<1>6. Keep' = Keep
  BY <1>2, <1>3, <1>4 DEF Keep, Created
<1>7. ToSave(gmap)' = ToSave(gmap)
  BY <1>1, <1>2, <1>3, <1>4 DEF ToSave, Created
<1> QED
  BY <1>2, <1>5, <1>6, <1>7 DEF Store!svars, Mem, Keep, Life, VarTrack

LEMMA StartStep ==
  ASSUME Start \/ UNCHANGED vars
  PROVE  Store!Start \/ UNCHANGED Store!svars
<1>1. gmap' = gmap /\ disk' = disk
  BY DEF Start, vars
<1>2. Created' = Created
  BY <1>1 DEF Created
<1>3. (Life # "up" /\ Life' = "up") \/ Life' = Life
  BY DEF Start, vars, Life
<1> QED
  BY <1>1, <1>2, <1>3 DEF Store!Start, Store!svars, ToSave

(* What a pass over table t leaves of it in memory.                           *)
LEMMA PassMemory ==
  ASSUME NEW t \in Tables, gmap' = Cleaned(t, ToSave(t)),
         \A n \in Names : /\ t[n] # Absent <=> gmap[n] # Absent
                          /\ t[n] # Absent => t[n].flags = gmap[n].flags
  PROVE  /\ Created' = Created /\ Keep' = Keep /\ ToSave(gmap)' = {}
         /\ \A n \in Created : gmap'[n].val = t[n].val
<1>1. Created' = Created
  BY CleanedFacts DEF Created
<1>2. \A n \in Created : gmap'[n].val = t[n].val /\ gmap'[n].flags = gmap[n].flags
  BY CleanedFacts DEF Created
<1>3. Keep' = Keep
  BY <1>1, <1>2 DEF Keep
<1>4. ToSave(gmap)' = {}
  BY CleanedFacts DEF ToSave
<1> QED
  BY <1>1, <1>2, <1>3, <1>4

LEMMA SaveStep ==
  ASSUME NoArrays, IInv, VarSave
  PROVE  Store!Save
<1>1. PICK recs \in PassRecords(gmap) : disk' = disk \o recs
  BY DEF VarSave
<1>2. Copies(recs, gmap) /\ NamesIn(recs) = ToSave(gmap)
  BY TableFacts, PassCopies
<1>3. /\ Created' = Created /\ Keep' = Keep /\ ToSave(gmap)' = {}
      /\ \A n \in Created : gmap'[n].val = gmap[n].val
  BY TableFacts, PassMemory DEF VarSave
<1>4. Mem' = Mem
  BY <1>3 DEF Mem
<1>5. \A n \in ToSave(gmap) : n \in Names /\ Mem[n] = gmap[n].val
  BY Mapped DEF ToSave, Keep
<1>6. ASSUME NEW n \in Names
      PROVE  StoredIn(disk')[n] = IF n \in ToSave(gmap) THEN Mem[n] ELSE StoredIn(disk)[n]
  BY <1>1, <1>2, <1>5, TableFacts, StoredAfter
<1>7. StoredIn(disk') = [n \in Names |-> IF n \in ToSave(gmap) THEN Mem[n] ELSE StoredIn(disk)[n]]
  BY <1>6 DEF StoredIn
<1> QED
  BY <1>3, <1>4, <1>7 DEF Store!Save, Store!Stored, Mem, Keep, StoredIn, Life, VarSave

(* What var_restore makes of the table, in the words of the store.            *)
LEMMA RestoredTable ==
  ASSUME NoArrays, IInv
  PROVE  LET t == Restored(gmap, disk) IN
         /\ t \in Tables /\ NumEntries(t) /\ ~RawToSave(t)
         /\ \A n \in Names : /\ t[n] # Absent <=> gmap[n] # Absent
                             /\ t[n] # Absent => t[n].flags = gmap[n].flags
         /\ \A n \in Created : t[n].val = IF Saved(disk, n) THEN LastVal(disk, n) ELSE gmap[n].val
         /\ \A n \in Names : n \in ToSave(t) <=>
              n \in Keep /\ (Saved(disk, n) \/ n \in ToSave(gmap))
<1> DEFINE t == Restored(gmap, disk)
<1>1. t \in Tables /\ NumEntries(t)
  BY RestoredFacts
<1>2. ASSUME NEW n \in Names
      PROVE  /\ t[n] # Absent <=> gmap[n] # Absent
             /\ t[n] # Absent => t[n].flags = gmap[n].flags
             /\ ~(gmap[n] # Absent /\ Saved(disk, n)) => t[n] = gmap[n]
  BY RestoredFacts DEF Restored
<1>3. ASSUME NEW n \in Created
      PROVE  /\ t[n].val = IF Saved(disk, n) THEN LastVal(disk, n) ELSE gmap[n].val
             /\ Saved(disk, n) => t[n].dirty /\ ~t[n].raw
  <2>1. n \in Names /\ gmap[n] # Absent /\ gmap[n] \in Entry
    BY EntryOf DEF Created
  <2>2. CASE Saved(disk, n)
    <3>1. t[n] = RestoredEntry(gmap[n], TypeOf[n], LastVal(disk, n))
      BY <2>1, <2>2 DEF Restored
    <3> HIDE DEF t
    <3> QED
      BY <2>1, <2>2, <3>1 DEF RestoredEntry, Entry, NoArrays
  <2>3. CASE ~Saved(disk, n)
    BY <1>2, <2>1, <2>3
  <2> QED
    BY <2>2, <2>3
<1> HIDE DEF t
<1>4. ASSUME NEW n \in Names
      PROVE  n \in ToSave(t) <=> n \in Keep /\ (Saved(disk, n) \/ n \in ToSave(gmap))
  BY <1>2, <1>3 DEF ToSave, Keep, Created
<1>5. ~RawToSave(t)
  <2> SUFFICES ASSUME NEW n \in ToSave(t), t[n].raw PROVE FALSE
    BY DEF RawToSave
  <2>1. n \in Created /\ "SAVE" \in gmap[n].flags
    BY <1>4 DEF ToSave, Keep
  <2>2. t[n] = gmap[n]
    BY <1>2, <1>3, <2>1 DEF Created
  <2> QED
    BY <2>1, <2>2 DEF IInv, RawNotSaved
<1> QED
  BY <1>1, <1>2, <1>3, <1>4, <1>5 DEF t

LEMMA RestoreStep ==
  ASSUME NoArrays, IInv, VarRestore
  PROVE  Store!Restore
<1> DEFINE t == Restored(gmap, disk)
<1>1. /\ t \in Tables /\ NumEntries(t)
      /\ \A n \in Names : /\ t[n] # Absent <=> gmap[n] # Absent
                          /\ t[n] # Absent => t[n].flags = gmap[n].flags
      /\ \A n \in Created : t[n].val = IF Saved(disk, n) THEN LastVal(disk, n) ELSE gmap[n].val
      /\ \A n \in Names : n \in ToSave(t) <=>
           n \in Keep /\ (Saved(disk, n) \/ n \in ToSave(gmap))
  BY RestoredTable
<1>2. disk' \in PassRecords(t) /\ gmap' = Cleaned(t, ToSave(t))
  BY DEF VarRestore
<1> HIDE DEF t
<1>3. Copies(disk', t) /\ NamesIn(disk') = ToSave(t)
  BY <1>1, <1>2, PassCopies
<1>4. /\ Created' = Created /\ Keep' = Keep /\ ToSave(gmap)' = {}
      /\ \A n \in Created : gmap'[n].val = t[n].val
  BY <1>1, <1>2, PassMemory
<1> DEFINE sto == StoredIn(disk)
<1>5. \A n \in Names : /\ sto[n] = Absent <=> ~Saved(disk, n)
                       /\ Saved(disk, n) => sto[n] = LastVal(disk, n)
  BY StoredType
<1>6. Mem' = [n \in Names |-> IF n \in Created /\ sto[n] # Absent THEN sto[n] ELSE Mem[n]]
  <2>1. ASSUME NEW n \in Names
        PROVE  Mem'[n] = IF n \in Created /\ sto[n] # Absent THEN sto[n] ELSE Mem[n]
    BY <1>1, <1>4, <1>5 DEF Mem
  <2> QED
    BY <2>1 DEF Mem
<1>7. StoredIn(disk') = [n \in Names |-> IF n \notin Keep THEN Absent
                                       ELSE IF sto[n] = Absent /\ n \in ToSave(gmap)
                                            THEN Mem[n] ELSE sto[n]]
  <2>1. ASSUME NEW n \in Names
        PROVE  StoredIn(disk')[n] = IF n \notin Keep THEN Absent
                                    ELSE IF sto[n] = Absent /\ n \in ToSave(gmap)
                                         THEN Mem[n] ELSE sto[n]
    <3>1. StoredIn(disk')[n] = IF n \in ToSave(t) THEN t[n].val ELSE Absent
      BY <1>1, <1>3, StoredNew
    <3>2. n \in Keep => n \in Created /\ Mem[n] = gmap[n].val
      BY Mapped DEF Keep
    <3> HIDE DEF sto
    <3> QED
      BY <1>1, <1>5, <3>1, <3>2
  <2> QED
    BY <2>1 DEF StoredIn
<1>8. Store!Created = Created
  BY Mapped
<1> QED
  BY <1>4, <1>6, <1>7, <1>8 DEF Store!Restore, Store!Rewritten, Mem, Keep, StoredIn, Life, VarRestore

-----------------------------------------------------------------------------
(* The ends of the process.                                                   *)
LEMMA GoneStep ==
  ASSUME status = "up", NEW s \in {"down", "ub", "cut"}, Ended(s)
  PROVE  Store!Gone(IF s = "cut" THEN s ELSE "ended")
<1>1. Created' = {}
  BY DEF Ended, Created
<1>2. ToSave(gmap)' = {}
  BY DEF Ended, ToSave
<1> QED
  BY <1>1, <1>2 DEF Store!Gone, Store!Nothing, Ended, Life

(* The file keeps what it has, or gets copies of some of what was pending.    *)
LEMMA EndStep ==
  ASSUME IInv, status = "up", NEW s \in {"down", "ub"}, Ended(s), NEW r, Copies(r, gmap), NamesIn(r) \subseteq ToSave(gmap),
         disk' = disk \o r
  PROVE  \E P \in SUBSET ToSave(gmap) : Store!End(P)
<1> DEFINE P == NamesIn(r)
<1>1. \A n \in P : n \in Names /\ Mem[n] = gmap[n].val
  BY Mapped DEF ToSave, Keep
<1>2. ASSUME NEW n \in Names
      PROVE  StoredIn(disk')[n] = IF n \in P THEN Mem[n] ELSE StoredIn(disk)[n]
  BY <1>1, TableFacts, StoredAfter
<1>3. StoredIn(disk') = [n \in Names |-> IF n \in P THEN Mem[n] ELSE StoredIn(disk)[n]]
  BY <1>2 DEF StoredIn
<1> QED
  BY <1>3, GoneStep DEF Store!End, Store!Stored, Mem, StoredIn

LEMMA EndUnsaved ==
  ASSUME IInv, status = "up", NEW s \in {"down", "ub"}, Ended(s), disk' = disk
  PROVE  \E P \in SUBSET ToSave(gmap) : Store!End(P)
<1>1. Copies(<<>>, gmap) /\ NamesIn(<<>>) = {}
  BY EmptySeq DEF Copies, Once, NamesIn
<1>2. disk' = disk \o <<>>
  BY TableFacts, ConcatEmptySeq
<1> QED
  BY <1>1, <1>2, EndStep

LEMMA StopStep ==
  ASSUME NoArrays, IInv, status = "up", Undefined \/ Shutdown \/ Crash
  PROVE  \E P \in SUBSET ToSave(gmap) : Store!End(P)
<1>1. CASE Undefined
  BY <1>1, EndUnsaved DEF Undefined
<1>2. CASE Shutdown
  <2>1. PICK recs \in PassRecords(gmap) : disk' = disk \o recs
    BY <1>2 DEF Shutdown
  <2>2. Copies(recs, gmap) /\ NamesIn(recs) = ToSave(gmap) /\ Ended("down")
    BY <1>2, TableFacts, PassCopies DEF Shutdown
  <2> QED
    BY <2>1, <2>2, EndStep
<1>3. CASE Crash
  <2>1. Ended("down")
    BY <1>3 DEF Crash
  <2>2. CASE UNCHANGED <<disk, exists>>
    BY <2>1, <2>2, EndUnsaved
  <2>3. CASE ~UNCHANGED <<disk, exists>>
    <3>1. PICK recs \in PassRecords(gmap) : \E k \in 0..Len(recs) : disk' = disk \o SubSeq(recs, 1, k)
      BY <1>3, <2>3 DEF Crash, Reached
    <3>2. PICK k \in 0..Len(recs) : disk' = disk \o SubSeq(recs, 1, k)
      BY <3>1
    <3>3. Copies(recs, gmap) /\ NamesIn(recs) = ToSave(gmap) /\ gmap \in Tables
      BY TableFacts, PassCopies
    <3>4. /\ Copies(SubSeq(recs, 1, k), gmap)
          /\ NamesIn(SubSeq(recs, 1, k)) \subseteq ToSave(gmap)
      BY <3>3, PrefixCopies
    <3> QED
      BY <2>1, <3>2, <3>4, EndStep
  <2> QED
    BY <2>2, <2>3
<1> QED
  BY <1>1, <1>2, <1>3

LEMMA CrashInRestoreStep ==
  ASSUME NoArrays, IInv, CrashInRestore
  PROVE  \E L \in SUBSET Names : Store!EndInRestore(L)
<1> DEFINE t == Restored(gmap, disk)
<1>1. /\ t \in Tables /\ NumEntries(t)
      /\ \A n \in Created : t[n].val = IF Saved(disk, n) THEN LastVal(disk, n) ELSE gmap[n].val
      /\ \A n \in Names : n \in ToSave(t) <=>
           n \in Keep /\ (Saved(disk, n) \/ n \in ToSave(gmap))
  BY RestoredTable
<1>2. PICK recs \in PassRecords(t) : \E k \in 0..Len(recs) : disk' = SubSeq(recs, 1, k)
  BY DEF CrashInRestore
<1>3. PICK k \in 0..Len(recs) : disk' = SubSeq(recs, 1, k)
  BY <1>2
<1> HIDE DEF t
<1>4. Copies(disk', t) /\ NamesIn(disk') \subseteq ToSave(t)
  BY <1>1, <1>2, <1>3, PassCopies, PrefixCopies
<1> DEFINE L == Names \ NamesIn(disk')
           sto == StoredIn(disk)
<1>5. \A n \in Names : /\ sto[n] = Absent <=> ~Saved(disk, n)
                       /\ Saved(disk, n) => sto[n] = LastVal(disk, n)
  BY StoredType
<1>6. ASSUME NEW n \in Names
      PROVE  StoredIn(disk')[n] = IF n \in L THEN Absent
                                  ELSE IF n \notin Keep THEN Absent
                                  ELSE IF sto[n] = Absent /\ n \in ToSave(gmap)
                                  THEN Mem[n] ELSE sto[n]
  <2>1. StoredIn(disk')[n] = IF n \in NamesIn(disk') THEN t[n].val ELSE Absent
    BY <1>1, <1>4, StoredNew
  <2>2. CASE n \in L
    BY <2>1, <2>2
  <2>3. CASE n \notin L
    <3>1. n \in ToSave(t) /\ n \in Keep /\ (Saved(disk, n) \/ n \in ToSave(gmap))
      BY <1>1, <1>4, <2>3
    <3>2. n \in Created /\ Mem[n] = gmap[n].val
      BY <3>1, Mapped DEF Keep
    <3> HIDE DEF sto
    <3> QED
      BY <1>1, <1>5, <2>1, <2>3, <3>1, <3>2
  <2> QED
    BY <2>2, <2>3
<1>7. StoredIn(disk') = [n \in Names |-> IF n \in L THEN Absent
                                       ELSE IF n \notin Keep THEN Absent
                                       ELSE IF sto[n] = Absent /\ n \in ToSave(gmap)
                                       THEN Mem[n] ELSE sto[n]]
  BY <1>6 DEF StoredIn
<1> HIDE DEF L, sto
<1>8. Store!Rewritten = [n \in Names |-> IF n \notin Keep THEN Absent
                                        ELSE IF sto[n] = Absent /\ n \in ToSave(gmap)
                                        THEN Mem[n] ELSE sto[n]]
  BY DEF Store!Rewritten, Mem, Keep, StoredIn, sto
<1>9. Store!Gone("cut")
  BY GoneStep DEF CrashInRestore
<1>10. StoredIn(disk') = [n \in Names |-> IF n \in L THEN Absent ELSE Store!Rewritten[n]]
  BY <1>7, <1>8
<1>11. Store!EndInRestore(L)
  BY <1>9, <1>10 DEF Store!EndInRestore, StoredIn
<1>12. L \in SUBSET Names
  BY DEF L
<1> QED
  BY <1>11, <1>12

(* Every step of the table is one of the store, or changes nothing it sees.   *)
LEMMA StoreStep ==
  ASSUME NoArrays, IInv, [Next]_vars
  PROVE  [Store!Next]_(Store!svars)
<1>1. ASSUME NEW n \in Names, NEW v \in Values, NEW F \in SUBSET {"SAVE"}, NEW d \in BOOLEAN,
             NEW h \in Handles, VarCreate(n, v, F, d, h)
      PROVE  Store!Next
  BY <1>1, CreateStep DEF Store!Next
<1>2. ASSUME status = "up", Undefined \/ Shutdown \/ Crash
      PROVE  Store!Next
  BY <1>2, StopStep DEF Store!Next
<1>3. ASSUME NEW h \in issued, Request(h)
      PROVE  Store!Next
  <2>1. ASSUME status = "up", NEW n \in Created, NEW e \in Entry, Written(n, e)
        PROVE  Store!Next
    <3>1. n \in Names /\ e.val \in Values
      BY DEF Created, Entry
    <3> QED
      BY <2>1, <3>1, WriteStep DEF Store!Next
  <2>2. CASE status = "up" /\ Undefined
    BY <1>2, <2>2
  <2>3. CASE ~(status = "up" /\ Undefined)
    <3>1. status = "up" /\ \E n \in Created : \E e \in Entry : Written(n, e)
      BY <1>3, <2>3, RequestWrites
    <3> QED
      BY <2>1, <3>1
  <2> QED
    BY <2>2, <2>3
<1>4. ASSUME NEW n \in Names, NEW on \in BOOLEAN, VarTrack(n, on)
      PROVE  UNCHANGED Store!svars
  BY <1>4, TrackStep
<1>5. CASE VarSave \/ VarRestore
  BY <1>5, SaveStep, RestoreStep DEF Store!Next
<1>6. CASE VarRestoreAborts \/ VarRestoreUndefined
  BY <1>6, RestoredTable, TableFacts
     DEF VarRestoreAborts, Unreadable, VarRestoreUndefined, NoArrays, Created
<1>7. CASE CrashInRestore
  BY <1>7, CrashInRestoreStep DEF Store!Next
<1>8. CASE Start \/ UNCHANGED vars
  BY <1>8, StartStep DEF Store!Next
<1>9. CASE Shutdown \/ Crash
  BY <1>2, <1>9 DEF Shutdown, Crash
<1> QED
  BY <1>1, <1>2, <1>3, <1>4, <1>5, <1>6, <1>7, <1>8, <1>9 DEF Next

(* For every set of variables that are numbers and strings, the table with    *)
(* its append-only file, in which the last record of a name wins and a kill   *)
(* may cut any pass short, behaves as a store that keeps values (DsvStore).   *)
THEOREM StoreImplemented ==
  ASSUME NoArrays
  PROVE  Spec => StoreSpec
<1>1. Init => Store!Init
  BY InitStep
<1>2. IInv /\ [Next]_vars => [Store!Next]_(Store!svars)
  BY StoreStep
<1> QED
  BY <1>1, <1>2, Invariance, PTL DEF Spec, StoreSpec, Store!Spec
=============================================================================
