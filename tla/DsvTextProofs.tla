---------------------------- MODULE DsvTextProofs ----------------------------
(***************************************************************************)
(* Texts that are written and read again.                                  *)
(*                                                                         *)
(* The save file.  A restore moves on through the file, whatever it holds, *)
(* unless a record is torn; from a sound file it brings back the last      *)
(* value of every name; and an entry that was written and is not marked is *)
(* in the file.                                                            *)
(*                                                                         *)
(* The first argument: a file that is whole ends with ';', so from any     *)
(* place in it there is one ahead; find returns a position that is not     *)
(* behind the place it starts from, and the round goes on beyond it.       *)
(*                                                                         *)
(* The second: a sound file is a text in which every start (the beginning, *)
(* and the place after each ';') has a record, and `last' is what the last *)
(* start of each name says (SoundText).  A pass of var_save appends        *)
(* records, one by one, which keeps that; a round of var_restore reads the *)
(* record at its place and goes to the next start, so what the entries say *)
(* is what the records before the place say (ScanSays).  So the characters *)
(* implement the store of DsvStore (DsvFileStore), a restore being one     *)
(* step of it.                                                             *)
(*                                                                         *)
(* Arrays.  Memory beyond a buffer is used only for what does not fit, and *)
(* what was printed reads back the same.  The argument: while an array is  *)
(* printed, rc is what its elements so far need (Bytes), and every byte of *)
(* theirs before the last of the buffer is in its place (Printing); what   *)
(* strtok finds in such a text (Found) is the array, element by element    *)
(* (ElementFound, TokensBack).  What is needed and what is found are       *)
(* recursions, which RecursionExists solves.                               *)
(***************************************************************************)
EXTENDS DsvFileStore, DsvArrayText, FiniteSetTheorems, WellFoundedInduction, TLAPS

\* A set of positions has a first one (std::string::find): the elements up to
\* it are the fewest.
LEMMA MinInSet ==
  ASSUME NEW S \in SUBSET Nat, S # {}
  PROVE  Min(S) \in S /\ (\A y \in S : Min(S) <= y)
<1> DEFINE UpTo(x) == {y \in S : y <= x}
           T == {UpTo(x) : x \in S}
<1>0. \A y \in S : y \in Nat
  OBVIOUS
<1>1. IsWellFoundedOn(StrictSubsetOrdering(Nat), FiniteSubsetsOf(Nat))
  BY FS_StrictSubsetOrderingWellFounded
<1>2. T \subseteq FiniteSubsetsOf(Nat)
  <2> SUFFICES ASSUME NEW x \in S
               PROVE  UpTo(x) \in SUBSET Nat /\ IsFiniteSet(UpTo(x))
    BY DEF FiniteSubsetsOf
  <2>1. UpTo(x) \subseteq 0..x /\ x \in Nat
    <3>1. \A y \in S : y <= x => y \in 0..x
      BY <1>0
    <3> QED BY <1>0, <3>1
  <2>2. IsFiniteSet(0..x)
    BY <2>1, FS_Interval
  <2> QED
    BY <2>1, <2>2, FS_Subset
<1>3. T # {}
  OBVIOUS
<1> HIDE DEF T
<1>4. PICK U \in T : \A V \in T : ~ (<<V, U>> \in StrictSubsetOrdering(Nat))
  BY <1>1, <1>2, <1>3, WFMin
<1>5. PICK x \in S : U = UpTo(x)
  BY DEF T
<1>6. \A y \in S : x <= y
  <2> SUFFICES ASSUME NEW y \in S, y < x
               PROVE  FALSE
    BY <1>0
  <2>1. UpTo(y) \in T
    BY DEF T
  <2>2. UpTo(y) \subseteq UpTo(x) /\ x \in UpTo(x) /\ x \notin UpTo(y)
    <3>1. \A z \in S : z <= y => z <= x
      BY <1>0
    <3>2. x <= x /\ ~ (x <= y)
      BY <1>0
    <3> QED BY <3>1, <3>2
  <2>3. UpTo(y) \in SUBSET Nat /\ UpTo(x) \in SUBSET Nat
    OBVIOUS
  <2> HIDE DEF UpTo
  <2>4. <<UpTo(y), UpTo(x)>> \in StrictSubsetOrdering(Nat)
    BY <2>2, <2>3 DEF StrictSubsetOrdering
  <2> QED
    BY <1>4, <1>5, <2>1, <2>4
<1> QED
  BY <1>6 DEF Min

\* The place in the file is a natural number, and the file has an end.
ScanPlace == out \in Nat /\ Len(text) \in Nat

\* What find finds is not behind p, and it finds what is ahead.
LEMMA FindAhead ==
  ASSUME NEW c, NEW p \in Nat, Len(text) \in Nat
  PROVE  /\ Find(c, p) = -1 \/ (Find(c, p) \in Nat /\ Find(c, p) >= p)
         /\ \A i \in p..Len(text) - 1 : text[i + 1] = c => Find(c, p) # -1
         /\ Find(c, p) # -1 => Find(c, p) < Len(text) /\ text[Find(c, p) + 1] = c
         /\ \A i \in p..Len(text) - 1 : text[i + 1] = c => Find(c, p) <= i
<1> DEFINE hits == {i \in p..Len(text) - 1 : text[i + 1] = c}
<1>1. \A i \in hits : i \in Nat /\ i >= p
  OBVIOUS
<1>2. hits # {} => Min(hits) \in hits /\ (\A i \in hits : Min(hits) <= i)
  BY <1>1, MinInSet
<1>3. Find(c, p) = IF hits = {} THEN -1 ELSE Min(hits)
  BY DEF Find
<1>4. \A i \in p..Len(text) - 1 : text[i + 1] = c => i \in hits
  OBVIOUS
<1>7. \A i \in hits : i < Len(text) /\ text[i + 1] = c
  OBVIOUS
<1> HIDE DEF hits
<1>5. hits # {} => Find(c, p) \in Nat /\ Find(c, p) >= p
  BY <1>1, <1>2, <1>3
<1>6. -1 \notin Nat
  OBVIOUS
<1> QED
  BY <1>2, <1>3, <1>4, <1>5, <1>6, <1>7

LEMMA InitPlace == FileInit => ScanPlace
BY DEF FileInit, ScanPlace

\* The place after a round of the loop.
LEMMA RoundPlace ==
  ASSUME ScanPlace, ScanRecord
  PROVE  out' \in Nat /\ (Whole => out' > out)
<1>1. out \in Nat /\ Len(text) \in Nat /\ out < Len(text)
  BY DEF ScanPlace, ScanRecord
<1>2. SemiPos = -1 \/ (SemiPos \in Nat /\ SemiPos >= out)
  BY <1>1, FindAhead DEF SemiPos
<1>3. out' = SemiPos + 1
  BY DEF ScanRecord, Skipped
<1>4. Whole => SemiPos # -1
  <2> SUFFICES ASSUME Whole PROVE SemiPos # -1
    OBVIOUS
  <2>1. text[Len(text)] = ";"
    <3>1. Len(<<>>) = 0
      OBVIOUS
    <3>2. text # <<>>
      BY <1>1, <3>1
    <3> QED BY <3>2 DEF Whole, Last
  <2>2. Len(text) - 1 \in out..Len(text) - 1 /\ text[(Len(text) - 1) + 1] = ";"
    <3>1. Len(text) - 1 \in out..Len(text) - 1 /\ (Len(text) - 1) + 1 = Len(text)
      BY <1>1
    <3> QED BY <2>1, <3>1
  <2> QED
    BY <1>1, <2>2, FindAhead DEF SemiPos
<1> QED
  BY <1>1, <1>2, <1>3, <1>4

LEMMA NextPlace ==
  ASSUME ScanPlace, [FileNext]_fvars
  PROVE  ScanPlace'
<1> USE DEF ScanPlace
<1>1. ASSUME NEW n \in Names, NEW d \in BOOLEAN, FileCreate(n, d) PROVE ScanPlace'
  BY <1>1 DEF FileCreate, Put
<1>2. ASSUME NEW n \in Names, NEW v \in Contents, NEW ended \in BOOLEAN,
             FileSet(n, v, ended)
      PROVE  ScanPlace'
  BY <1>2 DEF FileSet, Put
<1>3. ASSUME FileSave PROVE ScanPlace'
  <2>1. UNCHANGED out /\ Len(text') \in 0..MaxText
    BY <1>3, Zenon DEF FileSave, Append2File
  <2> QED BY <2>1
<1>4. ASSUME FileSaveFails PROVE ScanPlace'
  BY <1>4 DEF FileSaveFails, fvars
<1>5. ASSUME FileRestore PROVE ScanPlace'
  BY <1>5 DEF FileRestore
<1>6. ASSUME ScanRecord PROVE ScanPlace'
  <2>1. UNCHANGED text
    BY <1>6 DEF ScanRecord
  <2> QED BY <1>6, <2>1, RoundPlace
<1>7. ASSUME RestoreDone PROVE ScanPlace'
  <2>1. UNCHANGED out /\ Len(text') \in 0..MaxText
    BY <1>7, Zenon DEF RestoreDone, Append2File
  <2> QED BY <2>1
<1>8. ASSUME FileKill PROVE ScanPlace'
  <2>1. out' = 0 /\ (UNCHANGED text \/ Len(text') \in 0..MaxText)
    BY <1>8, Zenon DEF FileKill, AppendCut
  <2> QED BY <2>1
<1>9. ASSUME FileStart PROVE ScanPlace'
  BY <1>9 DEF FileStart
<1>10. ASSUME UNCHANGED fvars PROVE ScanPlace'
  BY <1>10 DEF fvars
<1> QED
  BY <1>1, <1>2, <1>3, <1>4, <1>5, <1>6, <1>7, <1>8, <1>9, <1>10 DEF FileNext

\* A step inside a restore is a round of its loop.
LEMMA ScanStep ==
  ASSUME FileNext, pc = "scan", pc' = "scan"
  PROVE  ScanRecord
<1>1. ~ FileRestore /\ ~ FileSave /\ ~ FileSaveFails /\ ~ RestoreDone /\ ~ FileKill /\ ~ FileStart
  BY DEF FileRestore, FileSave, FileSaveFails, RestoreDone, FileKill, FileStart
<1>2. \A n \in Names, d \in BOOLEAN : ~ FileCreate(n, d)
  BY DEF FileCreate, Put
<1>3. \A n \in Names, v \in Contents, ended \in BOOLEAN : ~ FileSet(n, v, ended)
  BY DEF FileSet, Put
<1> QED
  BY <1>1, <1>2, <1>3 DEF FileNext

\* Whatever names and values the file of any length holds, each round of a
\* restore moves on, unless a record is torn (var_restore).
THEOREM RestoreMovesOn == FileSpec => ScanAdvances
<1>1. ScanPlace /\ [FileNext]_fvars => [pc = "scan" /\ pc' = "scan" /\ Whole => out' > out]_fvars
  BY ScanStep, RoundPlace
<1> QED
  BY <1>1, InitPlace, NextPlace, PTL DEF FileSpec, ScanAdvances

-----------------------------------------------------------------------------
(* A pass of var_save appends the records one after the other.             *)

\* What holds of 0, and of k + 1 when it holds of k, holds of every number.
LEMMA AllNumbers ==
  ASSUME NEW S \in SUBSET Nat, 0 \in S, \A k \in S : k + 1 \in S
  PROVE  S = Nat
<1> SUFFICES ASSUME Nat \ S # {} PROVE FALSE
  OBVIOUS
<1>1. PICK m \in Nat \ S : \A k \in Nat \ S : m <= k
  BY MinInSet
<1>2. m # 0 /\ m - 1 \in Nat /\ ~ (m <= m - 1)
  OBVIOUS
<1>3. m - 1 \in S
  BY <1>1, <1>2
<1>4. (m - 1) + 1 = m
  OBVIOUS
<1> QED
  BY <1>3, <1>4

\* f holds what the parts of s up to each place make together.
Joins(f, s) == f = [i \in 1..Len(s) |-> IF i = 1 THEN s[i] ELSE f[i - 1] \o s[i]]

LEMMA JoinsUnique ==
  ASSUME NEW s, Len(s) \in Nat, NEW f, NEW g, Joins(f, s), Joins(g, s)
  PROVE  f = g
<1> DEFINE Same == {i \in Nat : i + 1 \in 1..Len(s) => f[i + 1] = g[i + 1]}
<1>1. \A i \in 1..Len(s) : /\ f[i] = IF i = 1 THEN s[i] ELSE f[i - 1] \o s[i]
                           /\ g[i] = IF i = 1 THEN s[i] ELSE g[i - 1] \o s[i]
  BY DEF Joins
<1>2. 0 \in Same
  BY <1>1
<1>3. \A k \in Same : k + 1 \in Same
  <2> SUFFICES ASSUME NEW k \in Same, (k + 1) + 1 \in 1..Len(s)
               PROVE  f[(k + 1) + 1] = g[(k + 1) + 1]
    OBVIOUS
  <2>1. k + 1 \in 1..Len(s) /\ (k + 1) + 1 # 1 /\ ((k + 1) + 1) - 1 = k + 1
    OBVIOUS
  <2>2. f[k + 1] = g[k + 1]
    BY <2>1
  <2> QED
    BY <1>1, <2>1, <2>2
<1>4. Same = Nat
  <2> HIDE DEF Same
  <2>1. Same \in SUBSET Nat
    BY DEF Same
  <2> QED BY <1>2, <1>3, <2>1, AllNumbers
<1>5. \A i \in 1..Len(s) : f[i] = g[i]
  <2> TAKE i \in 1..Len(s)
  <2>1. i - 1 \in Nat /\ (i - 1) + 1 = i
    OBVIOUS
  <2> QED BY <1>4, <2>1
<1> QED
  BY <1>5 DEF Joins

LEMMA JoinsExtend ==
  ASSUME NEW A, NEW s \in Seq(A), NEW x \in A, NEW f, Joins(f, s)
  PROVE  Joins([i \in 1..Len(s) + 1 |->
                  IF i <= Len(s) THEN f[i]
                  ELSE IF i = 1 THEN x ELSE f[i - 1] \o x], Append(s, x))
<1> DEFINE t == Append(s, x)
           g == [i \in 1..Len(s) + 1 |->
                   IF i <= Len(s) THEN f[i] ELSE IF i = 1 THEN x ELSE f[i - 1] \o x]
<1>1. /\ Len(s) \in Nat /\ Len(t) = Len(s) + 1 /\ t[Len(s) + 1] = x
      /\ \A i \in 1..Len(s) : t[i] = s[i]
  OBVIOUS
<1> HIDE DEF t
<1>2. \A i \in 1..Len(s) : f[i] = IF i = 1 THEN s[i] ELSE f[i - 1] \o s[i]
  BY DEF Joins
<1>3. ASSUME NEW i \in 1..Len(s) + 1
      PROVE  g[i] = IF i = 1 THEN t[i] ELSE g[i - 1] \o t[i]
  <2>1. CASE i \in 1..Len(s)
    <3>1. i # 1 => i - 1 \in 1..Len(s) + 1 /\ i - 1 <= Len(s)
      BY <2>1, <1>1
    <3>2. g[i] = f[i] /\ (i # 1 => g[i - 1] = f[i - 1])
      BY <2>1, <3>1, <1>1
    <3> QED BY <2>1, <3>2, <1>1, <1>2
  <2>2. CASE i = Len(s) + 1
    <3>1. ~ (i <= Len(s)) /\ (i # 1 => i - 1 \in 1..Len(s) + 1 /\ i - 1 <= Len(s))
      BY <2>2, <1>1
    <3>2. g[i] = (IF i = 1 THEN x ELSE f[i - 1] \o x) /\ (i # 1 => g[i - 1] = f[i - 1])
      BY <3>1
    <3>3. t[i] = x
      BY <2>2, <1>1
    <3> QED BY <3>2, <3>3
  <2> QED
    BY <2>1, <2>2, <1>1
<1>4. g = [i \in 1..Len(t) |-> IF i = 1 THEN t[i] ELSE g[i - 1] \o t[i]]
  BY <1>1, <1>3
<1>5. Joins(g, t)
  <2> HIDE DEF g
  <2> QED BY <1>4 DEF Joins
<1> QED
  BY <1>5 DEF t

LEMMA JoinsExists ==
  ASSUME NEW A, NEW s \in Seq(A)
  PROVE  \E f : Joins(f, s)
<1> DEFINE Good == {k \in Nat : \A t \in Seq(A) : Len(t) = k => \E f : Joins(f, t)}
<1>1. 0 \in Good
  <2> SUFFICES ASSUME NEW t \in Seq(A), Len(t) = 0 PROVE \E f : Joins(f, t)
    OBVIOUS
  <2> DEFINE f == [i \in 1..0 |-> t[i]]
  <2>1. f = [i \in 1..Len(t) |-> IF i = 1 THEN t[i] ELSE f[i - 1] \o t[i]]
    OBVIOUS
  <2>2. Joins(f, t)
    <3> HIDE DEF f
    <3> QED BY <2>1 DEF Joins
  <2> QED BY <2>2
<1>2. \A k \in Good : k + 1 \in Good
  <2> SUFFICES ASSUME NEW k \in Good PROVE k + 1 \in Good
    OBVIOUS
  <2> SUFFICES ASSUME NEW t \in Seq(A), Len(t) = k + 1
               PROVE  \E f : Joins(f, t)
    OBVIOUS
  <2> DEFINE u == SubSeq(t, 1, k)
             x == t[k + 1]
  <2>1. u \in Seq(A) /\ Len(u) = k /\ x \in A /\ t = Append(u, x)
    OBVIOUS
  <2>2. PICK f : Joins(f, u)
    BY <2>1
  <2> HIDE DEF u, x
  <2> QED
    BY <2>1, <2>2, JoinsExtend
<1>3. Good = Nat
  <2>1. Good \in SUBSET Nat
    OBVIOUS
  <2> HIDE DEF Good
  <2> QED BY <1>1, <1>2, <2>1, AllNumbers
<1>4. Len(s) \in Good
  <2>1. Len(s) \in Nat
    OBVIOUS
  <2> QED BY <1>3, <2>1
<1> QED
  BY <1>4

\* What FlattenSeq makes of a sequence that is one part longer.
LEMMA FlattenAppend ==
  ASSUME NEW C, NEW s \in Seq(Seq(C)), NEW x \in Seq(C), FlattenSeq(s) \in Seq(C)
  PROVE  FlattenSeq(Append(s, x)) = FlattenSeq(s) \o x
<1>1. Len(s) \in Nat /\ Append(s, x) \in Seq(Seq(C)) /\ Len(Append(s, x)) = Len(s) + 1
  OBVIOUS
<1>2. PICK f : Joins(f, s)
  BY JoinsExists
<1> DEFINE g == [i \in 1..Len(s) + 1 |->
                   IF i <= Len(s) THEN f[i] ELSE IF i = 1 THEN x ELSE f[i - 1] \o x]
<1>3. Joins(g, Append(s, x))
  BY <1>2, JoinsExtend
<1>4. FlattenSeq(Append(s, x)) = g[Len(s) + 1]
  <2> HIDE DEF g
  <2>0. Len(Append(s, x)) \in Nat
    BY <1>1
  <2>1. \A h : Joins(h, Append(s, x)) <=> h = g
    <3> HIDE DEF Joins
    <3> SUFFICES ASSUME NEW h, Joins(h, Append(s, x)) PROVE h = g
      BY <1>3
    <3> QED BY <1>3, <2>0, JoinsUnique
  <2>2. (CHOOSE h : Joins(h, Append(s, x))) = g
    BY <2>1
  <2>3. FlattenSeq(Append(s, x)) = (CHOOSE h : Joins(h, Append(s, x)))[Len(Append(s, x))]
    <3>1. Len(Append(s, x)) # 0
      BY <1>1
    <3> QED BY <3>1 DEF FlattenSeq, Joins
  <2> QED BY <1>1, <2>2, <2>3
<1>5. CASE Len(s) = 0
  <2>1. FlattenSeq(s) = << >>
    BY <1>5 DEF FlattenSeq
  <2>2. g[Len(s) + 1] = x
    BY <1>5
  <2> QED BY <1>4, <2>1, <2>2
<1>6. CASE Len(s) # 0
  <2>1. FlattenSeq(s) = f[Len(s)]
    <3>1. \A h : Joins(h, s) <=> h = f
      BY <1>1, <1>2, JoinsUnique
    <3>2. (CHOOSE h : Joins(h, s)) = f
      BY <3>1
    <3>3. FlattenSeq(s) = (CHOOSE h : Joins(h, s))[Len(s)]
      BY <1>6 DEF FlattenSeq, Joins
    <3> QED BY <3>2, <3>3
  <2>2. g[Len(s) + 1] = f[Len(s)] \o x
    <3>1. Len(s) + 1 \in 1..Len(s) + 1 /\ ~ (Len(s) + 1 <= Len(s)) /\ Len(s) + 1 # 1
          /\ (Len(s) + 1) - 1 = Len(s)
      BY <1>1, <1>6
    <3> QED BY <3>1
  <2> QED BY <1>4, <2>1, <2>2
<1> QED
  BY <1>5, <1>6

-----------------------------------------------------------------------------
(* What a text says.  A record starts at the beginning of the text and      *)
(* after every ';'; none that was written with a plain value has a ';' but  *)
(* its last character, so the starts are the starts of what was written.    *)

Eq == "="
Semi == ";"
Chars == Names \cup {"=", ";"} \cup UNION {Range(v) : v \in Contents}

LEMMA CharFacts ==
  /\ Names \subseteq Chars /\ Eq \in Chars /\ Semi \in Chars /\ Eq # Semi
  /\ Eq \notin Names /\ Semi \notin Names
  /\ Contents \subseteq Seq(Chars) /\ NoValue \notin Seq(Chars)
  /\ MaxLen \in Nat /\ IsFiniteSet(Names) /\ Kept \subseteq Names
BY FileAssumption DEF Chars, Eq, Semi

Start(t, p) == p \in 0..Len(t) - 1 /\ (p = 0 \/ t[p] = Semi)

\* At p there is the record of n with the value v.
RecordAt(t, p, n, v) ==
  /\ p + 3 + Len(v) <= Len(t)
  /\ t[p + 1] = n /\ t[p + 2] = Eq /\ t[p + 3 + Len(v)] = Semi
  /\ \A i \in 1..Len(v) : t[p + 2 + i] = v[i] /\ v[i] # Semi

Ended(t) == Len(t) # 0 => t[Len(t)] = Semi
AllRecords(t) == \A p \in Nat : Start(t, p) =>
                   \E n \in Names, v \in Seq(Chars) : RecordAt(t, p, n, v)

\* Before the place e, the last record of n has the value v.
LastBefore(t, e, n, v) ==
  \E p \in Nat : /\ Start(t, p) /\ p < e /\ RecordAt(t, p, n, v)
                 /\ \A q \in Nat : Start(t, q) /\ p < q /\ q < e => t[q + 1] # n

NoneBefore(t, e, n) == \A q \in Nat : Start(t, q) /\ q < e => t[q + 1] # n

\* The text says l: for each name its last record, or that there is none.
Says(t, l) ==
  \A n \in Names :
    \/ l[n] = NoValue /\ NoneBefore(t, Len(t), n)
    \/ l[n] \in Seq(Chars) /\ LastBefore(t, Len(t), n, l[n])

SoundText(t, l) == Ended(t) /\ AllRecords(t) /\ Says(t, l)

Rec(n, v) == <<n, Eq>> \o v \o <<Semi>>

\* The empty text says that there is no record.
LEMMA EmptySound == << >> \in Seq(Chars) /\ SoundText(<< >>, NoRecords)
<1>1. ASSUME NEW t, Len(t) = 0, NEW p \in Nat PROVE ~ Start(t, p)
  BY <1>1 DEF Start
<1>2. Len(<< >>) = 0 /\ << >> \in Seq(Chars)
  OBVIOUS
<1> QED
  BY <1>1, <1>2 DEF SoundText, Ended, AllRecords, Says, NoneBefore, NoRecords

\* Two elements, a sequence and an element.
LEMMA Between ==
  ASSUME NEW A, NEW v \in Seq(A), NEW a \in A, NEW b \in A, NEW c \in A
  PROVE  LET r == <<a, b>> \o v \o <<c>>
         IN  /\ r \in Seq(A) /\ Len(r) = 3 + Len(v) /\ r[1] = a /\ r[2] = b
             /\ r[3 + Len(v)] = c
             /\ \A i \in 1..Len(v) : r[2 + i] = v[i]
<1> DEFINE w == <<a, b>> \o v
           r == w \o <<c>>
<1>1. w \in Seq(A) /\ Len(w) = 2 + Len(v) /\ w[1] = a /\ w[2] = b
      /\ \A i \in 1..Len(v) : w[2 + i] = v[i]
  OBVIOUS
<1> HIDE DEF w
<1>2. /\ r \in Seq(A) /\ Len(r) = Len(w) + 1 /\ r[Len(w) + 1] = c
      /\ \A i \in 1..Len(w) : r[i] = w[i]
  BY <1>1
<1>3. Len(v) \in Nat /\ Len(w) \in Nat
  BY <1>1
<1>4. 1 \in 1..Len(w) /\ 2 \in 1..Len(w) /\ \A i \in 1..Len(v) : 2 + i \in 1..Len(w)
  BY <1>1, <1>3
<1>5. Len(w) + 1 = 3 + Len(v)
  BY <1>1, <1>3
<1> HIDE DEF r
<1>6. /\ r \in Seq(A) /\ Len(r) = 3 + Len(v) /\ r[1] = a /\ r[2] = b
      /\ r[3 + Len(v)] = c
      /\ \A i \in 1..Len(v) : r[2 + i] = v[i]
  BY <1>1, <1>2, <1>4, <1>5
<1> QED
  BY <1>6 DEF r, w

\* u is t with one more record: its characters.
Added(t, n, v, u) ==
  /\ u \in Seq(Chars) /\ Len(u) = Len(t) + 3 + Len(v)
  /\ \A i \in 1..Len(t) : u[i] = t[i]
  /\ u[Len(t) + 1] = n /\ u[Len(t) + 2] = Eq
  /\ u[Len(t) + 3 + Len(v)] = Semi
  /\ \A i \in 1..Len(v) : u[Len(t) + 2 + i] = v[i]

LEMMA RecordChars ==
  ASSUME NEW t \in Seq(Chars), NEW n \in Names, NEW v \in Seq(Chars)
  PROVE  Added(t, n, v, t \o Rec(n, v))
<1> DEFINE r == Rec(n, v)
           u == t \o r
<1>1. n \in Chars /\ Eq \in Chars /\ Semi \in Chars
  BY CharFacts
<1>4. Len(v) \in Nat /\ Len(t) \in Nat
  OBVIOUS
<1>5. /\ r \in Seq(Chars) /\ Len(r) = 3 + Len(v) /\ r[1] = n /\ r[2] = Eq
      /\ r[3 + Len(v)] = Semi
      /\ \A i \in 1..Len(v) : r[2 + i] = v[i]
  BY <1>1, Between DEF Rec
<1> HIDE DEF r
<1>7. /\ u \in Seq(Chars) /\ Len(u) = Len(t) + Len(r)
      /\ \A i \in 1..Len(t) : u[i] = t[i]
      /\ \A i \in 1..Len(r) : u[Len(t) + i] = r[i]
  <2>1. r \in Seq(Chars)
    BY <1>5
  <2>2. t \o r \in Seq(Chars) /\ Len(t \o r) = Len(t) + Len(r)
    BY <2>1
  <2>3. \A i \in 1..Len(t) : (t \o r)[i] = t[i]
    BY <2>1
  <2>4. \A i \in 1..Len(r) : (t \o r)[Len(t) + i] = r[i]
    BY <2>1
  <2> QED BY <2>2, <2>3, <2>4
<1>8. /\ 1 \in 1..Len(r) /\ 2 \in 1..Len(r) /\ 3 + Len(v) \in 1..Len(r)
      /\ \A i \in 1..Len(v) : 2 + i \in 1..Len(r)
  BY <1>4, <1>5
<1>9. /\ Len(t) + (3 + Len(v)) = Len(t) + 3 + Len(v)
      /\ \A i \in 1..Len(v) : Len(t) + (2 + i) = Len(t) + 2 + i
  BY <1>4
<1> HIDE DEF u
<1>10. Added(t, n, v, u)
  BY <1>4, <1>5, <1>7, <1>8, <1>9 DEF Added
<1> QED
  BY <1>10 DEF u, r

\* The starts of a text with one more record are those it had and its end.
LEMMA RecordStarts ==
  ASSUME NEW t \in Seq(Chars), NEW n \in Names, NEW v \in Seq(Chars), NEW u,
         Added(t, n, v, u), Ended(t), \A i \in 1..Len(v) : v[i] # Semi
  PROVE  /\ \A p \in Nat : Start(u, p) <=> Start(t, p) \/ p = Len(t)
         /\ RecordAt(u, Len(t), n, v)
         /\ \A p \in Nat, m \in Names, x \in Seq(Chars) : RecordAt(t, p, m, x) => RecordAt(u, p, m, x)
         /\ \A p \in Nat : Start(t, p) => u[p + 1] = t[p + 1] /\ p < Len(t)
<1>1. /\ u \in Seq(Chars) /\ Len(u) = Len(t) + 3 + Len(v)
      /\ \A i \in 1..Len(t) : u[i] = t[i]
      /\ u[Len(t) + 1] = n /\ u[Len(t) + 2] = Eq /\ u[Len(t) + 3 + Len(v)] = Semi
      /\ \A i \in 1..Len(v) : u[Len(t) + 2 + i] = v[i]
  BY DEF Added
<1>2. Len(t) \in Nat /\ Len(v) \in Nat /\ n # Semi
  BY CharFacts
<1>3. ASSUME NEW p \in Nat, Start(t, p) PROVE Start(u, p)
  <2>1. p \in 0..Len(t) - 1 /\ (p = 0 \/ t[p] = Semi)
    BY <1>3 DEF Start
  <2>2. p \in 0..Len(u) - 1 /\ (p # 0 => p \in 1..Len(t))
    BY <1>1, <1>2, <2>1
  <2> QED BY <1>1, <2>1, <2>2 DEF Start
<1>4. Start(u, Len(t))
  <2>1. Len(t) \in 0..Len(u) - 1 /\ (Len(t) # 0 => Len(t) \in 1..Len(t))
    BY <1>1, <1>2
  <2>2. Len(t) = 0 \/ u[Len(t)] = Semi
    BY <1>1, <2>1 DEF Ended
  <2> QED BY <2>1, <2>2 DEF Start
<1>5. ASSUME NEW p \in Nat, Start(u, p), p # Len(t) PROVE Start(t, p)
  <2>1. p \in 0..Len(u) - 1 /\ (p = 0 \/ u[p] = Semi)
    BY <1>5 DEF Start
  <2>2. CASE p < Len(t)
    <3>1. p \in 0..Len(t) - 1 /\ (p # 0 => p \in 1..Len(t))
      BY <1>2, <2>2
    <3> QED BY <1>1, <2>1, <3>1 DEF Start
  <2>3. CASE p > Len(t)
    <3> DEFINE i == p - (Len(t) + 2)
    <3>1. /\ p # 0 /\ p < Len(t) + 3 + Len(v)
          /\ p = Len(t) + 1 \/ p = Len(t) + 2 \/ p > Len(t) + 2
          /\ p = Len(t) + 2 + i
      <4>1. p < Len(t) + 3 + Len(v)
        BY <1>1, <1>2, <2>1
      <4> QED BY <1>2, <2>3, <4>1
    <3>4. p > Len(t) + 2 => i \in 1..Len(v)
      BY <1>2, <3>1
    <3> HIDE DEF i
    <3>2. u[p] # Semi
      <4>1. CASE p = Len(t) + 1
        BY <1>1, <1>2, <4>1
      <4>2. CASE p = Len(t) + 2
        BY <1>1, <4>2, CharFacts
      <4>3. CASE p > Len(t) + 2
        <5>1. u[Len(t) + 2 + i] = v[i] /\ v[i] # Semi
          BY <1>1, <3>4, <4>3
        <5> QED BY <3>1, <5>1
      <4> QED BY <3>1, <4>1, <4>2, <4>3
    <3> QED BY <2>1, <3>1, <3>2
  <2> QED
    BY <1>2, <1>5, <2>2, <2>3
<1>6. RecordAt(u, Len(t), n, v)
  <2>1. Len(t) + 3 + Len(v) <= Len(u)
    BY <1>1, <1>2
  <2> QED BY <1>1, <2>1 DEF RecordAt
<1>7. ASSUME NEW p \in Nat, NEW m \in Names, NEW x \in Seq(Chars), RecordAt(t, p, m, x)
      PROVE  RecordAt(u, p, m, x)
  <2>1. Len(x) \in Nat /\ p + 3 + Len(x) <= Len(t)
    BY <1>7 DEF RecordAt
  <2>2. /\ p + 3 + Len(x) <= Len(u)
        /\ p + 1 \in 1..Len(t) /\ p + 2 \in 1..Len(t) /\ p + 3 + Len(x) \in 1..Len(t)
        /\ \A i \in 1..Len(x) : p + 2 + i \in 1..Len(t)
    <3>1. p + 3 + Len(x) <= Len(u)
      BY <1>1, <1>2, <2>1
    <3>2. p + 1 \in 1..Len(t) /\ p + 2 \in 1..Len(t) /\ p + 3 + Len(x) \in 1..Len(t)
      BY <1>2, <2>1
    <3>3. \A i \in 1..Len(x) : p + 2 + i \in 1..Len(t)
      BY <1>2, <2>1
    <3> QED BY <3>1, <3>2, <3>3
  <2> QED BY <1>1, <1>7, <2>2 DEF RecordAt
<1>8. ASSUME NEW p \in Nat, Start(t, p) PROVE u[p + 1] = t[p + 1] /\ p < Len(t)
  <2>1. p \in 0..Len(t) - 1
    BY <1>8 DEF Start
  <2>2. p + 1 \in 1..Len(t) /\ p < Len(t)
    BY <1>2, <2>1
  <2> QED BY <1>1, <2>2
<1> QED
  BY <1>3, <1>4, <1>5, <1>6, <1>7, <1>8

NoSemi(v) == \A i \in 1..Len(v) : v[i] # Semi
Updated(k, l, n, v) == \A m \in Names : k[m] = IF m = n THEN v ELSE l[m]

\* A record more: the text says its value for its name.
LEMMA RecordAppended ==
  ASSUME NEW t \in Seq(Chars), NEW l, SoundText(t, l),
         NEW n \in Names, NEW v \in Seq(Chars), NoSemi(v),
         NEW k, Updated(k, l, n, v)
  PROVE  SoundText(t \o Rec(n, v), k)
<1> DEFINE u == t \o Rec(n, v)
<1>0. Ended(t) /\ AllRecords(t) /\ Says(t, l)
  BY DEF SoundText
<1>8. Added(t, n, v, u)
  BY RecordChars
<1> HIDE DEF u
<1>1. /\ Len(u) = Len(t) + 3 + Len(v) /\ u[Len(t) + 3 + Len(v)] = Semi
      /\ u[Len(t) + 1] = n
  BY <1>8 DEF Added
<1>2. /\ \A p \in Nat : Start(u, p) <=> Start(t, p) \/ p = Len(t)
      /\ RecordAt(u, Len(t), n, v)
      /\ \A p \in Nat, m \in Names, x \in Seq(Chars) : RecordAt(t, p, m, x) => RecordAt(u, p, m, x)
      /\ \A p \in Nat : Start(t, p) => u[p + 1] = t[p + 1] /\ p < Len(t)
  BY <1>0, <1>8, RecordStarts DEF NoSemi
<1>3. Len(t) \in Nat /\ Len(v) \in Nat
  OBVIOUS
<1>4. Ended(u)
  BY <1>1 DEF Ended
<1>5. AllRecords(u)
  <2> SUFFICES ASSUME NEW p \in Nat, Start(u, p)
               PROVE  \E m \in Names, x \in Seq(Chars) : RecordAt(u, p, m, x)
    BY DEF AllRecords
  <2>1. CASE p = Len(t)
    BY <1>2, <2>1
  <2>2. CASE p # Len(t)
    <3>1. PICK m \in Names, x \in Seq(Chars) : RecordAt(t, p, m, x)
      BY <1>0, <1>2, <2>2 DEF AllRecords
    <3> QED BY <1>2, <3>1
  <2> QED BY <2>1, <2>2
<1>6. Len(t) < Len(u)
  BY <1>1, <1>3
<1>9. \A m \in Names : k[m] = IF m = n THEN v ELSE l[m]
  BY DEF Updated
<1>7. ASSUME NEW m \in Names
      PROVE  \/ k[m] = NoValue /\ NoneBefore(u, Len(u), m)
             \/ k[m] \in Seq(Chars) /\ LastBefore(u, Len(u), m, k[m])
  <2>1. CASE m = n
    <3>1. \A q \in Nat : Start(u, q) /\ Len(t) < q => FALSE
      BY <1>2, <1>3
    <3>2. LastBefore(u, Len(u), n, v)
      BY <1>2, <1>3, <1>6, <3>1 DEF LastBefore
    <3> QED BY <1>9, <2>1, <3>2
  <2>2. CASE m # n /\ l[m] = NoValue /\ NoneBefore(t, Len(t), m)
    <3>1. NoneBefore(u, Len(u), m)
      BY <1>1, <1>2, <1>3, <2>2 DEF NoneBefore
    <3> QED BY <1>9, <2>2, <3>1
  <2>3. CASE m # n /\ l[m] \in Seq(Chars) /\ LastBefore(t, Len(t), m, l[m])
    <3>1. PICK p \in Nat : /\ Start(t, p) /\ p < Len(t) /\ RecordAt(t, p, m, l[m])
                           /\ \A q \in Nat : Start(t, q) /\ p < q /\ q < Len(t) => t[q + 1] # m
      BY <2>3 DEF LastBefore
    <3>2. Start(u, p) /\ p < Len(u) /\ RecordAt(u, p, m, l[m])
      BY <1>1, <1>2, <1>3, <2>3, <3>1
    <3>3. \A q \in Nat : Start(u, q) /\ p < q /\ q < Len(u) => u[q + 1] # m
      BY <1>1, <1>2, <2>3, <3>1
    <3>4. LastBefore(u, Len(u), m, l[m])
      BY <3>2, <3>3 DEF LastBefore
    <3> QED BY <1>9, <2>3, <3>4
  <2> QED
    BY <1>0, <2>1, <2>2, <2>3 DEF Says
<1> QED
  BY <1>4, <1>5, <1>7 DEF SoundText, Says, u

-----------------------------------------------------------------------------
(* What var_save makes of the file.                                        *)

\* The file, the entries and the place of the restore.
FileTypeInv ==
  /\ text \in Seq(Chars)
  /\ tab \in [Names -> [val : Seq(Chars) \cup {NoValue}, dirty : BOOLEAN, wrote : BOOLEAN]]
  /\ out \in Nat
  /\ sound \in BOOLEAN

LEMMA CutText ==
  ASSUME NEW v \in Seq(Chars)
  PROVE  Cut(v) \in Seq(Chars)
<1> DEFINE m == IF Len(v) < MaxLen THEN Len(v) ELSE MaxLen
<1>1. m \in Nat /\ m <= Len(v)
  BY CharFacts
<1> HIDE DEF m
<1>2. SubSeq(v, 1, m) \in Seq(Chars)
  BY <1>1
<1> QED
  BY <1>2 DEF Cut, m

LEMMA UnsavedFacts ==
  ASSUME FileTypeInv, NEW n \in Unsaved
  PROVE  /\ n \in Names /\ tab[n].val \in Seq(Chars)
         /\ Cut(tab[n].val) \in Seq(Chars)
         /\ Record(n) = Rec(n, Cut(tab[n].val))
         /\ Record(n) \in Seq(Chars)
<1>1. n \in Names /\ tab[n].val # NoValue
  BY CharFacts DEF Unsaved, Made
<1>2. tab[n].val \in Seq(Chars)
  BY <1>1 DEF FileTypeInv
<1>3. Cut(tab[n].val) \in Seq(Chars)
  BY <1>2, CutText
<1>4. Record(n) = Rec(n, Cut(tab[n].val))
  BY DEF Record, Rec, Eq, Semi
<1>5. n \in Chars /\ Eq \in Chars /\ Semi \in Chars
  BY <1>1, CharFacts
<1>6. Rec(n, Cut(tab[n].val)) \in Seq(Chars)
  BY <1>3, <1>5 DEF Rec
<1> QED
  BY <1>1, <1>2, <1>3, <1>4, <1>6

\* An order of the entries has each of them, once.
LEMMA OrderFacts ==
  ASSUME NEW ord \in Orders
  PROVE  ord \in Seq(Unsaved) /\ Range(ord) = Unsaved
<1> DEFINE D == 1..Cardinality(Unsaved)
<1>1. IsFiniteSet(Unsaved)
  <2>1. Unsaved \subseteq Names
    BY DEF Unsaved, Made
  <2> QED BY <2>1, CharFacts, FS_Subset
<1>2. Cardinality(Unsaved) \in Nat
  BY <1>1, FS_CardinalityType
<1>3. IsFiniteSet(D) /\ Cardinality(D) = Cardinality(Unsaved)
  BY <1>2, FS_Interval
<1>4. ord \in [D -> Unsaved] /\ \A i, j \in D : i # j => ord[i] # ord[j]
  BY DEF Orders, SetToSeqs
<1>5. ord \in Injection(D, Unsaved)
  BY <1>4 DEF Injection, IsInjective
<1>6. ord \in Surjection(D, Unsaved)
  BY <1>1, <1>3, <1>5, FS_Injection
<1>7. ord \in Seq(Unsaved)
  BY <1>2, <1>4
<1>8. \A x \in Unsaved : \E i \in D : ord[i] = x
  BY <1>6 DEF Surjection
<1> QED
  BY <1>4, <1>7, <1>8 DEF Range

LEMMA RangeAppend ==
  ASSUME NEW A, NEW o \in Seq(A), NEW x \in A
  PROVE  Range(Append(o, x)) = Range(o) \cup {x} /\ Range(o) \subseteq A
<1>1. /\ DOMAIN Append(o, x) = 1..Len(o) + 1 /\ DOMAIN o = 1..Len(o) /\ Len(o) \in Nat
      /\ Append(o, x)[Len(o) + 1] = x
      /\ \A i \in 1..Len(o) : Append(o, x)[i] = o[i] /\ o[i] \in A
  OBVIOUS
<1>2. /\ Len(o) + 1 \in 1..Len(o) + 1
      /\ \A i \in 1..Len(o) + 1 : i \in 1..Len(o) \/ i = Len(o) + 1
      /\ \A i \in 1..Len(o) : i \in 1..Len(o) + 1
  BY <1>1
<1> QED
  BY <1>1, <1>2 DEF Range

\* A pass over one entry more.
LEMMA PassAppend ==
  ASSUME FileTypeInv, NEW o \in Seq(Unsaved), NEW x \in Unsaved, Pass(o) \in Seq(Chars)
  PROVE  Pass(Append(o, x)) = Pass(o) \o Record(x)
<1> DEFINE R == [i \in DOMAIN o |-> Record(o[i])]
<1>1. \A n \in Unsaved : Record(n) \in Seq(Chars)
  BY UnsavedFacts
<1>2. /\ DOMAIN o = 1..Len(o) /\ Len(o) \in Nat
      /\ DOMAIN Append(o, x) = 1..Len(o) + 1
      /\ Append(o, x)[Len(o) + 1] = x
      /\ \A i \in 1..Len(o) : Append(o, x)[i] = o[i] /\ o[i] \in Unsaved
  OBVIOUS
<1>3. R \in Seq(Seq(Chars)) /\ Len(R) = Len(o)
  BY <1>1, <1>2
<1>4. Append(R, Record(x)) = [i \in DOMAIN Append(o, x) |-> Record(Append(o, x)[i])]
  <2>1. R = [i \in 1..Len(o) |-> Record(o[i])]
    BY <1>2
  <2> HIDE DEF R
  <2>2. Append(R, Record(x)) = [i \in 1..Len(o) + 1 |-> IF i = Len(o) + 1 THEN Record(x) ELSE R[i]]
    <3> DEFINE y == Record(x)
    <3>1. y \in Seq(Chars)
      BY <1>1
    <3> HIDE DEF y
    <3>2. /\ Append(R, y) \in Seq(Seq(Chars)) /\ Len(Append(R, y)) = Len(o) + 1
          /\ \A i \in 1..Len(o) : Append(R, y)[i] = R[i] /\ i # Len(o) + 1
          /\ Append(R, y)[Len(o) + 1] = y
      BY <1>2, <1>3, <3>1
    <3>3. Append(R, y) = [i \in 1..Len(o) + 1 |-> Append(R, y)[i]]
      <4>1. Append(R, y) = [i \in 1..Len(Append(R, y)) |-> Append(R, y)[i]]
        <5> SUFFICES ASSUME NEW u \in Seq(Seq(Chars)) PROVE u = [i \in 1..Len(u) |-> u[i]]
          BY <3>2
        <5> QED OBVIOUS
      <4> QED BY <3>2, <4>1
    <3>4. \A i \in 1..Len(o) + 1 : i = Len(o) + 1 \/ i \in 1..Len(o)
      BY <1>2
    <3>5. \A i \in 1..Len(o) + 1 : Append(R, y)[i] = IF i = Len(o) + 1 THEN y ELSE R[i]
      BY <3>2, <3>4
    <3>6. Append(R, y) = [i \in 1..Len(o) + 1 |-> IF i = Len(o) + 1 THEN y ELSE R[i]]
      BY <3>3, <3>5
    <3> QED BY <3>6 DEF y
  <2>3. \A i \in 1..Len(o) + 1 : (IF i = Len(o) + 1 THEN Record(x) ELSE R[i]) = Record(Append(o, x)[i])
    <3>1. \A i \in 1..Len(o) + 1 : i = Len(o) + 1 \/ (i \in 1..Len(o) /\ i # Len(o) + 1)
      BY <1>2
    <3> QED BY <1>2, <2>1, <3>1
  <2> QED BY <1>2, <2>2, <2>3
<1>5. Pass(o) = FlattenSeq(R)
  BY DEF Pass
<1>6. Pass(Append(o, x)) = FlattenSeq(Append(R, Record(x)))
  BY <1>4 DEF Pass
<1> HIDE DEF R
<1> QED
  BY <1>1, <1>3, <1>5, <1>6, FlattenAppend

\* What a pass over o appends to b leaves a text that says what it noted.
PassSays(b, l, o) ==
  /\ Pass(o) \in Seq(Chars)
  /\ SoundText(b, l) /\ Plain(Range(o)) => SoundText(b \o Pass(o), Noted(l, Range(o)))

LEMMA PassOfNone ==
  ASSUME FileTypeInv, NEW b \in Seq(Chars), NEW l, NEW o \in Seq(Unsaved), Len(o) = 0
  PROVE  PassSays(b, l, o)
<1>1. Pass(o) = << >>
  <2> DEFINE R == [i \in DOMAIN o |-> Record(o[i])]
  <2>1. Len(R) = 0 /\ R = << >>
    OBVIOUS
  <2>2. FlattenSeq(R) = << >>
    <3> HIDE DEF R
    <3> QED BY <2>1 DEF FlattenSeq
  <2> QED BY <2>2 DEF Pass
<1>2. Range(o) = {}
  BY DEF Range
<1>3. b \o << >> = b
  OBVIOUS
<1>4. \A m \in Names : Noted(l, Range(o))[m] = l[m]
  BY <1>2 DEF Noted
<1>5. SoundText(b, l) => SoundText(b, Noted(l, Range(o)))
  BY <1>4 DEF SoundText, Says
<1> QED
  BY <1>1, <1>3, <1>5 DEF PassSays

LEMMA PassOfOneMore ==
  ASSUME FileTypeInv, NEW b \in Seq(Chars), NEW l, NEW o \in Seq(Unsaved),
         NEW x \in Unsaved, PassSays(b, l, o)
  PROVE  PassSays(b, l, Append(o, x))
<1> DEFINE v == Cut(tab[x].val)
           P == Pass(o)
<1>1. x \in Names /\ v \in Seq(Chars) /\ Record(x) = Rec(x, v) /\ Record(x) \in Seq(Chars)
  BY UnsavedFacts
<1>2. P \in Seq(Chars)
  BY DEF PassSays
<1>3. Pass(Append(o, x)) = P \o Rec(x, v)
  BY <1>1, <1>2, PassAppend
<1>4. Range(Append(o, x)) = Range(o) \cup {x}
  BY RangeAppend
<1>5. ASSUME SoundText(b, l), Plain(Range(Append(o, x)))
      PROVE  SoundText(b \o Pass(Append(o, x)), Noted(l, Range(Append(o, x))))
  <2> DEFINE t == b \o P
             k == Noted(l, Range(Append(o, x)))
             h == Noted(l, Range(o))
  <2>1. Plain(Range(o)) /\ ";" \notin Range(v)
    BY <1>4, <1>5 DEF Plain
  <2>2. SoundText(t, h)
    BY <1>5, <2>1 DEF PassSays
  <2>3. NoSemi(v)
    <3>1. DOMAIN v = 1..Len(v)
      BY <1>1
    <3> QED BY <2>1, <3>1 DEF Range, Semi, NoSemi
  <2>4. Updated(k, h, x, v)
    BY <1>4 DEF Noted, Updated
  <2>5. t \in Seq(Chars)
    BY <1>2
  <2>6. b \o (P \o Rec(x, v)) = t \o Rec(x, v)
    <3>1. Rec(x, v) \in Seq(Chars)
      BY <1>1
    <3> HIDE DEF P, v
    <3> QED BY <1>2, <3>1
  <2> HIDE DEF t, k, h, v, P
  <2>7. SoundText(t \o Rec(x, v), k)
    BY <1>1, <2>2, <2>3, <2>4, <2>5, RecordAppended
  <2> QED BY <1>3, <2>6, <2>7 DEF k
<1>6. P \o Rec(x, v) \in Seq(Chars)
  <2>1. Rec(x, v) \in Seq(Chars)
    BY <1>1
  <2> HIDE DEF P, v
  <2> QED BY <1>2, <2>1
<1> QED
  BY <1>3, <1>5, <1>6 DEF PassSays

\* So for every pass, in any order.
LEMMA PassOfAll ==
  ASSUME FileTypeInv, NEW b \in Seq(Chars), NEW l, NEW o \in Seq(Unsaved)
  PROVE  PassSays(b, l, o)
<1> DEFINE Good == {k \in Nat : \A p \in Seq(Unsaved) : Len(p) = k => PassSays(b, l, p)}
<1>1. 0 \in Good
  BY PassOfNone
<1>2. \A k \in Good : k + 1 \in Good
  <2> SUFFICES ASSUME NEW k \in Good PROVE k + 1 \in Good
    OBVIOUS
  <2> SUFFICES ASSUME NEW p \in Seq(Unsaved), Len(p) = k + 1
               PROVE  PassSays(b, l, p)
    OBVIOUS
  <2> DEFINE q == SubSeq(p, 1, k)
             x == p[k + 1]
  <2>1. q \in Seq(Unsaved) /\ Len(q) = k /\ x \in Unsaved /\ p = Append(q, x)
    OBVIOUS
  <2>2. PassSays(b, l, q)
    BY <2>1
  <2> HIDE DEF q, x
  <2> QED
    BY <2>1, <2>2, PassOfOneMore
<1>3. Good = Nat
  <2>1. Good \in SUBSET Nat
    OBVIOUS
  <2> HIDE DEF Good
  <2> QED BY <1>1, <1>2, <2>1, AllNumbers
<1>4. Len(o) \in Good
  <2>1. Len(o) \in Nat
    OBVIOUS
  <2> QED BY <1>3, <2>1
<1> QED
  BY <1>4

-----------------------------------------------------------------------------
(* The file after a save, and after one that was cut short.                *)

\* A file that is sound says what it was made to say.
SoundInv == sound => SoundText(text, last)

LEMMA SaveLeaves ==
  ASSUME FileTypeInv, NEW b \in Seq(Chars), NEW l, NEW ok \in BOOLEAN,
         ok => SoundText(b, l), Append2File(b, l, ok)
  PROVE  /\ text' \in Seq(Chars) /\ sound' \in BOOLEAN
         /\ sound' => ok /\ SoundText(text', last')
         /\ last' = Noted(l, Unsaved)
<1>1. PICK ord \in Orders : text' = b \o Pass(ord)
  BY Zenon DEF Append2File
<1>2. last' = Noted(l, Unsaved) /\ sound' = (ok /\ Plain(Unsaved))
  BY Zenon DEF Append2File
<1>3. ord \in Seq(Unsaved) /\ Range(ord) = Unsaved
  BY OrderFacts
<1>4. PassSays(b, l, ord)
  BY <1>3, PassOfAll
<1>5. Pass(ord) \in Seq(Chars)
  BY <1>4 DEF PassSays
<1>6. text' \in Seq(Chars)
  <2> HIDE DEF Pass
  <2> QED BY <1>1, <1>5
<1>7. sound' \in BOOLEAN
  <2>1. Plain(Unsaved) \in BOOLEAN
    BY DEF Plain
  <2> QED BY <1>2, <2>1
<1>8. sound' => ok /\ SoundText(text', last')
  BY <1>1, <1>2, <1>3, <1>4 DEF PassSays
<1> QED
  BY <1>2, <1>6, <1>7, <1>8

LEMMA CutLeaves ==
  ASSUME FileTypeInv, NEW b \in Seq(Chars), NEW l, NEW ok \in BOOLEAN,
         ok => SoundText(b, l), AppendCut(b, l, ok)
  PROVE  /\ text' \in Seq(Chars) /\ sound' \in BOOLEAN
         /\ sound' => SoundText(text', last')
<1> DEFINE nextOf(ord, k) == IF k = Len(ord) THEN << >> ELSE Record(ord[k + 1])
<1>14. PICK ord \in Orders : \E k \in 0..Len(ord) : \E j \in {0} \cup 1..Len(nextOf(ord, k)) - 1 :
         /\ text' = b \o Pass(SubSeq(ord, 1, k)) \o SubSeq(nextOf(ord, k), 1, j)
         /\ last' = Noted(l, Range(SubSeq(ord, 1, k)))
         /\ sound' = (ok /\ Plain(Range(SubSeq(ord, 1, k))) /\ j = 0)
  BY Zenon DEF AppendCut
<1>15. PICK k \in 0..Len(ord) : \E j \in {0} \cup 1..Len(nextOf(ord, k)) - 1 :
         /\ text' = b \o Pass(SubSeq(ord, 1, k)) \o SubSeq(nextOf(ord, k), 1, j)
         /\ last' = Noted(l, Range(SubSeq(ord, 1, k)))
         /\ sound' = (ok /\ Plain(Range(SubSeq(ord, 1, k))) /\ j = 0)
  BY <1>14, Zenon
<1>1. PICK j \in {0} \cup 1..Len(nextOf(ord, k)) - 1 :
        /\ text' = b \o Pass(SubSeq(ord, 1, k)) \o SubSeq(nextOf(ord, k), 1, j)
        /\ last' = Noted(l, Range(SubSeq(ord, 1, k)))
        /\ sound' = (ok /\ Plain(Range(SubSeq(ord, 1, k))) /\ j = 0)
  BY <1>15, Zenon
<1> DEFINE done == SubSeq(ord, 1, k)
           next == nextOf(ord, k)
<1>2. ord \in Seq(Unsaved)
  BY OrderFacts
<1>3. done \in Seq(Unsaved)
  BY <1>2
<1>4. PassSays(b, l, done)
  <2> HIDE DEF done
  <2> QED BY <1>3, PassOfAll
<1>5. Pass(done) \in Seq(Chars)
  BY <1>4 DEF PassSays
<1>6. next \in Seq(Chars)
  <2>1. k # Len(ord) => ord[k + 1] \in Unsaved
    BY <1>2
  <2>2. << >> \in Seq(Chars)
    OBVIOUS
  <2> QED BY <2>1, <2>2, UnsavedFacts
<1>7. /\ text' = b \o Pass(done) \o SubSeq(next, 1, j)
      /\ last' = Noted(l, Range(done))
      /\ sound' = (ok /\ Plain(Range(done)) /\ j = 0)
      /\ j \in {0} \cup 1..Len(next) - 1
  BY <1>1
<1> HIDE DEF done, next, nextOf
<1>8. SubSeq(next, 1, j) \in Seq(Chars) /\ (j = 0 => SubSeq(next, 1, j) = << >>)
  BY <1>6, <1>7
<1>9. b \o Pass(done) \in Seq(Chars)
  BY <1>5
<1>10. text' \in Seq(Chars)
  BY <1>7, <1>8, <1>9
<1>11. j = 0 => text' = b \o Pass(done)
  <2>1. \A u \in Seq(Chars) : u \o << >> = u
    OBVIOUS
  <2> QED BY <1>7, <1>8, <1>9, <2>1
<1>12. sound' \in BOOLEAN
  <2>1. Plain(Range(done)) \in BOOLEAN
    BY DEF Plain
  <2> QED BY <1>7, <2>1
<1>13. sound' => SoundText(text', last')
  BY <1>4, <1>7, <1>11 DEF PassSays
<1> QED
  BY <1>10, <1>12, <1>13

-----------------------------------------------------------------------------
(* What a round of a restore reads.                                        *)

LEMMA FindIs ==
  ASSUME NEW c, NEW p \in Nat, Len(text) \in Nat, NEW i \in p..Len(text) - 1,
         text[i + 1] = c, \A j \in p..i - 1 : text[j + 1] # c
  PROVE  Find(c, p) = i
<1> DEFINE r == Find(c, p)
<1>1. r # -1 /\ r <= i
  BY FindAhead
<1>2. r \in Nat /\ r >= p /\ text[r + 1] = c
  BY <1>1, FindAhead
<1> HIDE DEF r
<1>3. r < i => r \in p..i - 1
  BY <1>1, <1>2
<1>4. r = i
  BY <1>1, <1>2, <1>3
<1> QED
  BY <1>4 DEF r

\* Two records in one place are the same.
LEMMA RecordOnce ==
  ASSUME NEW t, NEW p \in Nat, NEW m \in Names, NEW n \in Names,
         NEW v \in Seq(Chars), NEW w \in Seq(Chars),
         RecordAt(t, p, m, v), RecordAt(t, p, n, w)
  PROVE  m = n /\ v = w
<1>1. Len(v) \in Nat /\ Len(w) \in Nat
  OBVIOUS
<1>2. t[p + 3 + Len(v)] = Semi /\ t[p + 3 + Len(w)] = Semi /\ m = n
  BY DEF RecordAt
<1>3. /\ \A i \in 1..Len(v) : t[p + 2 + i] = v[i] /\ v[i] # Semi
      /\ \A i \in 1..Len(w) : t[p + 2 + i] = w[i] /\ w[i] # Semi
  BY DEF RecordAt
<1>4. ~ (Len(v) < Len(w))
  <2> SUFFICES ASSUME Len(v) < Len(w) PROVE FALSE
    OBVIOUS
  <2>1. Len(v) + 1 \in 1..Len(w) /\ p + 2 + (Len(v) + 1) = p + 3 + Len(v)
    BY <1>1
  <2> QED BY <1>2, <1>3, <2>1
<1>5. ~ (Len(w) < Len(v))
  <2> SUFFICES ASSUME Len(w) < Len(v) PROVE FALSE
    OBVIOUS
  <2>1. Len(w) + 1 \in 1..Len(v) /\ p + 2 + (Len(w) + 1) = p + 3 + Len(w)
    BY <1>1
  <2> QED BY <1>2, <1>3, <2>1
<1>6. Len(v) = Len(w)
  BY <1>1, <1>4, <1>5
<1>7. \A i \in 1..Len(v) : v[i] = w[i]
  BY <1>3, <1>6
<1> QED
  BY <1>2, <1>6, <1>7

\* Inside a record there is no start.
LEMMA InsideRecord ==
  ASSUME NEW t, NEW p \in Nat, NEW n \in Names, NEW v \in Seq(Chars),
         RecordAt(t, p, n, v), NEW i \in Nat, p < i, i < p + 3 + Len(v)
  PROVE  t[i] # Semi
<1> DEFINE k == i - (p + 2)
<1>1. Len(v) \in Nat
  OBVIOUS
<1>2. i = p + 1 \/ i = p + 2 \/ i > p + 2
  OBVIOUS
<1>3. CASE i = p + 1
  BY <1>3, CharFacts DEF RecordAt
<1>4. CASE i = p + 2
  BY <1>4, CharFacts DEF RecordAt
<1>5. CASE i > p + 2
  <2>1. k \in 1..Len(v) /\ i = p + 2 + k
    BY <1>1, <1>5
  <2> HIDE DEF k
  <2> QED BY <2>1 DEF RecordAt
<1> QED
  BY <1>2, <1>3, <1>4, <1>5

\* Whatever the text, what is read is a text.
LEMMA ValueText ==
  ASSUME FileTypeInv
  PROVE  RecordValue \in Seq(Chars)
<1>1. text \in Seq(Chars) /\ Len(text) \in Nat /\ out \in Nat
  BY DEF FileTypeInv
<1>2. InPos = -1 \/ (InPos \in Nat /\ InPos < Len(text))
  BY <1>1, FindAhead DEF InPos
<1>3. SemiPos = -1 \/ (SemiPos \in Nat /\ SemiPos < Len(text))
  BY <1>1, FindAhead DEF SemiPos
<1> DEFINE s == InPos + 2
           c == SemiPos - (InPos + 1)
           e == IF c < 0 THEN Len(text) ELSE (InPos + 1) + c
<1>4. s \in Nat /\ s >= 1 /\ e \in Nat /\ e <= Len(text)
  BY <1>1, <1>2, <1>3
<1>5. (InPos + 1) + 1 = s
  BY <1>2
<1>6. RecordValue = SubSeq(text, s, e)
  BY <1>5 DEF RecordValue, Substr
<1> HIDE DEF s, e
<1> QED
  BY <1>1, <1>4, <1>6

\* A round that begins where a record is reads that record.
LEMMA RoundReads ==
  ASSUME FileTypeInv, NEW n \in Names, NEW v \in Seq(Chars), RecordAt(text, out, n, v)
  PROVE  /\ RecordName = <<n>> /\ RecordValue = v
         /\ Skipped = out + 3 + Len(v)
<1>1. text \in Seq(Chars) /\ Len(text) \in Nat /\ out \in Nat /\ Len(v) \in Nat
  BY DEF FileTypeInv
<1>2. /\ out + 3 + Len(v) <= Len(text)
      /\ text[out + 1] = n /\ text[out + 2] = Eq /\ text[out + 3 + Len(v)] = Semi
      /\ \A i \in 1..Len(v) : text[out + 2 + i] = v[i]
  BY DEF RecordAt
<1>3. InPos = out + 1
  <2> DEFINE i == out + 1
  <2>1. i \in out..Len(text) - 1 /\ i + 1 = out + 2
    BY <1>1, <1>2
  <2>2. \A j \in out..i - 1 : j = out
    BY <1>1
  <2> HIDE DEF i
  <2>3. n # Eq
    BY CharFacts
  <2>5. text[i + 1] = Eq /\ \A j \in out..i - 1 : text[j + 1] # Eq
    BY <1>2, <2>1, <2>2, <2>3
  <2>4. Find(Eq, out) = i
    BY <1>1, <2>1, <2>5, FindIs
  <2> QED BY <2>4 DEF InPos, Eq, i
<1>4. SemiPos = out + 2 + Len(v)
  <2> DEFINE i == out + 2 + Len(v)
  <2>1. i \in out..Len(text) - 1 /\ i + 1 = out + 3 + Len(v)
    BY <1>1, <1>2
  <2>2. \A j \in out..i - 1 : j + 1 \in Nat /\ out < j + 1 /\ j + 1 < out + 3 + Len(v)
    BY <1>1
  <2> HIDE DEF i
  <2>3. \A j \in out..i - 1 : text[j + 1] # Semi
    BY <1>1, <2>2, InsideRecord
  <2>4. Find(Semi, out) = i
    BY <1>1, <1>2, <2>1, <2>3, FindIs
  <2> QED BY <2>4 DEF SemiPos, Semi, i
<1>5. RecordName = <<n>>
  <2>1. InPos - out = 1 /\ ~ (1 < 0)
    BY <1>1, <1>3
  <2>2. RecordName = SubSeq(text, out + 1, out + 1)
    BY <2>1 DEF RecordName, Substr
  <2>3. out + 1 \in 1..Len(text)
    BY <1>1, <1>2
  <2>4. SubSeq(text, out + 1, out + 1) = <<text[out + 1]>>
    <3> DEFINE u == SubSeq(text, out + 1, out + 1)
    <3>1. u \in Seq(Chars) /\ Len(u) = 1 /\ u[1] = text[out + 1]
      BY <1>1, <2>3
    <3> HIDE DEF u
    <3>2. u = <<text[out + 1]>>
      BY <3>1
    <3> QED BY <3>2 DEF u
  <2> QED BY <1>2, <2>2, <2>4
<1>6. RecordValue = v
  <2>1. SemiPos - (InPos + 1) = Len(v) /\ ~ (Len(v) < 0)
        /\ (InPos + 1) + 1 = out + 3 /\ (InPos + 1) + Len(v) = out + 2 + Len(v)
    BY <1>1, <1>3, <1>4
  <2>2. RecordValue = SubSeq(text, out + 3, out + 2 + Len(v))
    BY <2>1 DEF RecordValue, Substr
  <2> DEFINE w == SubSeq(text, out + 3, out + 2 + Len(v))
  <2>3. out + 3 \in Nat /\ out + 3 >= 1 /\ out + 2 + Len(v) \in Nat /\ out + 2 + Len(v) <= Len(text)
    BY <1>1, <1>2
  <2>4. w \in Seq(Chars)
    BY <1>1, <2>3
  <2>5. Len(w) = Len(v)
    BY <1>1, <2>3
  <2>6. \A i \in 1..Len(v) : w[i] = text[out + 2 + i]
    <3> TAKE i \in 1..Len(v)
    <3>1. w[i] = text[(out + 3) + i - 1]
      BY <1>1, <2>3, <2>5
    <3>2. (out + 3) + i - 1 = out + 2 + i
      BY <1>1
    <3> QED BY <3>1, <3>2
  <2> HIDE DEF w
  <2>7. w = v
    BY <1>2, <2>4, <2>5, <2>6
  <2> QED BY <2>2, <2>7 DEF w
<1>7. Skipped = out + 3 + Len(v)
  BY <1>1, <1>4 DEF Skipped
<1> QED
  BY <1>5, <1>6, <1>7

-----------------------------------------------------------------------------
(* The invariant.                                                          *)

\* While a sound file is read, the place is the start of a record or the end,
\* and each entry is what the records read so far say of it, and is marked.
ScanSays ==
  pc = "scan" /\ sound =>
    /\ Start(text, out) \/ out >= Len(text)
    /\ \A n \in Made(tab), v \in Seq(Chars) :
         LastBefore(text, out, n, v) => tab[n].dirty /\ tab[n].val = v

Entries == [val : Seq(Chars) \cup {NoValue}, dirty : BOOLEAN, wrote : BOOLEAN]

LEMMA CleanFacts ==
  ASSUME FileTypeInv
  PROVE  /\ Clean \in [Names -> Entries]
         /\ \A n \in Names : /\ Clean[n].val = tab[n].val /\ Clean[n].wrote = tab[n].wrote
                             /\ Clean[n].dirty = (n \notin Unsaved /\ tab[n].dirty)
<1>1. tab \in [Names -> Entries]
  BY DEF FileTypeInv, Entries
<1>2. ASSUME NEW n \in Names
      PROVE  /\ Clean[n] \in Entries
             /\ Clean[n].val = tab[n].val /\ Clean[n].wrote = tab[n].wrote
             /\ Clean[n].dirty = (n \notin Unsaved /\ tab[n].dirty)
  <2>1. tab[n] \in Entries
    BY <1>1
  <2>2. Clean[n] = IF n \in Unsaved THEN [tab[n] EXCEPT !.dirty = FALSE] ELSE tab[n]
    BY DEF Clean
  <2>3. CASE n \in Unsaved
    BY <2>1, <2>2, <2>3 DEF Entries
  <2>4. CASE n \notin Unsaved
    BY <2>1, <2>2, <2>4 DEF Entries
  <2> QED BY <2>3, <2>4
<1> QED
  BY <1>2 DEF Clean

\* What a restore that ends makes of an entry.
LEMMA DoneFacts ==
  ASSUME FileTypeInv, RestoreDone
  PROVE  /\ tab' \in [Names -> Entries]
         /\ \A n \in Names : /\ tab'[n].val = tab[n].val
                             /\ tab'[n].wrote = (tab[n].wrote /\ sound)
                             /\ tab'[n].dirty = (n \notin Unsaved /\ tab[n].dirty)
<1>1. tab' = [n \in Names |-> [Clean[n] EXCEPT !.wrote = @ /\ sound]]
  BY Zenon DEF RestoreDone
<1>2. /\ Clean \in [Names -> Entries]
      /\ \A n \in Names : /\ Clean[n].val = tab[n].val /\ Clean[n].wrote = tab[n].wrote
                          /\ Clean[n].dirty = (n \notin Unsaved /\ tab[n].dirty)
  BY CleanFacts
<1>3. sound \in BOOLEAN
  BY DEF FileTypeInv
<1> HIDE DEF Clean
<1>4. ASSUME NEW n \in Names
      PROVE  /\ tab'[n] \in Entries
             /\ tab'[n].val = Clean[n].val /\ tab'[n].dirty = Clean[n].dirty
             /\ tab'[n].wrote = (Clean[n].wrote /\ sound)
  <2>1. Clean[n] \in Entries
    BY <1>2
  <2>2. tab'[n] = [Clean[n] EXCEPT !.wrote = Clean[n].wrote /\ sound]
    BY <1>1
  <2> DEFINE e == Clean[n]
  <2>3. e \in Entries /\ tab'[n] = [e EXCEPT !.wrote = e.wrote /\ sound]
    BY <2>1, <2>2
  <2> HIDE DEF e
  <2>4. /\ tab'[n] \in Entries /\ tab'[n].val = e.val /\ tab'[n].dirty = e.dirty
        /\ tab'[n].wrote = (e.wrote /\ sound)
    BY <1>3, <2>3 DEF Entries
  <2> QED BY <2>4 DEF e
<1>5. DOMAIN tab' = Names /\ tab' = [n \in DOMAIN tab' |-> tab'[n]]
  BY <1>1
<1>6. tab' \in [Names -> Entries]
  BY <1>4, <1>5
<1>7. ASSUME NEW n \in Names
      PROVE  /\ tab'[n].val = tab[n].val
             /\ tab'[n].wrote = (tab[n].wrote /\ sound)
             /\ tab'[n].dirty = (n \notin Unsaved /\ tab[n].dirty)
  BY <1>2, <1>4
<1> QED
  BY <1>6, <1>7

LEMMA FileInvInit == FileInit => FileTypeInv /\ SoundInv /\ ScanSays /\ CleanInFile
<1> SUFFICES ASSUME FileInit PROVE FileTypeInv /\ SoundInv /\ ScanSays /\ CleanInFile
  OBVIOUS
<1>1. FileTypeInv
  <2>1. NoTable \in [Names -> Entries]
    BY DEF NoTable, NoEntry, Entries
  <2> QED BY <2>1, EmptySound DEF FileInit, FileTypeInv, Entries
<1>2. SoundInv
  BY EmptySound DEF FileInit, SoundInv
<1>3. ScanSays
  BY DEF FileInit, ScanSays
<1>4. CleanInFile
  <2>1. Made(tab) = {}
    BY DEF Made, FileInit, NoTable, NoEntry
  <2> QED BY <2>1 DEF CleanInFile
<1> QED
  BY <1>1, <1>2, <1>3, <1>4

\* Every step keeps the types, and a sound file a file that says `last'.
LEMMA FileTextNext ==
  ASSUME FileTypeInv, SoundInv, [FileNext]_fvars
  PROVE  FileTypeInv' /\ SoundInv'
<1>0. /\ text \in Seq(Chars) /\ tab \in [Names -> Entries] /\ out \in Nat /\ sound \in BOOLEAN
      /\ sound => SoundText(text, last)
  BY DEF FileTypeInv, Entries, SoundInv
<1> SUFFICES /\ text' \in Seq(Chars) /\ tab' \in [Names -> Entries]
             /\ out' \in Nat /\ sound' \in BOOLEAN
             /\ sound' => SoundText(text', last')
  BY DEF FileTypeInv, Entries, SoundInv
<1>e. << >> \in Seq(Chars) /\ SoundText(<< >>, NoRecords)
  BY EmptySound
<1>n. NoTable \in [Names -> Entries]
  BY DEF NoTable, NoEntry, Entries
<1>1. ASSUME NEW n \in Names, NEW d \in BOOLEAN, FileCreate(n, d) PROVE tab' \in [Names -> Entries] /\ UNCHANGED <<text, out, last, sound>>
  <2>1. [val |-> << >>, dirty |-> d, wrote |-> FALSE] \in Entries
    BY <1>e DEF Entries
  <2> QED BY <1>0, <1>1, <2>1 DEF FileCreate, Put
<1>2. ASSUME NEW n \in Names, NEW v \in Contents, NEW ended \in BOOLEAN,
             FileSet(n, v, ended)
      PROVE  tab' \in [Names -> Entries] /\ UNCHANGED <<text, out, last, sound>>
  <2>1. [val |-> v, dirty |-> TRUE, wrote |-> TRUE] \in Entries
    BY CharFacts DEF Entries
  <2> QED BY <1>0, <1>2, <2>1 DEF FileSet, Put
<1>3. CASE FileSave
  <2>1. Append2File(text, last, sound) /\ tab' = Clean /\ UNCHANGED out
    BY <1>3, Zenon DEF FileSave
  <2> QED BY <1>0, <2>1, SaveLeaves, CleanFacts
<1>4. CASE FileSaveFails
  BY <1>0, <1>4 DEF FileSaveFails, fvars
<1>5. CASE FileRestore
  BY <1>0, <1>5 DEF FileRestore
<1>6. CASE ScanRecord
  <2>1. UNCHANGED <<text, last, sound>> /\ out' \in Nat
    <3>1. ScanPlace
      BY <1>0 DEF ScanPlace
    <3> QED BY <1>6, <3>1, RoundPlace DEF ScanRecord
  <2>2. tab' \in [Names -> Entries]
    <3>1. RecordValue \in Seq(Chars)
      BY ValueText
    <3>2. tab' = [n \in Names |-> IF n \in Made(tab) /\ RecordName = <<n>>
                                  THEN [tab[n] EXCEPT !.val = RecordValue, !.dirty = TRUE]
                                  ELSE tab[n]]
      BY <1>6, Zenon DEF ScanRecord
    <3>3. ASSUME NEW n \in Names
          PROVE  [tab[n] EXCEPT !.val = RecordValue, !.dirty = TRUE] \in Entries /\ tab[n] \in Entries
      <4>1. tab[n] \in Entries
        BY <1>0
      <4> HIDE DEF RecordValue
      <4> QED BY <3>1, <4>1 DEF Entries
    <3> HIDE DEF RecordValue, RecordName, Entries
    <3> QED BY <3>2, <3>3
  <2> QED BY <1>0, <2>1, <2>2
<1>7. CASE RestoreDone
  <2>1. Append2File(<< >>, NoRecords, TRUE) /\ UNCHANGED out
    BY <1>7, Zenon DEF RestoreDone
  <2> QED BY <1>0, <1>7, <1>e, <2>1, SaveLeaves, DoneFacts
<1>8. CASE FileKill
  <2>1. tab' = NoTable /\ out' = 0
    BY <1>8, Zenon DEF FileKill
  <2>2. \/ UNCHANGED <<text, last, sound>>
        \/ AppendCut(text, last, sound)
        \/ AppendCut(<< >>, NoRecords, TRUE)
    BY <1>8, Zenon DEF FileKill
  <2>3. CASE UNCHANGED <<text, last, sound>>
    BY <1>0, <1>n, <2>1, <2>3
  <2>4. CASE AppendCut(text, last, sound)
    BY <1>0, <1>n, <2>1, <2>4, CutLeaves
  <2>5. CASE AppendCut(<< >>, NoRecords, TRUE)
    BY <1>0, <1>e, <1>n, <2>1, <2>5, CutLeaves
  <2> QED BY <2>2, <2>3, <2>4, <2>5
<1>9. CASE FileStart
  BY <1>0, <1>9 DEF FileStart
<1>10. CASE UNCHANGED fvars
  BY <1>0, <1>10 DEF fvars
<1> QED
  BY <1>0, <1>1, <1>2, <1>3, <1>4, <1>5, <1>6, <1>7, <1>8, <1>9, <1>10 DEF FileNext

\* One round over a sound file: it reads the record of a name, and what the
\* entries say of the records read so far is then true of this one too.
LEMMA RoundSays ==
  ASSUME FileTypeInv, SoundInv, ScanSays, ScanRecord, sound
  PROVE  \E n \in Names, v \in Seq(Chars) :
           /\ RecordAt(text, out, n, v) /\ Start(text, out)
           /\ tab' = [m \in Names |-> IF m \in Made(tab) /\ m = n
                                      THEN [tab[m] EXCEPT !.val = v, !.dirty = TRUE]
                                      ELSE tab[m]]
           /\ out' = out + 3 + Len(v)
<1>1. pc = "scan" /\ out < Len(text) /\ out \in Nat /\ Len(text) \in Nat
  <2>1. pc = "scan" /\ out < Len(text)
    BY Zenon DEF ScanRecord
  <2>2. out \in Nat /\ Len(text) \in Nat
    BY DEF FileTypeInv
  <2> QED BY <2>1, <2>2
<1>2. Start(text, out)
  BY <1>1 DEF ScanSays
<1>3. PICK n \in Names, v \in Seq(Chars) : RecordAt(text, out, n, v)
  BY <1>1, <1>2 DEF SoundInv, SoundText, AllRecords
<1>4. RecordName = <<n>> /\ RecordValue = v /\ Skipped = out + 3 + Len(v)
  BY <1>3, RoundReads
<1>5. /\ tab' = [m \in Names |-> IF m \in Made(tab) /\ RecordName = <<m>>
                                 THEN [tab[m] EXCEPT !.val = RecordValue, !.dirty = TRUE]
                                 ELSE tab[m]]
      /\ out' = Skipped
  BY Zenon DEF ScanRecord
<1>6. \A m : <<n>> = <<m>> <=> m = n
  OBVIOUS
<1> HIDE DEF RecordName, RecordValue, Skipped
<1>7. tab' = [m \in Names |-> IF m \in Made(tab) /\ m = n
                              THEN [tab[m] EXCEPT !.val = v, !.dirty = TRUE]
                              ELSE tab[m]]
  BY <1>4, <1>5, <1>6
<1>8. out' = out + 3 + Len(v)
  BY <1>4, <1>5
<1> QED
  BY <1>2, <1>3, <1>7, <1>8

\* The last record of a name up to the end of a record is that record, or one
\* before it.
LEMMA LastUpTo ==
  ASSUME NEW t, Len(t) \in Nat, NEW p \in Nat, NEW n \in Names, NEW v \in Seq(Chars),
         Start(t, p), RecordAt(t, p, n, v),
         NEW m \in Names, NEW w \in Seq(Chars), LastBefore(t, p + 3 + Len(v), m, w)
  PROVE  IF m = n THEN w = v ELSE LastBefore(t, p, m, w)
<1> DEFINE e == p + 3 + Len(v)
<1>1. Len(v) \in Nat /\ e \in Nat /\ p < e
  OBVIOUS
<1>2. PICK q \in Nat : /\ Start(t, q) /\ q < e /\ RecordAt(t, q, m, w)
                       /\ \A r \in Nat : Start(t, r) /\ q < r /\ r < e => t[r + 1] # m
  BY DEF LastBefore
<1>3. ~ (p < q)
  <2> SUFFICES ASSUME p < q PROVE FALSE
    OBVIOUS
  <2>1. t[q] # Semi
    BY <1>2, InsideRecord
  <2>2. q # 0
    OBVIOUS
  <2> QED BY <1>2, <2>1, <2>2 DEF Start
<1>4. t[p + 1] = n /\ t[q + 1] = m
  BY <1>2 DEF RecordAt
<1> HIDE DEF e
<1>5. CASE q = p
  BY <1>2, <1>5, RecordOnce
<1>6. CASE q < p
  <2>1. m # n
    BY <1>1, <1>2, <1>4, <1>6
  <2>2. \A r \in Nat : Start(t, r) /\ q < r /\ r < p => t[r + 1] # m
    BY <1>1, <1>2
  <2>3. LastBefore(t, p, m, w)
    BY <1>2, <1>6, <2>2 DEF LastBefore
  <2> QED BY <2>1, <2>3
<1> QED
  BY <1>3, <1>5, <1>6

LEMMA ScanRound ==
  ASSUME FileTypeInv, SoundInv, ScanSays, ScanRecord
  PROVE  ScanSays'
<1>0. UNCHANGED <<text, pc, sound>>
  BY DEF ScanRecord
<1> SUFFICES ASSUME sound
             PROVE  /\ Start(text, out') \/ out' >= Len(text)
                    /\ \A m \in Made(tab'), w \in Seq(Chars) :
                         LastBefore(text, out', m, w) => tab'[m].dirty /\ tab'[m].val = w
  BY <1>0 DEF ScanSays, Made
<1>1. /\ pc = "scan" /\ out \in Nat /\ Len(text) \in Nat
      /\ tab \in [Names -> Entries]
  <2>1. pc = "scan"
    BY Zenon DEF ScanRecord
  <2>2. out \in Nat /\ Len(text) \in Nat /\ tab \in [Names -> Entries]
    BY DEF FileTypeInv, Entries
  <2> QED BY <2>1, <2>2
<1>2. PICK n \in Names, v \in Seq(Chars) :
           /\ RecordAt(text, out, n, v) /\ Start(text, out)
           /\ tab' = [m \in Names |-> IF m \in Made(tab) /\ m = n
                                      THEN [tab[m] EXCEPT !.val = v, !.dirty = TRUE]
                                      ELSE tab[m]]
           /\ out' = out + 3 + Len(v)
  BY RoundSays
<1>3. Start(text, out') \/ out' >= Len(text)
  <2>1. out' \in Nat /\ out' # 0 /\ text[out'] = Semi
    <3>1. out' = out + 3 + Len(v) /\ RecordAt(text, out, n, v)
      BY <1>2, Zenon
    <3>2. text[out + 3 + Len(v)] = Semi
      BY <3>1 DEF RecordAt
    <3>3. Len(v) \in Nat
      OBVIOUS
    <3> QED BY <1>1, <3>1, <3>2, <3>3
  <2>2. out' < Len(text) => out' \in 0..Len(text) - 1
    BY <1>1, <2>1
  <2> QED BY <1>1, <2>1, <2>2 DEF Start
<1>4. ASSUME NEW m \in Made(tab'), NEW w \in Seq(Chars), LastBefore(text, out', m, w)
      PROVE  tab'[m].dirty /\ tab'[m].val = w
  <2>1. m \in Names /\ tab'[m].val # NoValue
    BY DEF Made
  <2>2. tab'[m] = IF m \in Made(tab) /\ m = n
                  THEN [tab[m] EXCEPT !.val = v, !.dirty = TRUE] ELSE tab[m]
    BY <1>2, <2>1
  <2>3. m \in Made(tab)
    BY <2>1, <2>2 DEF Made
  <2>4. IF m = n THEN w = v ELSE LastBefore(text, out, m, w)
    BY <1>1, <1>2, <1>4, <2>1, LastUpTo
  <2>5. CASE m = n
    <3>1. tab[m] \in Entries /\ tab'[m] = [tab[m] EXCEPT !.val = v, !.dirty = TRUE]
      BY <1>1, <2>1, <2>2, <2>3, <2>5
    <3>2. tab'[m].val = v /\ tab'[m].dirty
      BY <3>1 DEF Entries
    <3> QED BY <2>4, <2>5, <3>2
  <2>6. CASE m # n
    <3>1. tab'[m] = tab[m]
      BY <2>2, <2>6
    <3>2. tab[m].dirty /\ tab[m].val = w
      BY <1>1, <2>3, <2>4, <2>6 DEF ScanSays
    <3> QED BY <3>1, <3>2
  <2> QED BY <2>5, <2>6
<1> QED
  BY <1>3, <1>4

LEMMA ScanSaysNext ==
  ASSUME FileTypeInv, SoundInv, ScanSays, [FileNext]_fvars
  PROVE  ScanSays'
<1>1. CASE ScanRecord
  BY <1>1, ScanRound
<1>2. CASE FileRestore
  <2>1. out' = 0 /\ UNCHANGED <<text, tab>> /\ Len(text) \in Nat
    BY <1>2 DEF FileRestore, FileTypeInv
  <2>2. Start(text, 0) \/ 0 >= Len(text)
    <3>1. Len(text) # 0 => 0 \in 0..Len(text) - 1
      BY <2>1
    <3> QED BY <2>1, <3>1 DEF Start
  <2>3. \A m \in Names, w \in Seq(Chars) : ~ LastBefore(text, 0, m, w)
    BY DEF LastBefore
  <2> QED BY <2>1, <2>2, <2>3 DEF ScanSays, Made
<1>3. CASE UNCHANGED fvars
  BY <1>3 DEF ScanSays, Made, fvars
<1>4. CASE FileNext /\ ~ ScanRecord /\ ~ FileRestore
  <2>1. pc' # "scan"
    <3>1. \A n \in Names, d \in BOOLEAN : FileCreate(n, d) => pc' = "idle"
      BY DEF FileCreate, Put
    <3>2. \A n \in Names, v \in Contents, ended \in BOOLEAN : FileSet(n, v, ended) => pc' = "idle"
      BY DEF FileSet, Put
    <3>3. FileSave \/ FileSaveFails => pc' = "idle"
      BY Zenon DEF FileSave, FileSaveFails, fvars
    <3>4. RestoreDone \/ FileStart => pc' = "idle"
      BY Zenon DEF RestoreDone, FileStart
    <3>5. FileKill => pc' \in {"down", "cut"}
      BY Zenon DEF FileKill
    <3> QED BY <1>4, <3>1, <3>2, <3>3, <3>4, <3>5 DEF FileNext
  <2> QED BY <2>1 DEF ScanSays
<1> QED
  BY <1>1, <1>2, <1>3, <1>4

\* At the end of a restore of a sound file, what the file said last of a name
\* is what its entry has, and the entry is marked.
LEMMA DoneSays ==
  ASSUME FileTypeInv, SoundInv, ScanSays, Scanned, sound,
         NEW n \in Made(tab), last[n] # NoValue
  PROVE  tab[n].dirty /\ tab[n].val = last[n]
<1>1. out \in Nat /\ Len(text) \in Nat /\ out >= Len(text) /\ pc = "scan" /\ n \in Names
  BY DEF Scanned, FileTypeInv, Made
<1>2. last[n] \in Seq(Chars) /\ LastBefore(text, Len(text), n, last[n])
  BY <1>1 DEF SoundInv, SoundText, Says
<1>3. PICK p \in Nat : /\ Start(text, p) /\ p < Len(text) /\ RecordAt(text, p, n, last[n])
                       /\ \A q \in Nat : Start(text, q) /\ p < q /\ q < Len(text) => text[q + 1] # n
  BY <1>2 DEF LastBefore
<1>4. \A q \in Nat : Start(text, q) => q < Len(text)
  BY <1>1 DEF Start
<1>5. p < out
  BY <1>1, <1>3
<1>6. LastBefore(text, out, n, last[n])
  BY <1>3, <1>4, <1>5 DEF LastBefore
<1> QED
  BY <1>1, <1>2, <1>6 DEF ScanSays

LEMMA CleanNext ==
  ASSUME FileTypeInv, SoundInv, ScanSays, CleanInFile, [FileNext]_fvars
  PROVE  CleanInFile'
<1> SUFFICES ASSUME NEW n \in Kept \cap Made(tab'), tab'[n].wrote, ~ tab'[n].dirty
             PROVE  last'[n] = Cut(tab'[n].val)
  BY DEF CleanInFile, Made, Cut
<1>0. /\ n \in Names /\ n \in Kept /\ tab'[n].val # NoValue
      /\ tab \in [Names -> Entries]
  BY DEF Made, FileTypeInv, Entries
<1>k. n \in Made(tab) /\ tab[n].wrote /\ ~ tab[n].dirty => last[n] = Cut(tab[n].val)
  BY <1>0 DEF CleanInFile
<1>1. ASSUME NEW m \in Names, NEW d \in BOOLEAN, FileCreate(m, d) PROVE last'[n] = Cut(tab'[n].val)
  <2>1. /\ tab' = [tab EXCEPT ![m] = [val |-> << >>, dirty |-> d, wrote |-> FALSE]]
        /\ UNCHANGED last
    BY <1>1 DEF FileCreate, Put
  <2>2. m # n /\ tab'[n] = tab[n]
    BY <1>0, <2>1
  <2> QED BY <1>0, <1>k, <2>1, <2>2 DEF Made
<1>2. ASSUME NEW m \in Names, NEW v \in Contents, NEW ended \in BOOLEAN, FileSet(m, v, ended)
      PROVE  last'[n] = Cut(tab'[n].val)
  <2>1. /\ tab' = [tab EXCEPT ![m] = [val |-> v, dirty |-> TRUE, wrote |-> TRUE]]
        /\ UNCHANGED last
    BY <1>2 DEF FileSet, Put
  <2>2. m # n /\ tab'[n] = tab[n]
    BY <1>0, <2>1
  <2> QED BY <1>0, <1>k, <2>1, <2>2 DEF Made
<1>3. CASE FileSave
  <2>1. Append2File(text, last, sound) /\ tab' = Clean
    BY <1>3, Zenon DEF FileSave
  <2>2. last' = Noted(last, Unsaved)
    BY <2>1, Zenon DEF Append2File
  <2>3. /\ tab'[n].val = tab[n].val /\ tab'[n].wrote = tab[n].wrote
        /\ tab'[n].dirty = (n \notin Unsaved /\ tab[n].dirty)
    BY <1>0, <2>1, CleanFacts
  <2>4. n \in Made(tab)
    BY <1>0, <2>3 DEF Made
  <2>5. last'[n] = IF n \in Unsaved THEN Cut(tab[n].val) ELSE last[n]
    BY <1>0, <2>2 DEF Noted
  <2> HIDE DEF Unsaved, Cut
  <2> QED BY <1>k, <2>3, <2>4, <2>5
<1>4. CASE FileSaveFails
  BY <1>0, <1>4, <1>k DEF FileSaveFails, fvars, Made
<1>5. CASE FileRestore
  BY <1>0, <1>5, <1>k DEF FileRestore, Made
<1>6. CASE ScanRecord
  <2>1. UNCHANGED last /\ tab' = [m \in Names |-> IF m \in Made(tab) /\ RecordName = <<m>>
                                THEN [tab[m] EXCEPT !.val = RecordValue, !.dirty = TRUE]
                                ELSE tab[m]]
    BY <1>6, Zenon DEF ScanRecord
  <2> HIDE DEF RecordName, RecordValue
  <2>2. tab'[n] = IF n \in Made(tab) /\ RecordName = <<n>>
                  THEN [tab[n] EXCEPT !.val = RecordValue, !.dirty = TRUE] ELSE tab[n]
    BY <1>0, <2>1
  <2>3. [tab[n] EXCEPT !.val = RecordValue, !.dirty = TRUE].dirty
    <3>1. tab[n] \in Entries
      BY <1>0
    <3> QED BY <3>1 DEF Entries
  <2>4. tab'[n] = tab[n]
    BY <2>2, <2>3
  <2> QED BY <1>0, <1>k, <2>1, <2>4 DEF Made
<1>7. CASE RestoreDone
  <2>1. Append2File(<< >>, NoRecords, TRUE) /\ Scanned
    BY <1>7, Zenon DEF RestoreDone
  <2>2. last' = Noted(NoRecords, Unsaved)
    BY <2>1, Zenon DEF Append2File
  <2>3. /\ tab'[n].val = tab[n].val /\ tab'[n].wrote = (tab[n].wrote /\ sound)
        /\ tab'[n].dirty = (n \notin Unsaved /\ tab[n].dirty)
    BY <1>0, <1>7, DoneFacts
  <2>4. n \in Made(tab) /\ tab[n].wrote /\ sound
    BY <1>0, <2>3 DEF Made
  <2>5. CASE n \in Unsaved
    BY <1>0, <2>2, <2>3, <2>5 DEF Noted
  <2>6. CASE n \notin Unsaved
    <3>1. ~ tab[n].dirty
      BY <2>3, <2>6
    <3>2. last[n] = Cut(tab[n].val)
      BY <1>k, <2>4, <3>1
    <3>3. tab[n].val \in Seq(Chars)
      BY <1>0, <2>4 DEF Made, Entries
    <3>4. last[n] # NoValue
      BY <3>2, <3>3, CutText, CharFacts
    <3> QED BY <2>1, <2>4, <3>1, <3>4, DoneSays
  <2> QED BY <2>5, <2>6
<1>8. CASE FileKill
  <2>1. tab' = NoTable
    BY <1>8, Zenon DEF FileKill
  <2> QED BY <1>0, <2>1 DEF NoTable, NoEntry
<1>9. CASE FileStart
  BY <1>0, <1>9, <1>k DEF FileStart, Made
<1>10. CASE UNCHANGED fvars
  BY <1>0, <1>10, <1>k DEF fvars, Made
<1> QED
  BY <1>1, <1>2, <1>3, <1>4, <1>5, <1>6, <1>7, <1>8, <1>9, <1>10 DEF FileNext

FileIInv == FileTypeInv /\ SoundInv /\ ScanSays /\ CleanInFile

LEMMA FileInvNext == FileIInv /\ [FileNext]_fvars => FileIInv'
<1> SUFFICES ASSUME FileIInv, [FileNext]_fvars PROVE FileIInv'
  OBVIOUS
<1>1. FileTypeInv /\ SoundInv /\ ScanSays /\ CleanInFile
  BY DEF FileIInv
<1>2. FileTypeInv' /\ SoundInv'
  BY <1>1, FileTextNext
<1>3. ScanSays' /\ CleanInFile'
  BY <1>1, ScanSaysNext, CleanNext
<1> QED
  BY <1>2, <1>3 DEF FileIInv

\* Whatever names and values, and however many saves, restores and kills: an
\* entry that was written and is not marked has its value in the file
\* (var_save, var_restore).
THEOREM CleanIsInFile == FileSpec => []CleanInFile
<1>1. FileInit => FileIInv
  BY FileInvInit DEF FileIInv
<1>2. FileIInv => CleanInFile
  BY DEF FileIInv
<1> QED
  BY <1>1, <1>2, FileInvNext, PTL DEF FileSpec

\* A step of a restore of a sound file: what it brings back, what it leaves.
LEMMA RestoreStep ==
  ASSUME FileTypeInv, SoundInv, ScanSays, FileNext, pc = "scan", sound
  PROVE  /\ RestoreDone => \A n \in Made(tab) : last[n] # NoValue => tab[n].val = last[n]
         /\ pc' = "scan" => \A n \in Names : last[n] = NoValue => tab'[n] = tab[n]
<1>1. RestoreDone => \A n \in Made(tab) : last[n] # NoValue => tab[n].val = last[n]
  <2> SUFFICES ASSUME RestoreDone, NEW n \in Made(tab), last[n] # NoValue
               PROVE  tab[n].val = last[n]
    OBVIOUS
  <2>1. Scanned
    BY Zenon DEF RestoreDone
  <2> QED BY <2>1, DoneSays
<1>2. ASSUME pc' = "scan", NEW n \in Names, last[n] = NoValue PROVE tab'[n] = tab[n]
  <2>1. ScanRecord
    BY <1>2, ScanStep
  <2>2. PICK m \in Names, v \in Seq(Chars) :
           /\ RecordAt(text, out, m, v) /\ Start(text, out)
           /\ tab' = [k \in Names |-> IF k \in Made(tab) /\ k = m
                                      THEN [tab[k] EXCEPT !.val = v, !.dirty = TRUE]
                                      ELSE tab[k]]
    BY <2>1, RoundSays
  <2>3. NoneBefore(text, Len(text), n)
    BY <1>2, CharFacts DEF SoundInv, SoundText, Says
  <2>4. out \in Nat /\ out < Len(text) /\ text[out + 1] = m
    BY <2>1, <2>2 DEF ScanRecord, FileTypeInv, RecordAt
  <2>5. m # n
    BY <2>2, <2>3, <2>4 DEF NoneBefore
  <2> QED BY <2>2, <2>5
<1> QED
  BY <1>1, <1>2

\* From a file with no cut record and no ';' in a value, of whatever length, a
\* restore brings back the last value of every name and touches no other entry
\* (var_restore).
THEOREM RestoreBringsLast == FileSpec => RestoredIsLast
<1>1. FileInit => FileIInv
  BY FileInvInit DEF FileIInv
<1>2. FileIInv /\ [FileNext]_fvars =>
        [pc = "scan" /\ sound =>
           /\ RestoreDone => \A n \in Made(tab) : last[n] # NoValue => tab[n].val = last[n]
           /\ pc' = "scan" => \A n \in Names : last[n] = NoValue => tab'[n] = tab[n]]_fvars
  BY RestoreStep DEF FileIInv
<1> QED
  BY <1>1, <1>2, FileInvNext, PTL DEF FileSpec, RestoredIsLast

-----------------------------------------------------------------------------
(* Arrays as text (DsvArrayText).                                          *)

Comma == ","
ArrChars == Digits \cup {Comma}
Words == Seq(Digits) \ {<< >>}

LEMMA ArrCharFacts ==
  /\ Size \in Nat /\ Size > 0
  /\ Comma \notin Digits /\ Nul \notin Digits /\ Nul # Comma /\ Nul \notin ArrChars
<1>1. "," \in {",", Nul} /\ Nul \in {",", Nul} /\ {",", Nul} \cap Digits = {} /\ Size \in Nat \ {0}
  BY ArrayTextAssumption, Zenon
<1>2. Comma \notin Digits /\ Nul \notin Digits
  BY <1>1, Zenon DEF Comma
<1>3. Nul # Comma
  BY DEF Nul, Comma
<1>4. Size \in Nat /\ Size > 0
  <2>1. Size \in Nat \ {0}
    BY <1>1, Zenon
  <2> HIDE <1>1
  <2> QED BY <2>1
<1> QED
  BY <1>2, <1>3, <1>4, Zenon DEF ArrChars

Solvable(A, a, n, s) ==
  \E f \in [0..n -> A] : f[0] = a /\ \A i \in 1..n : f[i] = s[<<i, f[i - 1]>>]

\* A recursion over 0..n has a function that satisfies it.
LEMMA RecursionExists ==
  ASSUME NEW A, NEW a \in A, NEW n \in Nat, NEW s \in [(1..n) \X A -> A]
  PROVE  Solvable(A, a, n, s)
<1> DEFINE Solves(f, k) == f[0] = a /\ \A i \in 1..k : f[i] = s[<<i, f[i - 1]>>]
           Good == {k \in Nat : k <= n => \E f \in [0..k -> A] : Solves(f, k)}
<1>1. 0 \in Good
  <2> DEFINE f == [i \in 0..0 |-> a]
  <2>1. f \in [0..0 -> A] /\ Solves(f, 0)
    OBVIOUS
  <2> QED BY <2>1
<1>2. \A k \in Good : k + 1 \in Good
  <2> SUFFICES ASSUME NEW k \in Good PROVE k + 1 \in Good
    OBVIOUS
  <2> SUFFICES ASSUME k + 1 <= n PROVE \E f \in [0..k + 1 -> A] : Solves(f, k + 1)
    OBVIOUS
  <2>1. PICK f \in [0..k -> A] : Solves(f, k)
    OBVIOUS
  <2> DEFINE y == s[<<k + 1, f[k]>>]
             g == [i \in 0..k + 1 |-> IF i = k + 1 THEN y ELSE f[i]]
  <2>2. y \in A
    <3>1. k + 1 \in 1..n /\ f[k] \in A
      OBVIOUS
    <3> QED BY <3>1
  <2>3. g \in [0..k + 1 -> A]
    <3>1. \A i \in 0..k + 1 : i = k + 1 \/ i \in 0..k
      OBVIOUS
    <3> HIDE DEF y
    <3> QED BY <2>2, <3>1
  <2>4. g[0] = a
    BY <2>1
  <2>5. ASSUME NEW i \in 1..k + 1 PROVE g[i] = s[<<i, g[i - 1]>>]
    <3>1. CASE i = k + 1
      <4>1. g[i] = y /\ i - 1 = k /\ g[i - 1] = f[k]
        BY <3>1
      <4> QED BY <3>1, <4>1
    <3>2. CASE i # k + 1
      <4>1. i \in 1..k /\ i \in 0..k + 1 /\ i - 1 \in 0..k + 1 /\ i - 1 # k + 1
        BY <3>2
      <4>2. g[i] = f[i] /\ g[i - 1] = f[i - 1]
        BY <3>2, <4>1
      <4> QED BY <2>1, <4>1, <4>2
    <3> QED BY <3>1, <3>2
  <2> HIDE DEF g
  <2> QED BY <2>3, <2>4, <2>5
<1>3. Good = Nat
  <2>1. Good \in SUBSET Nat
    OBVIOUS
  <2> HIDE DEF Good
  <2> QED BY <1>1, <1>2, <2>1, AllNumbers
<1>4. n \in Good
  BY <1>3
<1> QED
  BY <1>4 DEF Solvable

\* The bytes the first k elements of a need.
BytesIs(a, f) == f = [k \in 0..Len(a) |-> IF k = 0 THEN 0 ELSE f[k - 1] + Len(a[k]) + 1]
Bytes(a) == CHOOSE f : BytesIs(a, f)

LEMMA NeededBytes == Needed = Bytes(arr)[Len(arr)]
BY Zenon DEF Needed, Bytes, BytesIs

LEMMA BytesFacts ==
  ASSUME NEW a \in Seq(Words)
  PROVE  /\ Bytes(a)[0] = 0
         /\ \A k \in 1..Len(a) : Bytes(a)[k] = Bytes(a)[k - 1] + Len(a[k]) + 1
         /\ \A k \in 0..Len(a) : Bytes(a)[k] \in Nat
<1> DEFINE n == Len(a)
           s == [z \in (1..n) \X Nat |-> z[2] + Len(a[z[1]]) + 1]
<1>1. n \in Nat /\ \A k \in 1..n : Len(a[k]) \in Nat
  BY DEF Words
<1>2. s \in [(1..n) \X Nat -> Nat]
  BY <1>1
<1>3. \A i \in 1..n, x \in Nat : s[<<i, x>>] = x + Len(a[i]) + 1
  OBVIOUS
<1> HIDE DEF s
<1>4. PICK f \in [0..n -> Nat] : f[0] = 0 /\ \A i \in 1..n : f[i] = s[<<i, f[i - 1]>>]
  <2>1. 0 \in Nat
    OBVIOUS
  <2> HIDE DEF n
  <2>2. Solvable(Nat, 0, n, s)
    BY <1>1, <1>2, <2>1, RecursionExists
  <2> QED BY <2>2 DEF Solvable
<1>5. \A i \in 1..n : f[i] = f[i - 1] + Len(a[i]) + 1
  <2>1. \A i \in 1..n : i - 1 \in 0..n
    BY <1>1
  <2> QED BY <1>3, <1>4, <2>1
<1>6. BytesIs(a, f)
  <2>1. f = [k \in 0..n |-> f[k]]
    OBVIOUS
  <2>2. \A k \in 0..n : f[k] = IF k = 0 THEN 0 ELSE f[k - 1] + Len(a[k]) + 1
    <3>1. \A k \in 0..n : k = 0 \/ k \in 1..n
      BY <1>1
    <3> QED BY <1>4, <1>5, <3>1
  <2> QED BY <2>1, <2>2 DEF BytesIs
<1> DEFINE b == Bytes(a)
<1>7. BytesIs(a, b)
  BY <1>6 DEF Bytes
<1> HIDE DEF b
<1>8. b[0] = 0 /\ \A k \in 1..n : b[k] = b[k - 1] + Len(a[k]) + 1
  <2>1. \A k \in 0..n : b[k] = IF k = 0 THEN 0 ELSE b[k - 1] + Len(a[k]) + 1
    BY <1>7 DEF BytesIs
  <2>2. 0 \in 0..n /\ \A k \in 1..n : k \in 0..n /\ k # 0
    BY <1>1
  <2> QED BY <2>1, <2>2
<1>9. \A k \in 0..n : b[k] \in Nat
  <2> DEFINE Good == {k \in Nat : k <= n => b[k] \in Nat}
  <2>1. 0 \in Good
    BY <1>8
  <2>2. \A k \in Good : k + 1 \in Good
    <3> SUFFICES ASSUME NEW k \in Good, k + 1 <= n PROVE b[k + 1] \in Nat
      OBVIOUS
    <3>1. k + 1 \in 1..n /\ (k + 1) - 1 = k /\ b[k] \in Nat
      BY <1>1
    <3> QED BY <1>1, <1>8, <3>1
  <2>3. Good = Nat
    <3>1. Good \in SUBSET Nat
      OBVIOUS
    <3> HIDE DEF Good
    <3> QED BY <2>1, <2>2, <3>1, AllNumbers
  <2> QED BY <2>3, <1>1
<1> QED
  BY <1>8, <1>9 DEF b

\* More elements need more bytes.
LEMMA BytesGrow ==
  ASSUME NEW a \in Seq(Words), NEW j \in 0..Len(a), NEW k \in 0..Len(a), j < k
  PROVE  Bytes(a)[j] < Bytes(a)[k]
<1> DEFINE b == Bytes(a)
           n == Len(a)
           Good == {m \in Nat : j < m /\ m <= n => b[j] < b[m]}
<1>1. n \in Nat /\ \A i \in 1..n : Len(a[i]) \in Nat
  BY DEF Words
<1>2. /\ \A i \in 1..n : b[i] = b[i - 1] + Len(a[i]) + 1
      /\ \A i \in 0..n : b[i] \in Nat
  BY BytesFacts
<1> HIDE DEF b
<1>3. 0 \in Good
  OBVIOUS
<1>4. \A m \in Good : m + 1 \in Good
  <2> SUFFICES ASSUME NEW m \in Good, j < m + 1, m + 1 <= n PROVE b[j] < b[m + 1]
    OBVIOUS
  <2>1. m + 1 \in 1..n /\ (m + 1) - 1 = m /\ m \in 0..n /\ (j = m \/ j < m)
    BY <1>1
  <2>2. b[m + 1] = b[m] + Len(a[m + 1]) + 1
    BY <1>2, <2>1
  <2>3. b[m] < b[m + 1] /\ b[m] \in Nat /\ b[m + 1] \in Nat /\ b[j] \in Nat
    BY <1>1, <1>2, <2>1, <2>2
  <2>4. j < m => b[j] < b[m]
    BY <2>1, <1>1
  <2> QED BY <2>1, <2>3, <2>4
<1>5. Good = Nat
  <2>1. Good \in SUBSET Nat
    OBVIOUS
  <2> HIDE DEF Good
  <2> QED BY <1>3, <1>4, <2>1, AllNumbers
<1>6. k \in Good /\ k <= n
  BY <1>5, <1>1
<1> QED
  BY <1>6 DEF b

-----------------------------------------------------------------------------
(* The tokens of a text.                                                   *)

\* What strtok has found in the first i characters of t.
NextFound(t, i, u) ==
  IF t[i] = Comma THEN u
  ELSE IF i = 1 \/ t[i - 1] = Comma THEN Append(u, <<t[i]>>)
  ELSE [u EXCEPT ![Len(u)] = Append(@, t[i])]
FoundIs(t, f) ==
  f = [i \in 0..Len(t) |-> IF i = 0 THEN << >> ELSE NextFound(t, i, f[i - 1])]
Found(t) == CHOOSE f : FoundIs(t, f)

LEMMA TokensFound == ASSUME NEW t PROVE Tokens(t) = Found(t)[Len(t)]
BY Zenon DEF Tokens, Found, FoundIs, NextFound, Comma

LEMMA NextFoundType ==
  ASSUME NEW t \in Seq(ArrChars), NEW i \in 1..Len(t), NEW u \in Seq(Words)
  PROVE  NextFound(t, i, u) \in Seq(Words)
<1>1. CASE t[i] = Comma
  BY <1>1 DEF NextFound
<1>2. CASE t[i] # Comma
  <2>1. t[i] \in Digits
    BY <1>2 DEF ArrChars
  <2> DEFINE d == t[i]
  <2> HIDE DEF d
  <2>2. d \in Digits
    BY <2>1 DEF d
  <2>3. <<d>> \in Words /\ \A w \in Words : Append(w, d) \in Words
    BY <2>2 DEF Words
  <2>4. Append(u, <<d>>) \in Seq(Words)
    <3> HIDE DEF Words
    <3> QED BY <2>3
  <2>5. [u EXCEPT ![Len(u)] = Append(@, d)] \in Seq(Words)
    <3> DEFINE v == [u EXCEPT ![Len(u)] = Append(u[Len(u)], d)]
    <3> HIDE DEF Words
    <3>1. DOMAIN v = 1..Len(u) /\ Len(u) \in Nat
      OBVIOUS
    <3>2. \A k \in 1..Len(u) : v[k] = IF k = Len(u) THEN Append(u[k], d) ELSE u[k]
      OBVIOUS
    <3>3. \A k \in 1..Len(u) : v[k] \in Words
      BY <2>3, <3>2
    <3>4. v = [k \in 1..Len(u) |-> v[k]]
      BY <3>1
    <3> HIDE DEF v
    <3>5. v \in [1..Len(u) -> Words]
      BY <3>3, <3>4
    <3>6. v \in Seq(Words)
      BY <3>1, <3>5
    <3> QED BY <3>6 DEF v
  <2> QED BY <1>2, <2>4, <2>5 DEF NextFound, d
<1> QED
  BY <1>1, <1>2

LEMMA FoundFacts ==
  ASSUME NEW t \in Seq(ArrChars)
  PROVE  /\ Found(t)[0] = << >>
         /\ \A i \in 1..Len(t) : Found(t)[i] = NextFound(t, i, Found(t)[i - 1])
         /\ \A i \in 0..Len(t) : Found(t)[i] \in Seq(Words)
<1> DEFINE n == Len(t)
           A == Seq(Words)
           s == [z \in (1..n) \X A |-> NextFound(t, z[1], z[2])]
<1>1. n \in Nat
  OBVIOUS
<1>2. s \in [(1..n) \X A -> A]
  <2>1. \A i \in 1..n, u \in A : NextFound(t, i, u) \in A
    BY NextFoundType
  <2> HIDE DEF A, n
  <2> QED BY <2>1
<1>3. \A i \in 1..n, u \in A : s[<<i, u>>] = NextFound(t, i, u)
  OBVIOUS
<1>4. << >> \in A
  OBVIOUS
<1> HIDE DEF s, A, n
<1>5. Solvable(A, << >>, n, s)
  BY <1>1, <1>2, <1>4, RecursionExists
<1>6. PICK f \in [0..n -> A] : f[0] = << >> /\ \A i \in 1..n : f[i] = s[<<i, f[i - 1]>>]
  BY <1>5 DEF Solvable
<1>7. \A i \in 1..n : f[i] = NextFound(t, i, f[i - 1])
  <2>1. \A i \in 1..n : i - 1 \in 0..n
    BY <1>1
  <2> QED BY <1>3, <1>6, <2>1
<1>8. FoundIs(t, f)
  <2>1. f = [k \in 0..n |-> f[k]]
    OBVIOUS
  <2>2. \A k \in 0..n : f[k] = IF k = 0 THEN << >> ELSE NextFound(t, k, f[k - 1])
    <3>1. \A k \in 0..n : k = 0 \/ k \in 1..n
      BY <1>1
    <3>2. \A k \in 1..n : k # 0
      BY <1>1
    <3> QED BY <1>6, <1>7, <3>1, <3>2
  <2> QED BY <2>1, <2>2 DEF FoundIs, n
<1> DEFINE g == Found(t)
<1>9. FoundIs(t, g)
  BY <1>8 DEF Found
<1> HIDE DEF g
<1>10. g[0] = << >> /\ \A k \in 1..n : g[k] = NextFound(t, k, g[k - 1])
  <2>1. \A k \in 0..n : g[k] = IF k = 0 THEN << >> ELSE NextFound(t, k, g[k - 1])
    BY <1>9 DEF FoundIs, n
  <2>2. 0 \in 0..n /\ \A k \in 1..n : k \in 0..n /\ k # 0
    BY <1>1
  <2> QED BY <2>1, <2>2
<1>11. \A k \in 0..n : g[k] \in A
  <2> DEFINE Good == {k \in Nat : k <= n => g[k] \in A}
  <2>1. 0 \in Good
    BY <1>4, <1>10
  <2>2. \A k \in Good : k + 1 \in Good
    <3> SUFFICES ASSUME NEW k \in Good, k + 1 <= n PROVE g[k + 1] \in A
      OBVIOUS
    <3>1. k + 1 \in 1..n /\ (k + 1) - 1 = k /\ g[k] \in A
      BY <1>1
    <3>2. g[k + 1] = NextFound(t, k + 1, g[k])
      BY <1>10, <3>1
    <3> QED BY <3>1, <3>2, NextFoundType DEF A, n
  <2>3. Good = Nat
    <3>1. Good \in SUBSET Nat
      OBVIOUS
    <3> HIDE DEF Good
    <3> QED BY <2>1, <2>2, <3>1, AllNumbers
  <2> QED BY <2>3, <1>1
<1> QED
  BY <1>10, <1>11 DEF g, A, n

LEMMA TokensType ==
  ASSUME NEW t \in Seq(ArrChars)
  PROVE  Tokens(t) \in Seq(Words)
<1>1. Len(t) \in 0..Len(t)
  OBVIOUS
<1> QED
  BY <1>1, TokensFound, FoundFacts

-----------------------------------------------------------------------------
(* From an array to its text and back.                                     *)

\* c is the text of a: its elements with a comma between two of them.
TextOf(a, c) ==
  /\ Len(a) > 0 /\ Len(c) = Bytes(a)[Len(a)] - 1
  /\ \A k \in 1..Len(a) : \A i \in 1..Len(a[k]) : c[Bytes(a)[k - 1] + i] = a[k][i]
  /\ \A k \in 1..Len(a) - 1 : c[Bytes(a)[k]] = Comma

LEMMA OneOf ==
  ASSUME NEW A, NEW w \in Seq(A), NEW i \in 1..Len(w)
  PROVE  SubSeq(w, i, i) = <<w[i]>>
<1> DEFINE u == SubSeq(w, i, i)
<1>1. u \in Seq(A) /\ Len(u) = 1 /\ u[1] = w[i]
  OBVIOUS
<1> HIDE DEF u
<1>2. u = <<w[i]>>
  BY <1>1
<1> QED
  BY <1>2 DEF u

\* The last element replaced.
LEMMA LastReplaced ==
  ASSUME NEW A, NEW u \in Seq(A), NEW x \in A, NEW y \in A
  PROVE  [Append(u, x) EXCEPT ![Len(Append(u, x))] = y] = Append(u, y)
<1> DEFINE v == Append(u, x)
           z == Append(u, y)
           e == [v EXCEPT ![Len(v)] = y]
<1>1. /\ v \in Seq(A) /\ Len(v) = Len(u) + 1 /\ Len(u) \in Nat
      /\ \A q \in 1..Len(u) : v[q] = u[q] /\ q # Len(u) + 1
  OBVIOUS
<1>2. /\ z \in Seq(A) /\ Len(z) = Len(u) + 1 /\ z[Len(u) + 1] = y
      /\ \A q \in 1..Len(u) : z[q] = u[q]
  OBVIOUS
<1> HIDE DEF v, z
<1>3. DOMAIN v = 1..Len(u) + 1
  BY <1>1
<1>4. e \in Seq(A) /\ Len(e) = Len(u) + 1 /\ \A q \in 1..Len(u) + 1 : e[q] = z[q]
  <2>1. \A q \in 1..Len(u) + 1 : q = Len(u) + 1 \/ q \in 1..Len(u)
    BY <1>1
  <2>2. \A q \in 1..Len(u) + 1 : e[q] = IF q = Len(u) + 1 THEN y ELSE v[q]
    BY <1>1, <1>3
  <2>3. \A q \in 1..Len(u) + 1 : e[q] = z[q]
    BY <1>1, <1>2, <2>1, <2>2
  <2>4. e = [q \in 1..Len(u) + 1 |-> e[q]] /\ \A q \in 1..Len(u) + 1 : e[q] \in A
    <3>1. \A q \in 1..Len(u) + 1 : z[q] \in A
      BY <1>1, <1>2
    <3>2. DOMAIN e = 1..Len(u) + 1
      BY <1>3
    <3>3. e = [q \in DOMAIN e |-> e[q]]
      OBVIOUS
    <3> HIDE DEF e
    <3> QED BY <2>3, <3>1, <3>2, <3>3
  <2> HIDE DEF e
  <2>5. e \in [1..Len(u) + 1 -> A]
    BY <2>4
  <2>6. Len(u) + 1 \in Nat
    BY <1>1
  <2>7. e \in Seq(A) /\ Len(e) = Len(u) + 1
    BY <2>5, <2>6
  <2> QED BY <2>3, <2>7
<1> HIDE DEF e
<1>5. e = z
  BY <1>2, <1>4
<1> QED
  BY <1>5 DEF e, v, z

\* One element more of the text gives one token more, a character at a time.
LEMMA ElementFound ==
  ASSUME NEW a \in Seq(Words), NEW c \in Seq(ArrChars), TextOf(a, c),
         NEW k \in 0..Len(a) - 1, Found(c)[Bytes(a)[k]] = SubSeq(a, 1, k),
         NEW i \in 1..Len(a[k + 1])
  PROVE  Found(c)[Bytes(a)[k] + i] = Append(SubSeq(a, 1, k), SubSeq(a[k + 1], 1, i))
<1> DEFINE b == Bytes(a)
           g == Found(c)
           w == a[k + 1]
           u == SubSeq(a, 1, k)
           Good == {m \in Nat : m + 1 <= Len(w) =>
                                  g[b[k] + (m + 1)] = Append(u, SubSeq(w, 1, m + 1))}
<1>1. /\ Len(a) \in Nat /\ k + 1 \in 1..Len(a) /\ k \in 0..Len(a) /\ k \in Nat
      /\ (k + 1) - 1 = k
  OBVIOUS
<1>2. w \in Words
  BY <1>1
<1>3. w \in Seq(Digits) /\ w # << >> /\ Len(w) \in Nat
  BY <1>2 DEF Words
<1>4. u \in Seq(Words) /\ Len(u) = k
  BY <1>1
<1>5. b[k] \in Nat /\ b[k + 1] = b[k] + Len(w) + 1 /\ Len(c) = b[Len(a)] - 1
      /\ b[Len(a)] \in Nat
  BY <1>1, BytesFacts DEF TextOf
<1>6. b[k + 1] <= b[Len(a)]
  <2>1. k + 1 = Len(a) \/ k + 1 < Len(a)
    BY <1>1
  <2>2. k + 1 \in 0..Len(a) /\ Len(a) \in 0..Len(a)
    BY <1>1
  <2>3. k + 1 < Len(a) => b[k + 1] < b[Len(a)]
    BY <2>2, BytesGrow
  <2>4. b[k + 1] \in Nat
    BY <1>3, <1>5
  <2> QED BY <1>5, <2>1, <2>3, <2>4
<1>7. \A m \in 1..Len(w) : b[k] + m \in 1..Len(c)
  BY <1>3, <1>5, <1>6
<1>8. \A m \in 1..Len(w) : c[b[k] + m] = w[m] /\ w[m] \in Digits /\ w[m] # Comma
  <2>1. \A m \in 1..Len(w) : c[b[k] + m] = w[m]
    BY <1>1 DEF TextOf
  <2>2. \A m \in 1..Len(w) : w[m] \in Digits
    BY <1>3
  <2> QED BY <2>1, <2>2, ArrCharFacts
<1>9. \A p \in 1..Len(c) : g[p] = NextFound(c, p, g[p - 1])
  BY FoundFacts
<1>10. g[b[k]] = u
  OBVIOUS
<1>11. k # 0 => c[b[k]] = Comma
  <2>1. k # 0 => k \in 1..Len(a) - 1
    BY <1>1
  <2> QED BY <2>1 DEF TextOf
<1>12. k = 0 => b[k] = 0
  BY BytesFacts
<1> HIDE DEF b, g, w, u
<1>13. 0 \in Good
  <2> SUFFICES ASSUME 0 + 1 <= Len(w)
               PROVE  g[b[k] + (0 + 1)] = Append(u, SubSeq(w, 1, 0 + 1))
    OBVIOUS
  <2>1. 1 \in 1..Len(w) /\ 0 + 1 = 1 /\ (b[k] + 1) - 1 = b[k]
    BY <1>3, <1>5
  <2>2. c[b[k] + 1] = w[1] /\ w[1] # Comma /\ w[1] \in Digits
    BY <1>8, <2>1
  <2>3. g[b[k] + 1] = NextFound(c, b[k] + 1, u)
    BY <1>7, <1>9, <1>10, <2>1
  <2>4. b[k] + 1 = 1 \/ c[(b[k] + 1) - 1] = Comma
    BY <1>5, <1>11, <1>12, <2>1
  <2>5. NextFound(c, b[k] + 1, u) = Append(u, <<w[1]>>)
    BY <2>2, <2>4 DEF NextFound
  <2>6. SubSeq(w, 1, 1) = <<w[1]>>
    BY <1>3, <2>1, OneOf
  <2> QED BY <2>1, <2>3, <2>5, <2>6
<1>14. \A m \in Good : m + 1 \in Good
  <2> SUFFICES ASSUME NEW m \in Good PROVE m + 1 \in Good
    OBVIOUS
  <2> SUFFICES ASSUME (m + 1) + 1 <= Len(w)
               PROVE  g[b[k] + ((m + 1) + 1)] = Append(u, SubSeq(w, 1, (m + 1) + 1))
    OBVIOUS
  <2> DEFINE j == m + 1
             p == b[k] + (j + 1)
             x == SubSeq(w, 1, j)
  <2>1. j \in Nat /\ j \in 1..Len(w) /\ j + 1 \in 1..Len(w) /\ p - 1 = b[k] + j /\ p # 1
    <3>1. j \in Nat /\ j \in 1..Len(w) /\ j + 1 \in 1..Len(w)
      BY <1>3
    <3> HIDE DEF j
    <3>2. p - 1 = b[k] + j /\ p # 1
      <4>1. b[k] \in Nat /\ j \in Nat /\ j >= 1
        BY <1>3, <1>5, <3>1
      <4> QED BY <4>1
    <3> QED BY <3>1, <3>2
  <2>2. g[b[k] + j] = Append(u, x)
    BY <2>1
  <2>3. x \in Seq(Digits) /\ Len(x) = j
    BY <1>3, <2>1
  <2>4. SubSeq(w, 1, j + 1) = Append(x, w[j + 1])
    BY <1>3, <2>1
  <2> HIDE DEF j, x, p
  <2>5. p \in 1..Len(c) /\ c[p] = w[j + 1] /\ c[p - 1] = w[j]
    BY <1>7, <1>8, <2>1 DEF p
  <2>6. g[p] = NextFound(c, p, Append(u, x))
    BY <1>9, <2>1, <2>2, <2>5
  <2>7. c[p] # Comma /\ c[p - 1] # Comma
    BY <1>8, <2>1, <2>5
  <2> DEFINE v == Append(u, x)
  <2>8. NextFound(c, p, v) = [v EXCEPT ![Len(v)] = Append(v[Len(v)], c[p])]
    BY <2>1, <2>7 DEF NextFound
  <2>9. [v EXCEPT ![Len(v)] = Append(v[Len(v)], c[p])] = Append(u, Append(x, c[p]))
    <3>1. u \in Seq(Seq(Digits))
      BY <1>4 DEF Words
    <3>2. c[p] \in Digits
      BY <1>8, <2>1, <2>5
    <3> DEFINE y == Append(x, c[p])
    <3>3. y \in Seq(Digits)
      BY <2>3, <3>2
    <3>4. v[Len(v)] = x
      BY <2>3, <3>1
    <3> HIDE DEF y
    <3>5. [v EXCEPT ![Len(v)] = y] = Append(u, y)
      BY <2>3, <3>1, <3>3, LastReplaced
    <3> QED BY <3>4, <3>5 DEF y
  <2>10. g[p] = Append(u, SubSeq(w, 1, j + 1))
    BY <2>4, <2>5, <2>6, <2>8, <2>9
  <2> QED BY <2>10 DEF p, j
<1>15. Good = Nat
  <2>1. Good \in SUBSET Nat
    OBVIOUS
  <2> HIDE DEF Good
  <2> QED BY <1>13, <1>14, <2>1, AllNumbers
<1>16. i \in 1..Len(w)
  BY DEF w
<1>17. g[b[k] + i] = Append(u, SubSeq(w, 1, i))
  <2>1. i - 1 \in Nat /\ (i - 1) + 1 = i /\ i <= Len(w)
    BY <1>3, <1>16
  <2>2. i - 1 \in Good
    BY <1>15, <2>1
  <2> QED BY <2>1, <2>2
<1> QED
  BY <1>17 DEF b, g, w, u

\* The text of an array is read back as that array.
LEMMA TokensBack ==
  ASSUME NEW a \in Seq(Words), NEW c \in Seq(ArrChars), TextOf(a, c)
  PROVE  Tokens(c) = a
<1> DEFINE b == Bytes(a)
           g == Found(c)
           n == Len(a)
           Good == {k \in Nat : k <= n - 1 => g[b[k]] = SubSeq(a, 1, k)}
<1>1. n \in Nat /\ n > 0 /\ Len(c) = b[n] - 1
  BY DEF TextOf
<1>2. /\ b[0] = 0
      /\ \A k \in 1..n : b[k] = b[k - 1] + Len(a[k]) + 1
      /\ \A k \in 0..n : b[k] \in Nat
  BY BytesFacts
<1>3. ASSUME NEW k \in 0..n - 1, g[b[k]] = SubSeq(a, 1, k)
      PROVE  g[b[k + 1] - 1] = SubSeq(a, 1, k + 1) /\ b[k + 1] - 1 \in Nat
  <2> DEFINE w == a[k + 1]
  <2>1. k + 1 \in 1..n /\ k \in 0..n /\ k \in Nat /\ (k + 1) - 1 = k
    BY <1>1
  <2>2. w \in Seq(Digits) /\ w # << >>
    BY <2>1 DEF Words
  <2>3. Len(w) \in 1..Len(w) /\ Len(w) \in Nat
    BY <2>2
  <2>4. g[b[k] + Len(w)] = Append(SubSeq(a, 1, k), SubSeq(w, 1, Len(w)))
    BY <1>3, <2>3, ElementFound
  <2>5. SubSeq(w, 1, Len(w)) = w
    BY <2>2
  <2>6. Append(SubSeq(a, 1, k), a[k + 1]) = SubSeq(a, 1, k + 1)
    BY <2>1
  <2> HIDE DEF w, b, g
  <2>7. b[k + 1] - 1 = b[k] + Len(w) /\ b[k] \in Nat
    <3>1. b[k + 1] = b[k] + Len(w) + 1 /\ b[k] \in Nat
      BY <1>2, <2>1 DEF w
    <3> QED BY <2>3, <3>1
  <2>8. b[k + 1] - 1 \in Nat
    BY <2>3, <2>7
  <2>9. g[b[k + 1] - 1] = Append(SubSeq(a, 1, k), a[k + 1])
    BY <2>4, <2>5, <2>7 DEF w
  <2> QED BY <2>6, <2>8, <2>9
<1>4. 0 \in Good
  <2>1. SubSeq(a, 1, 0) = << >> /\ g[0] = << >>
    BY FoundFacts
  <2> QED BY <1>2, <2>1
<1>5. \A k \in Good : k + 1 \in Good
  <2> SUFFICES ASSUME NEW k \in Good PROVE k + 1 \in Good
    OBVIOUS
  <2> SUFFICES ASSUME k + 1 <= n - 1 PROVE g[b[k + 1]] = SubSeq(a, 1, k + 1)
    OBVIOUS
  <2>1. k \in 0..n - 1 /\ k + 1 \in 1..n - 1 /\ k + 1 \in 0..n /\ n \in 0..n /\ k + 1 < n
    BY <1>1
  <2>2. g[b[k]] = SubSeq(a, 1, k)
    BY <1>1, <2>1
  <2>3. g[b[k + 1] - 1] = SubSeq(a, 1, k + 1) /\ b[k + 1] - 1 \in Nat
    BY <1>3, <2>1, <2>2
  <2>4. b[k + 1] < b[n]
    BY <2>1, BytesGrow
  <2>5. b[k + 1] \in Nat /\ b[n] \in Nat
    BY <1>2, <2>1
  <2>6. b[k + 1] \in 1..Len(c)
    BY <1>1, <2>3, <2>4, <2>5
  <2>7. g[b[k + 1]] = NextFound(c, b[k + 1], g[b[k + 1] - 1])
    BY <2>6, FoundFacts
  <2>8. c[b[k + 1]] = Comma
    BY <2>1 DEF TextOf
  <2> QED BY <2>3, <2>7, <2>8 DEF NextFound
<1>6. Good = Nat
  <2>1. Good \in SUBSET Nat
    OBVIOUS
  <2> HIDE DEF Good
  <2> QED BY <1>4, <1>5, <2>1, AllNumbers
<1>7. n - 1 \in 0..n - 1 /\ (n - 1) + 1 = n
  BY <1>1
<1>8. g[b[n - 1]] = SubSeq(a, 1, n - 1)
  <2>1. n - 1 \in Nat /\ n - 1 <= n - 1
    BY <1>1
  <2>2. n - 1 \in Good
    BY <1>6, <2>1
  <2> QED BY <2>1, <2>2
<1>9. g[b[n] - 1] = SubSeq(a, 1, n)
  <2> HIDE DEF b, g, Good
  <2> QED BY <1>3, <1>7, <1>8
<1>10. SubSeq(a, 1, n) = a
  OBVIOUS
<1> QED
  BY <1>1, <1>9, <1>10, TokensFound

-----------------------------------------------------------------------------
(* The invariant of arrays and their buffer.                               *)

BufChars == ArrChars \cup {Nul, "?"}

ArrTypeInv ==
  /\ arr \in Seq(Words)
  /\ buf \in [1..Size -> BufChars]
  /\ rc \in Nat /\ at \in 0..Len(arr)

\* While an array is printed, rc counts what the elements so far need, and
\* the bytes before the last one of the buffer are theirs.
Printing ==
  /\ rc = Bytes(arr)[at]
  /\ \A j \in 1..rc : j < Size => buf[j] \in ArrChars
  /\ \A k \in 1..at :
       /\ \A i \in 1..Len(arr[k]) :
            Bytes(arr)[k - 1] + i < Size => buf[Bytes(arr)[k - 1] + i] = arr[k][i]
       /\ Bytes(arr)[k] < Size => buf[Bytes(arr)[k]] = Comma

\* Then the buffer holds the text of the array and its Nul.
HasText ==
  /\ Len(arr) > 0 /\ Bytes(arr)[Len(arr)] \in 1..Size
  /\ buf[Bytes(arr)[Len(arr)]] = Nul
  /\ \A j \in 1..Bytes(arr)[Len(arr)] - 1 : buf[j] \in ArrChars
  /\ \A k \in 1..Len(arr) : \A i \in 1..Len(arr[k]) : buf[Bytes(arr)[k - 1] + i] = arr[k][i]
  /\ \A k \in 1..Len(arr) - 1 : buf[Bytes(arr)[k]] = Comma

PrintInv ==
  /\ doing = "ready" => rc = 0 /\ at = 0
  /\ doing = "print" => Printing
  /\ doing = "printed" => HasText
  /\ doing = "wild" => Bytes(arr)[Len(arr)] \notin 1..Size \/ long

ArrIInv == ArrTypeInv /\ PrintInv

LEMMA PrintInit == ArrayInit => ArrIInv
<1> SUFFICES ASSUME ArrayInit PROVE ArrIInv
  OBVIOUS
<1>1. arr = << >> /\ buf = Junk /\ rc = 0 /\ at = 0 /\ doing = "ready"
  BY DEF ArrayInit
<1>2. << >> \in Seq(Words) /\ Len(<< >>) = 0
  OBVIOUS
<1>3. Junk \in [1..Size -> BufChars]
  BY DEF Junk, BufChars
<1>4. ArrTypeInv
  BY <1>1, <1>2, <1>3 DEF ArrTypeInv
<1>5. PrintInv
  BY <1>1, Zenon DEF PrintInv
<1> QED
  BY <1>4, <1>5 DEF ArrIInv

\* What a text gives: an array, or nothing.
LEMMA Str2ArrayType ==
  ASSUME ArrTypeInv, NEW t \in Seq(ArrChars), DSV_Str2Array(t)
  PROVE  /\ arr' \in Seq(Words)
         /\ doing' \in {"wild", "abort", "ready"} /\ (doing' = "wild" => long')
<1>1. Tokens(t) \in Seq(Words)
  BY TokensType
<1>2. arr \in Seq(Words)
  BY DEF ArrTypeInv
<1>3. \/ long' /\ doing' = "wild" /\ UNCHANGED arr
      \/ doing' = "abort" /\ UNCHANGED arr
      \/ doing' = "ready" /\ arr' = Tokens(t)
  BY Zenon DEF DSV_Str2Array
<1> HIDE DEF Tokens
<1> QED
  BY <1>1, <1>2, <1>3

LEMMA NumeralWords == Numerals \subseteq Words
<1>1. \A d \in Digits : <<d>> \in Words
  BY DEF Words
<1>2. \A d, e \in Digits : <<d, e>> \in Words
  BY DEF Words
<1> QED
  BY <1>1, <1>2 DEF Numerals

LEMMA InputChars == InputTexts \subseteq Seq(ArrChars)
<1>1. ASSUME NEW t \in InputTexts PROVE t \in Seq(ArrChars)
  <2>1. PICK k \in 0..Size : t \in [1..k -> ArrChars]
    BY Zenon DEF InputTexts, ArrChars, Comma
  <2>2. k \in Nat
    BY ArrCharFacts
  <2> QED BY <2>1, <2>2
<1> QED
  BY <1>1

\* One element printed.
LEMMA PrintElementKeeps ==
  ASSUME ArrIInv, PrintElement
  PROVE  ArrIInv'
<1> DEFINE b == Bytes(arr)
           w == arr[at + 1]
           s == Append(w, Comma)
<1>0. ArrTypeInv /\ PrintInv
  BY DEF ArrIInv
<1>1. /\ arr \in Seq(Words) /\ buf \in [1..Size -> BufChars]
      /\ rc \in Nat /\ at \in 0..Len(arr) /\ Len(arr) \in Nat
  BY <1>0 DEF ArrTypeInv
<1>2. /\ doing = "print" /\ at < Len(arr)
      /\ rc' = rc + Len(s) /\ at' = at + 1 /\ UNCHANGED <<arr, long>>
      /\ \/ ~ RoomLeft /\ doing' = "wild" /\ UNCHANGED buf
         \/ /\ RoomLeft /\ UNCHANGED doing
            /\ buf' = IF rc < Size THEN Printed(s, rc) ELSE buf
  BY Zenon DEF PrintElement, Comma
<1>3. Printing
  BY <1>0, <1>2, Zenon DEF PrintInv
<1>4. at + 1 \in 1..Len(arr) /\ at + 1 \in 0..Len(arr) /\ (at + 1) - 1 = at
  BY <1>1, <1>2
<1>5. w \in Seq(Digits) /\ w # << >> /\ Len(w) \in Nat
  BY <1>1, <1>4 DEF Words
<1>6. /\ s \in Seq(ArrChars) /\ Len(s) = Len(w) + 1 /\ s[Len(w) + 1] = Comma
      /\ \A i \in 1..Len(w) : s[i] = w[i]
  <2>1. w \in Seq(ArrChars) /\ Comma \in ArrChars
    BY <1>5 DEF ArrChars
  <2> HIDE DEF w
  <2> QED BY <2>1
<1>7. rc = b[at] /\ rc' = b[at + 1] /\ b[at + 1] = rc + (Len(w) + 1) /\ rc' \in Nat
  <2>1. rc = b[at]
    BY <1>3 DEF Printing
  <2>2. b[at + 1] = b[at] + Len(w) + 1
    BY <1>1, <1>4, BytesFacts
  <2>3. rc' = rc + Len(s)
    BY <1>2
  <2>4. Len(s) = Len(w) + 1
    BY <1>6
  <2> HIDE DEF b, w, s
  <2>5. b[at + 1] = rc + (Len(w) + 1)
    <3>1. b[at] \in Nat
      BY <1>1, <2>1
    <3> QED BY <1>5, <2>1, <2>2, <3>1
  <2>6. rc' = b[at + 1]
    BY <2>3, <2>4, <2>5
  <2>7. rc' \in Nat
    BY <1>1, <1>5, <2>3, <2>4
  <2> QED BY <2>1, <2>5, <2>6, <2>7
<1> HIDE DEF b, w, s
<1>8. CASE ~ RoomLeft /\ doing' = "wild" /\ UNCHANGED buf
  <2>1. rc > Size
    BY <1>1, <1>8, ArrCharFacts DEF RoomLeft
  <2>2. Bytes(arr)[Len(arr)] > rc /\ Bytes(arr)[Len(arr)] \in Nat
    <3>1. at \in 0..Len(arr) /\ Len(arr) \in 0..Len(arr) /\ at < Len(arr)
      BY <1>1, <1>2
    <3>2. Bytes(arr)[at] < Bytes(arr)[Len(arr)] /\ Bytes(arr)[Len(arr)] \in Nat
      BY <1>1, <3>1, BytesGrow, BytesFacts
    <3>3. rc = Bytes(arr)[at]
      BY <1>7 DEF b
    <3> QED BY <1>1, <3>2, <3>3
  <2>3. Bytes(arr)[Len(arr)] \notin 1..Size
    BY <1>1, <2>1, <2>2, ArrCharFacts
  <2>4. ArrTypeInv'
    BY <1>1, <1>2, <1>4, <1>7, <1>8 DEF ArrTypeInv
  <2>5. PrintInv'
    BY <1>2, <1>8, <2>3 DEF PrintInv
  <2> QED BY <2>4, <2>5 DEF ArrIInv
<1>9. CASE RoomLeft /\ UNCHANGED doing /\ buf' = IF rc < Size THEN Printed(s, rc) ELSE buf
  <2> DEFINE n == IF Len(s) < Size - rc THEN Len(s) ELSE Size - rc - 1
  <2>0. Len(s) \in Nat /\ Len(s) = Len(w) + 1 /\ Size \in Nat /\ Size > 0
    BY <1>5, <1>6, ArrCharFacts
  <2>1. ASSUME rc < Size
        PROVE  /\ buf' = [i \in 1..Size |-> IF i \in rc + 1..rc + n THEN s[i - rc]
                                            ELSE IF i = rc + n + 1 THEN Nul ELSE buf[i]]
               /\ n \in 0..Len(s)
               /\ \A i \in 1..Len(s) : rc + i < Size => i <= n
    <3>1. buf' = Printed(s, rc)
      BY <1>9, <2>1
    <3>2. n \in 0..Len(s) /\ \A i \in 1..Len(s) : rc + i < Size => i <= n
      BY <1>1, <2>0, <2>1
    <3> QED BY <3>1, <3>2 DEF Printed
  <2> HIDE DEF n
  <2>2. buf' \in [1..Size -> BufChars]
    <3>1. CASE rc < Size
      <4>1. \A i \in 1..Size : i \in rc + 1..rc + n => s[i - rc] \in BufChars
        <5> TAKE i \in 1..Size
        <5> HAVE i \in rc + 1..rc + n
        <5>1. i - rc \in 1..Len(s)
          BY <1>1, <2>0, <2>1, <3>1
        <5> QED BY <1>6, <5>1 DEF BufChars
      <4>2. Nul \in BufChars /\ \A i \in 1..Size : buf[i] \in BufChars
        BY <1>1 DEF BufChars
      <4> QED BY <2>1, <3>1, <4>1, <4>2
    <3>2. CASE ~ (rc < Size)
      BY <1>1, <1>9, <3>2
    <3> QED BY <3>1, <3>2
  <2>3. \A j \in 1..rc : j < Size => buf'[j] = buf[j]
    <3> TAKE j \in 1..rc
    <3> HAVE j < Size
    <3>1. CASE rc < Size
      <4>1. j \in 1..Size /\ ~ (j \in rc + 1..rc + n) /\ j # rc + n + 1
        BY <1>1, <2>0, <2>1, <3>1
      <4> QED BY <2>1, <3>1, <4>1
    <3>2. CASE ~ (rc < Size)
      BY <1>9, <3>2
    <3> QED BY <3>1, <3>2
  <2>4. \A i \in 1..Len(s) : rc + i < Size => buf'[rc + i] = s[i]
    <3> TAKE i \in 1..Len(s)
    <3> HAVE rc + i < Size
    <3>1. rc < Size
      BY <1>1, <2>0
    <3>2. i <= n /\ n \in 0..Len(s)
      BY <2>1, <3>1
    <3>3. rc + i \in 1..Size /\ rc + i \in rc + 1..rc + n /\ (rc + i) - rc = i
      BY <1>1, <2>0, <3>2
    <3> QED BY <2>1, <3>1, <3>3
  <2>5. \A j \in 1..rc' : j < Size => buf'[j] \in ArrChars
    <3> TAKE j \in 1..rc'
    <3> HAVE j < Size
    <3>1. CASE j <= rc
      <4>1. j \in 1..rc
        BY <1>1, <3>1
      <4> QED BY <1>3, <2>3, <4>1 DEF Printing
    <3>2. CASE j > rc
      <4> DEFINE i == j - rc
      <4>1. i \in 1..Len(s) /\ rc + i = j
        BY <1>1, <1>2, <2>0, <3>2
      <4> HIDE DEF i
      <4>2. buf'[j] = s[i] /\ s[i] \in ArrChars
        BY <1>6, <2>4, <4>1
      <4> QED BY <4>2
    <3> QED BY <1>1, <3>1, <3>2
  <2>6. ASSUME NEW k \in 1..at + 1
        PROVE  /\ \A i \in 1..Len(arr[k]) : b[k - 1] + i < Size => buf'[b[k - 1] + i] = arr[k][i]
               /\ b[k] < Size => buf'[b[k]] = Comma
    <3>1. CASE k = at + 1
      <4>1. k - 1 = at /\ arr[k] = w /\ b[k - 1] = rc /\ b[k] = rc + (Len(w) + 1)
        <5>1. k - 1 = at
          BY <1>4, <3>1
        <5>2. arr[k] = w
          BY <3>1 DEF w
        <5>3. b[k - 1] = rc
          BY <1>7, <5>1
        <5>4. b[k] = rc + (Len(w) + 1)
          BY <1>7, <3>1
        <5> QED BY <5>1, <5>2, <5>3, <5>4
      <4>2. Len(w) + 1 \in 1..Len(s) /\ \A i \in 1..Len(w) : i \in 1..Len(s)
        BY <1>5, <2>0
      <4> QED BY <1>6, <2>4, <4>1, <4>2
    <3>2. CASE k # at + 1
      <4>1. k \in 1..at /\ k \in 1..Len(arr) /\ k - 1 \in 0..Len(arr) /\ k \in 0..Len(arr)
        BY <1>1, <1>4, <3>2
      <4>2. /\ b[k] = b[k - 1] + Len(arr[k]) + 1 /\ b[k - 1] \in Nat /\ b[k] \in Nat
            /\ Len(arr[k]) \in Nat
        BY <1>1, <4>1, BytesFacts DEF b, Words
      <4>3. b[k] <= rc
        <5>1. k = at \/ k < at
          BY <1>1, <4>1
        <5>2. k < at => b[k] < b[at]
          BY <1>1, <4>1, BytesGrow DEF b
        <5> QED BY <1>1, <1>7, <4>2, <5>1, <5>2
      <4>4. b[k] \in 1..rc /\ \A i \in 1..Len(arr[k]) : b[k - 1] + i \in 1..rc
        BY <1>1, <4>2, <4>3
      <4>5. /\ \A i \in 1..Len(arr[k]) : b[k - 1] + i < Size => buf[b[k - 1] + i] = arr[k][i]
            /\ b[k] < Size => buf[b[k]] = Comma
        BY <1>3, <4>1 DEF Printing, b
      <4> QED BY <2>3, <4>4, <4>5
    <3> QED BY <3>1, <3>2
  <2>7. Printing'
    BY <1>2, <1>7, <2>5, <2>6 DEF Printing, b
  <2>8. ArrTypeInv'
    BY <1>1, <1>2, <1>4, <1>7, <2>2 DEF ArrTypeInv
  <2>9. PrintInv'
    BY <1>2, <1>9, <2>7 DEF PrintInv
  <2> QED BY <2>8, <2>9 DEF ArrIInv
<1> QED
  BY <1>2, <1>8, <1>9

\* Every byte of the elements and of the commas between them is before the last.
LEMMA BytesBefore ==
  ASSUME NEW a \in Seq(Words), Len(a) > 0
  PROVE  /\ Bytes(a)[Len(a)] \in Nat /\ Bytes(a)[Len(a)] > 0
         /\ \A k \in 1..Len(a) : \A i \in 1..Len(a[k]) :
              Bytes(a)[k - 1] + i \in 1..Bytes(a)[Len(a)] - 1
         /\ \A k \in 1..Len(a) - 1 : Bytes(a)[k] \in 1..Bytes(a)[Len(a)] - 1
<1> DEFINE b == Bytes(a)
           n == Len(a)
<1>1. n \in Nat /\ n \in 0..n /\ 0 \in 0..n /\ 0 < n
  OBVIOUS
<1>2. /\ b[0] = 0
      /\ \A k \in 1..n : b[k] = b[k - 1] + Len(a[k]) + 1
      /\ \A k \in 0..n : b[k] \in Nat
  BY BytesFacts
<1>3. \A k \in 1..n : Len(a[k]) \in Nat
  BY DEF Words
<1>4. \A j \in 0..n, k \in 0..n : j < k => b[j] < b[k]
  BY BytesGrow
<1> HIDE DEF b, n
<1>5. b[n] \in Nat /\ b[n] > 0
  BY <1>1, <1>2, <1>4
<1>6. ASSUME NEW k \in 1..n - 1 PROVE b[k] \in 1..b[n] - 1
  <2>1. k \in 0..n /\ k < n /\ 0 < k
    BY <1>1
  <2>2. b[k] \in Nat /\ b[k] < b[n] /\ b[0] < b[k]
    BY <1>1, <1>2, <1>4, <2>1
  <2> QED BY <1>2, <1>5, <2>2
<1>7. ASSUME NEW k \in 1..n, NEW i \in 1..Len(a[k]) PROVE b[k - 1] + i \in 1..b[n] - 1
  <2>1. k - 1 \in 0..n /\ k \in 0..n /\ (k = n \/ k < n)
    BY <1>1
  <2>2. b[k] = b[k - 1] + Len(a[k]) + 1 /\ b[k - 1] \in Nat /\ b[k] \in Nat /\ Len(a[k]) \in Nat
    BY <1>2, <1>3, <2>1
  <2>3. b[k] = b[n] \/ b[k] < b[n]
    BY <1>1, <1>4, <2>1
  <2> QED BY <1>5, <2>2, <2>3
<1> QED
  BY <1>5, <1>6, <1>7 DEF b, n

\* The end of an array's text: Nul over its last comma.
LEMMA EndPrintKeeps ==
  ASSUME ArrIInv, EndPrint
  PROVE  ArrIInv'
<1>1. ArrTypeInv /\ PrintInv
  BY DEF ArrIInv
<1>2. /\ arr \in Seq(Words) /\ buf \in [1..Size -> BufChars]
      /\ rc \in Nat /\ at \in 0..Len(arr) /\ Len(arr) \in Nat
  BY <1>1 DEF ArrTypeInv
<1>3. /\ doing = "print" /\ at = Len(arr)
      /\ \/ rc \in 1..Size /\ buf' = [buf EXCEPT ![rc] = Nul] /\ doing' = "printed"
         \/ rc \notin 1..Size /\ UNCHANGED buf /\ doing' = "wild"
      /\ UNCHANGED <<arr, long, rc, at>>
  BY Zenon DEF EndPrint, LastComma
<1>4. Printing
  BY <1>1, <1>3, Zenon DEF PrintInv
<1>5. rc = Bytes(arr)[Len(arr)]
  BY <1>3, <1>4 DEF Printing
<1>6. CASE rc \notin 1..Size /\ UNCHANGED buf /\ doing' = "wild"
  <2>1. ArrTypeInv'
    BY <1>2, <1>3, <1>6 DEF ArrTypeInv
  <2>2. PrintInv'
    BY <1>3, <1>5, <1>6 DEF PrintInv
  <2> QED BY <2>1, <2>2 DEF ArrIInv
<1>7. CASE rc \in 1..Size /\ buf' = [buf EXCEPT ![rc] = Nul] /\ doing' = "printed"
  <2>1. buf' \in [1..Size -> BufChars]
    BY <1>2, <1>7 DEF BufChars
  <2>2. Len(arr) > 0
    BY <1>2, <1>5, <1>7, BytesFacts
  <2> DEFINE b == Bytes(arr)
             n == Len(arr)
  <2>3. /\ \A k \in 1..n : \A i \in 1..Len(arr[k]) : b[k - 1] + i \in 1..rc - 1
        /\ \A k \in 1..n - 1 : b[k] \in 1..rc - 1
    BY <1>2, <1>5, <2>2, BytesBefore
  <2>4. /\ \A j \in 1..rc : j < Size => buf[j] \in ArrChars
        /\ \A k \in 1..n :
             /\ \A i \in 1..Len(arr[k]) : b[k - 1] + i < Size => buf[b[k - 1] + i] = arr[k][i]
             /\ b[k] < Size => buf[b[k]] = Comma
    BY <1>3, <1>4 DEF Printing
  <2>5. n \in Nat /\ Size \in Nat /\ buf'[rc] = Nul
    BY <1>2, <1>7, ArrCharFacts
  <2>6. b[n] = rc
    BY <1>5
  <2> HIDE DEF b, n
  <2>7. \A j \in 1..rc - 1 : j \in 1..rc /\ j < Size /\ buf'[j] = buf[j]
    BY <1>2, <1>7, <2>5
  <2>8. \A j \in 1..rc - 1 : buf'[j] \in ArrChars
    BY <2>4, <2>7
  <2>9. \A k \in 1..n : \A i \in 1..Len(arr[k]) : buf'[b[k - 1] + i] = arr[k][i]
    BY <2>3, <2>4, <2>7
  <2>10. \A k \in 1..n - 1 : buf'[b[k]] = Comma
    <3>1. \A k \in 1..n - 1 : k \in 1..n
      BY <2>5
    <3> QED BY <2>3, <2>4, <2>7, <3>1
  <2>11. HasText'
    <3>1. arr' = arr
      BY <1>3
    <3>2. /\ n > 0 /\ b[n] \in 1..Size /\ buf'[b[n]] = Nul
          /\ \A j \in 1..b[n] - 1 : buf'[j] \in ArrChars
      BY <1>7, <2>2, <2>5, <2>6, <2>8 DEF n
    <3> QED BY <2>9, <2>10, <3>1, <3>2 DEF HasText, b, n
  <2>12. ArrTypeInv'
    BY <1>2, <1>3, <2>1 DEF ArrTypeInv
  <2>13. PrintInv'
    BY <1>7, <2>11 DEF PrintInv
  <2> QED BY <2>12, <2>13 DEF ArrIInv
<1> QED
  BY <1>3, <1>6, <1>7

\* What is printed ends at its Nul, and is the text of the array.
LEMMA CStringIsText ==
  ASSUME ArrTypeInv, HasText
  PROVE  CString \in Seq(ArrChars) /\ TextOf(arr, CString) /\ Len(CString) < Size
<1> DEFINE n == Bytes(arr)[Len(arr)]
           Ends(i) == buf[i] = Nul /\ \A j \in 1..i - 1 : buf[j] # Nul
           e == CHOOSE i \in 1..Size : Ends(i)
<1>1. /\ arr \in Seq(Words) /\ buf \in [1..Size -> BufChars]
  BY DEF ArrTypeInv
<1>2. /\ n \in 1..Size /\ buf[n] = Nul /\ Len(arr) > 0
      /\ \A j \in 1..n - 1 : buf[j] \in ArrChars
  BY DEF HasText
<1>3. Size \in Nat /\ Nul \notin ArrChars
  BY ArrCharFacts
<1>4. Ends(n)
  BY <1>2, <1>3
<1>5. e \in 1..Size /\ Ends(e)
  BY <1>2, <1>4
<1>6. e = n
  <2> HIDE DEF e, n
  <2>1. ~ (e < n)
    <3> SUFFICES ASSUME e < n PROVE FALSE
      OBVIOUS
    <3>1. e \in 1..n - 1
      BY <1>2, <1>3, <1>5
    <3> QED BY <1>2, <1>3, <1>5, <3>1
  <2>2. ~ (n < e)
    <3> SUFFICES ASSUME n < e PROVE FALSE
      OBVIOUS
    <3>1. n \in 1..e - 1
      BY <1>2, <1>3, <1>5
    <3> QED BY <1>2, <1>5, <3>1
  <2> QED BY <1>2, <1>3, <1>5, <2>1, <2>2
<1> DEFINE c == SubSeq(buf, 1, n - 1)
<1>7. CString = c
  <2>1. CString = SubSeq(buf, 1, e - 1)
    BY Zenon DEF CString
  <2> HIDE DEF e, n
  <2> QED BY <1>6, <2>1
<1>8. c \in Seq(ArrChars) /\ Len(c) = n - 1 /\ \A j \in 1..n - 1 : c[j] = buf[j]
  <2> HIDE DEF n
  <2>1. n - 1 \in Nat /\ n - 1 \in 0..Size
    BY <1>2, <1>3
  <2>2. buf \in Seq(BufChars) /\ Len(buf) = Size
    BY <1>1, <1>3
  <2>3. c \in Seq(BufChars) /\ Len(c) = n - 1 /\ \A j \in 1..n - 1 : c[j] = buf[j]
    BY <2>1, <2>2
  <2> HIDE DEF c
  <2>4. c \in [1..n - 1 -> ArrChars]
    <3>1. DOMAIN c = 1..n - 1 /\ c = [j \in DOMAIN c |-> c[j]]
      BY <2>3
    <3> QED BY <1>2, <2>3, <3>1
  <2> QED BY <2>1, <2>3, <2>4
<1>9. TextOf(arr, c)
  <2>1. /\ \A k \in 1..Len(arr) : \A i \in 1..Len(arr[k]) : buf[Bytes(arr)[k - 1] + i] = arr[k][i]
        /\ \A k \in 1..Len(arr) - 1 : buf[Bytes(arr)[k]] = Comma
    BY DEF HasText
  <2>2. /\ \A k \in 1..Len(arr) : \A i \in 1..Len(arr[k]) : Bytes(arr)[k - 1] + i \in 1..n - 1
        /\ \A k \in 1..Len(arr) - 1 : Bytes(arr)[k] \in 1..n - 1
    BY <1>1, <1>2, BytesBefore
  <2> HIDE DEF c
  <2> QED BY <1>2, <1>8, <2>1, <2>2 DEF TextOf
<1>10. Len(c) < Size
  <2> HIDE DEF c, n
  <2> QED BY <1>2, <1>3, <1>8
<1> QED
  BY <1>7, <1>8, <1>9, <1>10

\* What is read back is the array that was printed.
LEMMA ReadBackSame ==
  ASSUME ArrIInv, ReadBack
  PROVE  doing' = "ready" /\ arr' = arr
<1>1. ArrTypeInv /\ PrintInv /\ doing = "printed" /\ DSV_Str2Array(CString)
  BY Zenon DEF ArrIInv, ReadBack
<1>2. HasText
  BY <1>1, Zenon DEF PrintInv
<1> DEFINE c == CString
<1>3. c \in Seq(ArrChars) /\ TextOf(arr, c) /\ Len(c) < Size
  BY <1>1, <1>2, CStringIsText
<1>4. arr \in Seq(Words) /\ Len(arr) > 0
  BY <1>1, <1>2 DEF ArrTypeInv, HasText
<1> HIDE DEF c
<1>5. Tokens(c) = arr
  BY <1>3, <1>4, TokensBack
<1>6. Tokens(c) # << >>
  <2> HIDE DEF Tokens
  <2> QED BY <1>4, <1>5
<1>7. ~ long'
  <2>1. long' = (Len(c) >= Size)
    BY <1>1, Zenon DEF DSV_Str2Array, c
  <2>2. ~ (Len(c) >= Size)
    BY <1>3, ArrCharFacts
  <2> QED BY <2>1, <2>2, Zenon
<1>8. doing' = "ready" /\ arr' = Tokens(c)
  BY <1>1, <1>6, <1>7, Zenon DEF DSV_Str2Array, c
<1> QED
  BY <1>5, <1>8, Zenon

\* Every step.
LEMMA PrintNext == ArrIInv /\ [ArrayNext]_avars => ArrIInv'
<1> SUFFICES ASSUME ArrIInv, [ArrayNext]_avars PROVE ArrIInv'
  OBVIOUS
<1>0. ArrTypeInv /\ PrintInv
  BY DEF ArrIInv
<1>1. /\ arr \in Seq(Words) /\ buf \in [1..Size -> BufChars]
      /\ rc \in Nat /\ at \in 0..Len(arr) /\ Len(arr) \in Nat
  BY <1>0 DEF ArrTypeInv
<1>2. \A a \in Seq(Words) : 0 \in 0..Len(a)
  OBVIOUS
<1>3. ASSUME NEW t \in InputTexts, ReadInput(t) PROVE ArrIInv'
  <2>1. doing = "ready" /\ DSV_Str2Array(t) /\ UNCHANGED <<buf, rc, at>>
    BY <1>3, Zenon DEF ReadInput
  <2>2. t \in Seq(ArrChars)
    BY InputChars
  <2>3. arr' \in Seq(Words) /\ doing' \in {"wild", "abort", "ready"} /\ (doing' = "wild" => long')
    BY <1>0, <2>1, <2>2, Str2ArrayType
  <2>4. rc = 0 /\ at = 0
    BY <1>0, <2>1, Zenon DEF PrintInv
  <2>5. ArrTypeInv'
    BY <1>1, <1>2, <2>1, <2>3, <2>4 DEF ArrTypeInv
  <2>6. PrintInv'
    BY <2>1, <2>3, <2>4 DEF PrintInv
  <2> QED BY <2>5, <2>6 DEF ArrIInv
<1>4. ASSUME NEW x \in Numerals, AddItem(x) PROVE ArrIInv'
  <2>1. doing = "ready" /\ arr' = Append(arr, x) /\ UNCHANGED <<long, buf, rc, at, doing>>
    BY <1>4 DEF AddItem
  <2>2. x \in Words
    BY NumeralWords
  <2>3. arr' \in Seq(Words)
    <3> HIDE DEF Words
    <3> QED BY <1>1, <2>1, <2>2
  <2>4. rc = 0 /\ at = 0
    BY <1>0, <2>1, Zenon DEF PrintInv
  <2>5. ArrTypeInv'
    BY <1>1, <1>2, <2>1, <2>3, <2>4 DEF ArrTypeInv
  <2>6. PrintInv'
    BY <2>1, <2>4 DEF PrintInv
  <2> QED BY <2>5, <2>6 DEF ArrIInv
<1>5. CASE PrintArray
  <2>1. doing = "ready" /\ doing' = "print" /\ UNCHANGED <<arr, long, buf, rc, at>>
    BY <1>5 DEF PrintArray
  <2>2. rc = 0 /\ at = 0
    BY <1>0, <2>1, Zenon DEF PrintInv
  <2>3. Printing'
    <3>1. Bytes(arr)[0] = 0
      BY <1>1, BytesFacts
    <3> QED BY <2>1, <2>2, <3>1 DEF Printing
  <2>4. ArrTypeInv'
    BY <1>1, <2>1 DEF ArrTypeInv
  <2>5. PrintInv'
    BY <2>1, <2>3 DEF PrintInv
  <2> QED BY <2>4, <2>5 DEF ArrIInv
<1>6. CASE PrintElement
  BY <1>6, PrintElementKeeps
<1>7. CASE EndPrint
  BY <1>7, EndPrintKeeps
<1>8. CASE ReadBack
  <2>1. buf' = Junk /\ rc' = 0 /\ at' = 0
    BY <1>8 DEF ReadBack
  <2>2. doing' = "ready" /\ arr' = arr
    BY <1>8, ReadBackSame
  <2>3. Junk \in [1..Size -> BufChars]
    BY DEF Junk, BufChars
  <2>4. ArrTypeInv'
    BY <1>1, <1>2, <2>1, <2>2, <2>3 DEF ArrTypeInv
  <2>5. PrintInv'
    BY <2>1, <2>2 DEF PrintInv
  <2> QED BY <2>4, <2>5 DEF ArrIInv
<1>9. CASE UNCHANGED avars
  <2>1. UNCHANGED <<arr, long, buf, rc, at, doing>>
    BY <1>9 DEF avars
  <2>2. ArrTypeInv'
    BY <1>1, <2>1 DEF ArrTypeInv
  <2>3. PrintInv'
    BY <1>0, <2>1 DEF PrintInv, Printing, HasText
  <2> QED BY <2>2, <2>3 DEF ArrIInv
<1> QED
  BY <1>3, <1>4, <1>5, <1>6, <1>7, <1>8, <1>9, Zenon DEF ArrayNext

LEMMA ArraysKept == ArraySpec => []ArrIInv
<1>1. ArrayInit => ArrIInv
  BY PrintInit
<1>2. ArrIInv /\ [ArrayNext]_avars => ArrIInv'
  BY PrintNext
<1> QED
  BY <1>1, <1>2, PTL DEF ArraySpec

\* DSV_Array2Str and DSV_Str2Array use memory beyond a buffer only when the
\* text does not fit in it or the array is empty: an array whose text, with its
\* Nul, takes every byte of the buffer is still printed within it.
THEOREM WildOnlyTooLong == ArraySpec => []WildIffTooLong
<1>1. ArrIInv => WildIffTooLong
  <2> SUFFICES ASSUME ArrIInv PROVE WildIffTooLong
    OBVIOUS
  <2>1. /\ doing = "printed" => HasText
        /\ doing = "wild" => Bytes(arr)[Len(arr)] \notin 1..Size \/ long
    BY Zenon DEF ArrIInv, PrintInv
  <2>2. HasText => Bytes(arr)[Len(arr)] \in 1..Size
    BY DEF HasText
  <2> QED BY <2>1, <2>2, NeededBytes, Zenon DEF WildIffTooLong
<1> QED
  BY <1>1, ArraysKept, PTL

\* An array that the server has saved as text comes back from a restore as it
\* was: DSV_Str2Array of what DSV_Array2Str wrote.
THEOREM TextComesBack == ArraySpec => TextRoundTrip
<1>1. ArrIInv /\ [ArrayNext]_avars => [ReadBack => doing' = "ready" /\ arr' = arr]_avars
  BY ReadBackSame, Zenon
<1> QED
  BY <1>1, ArraysKept, PTL DEF ArraySpec, TextRoundTrip

-----------------------------------------------------------------------------
(* The save file implements the store (DsvFileStore).                      *)

MemOf == [n \in Names |-> Brief(held[n].val)]
KeepOf == Kept \cap Made(held)
Lasts == [Names -> Seq(Chars) \cup {NoValue}]
Fits(l) == \A n \in Names : l[n] # NoValue => Cut(l[n]) = l[n]

\* Between requests `held' is the table.  While a restore reads a sound file, an
\* entry of which there is no record is as it was, and none comes or goes.
HeldInv ==
  /\ held \in [Names -> Entries] /\ last \in Lasts /\ Fits(last)
  /\ pc # "scan" => held = tab
  /\ pc = "scan" /\ sound =>
                    \A n \in Names :
                      /\ last[n] = NoValue => tab[n] = held[n]
                      /\ tab[n].val = NoValue <=> held[n].val = NoValue

\* What fits is not cut again.
LEMMA CutTwice ==
  ASSUME NEW v \in Seq(Chars)
  PROVE  Cut(v) \in Seq(Chars) /\ Cut(v) # NoValue /\ Cut(Cut(v)) = Cut(v)
<1> DEFINE m == IF Len(v) < MaxLen THEN Len(v) ELSE MaxLen
           w == SubSeq(v, 1, m)
<1>1. m \in Nat /\ m <= Len(v) /\ m <= MaxLen /\ MaxLen \in Nat
  BY CharFacts
<1>2. Cut(v) = w
  BY DEF Cut
<1> HIDE DEF m
<1>3. w \in Seq(Chars) /\ Len(w) = m
  BY <1>1
<1> HIDE DEF w
<1>4. SubSeq(w, 1, Len(w)) = w
  BY <1>3
<1>5. (IF Len(w) < MaxLen THEN Len(w) ELSE MaxLen) = Len(w)
  BY <1>1, <1>3
<1>6. Cut(w) = w
  BY <1>4, <1>5 DEF Cut
<1> QED
  BY <1>2, <1>3, <1>6, CharFacts

LEMMA NoneCut == << >> \in Seq(Chars) /\ Cut(<< >>) = << >>
<1>1. << >> \in Seq(Chars) /\ Len(<< >>) = 0 /\ SubSeq(<< >>, 1, 0) = << >>
  OBVIOUS
<1>2. (IF 0 < MaxLen THEN 0 ELSE MaxLen) = 0
  BY CharFacts
<1> QED
  BY <1>1, <1>2 DEF Cut

LEMMA BriefFacts ==
  /\ Brief(NoValue) = NoValue /\ NoValue \notin Seq(Chars)
  /\ \A v \in Seq(Chars) : Brief(v) = Cut(v) /\ Brief(v) # NoValue
BY CharFacts, CutTwice DEF Brief

\* What the passes of var_save write are values that fit.
LEMMA NotedFits ==
  ASSUME FileTypeInv, NEW l \in Lasts, Fits(l), NEW P \in SUBSET Unsaved
  PROVE  /\ Noted(l, P) \in Lasts /\ Fits(Noted(l, P))
         /\ \A n \in Names : Noted(l, P)[n] = IF n \in P THEN Cut(tab[n].val) ELSE l[n]
<1>1. \A n \in Names : Noted(l, P)[n] = IF n \in P THEN Cut(tab[n].val) ELSE l[n]
  BY Zenon DEF Noted
<1>2. Noted(l, P) = [n \in Names |-> Noted(l, P)[n]]
  BY <1>1, Zenon DEF Noted
<1>3. ASSUME NEW n \in Names
      PROVE  /\ Noted(l, P)[n] \in Seq(Chars) \cup {NoValue}
             /\ Noted(l, P)[n] # NoValue => Cut(Noted(l, P)[n]) = Noted(l, P)[n]
  <2>1. CASE n \in P
    <3>1. tab[n].val \in Seq(Chars)
      BY <2>1, UnsavedFacts
    <3>2. Noted(l, P)[n] = Cut(tab[n].val)
      BY <1>1, <2>1
    <3> QED BY <3>1, <3>2, CutTwice
  <2>2. CASE n \notin P
    <3>1. Noted(l, P)[n] = l[n]
      BY <1>1, <2>2
    <3> QED BY <3>1 DEF Lasts, Fits
  <2> QED BY <2>1, <2>2
<1> DEFINE k == Noted(l, P)
<1>4. k \in Lasts
  <2> HIDE DEF k
  <2>1. k = [n \in Names |-> k[n]] /\ \A n \in Names : k[n] \in Seq(Chars) \cup {NoValue}
    BY <1>2, <1>3 DEF k
  <2> QED BY <2>1 DEF Lasts
<1> QED
  BY <1>1, <1>3, <1>4 DEF Fits

LEMMA NoRecordsFit == NoRecords \in Lasts /\ Fits(NoRecords) /\ \A n \in Names : NoRecords[n] = NoValue
BY DEF NoRecords, Lasts, Fits

\* A kill leaves part of a pass.
LEMMA CutNotes ==
  ASSUME FileTypeInv, NEW b, NEW l, NEW ok, AppendCut(b, l, ok)
  PROVE  \E P \in SUBSET Unsaved : last' = Noted(l, P)
<1>1. PICK ord \in Orders : \E k \in 0..Len(ord) : last' = Noted(l, Range(SubSeq(ord, 1, k)))
  BY Zenon DEF AppendCut
<1>2. PICK k \in 0..Len(ord) : last' = Noted(l, Range(SubSeq(ord, 1, k)))
  BY <1>1
<1>3. ord \in Seq(Unsaved)
  BY OrderFacts
<1> DEFINE done == SubSeq(ord, 1, k)
<1>4. done \in Seq(Unsaved)
  BY <1>3
<1> HIDE DEF done
<1>5. Range(done) \subseteq Unsaved
  BY <1>4 DEF Range
<1> QED
  BY <1>2, <1>5 DEF done

LEMMA HeldFirst == HeldInit => FileIInv /\ HeldInv
<1> SUFFICES ASSUME HeldInit PROVE FileIInv /\ HeldInv
  OBVIOUS
<1>1. /\ FileInit /\ sound /\ held = NoTable /\ tab = NoTable /\ last = NoRecords /\ pc = "idle"
  BY DEF HeldInit, FileInit
<1>2. FileIInv
  BY <1>1, FileInvInit DEF FileIInv
<1>3. tab \in [Names -> Entries]
  BY <1>2 DEF FileIInv, FileTypeInv, Entries
<1> QED
  BY <1>1, <1>2, <1>3, NoRecordsFit DEF HeldInv

\* What each step makes of the histories.
LEMMA LastNext ==
  ASSUME FileIInv, HeldInv, FileNext
  PROVE  last' \in Lasts /\ Fits(last')
<1>0. FileTypeInv /\ last \in Lasts /\ Fits(last) /\ NoRecords \in Lasts /\ Fits(NoRecords)
  BY NoRecordsFit DEF FileIInv, HeldInv
<1>1. \/ UNCHANGED last
      \/ last' = Noted(last, Unsaved)
      \/ last' = Noted(NoRecords, Unsaved)
      \/ AppendCut(text, last, sound)
      \/ AppendCut(<< >>, NoRecords, TRUE)
  <2>1. \A n \in Names, d \in BOOLEAN : FileCreate(n, d) => UNCHANGED last
    BY DEF FileCreate, Put
  <2>2. \A n \in Names, v \in Contents, ended \in BOOLEAN : FileSet(n, v, ended) => UNCHANGED last
    BY DEF FileSet, Put
  <2>3. FileSave => last' = Noted(last, Unsaved)
    BY Zenon DEF FileSave, Append2File
  <2>4. RestoreDone => last' = Noted(NoRecords, Unsaved)
    BY Zenon DEF RestoreDone, Append2File
  <2>5. FileSaveFails \/ FileRestore \/ ScanRecord \/ FileStart => UNCHANGED last
    BY DEF FileSaveFails, FileRestore, ScanRecord, FileStart, fvars
  <2>6. FileKill => \/ UNCHANGED last
                    \/ AppendCut(text, last, sound)
                    \/ AppendCut(<< >>, NoRecords, TRUE)
    BY Zenon DEF FileKill
  <2> QED BY <2>1, <2>2, <2>3, <2>4, <2>5, <2>6 DEF FileNext
<1>2. \A l \in Lasts, P \in SUBSET Unsaved : Fits(l) => Noted(l, P) \in Lasts /\ Fits(Noted(l, P))
  BY <1>0, NotedFits
<1>3. CASE AppendCut(text, last, sound)
  <2>1. PICK P \in SUBSET Unsaved : last' = Noted(last, P)
    BY <1>0, <1>3, CutNotes
  <2> QED BY <1>0, <1>2, <2>1
<1>4. CASE AppendCut(<< >>, NoRecords, TRUE)
  <2>1. PICK P \in SUBSET Unsaved : last' = Noted(NoRecords, P)
    BY <1>0, <1>4, CutNotes
  <2> QED BY <1>0, <1>2, <2>1
<1> HIDE DEF Unsaved, Fits, Lasts
<1> QED
  BY <1>0, <1>1, <1>2, <1>3, <1>4

\* A round of a restore brings no entry and takes none.
LEMMA RoundMade ==
  ASSUME FileTypeInv, ScanRecord, NEW n \in Names
  PROVE  tab'[n].val = NoValue <=> tab[n].val = NoValue
<1>1. tab[n] \in Entries /\ RecordValue \in Seq(Chars)
  BY ValueText DEF FileTypeInv, Entries
<1>2. tab'[n] = IF n \in Made(tab) /\ RecordName = <<n>>
                THEN [tab[n] EXCEPT !.val = RecordValue, !.dirty = TRUE] ELSE tab[n]
  BY Zenon DEF ScanRecord
<1> HIDE DEF RecordName, RecordValue
<1>3. [tab[n] EXCEPT !.val = RecordValue, !.dirty = TRUE].val = RecordValue
  BY <1>1 DEF Entries
<1>4. n \in Made(tab) => tab[n].val # NoValue
  BY DEF Made
<1> QED
  BY <1>1, <1>2, <1>3, <1>4, CharFacts

LEMMA HeldNextInv ==
  ASSUME FileIInv, HeldInv, [HeldNext]_hvars
  PROVE  FileIInv' /\ HeldInv'
<1>1. FileTypeInv /\ SoundInv /\ ScanSays
  BY DEF FileIInv
<1>2. CASE HeldNext
  <2>1. FileNext /\ held' = IF pc' = "scan" THEN held ELSE tab'
    BY <1>2 DEF HeldNext
  <2>2. FileIInv'
    BY <2>1, FileInvNext
  <2>3. last' \in Lasts /\ Fits(last')
    BY <2>1, LastNext
  <2>4. tab' \in [Names -> Entries]
    BY <2>2 DEF FileIInv, FileTypeInv, Entries
  <2>5. CASE pc' # "scan"
    BY <2>1, <2>2, <2>3, <2>4, <2>5 DEF HeldInv
  <2>6. CASE pc' = "scan" /\ pc = "scan"
    <3>1. ScanRecord
      BY <1>1, <2>1, <2>6, ScanStep
    <3>2. held' = held /\ UNCHANGED <<last, sound>>
      BY <2>1, <2>6, <3>1 DEF ScanRecord, HeldInv
    <3>3. ASSUME sound, NEW n \in Names
          PROVE  /\ last[n] = NoValue => tab'[n] = held[n]
                 /\ tab'[n].val = NoValue <=> held[n].val = NoValue
      <4>1. /\ last[n] = NoValue => tab[n] = held[n]
            /\ tab[n].val = NoValue <=> held[n].val = NoValue
        BY <2>6, <3>3 DEF HeldInv
      <4>2. last[n] = NoValue => tab'[n] = tab[n]
        BY <1>1, <2>1, <2>6, <3>3, RestoreStep
      <4>3. tab'[n].val = NoValue <=> tab[n].val = NoValue
        BY <1>1, <3>1, RoundMade
      <4> QED BY <4>1, <4>2, <4>3
    <3>4. held' \in [Names -> Entries]
      BY <3>2 DEF HeldInv
    <3> QED BY <2>1, <2>2, <2>3, <2>6, <3>2, <3>3, <3>4 DEF HeldInv
  <2>7. CASE pc' = "scan" /\ pc # "scan"
    <3>1. FileRestore
      <4>1. \A n \in Names, d \in BOOLEAN : FileCreate(n, d) => pc' = "idle"
        BY DEF FileCreate, Put
      <4>2. \A n \in Names, v \in Contents, ended \in BOOLEAN : FileSet(n, v, ended) => pc' = "idle"
        BY DEF FileSet, Put
      <4>3. FileSave \/ FileSaveFails \/ RestoreDone \/ FileStart => pc' = "idle"
        BY Zenon DEF FileSave, FileSaveFails, RestoreDone, FileStart, fvars
      <4>4. FileKill => pc' \in {"down", "cut"}
        BY Zenon DEF FileKill
      <4>5. ScanRecord => pc = "scan"
        BY Zenon DEF ScanRecord
      <4> QED BY <2>1, <2>7, <4>1, <4>2, <4>3, <4>4, <4>5 DEF FileNext
    <3>2. UNCHANGED <<tab, last>> /\ held' = held /\ held = tab
      BY <2>1, <2>7, <3>1 DEF FileRestore, HeldInv
    <3> QED BY <2>1, <2>2, <2>3, <2>4, <2>7, <3>2 DEF HeldInv
  <2> QED BY <2>5, <2>6, <2>7
<1>3. CASE UNCHANGED hvars
  <2>1. UNCHANGED fvars /\ UNCHANGED held
    BY <1>3 DEF hvars
  <2>2. FileIInv'
    BY <2>1, FileInvNext
  <2> QED BY <2>1, <2>2 DEF HeldInv, fvars
<1> QED
  BY <1>2, <1>3

-----------------------------------------------------------------------------
(* Each step is one of the store, or leaves it alone.                      *)

\* The facts every step starts from.
LEMMA HeldFacts ==
  ASSUME FileIInv, HeldInv
  PROVE  /\ FileTypeInv /\ tab \in [Names -> Entries] /\ held \in [Names -> Entries]
         /\ last \in Lasts /\ Fits(last) /\ Kept \subseteq Names
         /\ \A n \in Names : /\ n \in Made(tab) <=> tab[n].val # NoValue
                             /\ n \in Made(held) <=> held[n].val # NoValue
                             /\ n \in Made(held) => held[n].val \in Seq(Chars)
                             /\ n \in KeepOf <=> n \in Kept /\ n \in Made(held)
                             /\ n \in Unsent <=> n \in KeepOf /\ held[n].dirty
                             /\ n \in Unsaved <=> n \in Kept /\ n \in Made(tab) /\ tab[n].dirty
                             /\ MemOf[n] = Brief(held[n].val)
<1>1. /\ FileTypeInv /\ tab \in [Names -> Entries] /\ held \in [Names -> Entries]
      /\ last \in Lasts /\ Fits(last) /\ Kept \subseteq Names
  BY CharFacts DEF FileIInv, HeldInv, FileTypeInv, Entries
<1>2. \A n \in Names : held[n] \in Entries
  BY <1>1
<1>3. \A n \in Names : held[n].val \in Seq(Chars) \cup {NoValue}
  BY <1>2 DEF Entries
<1> QED
  BY <1>1, <1>3 DEF Made, KeepOf, Unsent, Unsaved, MemOf

\* The store's variables after a step.
LEMMA MemNext == MemOf' = [n \in Names |-> Brief(held'[n].val)]
BY DEF MemOf, Brief, Cut

LEMMA KeepNext == KeepOf' = Kept \cap {n \in Names : held'[n].val # NoValue}
BY DEF KeepOf, Made

LEMMA UnsentNext == Unsent' = {n \in KeepOf' : held'[n].dirty}
BY DEF KeepOf, Unsent, Made

LEMMA CreateStore ==
  ASSUME FileIInv, HeldInv, NEW n \in Names, NEW d \in BOOLEAN, FileCreate(n, d), held' = tab'
  PROVE  Store!Create(n, << >>)
<1>1. /\ pc = "idle" /\ n \notin Made(tab) /\ UNCHANGED last
      /\ tab' = [tab EXCEPT ![n] = [val |-> << >>, dirty |-> d, wrote |-> FALSE]]
  BY DEF FileCreate, Put
<1>2. held = tab /\ \A m \in Names : held'[m] = IF m = n THEN [val |-> << >>, dirty |-> d, wrote |-> FALSE]
                                                         ELSE held[m]
  BY <1>1, HeldFacts DEF HeldInv
<1>3. << >> # NoValue /\ Brief(<< >>) = << >>
  BY NoneCut, BriefFacts
<1>4. MemOf[n] = NoValue
  BY <1>1, <1>2, HeldFacts, BriefFacts
<1>5. MemOf' = [MemOf EXCEPT ![n] = << >>]
  <2>1. \A m \in Names : Brief(held'[m].val) = IF m = n THEN << >> ELSE MemOf[m]
    BY <1>2, <1>3, HeldFacts
  <2>2. MemOf = [m \in Names |-> MemOf[m]]
    BY Zenon DEF MemOf
  <2> HIDE DEF MemOf
  <2> QED BY <2>1, <2>2, MemNext
<1> DEFINE p == Kept \cap {n}
           q == IF d THEN p ELSE {}
<1>6. KeepOf' = KeepOf \cup p /\ Unsent' = Unsent \cup q
  <2>1. \A m \in Names : m \in KeepOf' <=> m \in KeepOf \/ (m \in Kept /\ m = n)
    BY <1>2, <1>3, HeldFacts, KeepNext
  <2>2. KeepOf \subseteq Names /\ KeepOf' \subseteq Names /\ Unsent \subseteq Names /\ Unsent' \subseteq Names
    BY HeldFacts, KeepNext, UnsentNext DEF KeepOf, Unsent
  <2>3. n \notin KeepOf
    BY <1>1, <1>2, HeldFacts
  <2>4. \A m \in Names : m \in Unsent' <=> m \in Unsent \/ (d /\ m \in Kept /\ m = n)
    BY <1>2, <2>1, <2>3, HeldFacts, UnsentNext
  <2> QED BY <2>1, <2>2, <2>4
<1>7. /\ p \in SUBSET {n} /\ KeepOf' = KeepOf \cup p
      /\ q \in SUBSET p /\ Unsent' = Unsent \cup q
  BY <1>6
<1>8. Life = "up" /\ Life' = Life
  BY DEF FileCreate, Put, Life
<1> HIDE DEF p, q
<1> QED
  BY <1>1, <1>4, <1>5, <1>7, <1>8 DEF Store!Create, Store!Created, MemOf, KeepOf

LEMMA SetStore ==
  ASSUME FileIInv, HeldInv, NEW n \in Names, NEW v \in Contents, NEW ended \in BOOLEAN,
         FileSet(n, v, ended), held' = tab'
  PROVE  Store!Write(n, Brief(v))
<1>1. /\ pc = "idle" /\ n \in Made(tab) /\ UNCHANGED last
      /\ tab' = [tab EXCEPT ![n] = [val |-> v, dirty |-> TRUE, wrote |-> TRUE]]
  BY DEF FileSet, Put
<1>2. held = tab /\ \A m \in Names : held'[m] = IF m = n THEN [val |-> v, dirty |-> TRUE, wrote |-> TRUE]
                                                         ELSE held[m]
  BY <1>1, HeldFacts DEF HeldInv
<1>3. v # NoValue /\ v \in Seq(Chars)
  BY CharFacts
<1>4. MemOf[n] # NoValue
  BY <1>1, <1>2, HeldFacts, BriefFacts
<1>5. MemOf' = [MemOf EXCEPT ![n] = Brief(v)]
  <2>1. \A m \in Names : Brief(held'[m].val) = IF m = n THEN Brief(v) ELSE MemOf[m]
    BY <1>2, HeldFacts
  <2>2. MemOf = [m \in Names |-> MemOf[m]]
    BY Zenon DEF MemOf
  <2> HIDE DEF MemOf
  <2> QED BY <2>1, <2>2, MemNext
<1>6. KeepOf' = KeepOf /\ Unsent' = Unsent \cup (KeepOf \cap {n})
  <2>1. KeepOf \subseteq Names /\ KeepOf' \subseteq Names /\ Unsent \subseteq Names /\ Unsent' \subseteq Names
    BY HeldFacts, KeepNext, UnsentNext DEF KeepOf, Unsent
  <2>2. \A m \in Names : m \in KeepOf' <=> m \in KeepOf
    BY <1>1, <1>2, <1>3, HeldFacts, KeepNext
  <2>3. \A m \in Names : m \in Unsent' <=> m \in Unsent \/ (m \in KeepOf /\ m = n)
    BY <1>2, <2>2, HeldFacts, UnsentNext
  <2> QED BY <2>1, <2>2, <2>3
<1>7. Life = "up" /\ Life' = Life
  BY DEF FileSet, Put, Life
<1> QED
  BY <1>1, <1>4, <1>5, <1>6, <1>7 DEF Store!Write, Store!Created, MemOf, KeepOf

\* The names that a pass writes are stored.
LEMMA NotedStored ==
  ASSUME FileIInv, HeldInv, held = tab, NEW P \in SUBSET Unsaved
  PROVE  P \subseteq Unsent /\ Noted(last, P) = [n \in Names |-> IF n \in P THEN MemOf[n] ELSE last[n]]
<1>1. Unsaved = Unsent
  BY DEF Unsaved, Unsent
<1>2. \A n \in P : Brief(tab[n].val) = Cut(tab[n].val) /\ n \in Names
  BY HeldFacts, UnsavedFacts, BriefFacts
<1>3. \A n \in P : MemOf[n] = Cut(tab[n].val)
  BY <1>2, HeldFacts
<1>4. Noted(last, P) = [n \in Names |-> IF n \in P THEN Cut(tab[n].val) ELSE last[n]]
  BY Zenon DEF Noted
<1> QED
  BY <1>1, <1>3, <1>4

LEMMA SaveStore ==
  ASSUME FileIInv, HeldInv, FileSave, held' = tab'
  PROVE  Store!Save
<1>1. pc = "idle" /\ last' = Noted(last, Unsaved) /\ tab' = Clean
  BY Zenon DEF FileSave, Append2File
<1>2. held = tab
  BY <1>1 DEF HeldInv
<1>3. Unsaved = Unsent
  BY <1>2 DEF Unsaved, Unsent
<1>4. \A n \in Names : held'[n].val = held[n].val /\ held'[n].dirty = (n \notin Unsaved /\ held[n].dirty)
  BY <1>1, <1>2, HeldFacts, CleanFacts
<1>5. MemOf' = MemOf
  BY <1>4, MemNext DEF MemOf
<1>6. KeepOf' = KeepOf
  BY <1>4, KeepNext DEF KeepOf, Made
<1>7. Unsent' = {}
  <2>1. KeepOf \subseteq Names
    BY HeldFacts DEF KeepOf
  <2>2. \A n \in KeepOf : ~ held'[n].dirty
    BY <1>3, <1>4, <2>1, HeldFacts
  <2> QED BY <1>6, <2>2, UnsentNext
<1>8. last' = [n \in Names |-> IF n \in Unsent THEN MemOf[n] ELSE last[n]]
  BY <1>1, <1>2, <1>3, NotedStored
<1>9. Life = "up" /\ Life' = Life
  BY Zenon DEF FileSave, Life
<1> QED
  BY <1>5, <1>6, <1>7, <1>8, <1>9 DEF Store!Save, Store!Stored, MemOf, KeepOf

\* What the end of a restore of a sound file finds in the table: the last values of the names
\* that are created, and the entries without a record as they were.
LEMMA FoundAtEnd ==
  ASSUME FileIInv, HeldInv, Scanned, sound, NEW n \in Names
  PROVE  /\ n \in Made(tab) <=> n \in Made(held)
         /\ n \in Made(tab) /\ last[n] # NoValue => tab[n].dirty /\ tab[n].val = last[n]
         /\ last[n] = NoValue => tab[n] = held[n]
<1>1. pc = "scan" /\ sound
  BY DEF Scanned, HeldInv
<1>2. /\ last[n] = NoValue => tab[n] = held[n]
      /\ tab[n].val = NoValue <=> held[n].val = NoValue
  BY <1>1 DEF HeldInv
<1>3. FileTypeInv /\ SoundInv /\ ScanSays
  BY DEF FileIInv
<1>4. n \in Made(tab) /\ last[n] # NoValue => tab[n].dirty /\ tab[n].val = last[n]
  BY <1>1, <1>3, DoneSays
<1> QED
  BY <1>2, <1>4, HeldFacts

LEMMA RestoreStore ==
  ASSUME FileIInv, HeldInv, sound, RestoreDone, held' = tab'
  PROVE  Store!Restore
<1>1. Scanned /\ last' = Noted(NoRecords, Unsaved)
  BY Zenon DEF RestoreDone, Append2File
<1>2. FileTypeInv /\ KeepOf \subseteq Names
  BY HeldFacts DEF KeepOf
<1>3. \A n \in Names : held'[n].val = tab[n].val /\ held'[n].dirty = (n \notin Unsaved /\ tab[n].dirty)
  BY <1>2, DoneFacts
<1>4. \A n \in Names : /\ last[n] # NoValue => last[n] \in Seq(Chars) /\ Cut(last[n]) = last[n]
                       /\ last[n] # NoValue => Brief(last[n]) = last[n]
  <2>1. \A n \in Names : last[n] # NoValue => last[n] \in Seq(Chars) /\ Cut(last[n]) = last[n]
    BY HeldFacts DEF Lasts, Fits
  <2> QED BY <2>1, BriefFacts
<1>5. MemOf' = [n \in Names |-> IF MemOf[n] # NoValue /\ last[n] # NoValue THEN last[n] ELSE MemOf[n]]
  <2>1. ASSUME NEW n \in Names
        PROVE  Brief(held'[n].val) = IF MemOf[n] # NoValue /\ last[n] # NoValue THEN last[n] ELSE MemOf[n]
    <3>1. Brief(held'[n].val) = Brief(tab[n].val) /\ MemOf[n] = Brief(held[n].val)
      BY <1>3, HeldFacts
    <3>2. CASE n \notin Made(tab)
      <4>1. tab[n].val = NoValue /\ held[n].val = NoValue
        BY <1>1, <3>2, FoundAtEnd, HeldFacts
      <4> QED BY <3>1, <4>1, BriefFacts
    <3>3. CASE n \in Made(tab) /\ last[n] # NoValue
      <4>1. tab[n].val = last[n] /\ n \in Made(held)
        BY <1>1, <3>3, FoundAtEnd
      <4>2. MemOf[n] # NoValue
        BY <3>1, <4>1, HeldFacts, BriefFacts
      <4> QED BY <1>4, <3>1, <3>3, <4>1, <4>2
    <3>4. CASE last[n] = NoValue
      <4>1. tab[n] = held[n]
        BY <1>1, <3>4, FoundAtEnd
      <4> QED BY <3>1, <3>4, <4>1
    <3> QED BY <3>2, <3>3, <3>4
  <2> QED BY <2>1, MemNext
<1>6. KeepOf' = KeepOf
  <2>1. \A n \in Names : held'[n].val # NoValue <=> n \in Made(held)
    BY <1>1, <1>3, FoundAtEnd, HeldFacts
  <2> QED BY <2>1, HeldFacts, KeepNext DEF KeepOf
<1>7. \A n \in Names : n \in Unsaved <=> n \in KeepOf /\ tab[n].dirty
  BY <1>1, FoundAtEnd, HeldFacts
<1>8. Unsent' = {}
  <2>1. \A n \in KeepOf : ~ held'[n].dirty
    BY <1>2, <1>3, <1>7
  <2> QED BY <1>6, <2>1, UnsentNext
<1>9. last' = [n \in Names |-> IF n \notin KeepOf THEN NoValue
                               ELSE IF last[n] = NoValue /\ n \in Unsent THEN MemOf[n] ELSE last[n]]
  <2>1. last' = [n \in Names |-> IF n \in Unsaved THEN Cut(tab[n].val) ELSE NoValue]
    <3>1. last' = [n \in Names |-> IF n \in Unsaved THEN Cut(tab[n].val) ELSE NoRecords[n]]
      BY <1>1, Zenon DEF Noted
    <3> HIDE DEF Unsaved, Cut
    <3> QED BY <3>1, NoRecordsFit
  <2>2. ASSUME NEW n \in Names
        PROVE  (IF n \in Unsaved THEN Cut(tab[n].val) ELSE NoValue)
                 = IF n \notin KeepOf THEN NoValue
                   ELSE IF last[n] = NoValue /\ n \in Unsent THEN MemOf[n] ELSE last[n]
    <3>1. CASE n \notin KeepOf
      BY <1>7, <3>1
    <3>2. CASE n \in KeepOf /\ last[n] # NoValue
      <4>1. n \in Made(tab)
        BY <1>1, <3>2, FoundAtEnd, HeldFacts
      <4>2. tab[n].dirty /\ tab[n].val = last[n]
        BY <1>1, <3>2, <4>1, FoundAtEnd
      <4>3. n \in Unsaved /\ Cut(tab[n].val) = last[n]
        BY <1>4, <1>7, <3>2, <4>2
      <4> QED BY <3>2, <4>3
    <3>3. CASE n \in KeepOf /\ last[n] = NoValue
      <4>1. tab[n] = held[n] /\ n \in Made(held)
        BY <1>1, <3>3, FoundAtEnd, HeldFacts
      <4>2. n \in Unsaved <=> n \in Unsent
        BY <1>7, <3>3, <4>1, HeldFacts
      <4>3. MemOf[n] = Cut(tab[n].val)
        BY <4>1, HeldFacts, BriefFacts
      <4> QED BY <3>3, <4>2, <4>3
    <3> QED BY <3>1, <3>2, <3>3
  <2> HIDE DEF Unsaved, Unsent, KeepOf, MemOf, Cut
  <2> QED BY <2>1, <2>2
<1>10. Life = "up" /\ Life' = "up"
  <2>1. pc = "scan" /\ pc' = "idle"
    BY Zenon DEF RestoreDone, Scanned
  <2> QED BY <2>1 DEF Life
<1> QED
  BY <1>5, <1>6, <1>8, <1>9, <1>10
     DEF Store!Restore, Store!Rewritten, Store!Created, MemOf, KeepOf

LEMMA KillStore ==
  ASSUME FileIInv, HeldInv, pc # "scan" \/ sound, FileKill, held' = tab'
  PROVE  \/ \E P \in SUBSET Unsent : Store!End(P)
         \/ \E L \in SUBSET Names : Store!EndInRestore(L)
<1>1. /\ held' = NoTable /\ pc \in {"idle", "scan"}
      /\ \/ pc' = "down" /\ UNCHANGED last
         \/ pc' = "down" /\ pc = "idle" /\ AppendCut(text, last, sound)
         \/ pc' = "cut" /\ Scanned /\ AppendCut(<< >>, NoRecords, TRUE)
  BY Zenon DEF FileKill
<1>2. FileTypeInv /\ last = [n \in Names |-> last[n]]
  BY HeldFacts DEF Lasts
<1>3. Store!Gone(IF pc' = "cut" THEN "cut" ELSE "ended")
  <2>1. \A n \in Names : held'[n].val = NoValue
    BY <1>1 DEF NoTable, NoEntry
  <2>2. MemOf' = [n \in Names |-> NoValue]
    BY <2>1, MemNext, BriefFacts
  <2>3. KeepOf' = {} /\ Unsent' = {}
    BY <2>1, KeepNext, UnsentNext
  <2>4. Life = "up" /\ Life' = IF pc' = "cut" THEN "cut" ELSE "ended"
    BY <1>1 DEF Life
  <2> QED BY <2>2, <2>3, <2>4 DEF Store!Gone, Store!Nothing, MemOf, KeepOf
<1>4. ASSUME pc' = "down", NEW P \in SUBSET Unsent, last' = [n \in Names |-> IF n \in P THEN MemOf[n] ELSE last[n]]
      PROVE  Store!End(P)
  BY <1>3, <1>4 DEF Store!End, Store!Stored, MemOf
<1>5. CASE pc' = "down" /\ UNCHANGED last
  <2>1. {} \in SUBSET Unsent /\ last' = [n \in Names |-> IF n \in {} THEN MemOf[n] ELSE last[n]]
    BY <1>2, <1>5
  <2> QED BY <1>4, <1>5, <2>1
<1>6. CASE pc' = "down" /\ pc = "idle" /\ AppendCut(text, last, sound)
  <2>1. held = tab
    BY <1>6 DEF HeldInv
  <2>2. PICK P \in SUBSET Unsaved : last' = Noted(last, P)
    BY <1>2, <1>6, CutNotes
  <2>3. P \in SUBSET Unsent /\ last' = [n \in Names |-> IF n \in P THEN MemOf[n] ELSE last[n]]
    BY <2>1, <2>2, NotedStored
  <2> QED BY <1>4, <1>6, <2>3
<1>7. CASE pc' = "cut" /\ Scanned /\ AppendCut(<< >>, NoRecords, TRUE)
  <2>1. PICK P \in SUBSET Unsaved : last' = Noted(NoRecords, P)
    BY <1>2, <1>7, CutNotes
  <2>0. sound
    BY <1>7 DEF Scanned
  <2> DEFINE L == Names \ P
             Was(n) == IF n \notin KeepOf THEN NoValue
                       ELSE IF last[n] = NoValue /\ n \in Unsent THEN MemOf[n] ELSE last[n]
             New(n) == IF n \in L THEN NoValue ELSE Was(n)
  <2>k. ASSUME NEW n \in P PROVE n \in Names /\ n \in KeepOf
    <3>1. n \in Names /\ n \in Unsaved
      BY <1>2, UnsavedFacts
    <3>2. n \in Kept /\ n \in Made(tab)
      BY <3>1, HeldFacts
    <3>3. n \in Made(held)
      BY <1>7, <2>0, <3>1, <3>2, FoundAtEnd
    <3> QED BY <3>1, <3>2, <3>3, HeldFacts
  <2>2. \A n \in Names : last'[n] = IF n \in P THEN Cut(tab[n].val) ELSE NoValue
    BY <2>1, NoRecordsFit DEF Noted
  <2>3. ASSUME NEW n \in Names PROVE last'[n] = New(n)
    <3>1. CASE n \notin P
      BY <2>2, <3>1
    <3>2. CASE n \in P /\ last[n] # NoValue
      <4>1. n \in Made(tab) /\ Cut(last[n]) = last[n]
        BY <3>2, HeldFacts DEF Fits
      <4>2. tab[n].val = last[n]
        BY <1>7, <2>0, <3>2, <4>1, FoundAtEnd
      <4> QED BY <2>2, <2>k, <3>2, <4>1, <4>2
    <3>3. CASE n \in P /\ last[n] = NoValue
      <4>1. n \in Unsaved /\ tab[n] = held[n]
        BY <1>7, <2>0, <3>3, FoundAtEnd
      <4>2. n \in Unsent /\ n \in Made(held)
        BY <1>7, <2>0, <4>1, FoundAtEnd, HeldFacts
      <4>3. MemOf[n] = Cut(tab[n].val)
        BY <4>1, <4>2, HeldFacts, BriefFacts
      <4> QED BY <2>2, <2>k, <3>3, <4>2, <4>3
    <3> QED BY <3>1, <3>2, <3>3
  <2>4. last' = [n \in Names |-> last'[n]]
    <3>1. last' = [n \in Names |-> IF n \in P THEN Cut(tab[n].val) ELSE NoRecords[n]]
      BY <2>1, Zenon DEF Noted
    <3> HIDE DEF Cut
    <3> QED BY <3>1
  <2>5. last' = [n \in Names |-> New(n)] /\ L \in SUBSET Names
    <3> HIDE DEF New
    <3> QED BY <2>3, <2>4
  <2>6. Store!Rewritten = [n \in Names |-> Was(n)]
    BY DEF Store!Rewritten, MemOf, KeepOf
  <2>7. last' = [n \in Names |-> IF n \in L THEN NoValue ELSE Store!Rewritten[n]]
    <3> HIDE DEF Was, L
    <3> QED BY <2>5, <2>6 DEF New
  <2> HIDE DEF L
  <2>8. Store!EndInRestore(L)
    BY <1>3, <1>7, <2>7 DEF Store!EndInRestore
  <2> QED BY <2>5, <2>8
<1> QED
  BY <1>1, <1>5, <1>6, <1>7

LEMMA FileStoreStep ==
  ASSUME FileIInv, HeldInv, pc # "scan" \/ sound, [HeldNext]_hvars
  PROVE  [Store!Next]_(Store!svars)
<1>1. ASSUME UNCHANGED <<last, held, Life>> PROVE UNCHANGED (Store!svars)
  BY <1>1 DEF Store!svars, Brief, Cut, Made, Unsent
<1>2. CASE HeldNext
  <2>1. FileNext /\ held' = IF pc' = "scan" THEN held ELSE tab'
    BY <1>2 DEF HeldNext
  <2>2. ASSUME NEW n \in Names, NEW d \in BOOLEAN, FileCreate(n, d) PROVE Store!Create(n, << >>)
    BY <2>1, <2>2, CreateStore DEF FileCreate, Put
  <2>3. ASSUME NEW n \in Names, NEW v \in Contents, NEW ended \in BOOLEAN, FileSet(n, v, ended)
        PROVE  Store!Write(n, Brief(v))
    BY <2>1, <2>3, SetStore DEF FileSet, Put
  <2>4. CASE FileSave
    <3>1. pc' = "idle"
      BY <2>4, Zenon DEF FileSave
    <3> QED BY <2>1, <2>4, <3>1, SaveStore DEF Store!Next
  <2>5. CASE RestoreDone
    <3>1. pc' = "idle" /\ sound
      BY <2>5, Zenon DEF RestoreDone, Scanned
    <3> QED BY <2>1, <2>5, <3>1, RestoreStore DEF Store!Next
  <2>6. CASE FileKill
    <3>1. pc' \in {"down", "cut"}
      BY <2>6, Zenon DEF FileKill
    <3>2. \/ \E P \in SUBSET Unsent : Store!End(P)
          \/ \E L \in SUBSET Names : Store!EndInRestore(L)
      BY <2>1, <2>6, <3>1, KillStore
    <3> QED BY <3>2 DEF Store!Next
  <2>7. CASE FileSaveFails \/ FileStart
    <3>1. pc # "scan" /\ pc' = "idle" /\ UNCHANGED <<tab, last>>
      BY <2>7 DEF FileSaveFails, FileStart, fvars
    <3>2. UNCHANGED held
      BY <2>1, <3>1 DEF HeldInv
    <3>3. CASE FileSaveFails
      <4>1. UNCHANGED Life
        BY <3>3 DEF FileSaveFails, fvars, Life
      <4> QED BY <1>1, <3>1, <3>2, <4>1
    <3>4. CASE FileStart
      <4>1. Life # "up" /\ Life' = "up"
        BY <3>4 DEF FileStart, Life
      <4>2. UNCHANGED <<MemOf, last, KeepOf, Unsent>>
        BY <3>1, <3>2 DEF MemOf, Brief, Cut, KeepOf, Made, Unsent
      <4>3. Store!Start
        BY <4>1, <4>2 DEF Store!Start, MemOf, KeepOf
      <4> QED BY <4>3 DEF Store!Next
    <3> QED BY <2>7, <3>3, <3>4
  <2>8. CASE FileRestore \/ ScanRecord
    <3>1. pc \in {"idle", "scan"} /\ pc' = "scan" /\ UNCHANGED last
      BY <2>8, Zenon DEF FileRestore, ScanRecord
    <3>2. UNCHANGED Life
      BY <3>1 DEF Life
    <3> QED BY <1>1, <2>1, <3>1, <3>2
  <2>9. << >> \in {Brief(v) : v \in Contents} \cup {<< >>} /\ \A v \in Contents : Brief(v) \in {Brief(w) : w \in Contents} \cup {<< >>}
    OBVIOUS
  <2>10. ASSUME NEW n \in Names, NEW v \in {Brief(w) : w \in Contents} \cup {<< >>},
                Store!Create(n, v) \/ Store!Write(n, v)
         PROVE  Store!Next
    BY <2>10 DEF Store!Next
  <2>11. ASSUME NEW n \in Names, NEW d \in BOOLEAN, FileCreate(n, d) PROVE Store!Next
    BY <2>2, <2>9, <2>10, <2>11
  <2>12. ASSUME NEW n \in Names, NEW v \in Contents, NEW ended \in BOOLEAN, FileSet(n, v, ended)
         PROVE  Store!Next
    BY <2>3, <2>9, <2>10, <2>12
  <2> QED BY <2>1, <2>4, <2>5, <2>6, <2>7, <2>8, <2>11, <2>12 DEF FileNext
<1>3. CASE UNCHANGED hvars
  BY <1>1, <1>3 DEF hvars, fvars, Life
<1> QED
  BY <1>2, <1>3

\* The text that var_save appends to, and that var_restore finds its way
\* through and truncates, keeps for any names, values and number of saves,
\* restores and kills the promise of the store: only a restore of a file that
\* is not sound may break it, and the saves and kills after it keep it again.
THEOREM FileImplementsStore == HeldSpec => FileIsStore
<1>1. HeldInit => Store!Init
  <2> SUFFICES ASSUME HeldInit PROVE Store!Init
    OBVIOUS
  <2>1. last = [n \in Names |-> NoValue] /\ \A n \in Names : held[n].val = NoValue
    BY DEF HeldInit, FileInit, NoRecords, NoTable, NoEntry
  <2>2. [n \in Names |-> Brief(held[n].val)] = [n \in Names |-> NoValue]
    BY <2>1, BriefFacts
  <2>3. Kept \cap Made(held) = {} /\ Unsent = {}
    BY <2>1 DEF Made, Unsent
  <2>4. Life = "up"
    BY DEF HeldInit, FileInit, Life
  <2> QED BY <2>1, <2>2, <2>3, <2>4 DEF Store!Init, Store!Nothing
<1>2. FileIInv /\ HeldInv /\ [HeldNext]_hvars =>
        [pc # "scan" \/ sound => [Store!Next]_(Store!svars)]_hvars
  BY FileStoreStep, Zenon
<1> QED
  BY <1>1, <1>2, HeldFirst, HeldNextInv, PTL DEF HeldSpec, FileIsStore
=============================================================================
