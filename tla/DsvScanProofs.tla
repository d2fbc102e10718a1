--------------------------- MODULE DsvScanProofs ---------------------------
(***************************************************************************)
(* A scan by index misses nothing while g_map keeps its order, for any     *)
(* number of names, scanners and creates.  The argument: a name inserted   *)
(* anywhere can only raise the rank of the others, so what a scan has not  *)
(* been given stays ahead of its index; and ranks leave no gap, so a scan  *)
(* that finds nothing at the next index has nothing ahead.                 *)
(***************************************************************************)
EXTENDS DsvScan, FiniteSetTheorems, TLAPS

USE ScanAssumption

\* What the loop of var_get_next passes before n (Rank counts it).
Before(c, n) == {m \in Matching(c) : pos[m] < pos[n]}

\* The matches of a scanner are finitely many, and so are those before one.
LEMMA MatchingFinite ==
  ASSUME ScanTypeOK, NEW c \in Scanners
  PROVE  /\ IsFiniteSet(Matching(c))
         /\ Cardinality(Matching(c)) \in Nat
         /\ Matching(c) \subseteq Created
<1>1. Matching(c) \in SUBSET Names
  BY DEF ScanTypeOK, Matching
<1>2. IsFiniteSet(Matching(c))
  BY <1>1, FS_Subset
<1> QED BY <1>2, FS_CardinalityType DEF Matching

\* Ranks are natural numbers below the number of matches, in the order of the
\* places (var_get_next).
LEMMA RankOrder ==
  ASSUME ScanTypeOK, Places, NEW c \in Scanners, NEW n \in Matching(c)
  PROVE  /\ Rank(c, n) \in Nat
         /\ Rank(c, n) < Cardinality(Matching(c))
         /\ \A m \in Matching(c) : m # n => Rank(c, m) # Rank(c, n)
<1> USE MatchingFinite
<1>1. ASSUME NEW m \in Matching(c)
      PROVE  /\ Before(c, m) \in SUBSET Matching(c)
             /\ IsFiniteSet(Before(c, m))
             /\ Rank(c, m) = Cardinality(Before(c, m))
             /\ Rank(c, m) \in Nat
             /\ m \notin Before(c, m)
  <2>1. Before(c, m) \in SUBSET Matching(c)
    BY DEF Before
  <2>2. IsFiniteSet(Before(c, m))
    BY <2>1, FS_Subset
  <2>3. Rank(c, m) = Cardinality(Before(c, m))
    BY DEF Rank, Before
  <2>4. m \notin Before(c, m)
    BY DEF Before, ScanTypeOK
  <2> QED BY <2>1, <2>2, <2>3, <2>4, FS_CardinalityType
<1>2. Rank(c, n) < Cardinality(Matching(c))
  <2>1. /\ Cardinality(Before(c, n)) <= Cardinality(Matching(c))
        /\ Cardinality(Before(c, n)) # Cardinality(Matching(c))
    BY <1>1, FS_Subset
  <2> QED BY <1>1, <2>1
<1>3. ASSUME NEW i \in Matching(c), NEW j \in Matching(c), pos[i] < pos[j]
      PROVE  Rank(c, i) < Rank(c, j)
  <2>1. /\ Before(c, i) \in SUBSET Before(c, j)
        /\ i \in Before(c, j)
    BY <1>3 DEF Before, ScanTypeOK
  <2>2. i \notin Before(c, i)
    BY <1>1
  <2>3. /\ Cardinality(Before(c, i)) <= Cardinality(Before(c, j))
        /\ Cardinality(Before(c, i)) # Cardinality(Before(c, j))
    BY <1>1, <2>1, <2>2, FS_Subset
  <2> QED BY <1>1, <2>3
<1>4. ASSUME NEW m \in Matching(c), m # n
      PROVE  Rank(c, m) # Rank(c, n)
  <2>1. pos[m] \in Nat /\ pos[n] \in Nat /\ pos[m] # pos[n]
    BY <1>4 DEF ScanTypeOK, Places, Matching
  <2>2. pos[m] < pos[n] \/ pos[n] < pos[m]
    BY <2>1
  <2> QED BY <1>1, <1>3, <2>2
<1> QED BY <1>1, <1>2, <1>4

\* Ranks leave no gap: every number below the number of matches is the rank of
\* one, so the loop of var_get_next finds an index that lies below another.
LEMMA RankOnto ==
  ASSUME ScanTypeOK, Places, NEW c \in Scanners,
         NEW k \in Nat, k < Cardinality(Matching(c))
  PROVE  \E n \in Matching(c) : Rank(c, n) = k
<1> DEFINE M == Matching(c)
           N == Cardinality(M)
           T == 0..N - 1
           f == [n \in M |-> Rank(c, n)]
<1>1. N \in Nat /\ IsFiniteSet(M)
  BY MatchingFinite
<1>2. IsFiniteSet(T) /\ Cardinality(T) = N
  <2> HIDE DEF N
  <2>1. 0 \in Int /\ N - 1 \in Int /\ (0 > N - 1 <=> N = 0)
    BY <1>1
  <2>2. IsFiniteSet(T) /\ Cardinality(T) = IF 0 > N - 1 THEN 0 ELSE N - 1 - 0 + 1
    BY <2>1, FS_Interval
  <2> QED BY <1>1, <2>1, <2>2
<1>3. \A n \in M : Rank(c, n) \in T
  BY <1>1, RankOrder
<1>4. f \in [M -> T]
  BY <1>3
<1>5. \A m, n \in M : f[m] = f[n] => m = n
  BY RankOrder
<1>6. f \in Injection(M, T)
  BY <1>4, <1>5 DEF Injection, IsInjective
<1>7. f \in Surjection(M, T)
  BY <1>2, <1>6, FS_Injection
<1>8. k \in T
  BY <1>1
<1>9. PICK n \in M : f[n] = k
  BY <1>7, <1>8 DEF Surjection
<1> QED BY <1>9

\* An insertion keeps the places of a list and raises no rank of another.
LEMMA InsertionKeeps ==
  ASSUME ScanTypeOK, Places, NEW n \in Names \ Created, NEW p \in Nat,
         pos' = InsertedAt(n, p)
  PROVE  /\ Created' = Created \cup {n}
         /\ pos' \in [Created' -> Nat]
         /\ Places'
         /\ \A i, j \in Created : pos[i] < pos[j] => pos'[i] < pos'[j]
<1>1. /\ Created' = Created \cup {n}
      /\ \A m \in Created : pos[m] \in Nat
      /\ pos'[n] = p
      /\ \A m \in Created : pos'[m] = IF pos[m] >= p THEN pos[m] + 1 ELSE pos[m]
      /\ pos' = [m \in Created' |-> pos'[m]]
  BY DEF Created, InsertedAt, ScanTypeOK
<1>2. \A m \in Created' : pos'[m] \in Nat
  BY <1>1
<1>3. Places'
  BY <1>1 DEF Places
<1> QED BY <1>1, <1>2, <1>3

\* A rank does not fall when names come in between.
LEMMA RankGrows ==
  ASSUME ScanTypeOK, NEW c \in Scanners, NEW n \in Matching(c),
         IsFiniteSet(Matching(c)'), Created \subseteq Created',
         \A i, j \in Created : pos[i] < pos[j] => pos'[i] < pos'[j]
  PROVE  Rank(c, n)' \in Nat /\ Rank(c, n) \in Nat /\ Rank(c, n) <= Rank(c, n)'
<1> DEFINE B == {m \in Matching(c) : pos[m] < pos[n]}
           D == {m \in Matching(c)' : pos'[m] < pos'[n]}
<1>1. D \in SUBSET Matching(c)'
  OBVIOUS
<1>2. IsFiniteSet(D)
  BY <1>1, FS_Subset
<1>3. B \in SUBSET D
  BY DEF Matching
<1>4. Cardinality(B) <= Cardinality(D) /\ IsFiniteSet(B)
  BY <1>2, <1>3, FS_Subset
<1>5. Cardinality(B) \in Nat /\ Cardinality(D) \in Nat
  BY <1>2, <1>4, FS_CardinalityType
<1> QED BY <1>4, <1>5 DEF Rank

-----------------------------------------------------------------------------
(* The steps.                                                              *)

\* The initial state satisfies the invariant.
LEMMA InitScan == Init => ScanInv
BY DEF Init, ScanInv, ScanTypeOK, Created, Places, RestAhead, ScanComplete, SeenTracked

\* A create moves nothing that a scan has not been given behind its index.
LEMMA CreateScan ==
  ASSUME ScanInv, NEW n \in Names, Create(n)
  PROVE  ScanInv'
<1> DEFINE size == Cardinality(Created) + 1
<1> USE DEF ScanInv
<1>1. Created \in SUBSET Names /\ IsFiniteSet(Created) /\ size \in Nat
  <2>1. Created \in SUBSET Names
    BY DEF ScanTypeOK
  <2> QED BY <2>1, FS_Subset, FS_CardinalityType
<1>2. /\ Created' = Created \cup {n}
      /\ pos' \in [Created' -> Nat]
      /\ Places'
      /\ busy' \subseteq moved' \/ \A i, j \in Created : pos[i] < pos[j] => pos'[i] < pos'[j]
      /\ moved \subseteq moved'
      /\ moved' \subseteq Scanners
  <2>1. CASE size \in GrowAt
    <3>1. /\ pos' \in [Created \cup {n} -> 1..size]
          /\ IsInjective(pos')
          /\ moved' = moved \cup busy
          /\ busy' = busy
      BY <2>1 DEF Create
    <3>2. Created' = Created \cup {n}
      BY <3>1 DEF Created
    <3>3. pos' \in [Created' -> Nat]
      BY <1>1, <3>1, <3>2
    <3>4. Places'
      BY <3>1, <3>2 DEF Places, IsInjective, Created
    <3> QED BY <3>1, <3>2, <3>3, <3>4 DEF ScanTypeOK
  <2>2. CASE size \notin GrowAt
    <3>1. PICK p \in 1..size : pos' = InsertedAt(n, p)
      BY <2>2 DEF Create
    <3>2. p \in Nat /\ n \in Names \ Created /\ moved' = moved
      BY <2>2, <1>1 DEF Create
    <3> QED BY <3>1, <3>2, InsertionKeeps DEF ScanTypeOK
  <2> QED BY <2>1, <2>2
<1>3. UNCHANGED <<tracked, busy, last, seen, twice, base>>
  BY DEF Create
<1>4. ScanTypeOK'
  <2>1. disturbed' \subseteq Scanners /\ begun' = begun
    BY DEF Create, ScanTypeOK
  <2> QED BY <1>1, <1>2, <1>3, <2>1 DEF ScanTypeOK
<1>5. RestAhead'
  <2> SUFFICES ASSUME NEW c \in busy \ moved', NEW m \in base[c] \cap Match[c]
               PROVE  /\ m \in Created'
                      /\ m \notin seen[c] => Rank(c, m)' > last[c]
    BY <1>3 DEF RestAhead
  <2>1. /\ c \in Scanners /\ c \in busy \ moved
        /\ \A i, j \in Created : pos[i] < pos[j] => pos'[i] < pos'[j]
    BY <1>2, <1>3 DEF ScanTypeOK
  <2>2. m \in Created /\ m \in Matching(c) /\ (m \notin seen[c] => Rank(c, m) > last[c])
    BY <2>1 DEF RestAhead, Matching
  <2>3. IsFiniteSet(Matching(c)')
    <3>1. Matching(c)' \in SUBSET Names
      BY <1>4 DEF Matching, ScanTypeOK
    <3> QED BY <3>1, FS_Subset
  <2>4. Rank(c, m)' \in Nat /\ Rank(c, m) \in Nat /\ Rank(c, m) <= Rank(c, m)'
    BY <1>2, <2>1, <2>2, <2>3, RankGrows
  <2>5. last[c] \in Int
    BY <2>1 DEF ScanTypeOK
  <2> QED BY <1>2, <2>2, <2>4, <2>5
<1>6. ScanComplete'
  BY <1>2, <1>3 DEF ScanComplete
<1>7. SeenTracked'
  BY <1>3 DEF SeenTracked
<1> QED BY <1>2, <1>4, <1>5, <1>6, <1>7

\* A new scan has everything ahead.
LEMMA BeginScan ==
  ASSUME ScanInv, NEW c \in Scanners, Begin(c)
  PROVE  ScanInv'
<1> USE DEF ScanInv
<1>1. /\ UNCHANGED <<pos, tracked>>
      /\ Created' = Created
      /\ busy' = busy \cup {c}
      /\ \A d \in Scanners : d # c => last'[d] = last[d] /\ seen'[d] = seen[d] /\ base'[d] = base[d]
      /\ last'[c] = -1 /\ seen'[c] = {} /\ base'[c] = Created
      /\ moved' = moved \ {c}
  BY DEF Begin, ScanTypeOK, Created
<1>2. ScanTypeOK'
  BY DEF Begin, ScanTypeOK, Created
<1>3. \A d \in Scanners, m \in Names : Rank(d, m)' = Rank(d, m)
  BY <1>1 DEF Rank, Matching
<1>4. RestAhead'
  <2> SUFFICES ASSUME NEW d \in busy' \ moved', NEW m \in base'[d] \cap Match[d]
               PROVE  /\ m \in Created
                      /\ m \notin seen'[d] => Rank(d, m)' > last'[d]
    BY <1>1 DEF RestAhead
  <2>1. d \in Scanners
    BY <1>2 DEF ScanTypeOK
  <2>2. CASE d = c
    <3>1. m \in Created /\ m \in Matching(c) /\ m \in Names
      BY <1>1, <2>2 DEF Matching, ScanTypeOK
    <3>2. Rank(c, m) \in Nat
      BY <3>1, RankOrder
    <3> QED BY <1>1, <1>3, <2>2, <3>1, <3>2
  <2>3. CASE d # c
    <3>1. d \in busy \ moved /\ m \in base[d] \cap Match[d]
      BY <1>1, <2>1, <2>3
    <3> QED BY <1>1, <1>3, <2>1, <2>3, <3>1 DEF RestAhead, ScanTypeOK
  <2> QED BY <2>2, <2>3
<1>5. Places'
  BY <1>1 DEF Places
<1>6. ScanComplete'
  BY <1>1 DEF ScanComplete
<1>7. SeenTracked'
  BY <1>1 DEF SeenTracked
<1> QED BY <1>2, <1>4, <1>5, <1>6, <1>7

\* A visit takes the one match at the next index: the rest stays ahead.
LEMMA VisitScan ==
  ASSUME ScanInv, NEW c \in Scanners, Visit(c)
  PROVE  ScanInv'
<1> USE DEF ScanInv
<1>1. PICK n \in Created :
        /\ n \in Matching(c) /\ Rank(c, n) = last[c] + 1
        /\ tracked' = Marked(c, n)
        /\ last' = [last EXCEPT ![c] = Rank(c, n)]
        /\ seen' = [seen EXCEPT ![c] = seen[c] \cup {n}]
        /\ twice' = IF n \in seen[c] THEN twice \cup {c} ELSE twice
  BY DEF Visit, Found, Mark
<1>2. /\ UNCHANGED <<pos, busy, base, moved, disturbed, begun>>
      /\ Created' = Created
      /\ c \in busy
  BY DEF Visit, Created
<1>3. /\ \A d \in Scanners : d # c => last'[d] = last[d] /\ seen'[d] = seen[d]
      /\ last'[c] = Rank(c, n) /\ seen'[c] = seen[c] \cup {n}
      /\ last[c] \in Int
  BY <1>1 DEF ScanTypeOK
<1>4. Rank(c, n) \in Nat /\ n \in Names
  BY <1>1, RankOrder DEF ScanTypeOK
<1>5. ScanTypeOK'
  <2>1. last' \in [Scanners -> Nat \cup {-1}] /\ seen' \in [Scanners -> SUBSET Names]
    BY <1>1, <1>4 DEF ScanTypeOK
  <2>2. tracked' \subseteq Created /\ twice' \subseteq Scanners
    BY <1>1 DEF ScanTypeOK, Marked
  <2> QED BY <1>2, <2>1, <2>2 DEF ScanTypeOK
<1>6. \A d \in Scanners, m \in Names : Rank(d, m)' = Rank(d, m)
  BY <1>2 DEF Rank, Matching
<1>7. RestAhead'
  <2> SUFFICES ASSUME NEW d \in busy \ moved, NEW m \in base[d] \cap Match[d]
               PROVE  /\ m \in Created
                      /\ m \notin seen'[d] => Rank(d, m)' > last'[d]
    BY <1>2 DEF RestAhead
  <2>1. d \in Scanners /\ m \in Created /\ m \in Names /\ m \in Matching(d)
        /\ (m \notin seen[d] => Rank(d, m) > last[d])
    BY DEF RestAhead, ScanTypeOK, Matching
  <2>2. CASE d # c
    BY <1>3, <1>6, <2>1, <2>2
  <2>3. CASE d = c
    <3>1. m \notin seen'[c] => m # n /\ m \notin seen[c]
      BY <1>3
    <3>2. m # n => Rank(c, m) # Rank(c, n) /\ Rank(c, m) \in Nat
      BY <1>1, <2>1, <2>3, RankOrder
    <3> QED BY <1>1, <1>3, <1>4, <1>6, <2>1, <2>3, <3>1, <3>2
  <2> QED BY <2>2, <2>3
<1>8. Places'
  BY <1>2 DEF Places
<1>9. ScanComplete'
  BY <1>2, <1>3 DEF ScanComplete
<1>10. SeenTracked'
  <2> SUFFICES ASSUME \A d \in Scanners : Job[d] # "disable",
                      NEW e \in Scanners, Job[e] = "enable"
               PROVE  seen'[e] \subseteq tracked'
    BY DEF SeenTracked
  <2>1. tracked \subseteq tracked' /\ (Job[c] = "enable" => n \in tracked')
    BY <1>1 DEF Marked
  <2> QED BY <1>3, <2>1 DEF SeenTracked
<1> QED BY <1>5, <1>7, <1>8, <1>9, <1>10

\* A scan that finds no match has none ahead: it was given everything.
LEMMA FinishScan ==
  ASSUME ScanInv, NEW c \in Scanners, Finish(c)
  PROVE  ScanInv'
<1> USE DEF ScanInv
<1>1. /\ UNCHANGED <<pos, tracked, last, seen, twice, base, moved, disturbed, begun>>
      /\ Created' = Created
      /\ busy' = busy \ {c}
      /\ c \in busy
      /\ \A n \in Created : ~Found(c, n)
  BY DEF Finish, Created
<1>2. ASSUME c \notin moved, NEW m \in base[c] \cap Match[c], m \notin seen[c]
      PROVE  FALSE
  <2>1. m \in Matching(c) /\ Rank(c, m) > last[c]
    BY <1>1, <1>2 DEF RestAhead, Matching
  <2>2. /\ last[c] \in Nat \cup {-1}
        /\ Rank(c, m) \in Nat
        /\ Rank(c, m) < Cardinality(Matching(c))
        /\ Cardinality(Matching(c)) \in Nat
    BY <2>1, RankOrder, MatchingFinite DEF ScanTypeOK
  <2>3. last[c] + 1 \in Nat /\ last[c] + 1 < Cardinality(Matching(c))
    BY <2>1, <2>2
  <2>4. PICK n \in Matching(c) : Rank(c, n) = last[c] + 1
    BY <2>3, RankOnto
  <2> QED BY <1>1, <2>4 DEF Found, Matching
<1>3. ScanComplete'
  BY <1>1, <1>2 DEF ScanComplete
<1>4. ScanTypeOK' /\ Places' /\ SeenTracked'
  BY <1>1 DEF ScanTypeOK, Places, SeenTracked
<1>5. \A d \in Scanners, m \in Names : Rank(d, m)' = Rank(d, m)
  BY <1>1 DEF Rank, Matching
<1>6. RestAhead'
  BY <1>1, <1>5 DEF RestAhead, ScanTypeOK
<1> QED BY <1>3, <1>4, <1>6

\* ScanInv is an invariant (var_create, var_get_next, var_track).
THEOREM ScanInvariance == Spec => []ScanInv
<1>1. ScanInv /\ [Next]_vars => ScanInv'
  <2> SUFFICES ASSUME ScanInv, [Next]_vars PROVE ScanInv'
    OBVIOUS
  <2>1. CASE UNCHANGED vars
    <3>1. /\ UNCHANGED <<pos, tracked, busy, last, seen, twice, base, moved, disturbed, begun>>
          /\ Created' = Created
      BY <2>1 DEF vars, Created
    <3>2. \A c \in Scanners, m \in Names : Rank(c, m)' = Rank(c, m)
      BY <3>1 DEF Rank, Matching
    <3>3. RestAhead'
      BY <3>1, <3>2 DEF ScanInv, RestAhead, ScanTypeOK
    <3> QED BY <3>1, <3>3 DEF ScanInv, ScanTypeOK, Places, ScanComplete, SeenTracked
  <2>2. ASSUME NEW n \in Names, Create(n) PROVE ScanInv'
    BY <2>2, CreateScan
  <2>3. ASSUME NEW c \in Scanners, Begin(c) \/ Visit(c) \/ Finish(c) PROVE ScanInv'
    BY <2>3, BeginScan, VisitScan, FinishScan
  <2> QED BY <2>1, <2>2, <2>3 DEF Next
<1> QED BY InitScan, <1>1, PTL DEF Spec

\* A finished scan missed nothing that matched when it began, for any number of
\* names, scanners and creates, while g_map kept its order (var_get_next).
THEOREM ScanMissesNothing == Spec => []ScanComplete
<1>1. ScanInv => ScanComplete
  BY DEF ScanInv
<1> QED BY <1>1, ScanInvariance, PTL

\* When nobody disables, a finished `track enable' has marked everything that
\* matched when it began (var_track).
THEOREM TrackMissesNothing == Spec => []TrackComplete
<1>1. ScanInv => TrackComplete
  BY DEF ScanInv, ScanComplete, SeenTracked, TrackComplete
<1> QED BY <1>1, ScanInvariance, PTL

-----------------------------------------------------------------------------
(* Without a create in between, what a scan was given lies at its index or    *)
(* behind it, and the next match lies ahead.                                  *)
SeenBehind ==
  \A c \in busy \ disturbed : \A n \in seen[c] :
    n \in Matching(c) /\ Rank(c, n) <= last[c]

LEMMA OnceStep ==
  ASSUME ScanInv, SeenBehind, ScanOnce, [Next]_vars
  PROVE  SeenBehind' /\ ScanOnce'
<1> USE DEF ScanInv
<1>1. ASSUME NEW n \in Names, Create(n)
      PROVE  SeenBehind' /\ ScanOnce'
  BY <1>1 DEF Create, SeenBehind, ScanOnce
<1>2. ASSUME NEW c \in Scanners, Begin(c)
      PROVE  SeenBehind' /\ ScanOnce'
  <2>1. /\ UNCHANGED pos /\ Created' = Created /\ seen'[c] = {}
        /\ \A d \in Scanners \ {c} : last'[d] = last[d] /\ seen'[d] = seen[d]
        /\ busy' = busy \cup {c} /\ disturbed' = disturbed \ {c} /\ twice' = twice \ {c}
    BY <1>2 DEF Begin, ScanTypeOK, Created
  <2>2. \A d \in Scanners, m \in Names : Rank(d, m)' = Rank(d, m)
    BY <2>1 DEF Rank, Matching
  <2> SUFFICES ASSUME NEW d \in busy' \ disturbed', NEW n \in seen'[d]
               PROVE  n \in Matching(d)' /\ Rank(d, n)' <= last'[d]
    BY <2>1 DEF SeenBehind, ScanOnce
  <2>3. d \in (busy \ disturbed) \ {c} /\ d \in Scanners
    BY <1>2, <2>1 DEF ScanTypeOK
  <2>4. n \in Matching(d) /\ Rank(d, n) <= last[d] /\ n \in Names
    BY <2>1, <2>3 DEF SeenBehind, ScanTypeOK
  <2> QED
    BY <2>1, <2>2, <2>3, <2>4 DEF Matching
<1>3. ASSUME NEW c \in Scanners, Visit(c)
      PROVE  SeenBehind' /\ ScanOnce'
  <2>1. PICK n \in Created :
          /\ n \in Matching(c) /\ Rank(c, n) = last[c] + 1
          /\ last' = [last EXCEPT ![c] = Rank(c, n)]
          /\ seen' = [seen EXCEPT ![c] = seen[c] \cup {n}]
          /\ twice' = IF n \in seen[c] THEN twice \cup {c} ELSE twice
    BY <1>3 DEF Visit, Found
  <2>2. UNCHANGED <<pos, busy, disturbed>> /\ Created' = Created /\ c \in busy
    BY <1>3 DEF Visit, Created
  <2>3. /\ \A d \in Scanners \ {c} : last'[d] = last[d] /\ seen'[d] = seen[d]
        /\ last'[c] = last[c] + 1 /\ seen'[c] = seen[c] \cup {n}
        /\ last[c] \in Int
    BY <2>1 DEF ScanTypeOK
  <2>4. \A d \in Scanners, m \in Names : Rank(d, m)' = Rank(d, m)
    BY <2>2 DEF Rank, Matching
  <2>5. c \notin disturbed => n \notin seen[c]
    BY <2>1, <2>2, <2>3 DEF SeenBehind
  <2>6. ScanOnce'
    BY <2>1, <2>2, <2>5 DEF ScanOnce
  <2>7. ASSUME NEW d \in busy \ disturbed, NEW m \in seen'[d]
        PROVE  m \in Matching(d) /\ Rank(d, m) <= last'[d] /\ d \in Scanners /\ m \in Names
    <3>1. d \in Scanners
      BY DEF ScanTypeOK
    <3>2. ASSUME m \in seen[d]
          PROVE  m \in Matching(d) /\ Rank(d, m) <= last[d] /\ Rank(d, m) \in Nat
      BY <3>1, <3>2, RankOrder DEF SeenBehind
    <3>3. CASE d = c
      BY <2>1, <2>3, <2>7, <3>1, <3>2, <3>3 DEF Matching, ScanTypeOK
    <3>4. CASE d # c
      BY <2>3, <2>7, <3>1, <3>2, <3>4 DEF Matching, ScanTypeOK
    <3> QED
      BY <3>3, <3>4
  <2>8. SeenBehind'
    BY <2>2, <2>4, <2>7 DEF SeenBehind, Matching
  <2> QED
    BY <2>6, <2>8
<1>4. ASSUME UNCHANGED <<pos, last, seen, twice, disturbed>>, busy' \subseteq busy
      PROVE  SeenBehind' /\ ScanOnce'
  BY <1>4 DEF SeenBehind, ScanOnce, Rank, Matching, Created
<1>5. ASSUME NEW c \in Scanners, Finish(c)
      PROVE  SeenBehind' /\ ScanOnce'
  BY <1>4, <1>5 DEF Finish
<1>6. CASE UNCHANGED vars
  BY <1>4, <1>6 DEF vars
<1> QED
  BY <1>1, <1>2, <1>3, <1>5, <1>6 DEF Next

\* Without a create in between no scan is given a match twice, for any number
\* of names and scanners (var_get_next).
THEOREM ScanGivesOnce == Spec => []ScanOnce
<1>1. Init => SeenBehind /\ ScanOnce
  BY DEF Init, SeenBehind, ScanOnce
<1> QED
  BY <1>1, ScanInvariance, OnceStep, PTL DEF Spec
=============================================================================
