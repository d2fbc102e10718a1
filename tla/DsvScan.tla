------------------------------ MODULE DsvScan ------------------------------
(***************************************************************************)
(* Enumerations by partial name: `sv get' and `sv track' ask the server    *)
(* for the first match after an index, once per match, while other clients *)
(* create variables (dsv_server/src/dsv_var.cpp var_get_next, var_track;   *)
(* dsv/src/dsv.cpp ProcessGet, ProcessTrack).  The server keeps nothing    *)
(* between two requests: an index is a place in the order in which g_map   *)
(* is enumerated at the time of the request.                               *)
(***************************************************************************)
EXTENDS Integers, FiniteSets, Functions

CONSTANTS Names,
          Scanners,   \* processes that enumerate
          Job,        \* what each does with a match: "get", "enable", "disable"
          Match,      \* the names that contain the text each searches
          GrowAt,     \* sizes at which g_map gets a new bucket array
          MaxScans    \* bound: enumerations begun

ASSUME ScanAssumption ==
  /\ IsFiniteSet(Names)
  /\ Job \in [Scanners -> {"get", "enable", "disable"}]
  /\ Match \in [Scanners -> SUBSET Names]
  /\ MaxScans \in Nat

VARIABLES pos,      \* created names: their place when g_map is enumerated
          tracked,  \* names with DSV_FLAG_TRACK
          busy,     \* scanners inside an enumeration
          last,     \* per scanner: the index of the last match
          seen,     \* per scanner: the matches it was given
          twice,    \* history: scanners given one match twice
          base,     \* history: what was created when the scan began
          moved,    \* history: scanners whose scan saw g_map reordered
          disturbed,\* history: scanners whose scan saw a create
          begun     \* enumerations begun

vars == <<pos, tracked, busy, last, seen, twice, base, moved, disturbed, begun>>

Created == DOMAIN pos

Init == /\ pos = <<>>
        /\ tracked = {}
        /\ busy = {}
        /\ last = [c \in Scanners |-> -1]
        /\ seen = [c \in Scanners |-> {}]
        /\ twice = {}
        /\ base = [c \in Scanners |-> {}]
        /\ moved = {}
        /\ disturbed = {}
        /\ begun = 0

\* An insertion puts the new name somewhere and leaves the others in order.
InsertedAt(n, p) ==
  [m \in Created \cup {n} |->
     IF m = n THEN p ELSE IF pos[m] >= p THEN pos[m] + 1 ELSE pos[m]]

\* var_create of a new name.
Create(n) ==
  /\ n \notin Created
  /\ LET size == Cardinality(Created) + 1
     IN IF size \in GrowAt
        THEN /\ pos' \in {f \in [Created \cup {n} -> 1..size] : IsInjective(f)}
             /\ moved' = moved \cup busy
        ELSE /\ \E p \in 1..size : pos' = InsertedAt(n, p)
             /\ UNCHANGED moved
  /\ disturbed' = disturbed \cup busy
  /\ UNCHANGED <<tracked, busy, last, seen, twice, base, begun>>

\* ProcessGet or ProcessTrack starts with index -1.
Begin(c) ==
  /\ c \notin busy
  /\ begun < MaxScans
  /\ begun' = begun + 1
  /\ busy' = busy \cup {c}
  /\ last' = [last EXCEPT ![c] = -1]
  /\ seen' = [seen EXCEPT ![c] = {}]
  /\ base' = [base EXCEPT ![c] = Created]
  /\ twice' = twice \ {c}
  /\ moved' = moved \ {c}
  /\ disturbed' = disturbed \ {c}
  /\ UNCHANGED <<pos, tracked>>

Matching(c) == Created \cap Match[c]

\* How many matches the loop of var_get_next passes before it comes to n.
Rank(c, n) == Cardinality({m \in Matching(c) : pos[m] < pos[n]})

\* `++index > last_index' and break: the match that is found.  Bugs' forms:
\* the comparison lets the last one pass again, or steps over one.
FoundAgain(c, n) == n \in Matching(c) /\ Rank(c, n) = (IF last[c] = -1 THEN 0 ELSE last[c])
FoundSkipping(c, n) == n \in Matching(c) /\ Rank(c, n) = last[c] + 2
Found(c, n) == n \in Matching(c) /\ Rank(c, n) = last[c] + 1

\* var_track marks a match by the wish of the client.
Marked(c, n) == IF Job[c] = "enable" THEN tracked \cup {n}
                ELSE IF Job[c] = "disable" THEN tracked \ {n} ELSE tracked

\* A bug's form: only the first match is marked.
MarkedFirst(c, n) == IF last[c] = -1 THEN Marked(c, n) ELSE tracked

Mark(c, n) == Marked(c, n)

\* A request finds the next match.  The scanner blocks on it, so its request,
\* the server's handler and the answer are one step.
Visit(c) ==
  /\ c \in busy
  /\ \E n \in Created :
       /\ Found(c, n)
       /\ tracked' = Mark(c, n)
       /\ last' = [last EXCEPT ![c] = Rank(c, n)]
       /\ seen' = [seen EXCEPT ![c] = @ \cup {n}]
       /\ twice' = IF n \in seen[c] THEN twice \cup {c} ELSE twice
  /\ UNCHANGED <<pos, busy, base, moved, disturbed, begun>>

\* The request finds none: ENOENT, and the client's loop ends.
Finish(c) ==
  /\ c \in busy
  /\ \A n \in Created : ~Found(c, n)
  /\ busy' = busy \ {c}
  /\ UNCHANGED <<pos, tracked, last, seen, twice, base, moved, disturbed, begun>>

Next == \/ \E n \in Names : Create(n)
        \/ \E c \in Scanners : Begin(c) \/ Visit(c) \/ Finish(c)

Spec == Init /\ [][Next]_vars

\* A scanner goes on to the end of its loop; the server answers it.
FairSpec == Spec /\ \A c \in Scanners : WF_vars(Visit(c) \/ Finish(c))

-----------------------------------------------------------------------------
(* Properties.                                                             *)

ScanTypeOK ==
  /\ Created \subseteq Names
  /\ pos \in [Created -> Nat]
  /\ tracked \subseteq Created
  /\ busy \subseteq Scanners
  /\ last \in [Scanners -> Nat \cup {-1}]
  /\ seen \in [Scanners -> SUBSET Names]
  /\ twice \subseteq Scanners
  /\ base \in [Scanners -> SUBSET Names]
  /\ moved \subseteq Scanners
  /\ disturbed \subseteq Scanners
  /\ begun \in Nat

\* The places are those of a list.
Places == \A m, n \in Created : pos[m] = pos[n] => m = n

\* What a scan has not been given of the names it started with lies ahead:
\* no create in between can bring a name behind the index.
RestAhead ==
  \A c \in busy \ moved : \A n \in base[c] \cap Match[c] :
    /\ n \in Created
    /\ n \notin seen[c] => Rank(c, n) > last[c]

\* A finished scan was given everything that matched when it began, whatever
\* was created meanwhile, unless g_map got a new bucket array (var_get_next,
\* ProcessGet).
ScanComplete ==
  \A c \in Scanners \ (busy \cup moved) : base[c] \cap Match[c] \subseteq seen[c]

\* Nothing loses its mark while every scanner that marks enables.
SeenTracked ==
  (\A d \in Scanners : Job[d] # "disable") =>
    \A c \in Scanners : Job[c] = "enable" => seen[c] \subseteq tracked

\* The inductive invariant.
ScanInv == ScanTypeOK /\ Places /\ RestAhead /\ ScanComplete /\ SeenTracked

\* Without a create in between no match is given twice (var_get_next).
ScanOnce == twice \subseteq disturbed

\* When every scanner that marks does the same, a finished `track' has marked
\* all that matched when it began (var_track, ProcessTrack).
TrackComplete ==
  \A c \in Scanners \ (busy \cup moved) :
    Job[c] = "enable" /\ (\A d \in Scanners : Job[d] # "disable")
      => base[c] \cap Match[c] \subseteq tracked

\* The loop of ProcessGet and ProcessTrack ends although creates go on.
ScanEnds == \A c \in Scanners : c \in busy ~> c \notin busy
=============================================================================
