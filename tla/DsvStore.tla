------------------------------ MODULE DsvStore ------------------------------
(***************************************************************************)
(* What the variable table and its save file promise together, without a  *)
(* file: `mem' is the value a created variable holds, `stored' the value  *)
(* that survives the server, `keep' the created variables to be saved and *)
(* `pending' those whose present value is not stored yet.  A server that  *)
(* ends loses nothing that is stored, unless it was rewriting the file in *)
(* a restore.  DsvVar and DsvFileStore implement this with an append-only *)
(* file whose last record of a name wins.                                 *)
(***************************************************************************)
CONSTANTS Names,   \* names of system variables
          Values,  \* values a variable can hold
          None     \* no value

VARIABLES mem, stored, keep, pending,
          life    \* "up", "ended", or "cut": ended in the middle of a restore

svars == <<mem, stored, keep, pending, life>>

Nothing == [n \in Names |-> None]

Init == mem = Nothing /\ stored = Nothing /\ keep = {} /\ pending = {} /\ life = "up"

Created == {n \in Names : mem[n] # None}

Create(n, v) ==
  /\ life = "up"
  /\ n \notin Created
  /\ mem' = [mem EXCEPT ![n] = v]
  /\ \E p \in SUBSET {n} : /\ keep' = keep \cup p
                           /\ \E q \in SUBSET p : pending' = pending \cup q
  /\ UNCHANGED <<stored, life>>

Write(n, v) ==
  /\ life = "up"
  /\ n \in Created
  /\ mem' = [mem EXCEPT ![n] = v]
  /\ pending' = pending \cup (keep \cap {n})
  /\ UNCHANGED <<stored, keep, life>>

Stored(P) == [n \in Names |-> IF n \in P THEN mem[n] ELSE stored[n]]

Save == /\ life = "up"
        /\ stored' = Stored(pending)
        /\ pending' = {}
        /\ UNCHANGED <<mem, keep, life>>

\* Of the stored values only those of variables to be saved stay stored.
Rewritten == [n \in Names |-> IF n \notin keep THEN None
                              ELSE IF stored[n] = None /\ n \in pending
                              THEN mem[n] ELSE stored[n]]

\* The stored values come back into the created variables.
Restore ==
  /\ life = "up"
  /\ mem' = [n \in Names |-> IF n \in Created /\ stored[n] # None
                             THEN stored[n] ELSE mem[n]]
  /\ stored' = Rewritten
  /\ pending' = {}
  /\ UNCHANGED <<keep, life>>

Gone(l) == life = "up" /\ life' = l /\ mem' = Nothing /\ keep' = {} /\ pending' = {}

\* The server ends when P, some of what was pending, has reached the file.
\* What was stored of the other variables stays.
End(P) == stored' = Stored(P) /\ Gone("ended")

\* The server ends while it rewrites the file: values of the set L are lost.
EndInRestore(L) ==
  /\ stored' = [n \in Names |-> IF n \in L THEN None ELSE Rewritten[n]]
  /\ Gone("cut")

Start == life # "up" /\ life' = "up" /\ UNCHANGED <<mem, stored, keep, pending>>

Next == \/ \E n \in Names, v \in Values : Create(n, v) \/ Write(n, v)
        \/ Save
        \/ Restore
        \/ \E P \in SUBSET pending : End(P)
        \/ \E L \in SUBSET Names : EndInRestore(L)
        \/ Start

Spec == Init /\ [][Next]_svars
=============================================================================
