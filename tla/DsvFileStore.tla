---------------------------- MODULE DsvFileStore ----------------------------
(***************************************************************************)
(* The save file as characters keeps the promise of DsvStore, like the     *)
(* file of records in DsvVar, but for what a restore makes of a file that  *)
(* is unsound: a kill has torn a record of it, or a value in it has a ';'. *)
(***************************************************************************)
EXTENDS DsvSaveFile

\* History: the table as requests find it.  var_restore is one call of the
\* only thread, so none of them sees what it has read so far.
VARIABLE held

hvars == <<fvars, held>>

HeldInit == FileInit /\ held = NoTable
HeldNext == FileNext /\ held' = IF pc' = "scan" THEN held ELSE tab'
HeldSpec == HeldInit /\ [][HeldNext]_hvars

-----------------------------------------------------------------------------
(* Properties.                                                             *)

\* A value counts as far as it fits the buffer of var_save.
Brief(v) == IF v = NoValue THEN NoValue ELSE Cut(v)

Unsent == {n \in Kept \cap Made(held) : held[n].dirty}

Life == IF pc \in {"idle", "scan"} THEN "up" ELSE IF pc = "cut" THEN "cut" ELSE "ended"

Store == INSTANCE DsvStore WITH
  None <- NoValue,
  Values <- {Brief(v) : v \in Contents} \cup {<<>>},
  mem <- [n \in Names |-> Brief(held[n].val)],
  stored <- last,
  keep <- Kept \cap Made(held),
  pending <- Unsent,
  life <- Life

\* The text that var_save appends to and var_restore parses implements the
\* store: the stored value of a name is its last record, which a save changes
\* for the marked entries and a restore brings back, whatever the order of the
\* records, repeated ones and those of names that are not created, and whatever
\* was torn, misread and written over before.
FileIsStore ==
  Store!Init /\ [][pc # "scan" \/ sound => [Store!Next]_(Store!svars)]_hvars
=============================================================================
