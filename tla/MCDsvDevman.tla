---------------------------- MODULE MCDsvDevman ----------------------------
(* Two device managers on one host, and so with one instance ID, that want
   different log levels: the default of the variable and another. *)
EXTENDS DsvDevman, TLC

CONSTANTS d1, d2, list, lvl, h1, h2, absent, nil

MCTypeOf == [n \in Names |-> IF n = list THEN "ARR" ELSE "NUM"]
MCLogLevel == d1 :> lvl @@ d2 :> lvl
MCInstID == d1 :> 1 @@ d2 :> 1
MCLevel == d1 :> 1 @@ d2 :> 0
MCSymmetry == Permutations(Handles)
=============================================================================
