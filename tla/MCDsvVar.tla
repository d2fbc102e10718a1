------------------------------ MODULE MCDsvVar ------------------------------
(* Instances of DsvVar for TLC. *)
EXTENDS DsvVar, TLC

CONSTANTS num, str, arr, h1, h2, h3, absent

MCNamesText == {num, str}
MCNamesArr == {arr}
MCTypeOf == [n \in Names |-> IF n = num THEN "NUM" ELSE IF n = str THEN "STR" ELSE "ARR"]
MCHandles2 == {h1, h2}
MCHandleSymmetry == Permutations(Handles)
=============================================================================
