---------------------------- MODULE MCDsvServer ----------------------------
(* Instances of DsvServer for TLC: one variable, one or two clients. *)
EXTENDS DsvServer, TLC

CONSTANTS a, b, c1, c2, h1, h2, x1, x2, absent, nil

MCTypeOf == [n \in Names |-> "NUM"]
MCTypeOfArray == [n \in Names |-> "ARR"]
\* Addresses and numbers are only compared.
DataSymmetry == Permutations({x1, x2})
LifeSymmetry == {p @@ q : p \in Permutations({h1, h2}), q \in Permutations({x1, x2})}
=============================================================================
