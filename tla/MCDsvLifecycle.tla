--------------------------- MODULE MCDsvLifecycle ---------------------------
(* Three servers on two hosts. *)
EXTENDS DsvLifecycle, TLC

CONSTANTS s1, s2, s3, here, there

MCHostOf == s1 :> here @@ s2 :> here @@ s3 :> there
=============================================================================
