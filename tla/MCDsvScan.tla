----------------------------- MODULE MCDsvScan -----------------------------
(* A reader of two and a tracker of three names; g_map grows at the second. *)
EXTENDS DsvScan, TLC

CONSTANTS a, b, c, reader, tracker

MCJob == reader :> "get" @@ tracker :> "enable"
MCMatch == reader :> {a, b} @@ tracker :> Names
=============================================================================
