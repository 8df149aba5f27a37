---------------------------- MODULE MCParseRouter ----------------------------
(***************************************************************************)
(* Instances of ParseRouter for TLC: one local and one remote service.     *)
(* Requests are interchangeable; the liveness run does not use that.       *)
(***************************************************************************)
EXTENDS ParseRouter, TLC

MCSymmetry == Permutations(Request)

=============================================================================
