--------------------------- MODULE MCMinerUClient ---------------------------
(***************************************************************************)
(* Instances of MinerUClient for TLC.  The ids of tasks and the calls are  *)
(* interchangeable; the liveness run does not use the symmetry.            *)
(***************************************************************************)
EXTENDS MinerUClient, TLC

MCSymmetry == Permutations(Task) \cup Permutations(Client)

=============================================================================
