----------------------------- MODULE MCFastLane -----------------------------
(***************************************************************************)
(* An instance of FastLane for TLC: one filter that one of three documents *)
(* passes, a second one is found by its pages whatever the filter, and     *)
(* entries of the recall that live one tick longer than a query takes.     *)
(***************************************************************************)
EXTENDS FastLane, TLC

CONSTANTS d1, d2, d3

MCTTL == [l \in Level |-> IF l = "recall" THEN 2 ELSE 1]
MCMatch == "category" :> {d1}
MCRelaxing == <<"category">>
MCTopK == <<1, 2>>
MCBest == d1 :> 1 @@ d2 :> 3 @@ d3 :> 2
MCSymmetry == Permutations(Run)

=============================================================================
