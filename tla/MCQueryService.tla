--------------------------- MODULE MCQueryService ---------------------------
(***************************************************************************)
(* An instance of QueryService for TLC.  Queries are interchangeable, and  *)
(* so are documents.                                                       *)
(***************************************************************************)
EXTENDS QueryService, TLC

MCTTL == [l \in Level |-> 1]
MCSymmetry == Permutations(Request) \cup Permutations(Doc)

=============================================================================
