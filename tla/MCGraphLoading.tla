--------------------------- MODULE MCGraphLoading ---------------------------
(***************************************************************************)
(* Instances of GraphLoading for TLC.                                      *)
(***************************************************************************)
EXTENDS GraphLoading, TLC

Symmetry == Permutations(Requests) \cup Permutations(Users)
=============================================================================
