------------------------- MODULE MCAssistantVersions -------------------------
(***************************************************************************)
(* Instances of AssistantVersions for TLC.                                 *)
(***************************************************************************)
EXTENDS AssistantVersions, TLC

OneDefault == [g \in Graphs |-> "d"]
FiveRequests == [k \in {"request", "crash"} |-> IF k = "request" THEN 5 ELSE 1]
TwoRequests == [k \in {"request", "crash"} |-> IF k = "request" THEN 2 ELSE 0]
Symmetry == Permutations(Clients)
=============================================================================
