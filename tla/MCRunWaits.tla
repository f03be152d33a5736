----------------------------- MODULE MCRunWaits -----------------------------
(* Instances of RunWaits for TLC. *)
EXTENDS RunWaits, TLC

Nothing == [kind \in Bounded |-> 0]

\* One of each of these kinds.  No stall: after one, the properties excuse
\* everything; a run that is marked failed while it executes stands for it.
SomeMeet == {[kind \in Bounded |-> IF kind \in kinds THEN 1 ELSE 0] :
                kinds \in {{"crash", "outage"}, {"crash", "db"}, {"db", "outage"}, {"cut"}, {"leave"}, {"cancel"}}}
OneCancel == {[Nothing EXCEPT !["cancel"] = 1]}
=============================================================================
