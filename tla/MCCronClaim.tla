----------------------------- MODULE MCCronClaim -----------------------------
(***************************************************************************)
(* Instances of CronClaim for TLC.                                         *)
(***************************************************************************)
EXTENDS CronClaim

\* Any two disturbances, of whatever kinds.
AnyTwo == [f \in Faults |-> 2]
AnyOne == [f \in Faults |-> 1]
OneEdit == [f \in Faults |-> IF f \in {"any", "edit"} THEN 1 ELSE 0]
=============================================================================
