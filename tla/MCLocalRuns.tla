----------------------------- MODULE MCLocalRuns -----------------------------
(***************************************************************************)
(* Instances of LocalRuns for TLC.                                         *)
(***************************************************************************)
EXTENDS LocalRuns

\* One run with its streams and two disturbances of whatever kinds, or two runs
\* that may share a thread, and one disturbance.
Scenes == {[runs |-> 1, streams |-> 1, faults |-> 2], [runs |-> 2, streams |-> 0, faults |-> 1]}

\* One run that two streams follow.
TwoStreams == {[runs |-> 1, streams |-> 2, faults |-> 0]}
=============================================================================
