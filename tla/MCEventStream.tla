--------------------------- MODULE MCEventStream ---------------------------
EXTENDS EventStream, TLC

\* The run may be executed in either process, so one client meets both an
\* execution in its own process and one elsewhere.
ServedByP1 == [r \in Readers |-> "p1"]

Only(budget) == budget @@ [f \in Faults |-> 0]
OneEach == {Only(f :> 1) : f \in {"cancel", "crash", "interrupt"}}
Mixed   == OneEach \cup {Only([outage |-> 1, interrupt |-> 1, expiry |-> 1])}
Silence == {Only([expiry |-> 1])}
Calm    == {Only([f \in {} |-> 0])}
=============================================================================
