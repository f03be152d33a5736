---------------------------- MODULE MCThreadStates ----------------------------
\* Instances of ThreadStates for TLC.
EXTENDS ThreadStates, TLC

\* A run, beside whatever the other requests do.
Mixes == {o \in [Requests -> Ops] : \E r \in Requests : o[r] = "run"}

\* The requests are interchangeable.
Symmetry == Permutations(Requests)
=============================================================================
