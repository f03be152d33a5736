---------------------------- MODULE MCGraphEvents ----------------------------
\* Instances of GraphEvents for TLC.
EXTENDS GraphEvents, TLC

\* What clients ask for: nothing, single modes, and the mixes that interact.
Asks == {None, {}, {"messages"}, {"events"}, {"values", "debug"}, {"values", "updates"},
         {"values", "messages", "messages-tuple"}, {"values", "messages", "events", "custom"}}

\* The messages are interchangeable.
Symmetry == Permutations(Messages)
=============================================================================
