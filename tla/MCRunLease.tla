----------------------------- MODULE MCRunLease -----------------------------
(***************************************************************************)
(* Instances of RunLease for TLC: the slots of two worker loops in two     *)
(* processes or in one, or of one worker loop.  A budget names the         *)
(* disturbances of a run; others do not happen in it.                      *)
(***************************************************************************)
EXTENDS RunLease, TLC

\* The first loop has one slot, the second has all others.
OneSlotEach == [s \in Slots |-> IF s = "s1" THEN "w1" ELSE "w2"]
OneProcEach == [s \in Slots |-> IF s = "s1" THEN "p1" ELSE "p2"]
SharedLoop  == [s \in Slots |-> "w1"]
SharedProc  == [s \in Slots |-> "p1"]

Only(budget) == budget @@ [f \in Faults |-> 0]

CrashAndOutage == {Only([crash |-> 1, outage |-> 1])}

\* Every pair of disturbances whose handlers meet.
PairsOfFaults == {Only(pair) : pair \in
    {[stall |-> 2], [stall |-> 1, stop |-> 1], [crash |-> 1, stop |-> 1],
     [db |-> 1, stop |-> 1], [timeout |-> 1, stop |-> 1],
     [cancel |-> 1, outage |-> 1], [cancel |-> 1, timeout |-> 1]}}

\* The pairs that three slots can still be checked with.
FaultsOfThree == {Only(pair) : pair \in
    {[stall |-> 1], [crash |-> 1, stop |-> 1], [db |-> 1, stop |-> 1],
     [timeout |-> 1], [cancel |-> 1, outage |-> 1]}}

\* Bound: the third slot begins only once a working owner has lost its lease.
TwoAtWork == spent["stall"] > 0 \/ Cardinality({s \in Slots : pc[s] # "idle"}) <= 2

\* The slots of the second loop are interchangeable.
SecondLoop == Permutations(Slots \ {"s1"})

OneTimeout == {Only([timeout |-> 1])}
OneCrash == {Only([crash |-> 1])}
OneCancel == {Only([cancel |-> 1])}
OneStall == {Only([stall |-> 1])}
Undisturbed == {Only([f \in {} |-> 0])}
=============================================================================
