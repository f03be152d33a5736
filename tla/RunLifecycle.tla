---------------------------- MODULE RunLifecycle ----------------------------
(***************************************************************************)
(* What the system promises about the status of a run, independently of    *)
(* leases, queues and processes: the moves that the UPDATEs of the status  *)
(* column make when no user cancels, no job times out and no lease is lost *)
(* under a working owner.  A run is created pending, is running while it   *)
(* is executed, goes back to pending when its execution is given up for    *)
(* another attempt, and ends in one final status that never changes; a run *)
(* that has no attempt left is failed.  The reaper moves several rows in   *)
(* one UPDATE, everyone else moves one.                                    *)
(***************************************************************************)
CONSTANT Runs
VARIABLE status

Final == {"success", "error", "interrupted"}

Init == status \in [Runs -> {"absent", "pending"}]

Move(R, from, to) ==
    /\ \A r \in R : status[r] \in from
    /\ status' = [r \in Runs |-> IF r \in R THEN to ELSE status[r]]

Create(r)  == Move({r}, {"absent"}, "pending")
Begin(r)   == Move({r}, {"pending"}, "running")
Recover(R) == Move(R, {"running"}, "pending")
GiveUp(R)  == Move(R, {"pending", "running"}, "error")
End(r)     == \E st \in Final : Move({r}, {"running"}, st)

Next ==
    \/ \E r \in Runs : Create(r) \/ Begin(r) \/ End(r)
    \/ \E R \in SUBSET Runs : Recover(R) \/ GiveUp(R)

Spec == Init /\ [][Next]_status
=============================================================================
