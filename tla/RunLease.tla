------------------------------ MODULE RunLease ------------------------------
(***************************************************************************)
(* Distributed execution of background runs: the `runs` rows in Postgres,  *)
(* the Redis job queue, the worker loops of every server process with      *)
(* their leases and heartbeats, the lease reaper, job timeouts, user       *)
(* cancellation and shutdown.                                              *)
(*                                                                         *)
(* A slot is one permit of a worker loop's semaphore, and at the same time *)
(* the asyncio task `_execute_and_release` that holds it.  A step of a     *)
(* slot runs from one `await` to the next; every transaction is one step.  *)
(* Time is abstract: a lease is live or expired, and the reasons why it    *)
(* may expire under a working owner are bounded by Budgets.                *)
(***************************************************************************)
EXTENDS Naturals, Sequences, FiniteSets

CONSTANTS
    Runs,           \* run ids
    Slots,          \* concurrent job slots of all worker loops
    Workers,        \* worker names, the values of claimed_by
    Procs,          \* server processes (instances)
    Reapers,        \* the processes whose lease reaper is modelled
    WorkerOf,       \* the worker loop a slot belongs to
    ProcOf,         \* the process a slot lives in
    None,           \* SQL NULL / a missing dict entry
    MaxRetries,     \* BG_JOB_MAX_RETRIES
    PreMigration,   \* runs that may exist already, without execution_params
    QueueCap,       \* model bound on the length of the Redis list
    Budgets         \* model bounds: how often each kind of disturbance may happen together

Faults == {"crash", "stop", "stall", "db", "timeout", "outage", "cancel"}

ASSUME SlotsAssumption ==
    /\ WorkerOf \in [Slots -> Workers]
    /\ ProcOf \in [Slots -> Procs]
    /\ \A s, t \in Slots : WorkerOf[s] = WorkerOf[t] => ProcOf[s] = ProcOf[t]
ASSUME NoneAssumption == None \notin Slots \cup Workers \cup Runs
ASSUME BoundsAssumption ==
    /\ MaxRetries \in Nat
    /\ QueueCap \in Nat \ {0}
    /\ Budgets \subseteq [Faults -> Nat]
    /\ PreMigration \subseteq Runs
    /\ Reapers \subseteq Procs /\ IsFiniteSet(Reapers)
-----------------------------------------------------------------------------
VARIABLES
    \* the runs table (and the status of the thread each run belongs to)
    status, claimedBy, lease, retryCount, params, thread,
    \* Redis: the job list, the done keys, cancel messages in flight
    queue, doneKeys, cancelMsgs, redisUp,
    \* slots: program counter, run id, cancellation mark of the task, and
    \* whether its heartbeat task still beats
    pc, job, mark, beating,
    \* processes: life cycle, active_runs, _lease_loss_cancellations, and
    \* during stop() the tasks awaited and the loops still inside BLPOP
    up, activeRuns, lossSet, drain, late,
    \* reapers: program counter and the local lists of one _reap call
    rpc, found, stuck, exhausted,
    \* clients: requests between commit and RPUSH, cancel requests, and the
    \* runs created longer ago than STUCK_PENDING_THRESHOLD_SECONDS
    prepared, cancelReq, old,
    \* history: leases granted per run, recoveries of it that a reaper forgot
    \* before it charged or failed the run, disturbances so far
    attempts, uncharged, spent

rowVars    == <<status, claimedBy, lease, retryCount, params, thread>>
redisVars  == <<queue, doneKeys, cancelMsgs, redisUp>>
slotVars   == <<pc, job, mark, beating>>
procVars   == <<up, activeRuns, lossSet, drain, late>>
reaperVars == <<rpc, found, stuck, exhausted>>
clientVars == <<prepared, cancelReq, old>>
histVars   == <<attempts, uncharged, spent>>
vars == <<rowVars, redisVars, slotVars, procVars, reaperVars, clientVars, histVars>>

TerminalStates == {"success", "error", "interrupted"}

\* Phases of a slot in which execute_run's task is not done, hence in which
\* the heartbeat task runs.
JobPhases == {"start", "stream", "success", "interrupted", "cancelled",
              "finCancel", "finError", "signal", "donekey"}

\* Phases in which execute_run may still write a status to the row.
Executing == JobPhases \ {"signal", "donekey"}

\* Phases between the acquiring commit and execute_run, one for each form of
\* execution_params: to be started, to be failed, to raise.
LoadPhases == {"claimed", "incomplete", "corrupt"}

\* Phases in which the slot relies on the lease it acquired.
Holding == JobPhases \cup LoadPhases \cup {"release"}

Phases == Holding \cup {"idle", "polling", "acquire", "timedOut", "timedOutRelease"}

RowsOK ==
    /\ status \in [Runs -> {"absent", "pending", "running"} \cup TerminalStates]
    /\ claimedBy \in [Runs -> Workers \cup {None}]
    /\ lease \in [Runs -> {"none", "live", "expired"}]
    /\ retryCount \in [Runs -> Nat]
    /\ params \in [Runs -> {"full", "missing", "countOnly"}]
    /\ thread \in [Runs -> {"busy", "idle", "interrupted", "error"}]
RedisOK ==
    /\ queue \in Seq(Runs)
    /\ doneKeys \subseteq Runs
    /\ cancelMsgs \subseteq Procs \X Runs
    /\ redisUp \in BOOLEAN
SlotsOK ==
    /\ pc \in [Slots -> Phases]
    /\ job \in [Slots -> Runs \cup {None}]
    /\ mark \in [Slots -> {"none", "cancelled", "expired"}]
    /\ beating \subseteq Slots
    \* a slot has a run exactly while its task exists
    /\ \A s \in Slots : job[s] = None <=> pc[s] \in {"idle", "polling"}
ProcsOK ==
    /\ up \in [Procs -> {"running", "draining", "cancelling", "down"}]
    /\ activeRuns \in [Procs -> [Runs -> Slots \cup {None}]]
    /\ lossSet \in [Procs -> SUBSET Runs]
    /\ drain \subseteq Slots
    /\ late \subseteq Workers
ReapersOK ==
    /\ rpc \in [Procs -> {"sleep", "findStuck", "reset", "retries", "fail", "requeue"}]
    /\ found \in [Procs -> SUBSET Runs]
    /\ stuck \in [Procs -> SUBSET Runs]
    /\ exhausted \in [Procs -> SUBSET Runs]
ClientsOK ==
    /\ prepared \subseteq Runs
    /\ cancelReq \in [Runs -> {"none", "published", "done"}]
    /\ old \subseteq Runs
HistOK ==
    /\ attempts \in [Runs -> Nat]
    /\ uncharged \in [Runs -> Nat]
    /\ spent \in [Faults -> Nat]

TypeOK == RowsOK /\ RedisOK /\ SlotsOK /\ ProcsOK /\ ReapersOK /\ ClientsOK /\ HistOK

Init ==
    /\ old \in SUBSET PreMigration
    /\ status = [r \in Runs |-> IF r \in old THEN "pending" ELSE "absent"]
    /\ claimedBy = [r \in Runs |-> None]
    /\ lease = [r \in Runs |-> "none"]
    /\ retryCount = [r \in Runs |-> 0]
    /\ params = [r \in Runs |-> IF r \in old THEN "missing" ELSE "full"]
    /\ thread = [r \in Runs |-> IF r \in old THEN "busy" ELSE "idle"]
    /\ queue = <<>>
    /\ doneKeys = {}
    /\ cancelMsgs = {}
    /\ redisUp = TRUE
    /\ pc = [s \in Slots |-> "idle"]
    /\ job = [s \in Slots |-> None]
    /\ mark = [s \in Slots |-> "none"]
    /\ beating = {}
    /\ up = [p \in Procs |-> "running"]
    /\ activeRuns = [p \in Procs |-> [r \in Runs |-> None]]
    /\ lossSet = [p \in Procs |-> {}]
    /\ drain = {}
    /\ late = {}
    /\ rpc = [p \in Procs |-> "sleep"]
    /\ found = [p \in Procs |-> {}]
    /\ stuck = [p \in Procs |-> {}]
    /\ exhausted = [p \in Procs |-> {}]
    /\ prepared = {}
    /\ cancelReq = [r \in Runs |-> "none"]
    /\ attempts = [r \in Runs |-> 0]
    /\ uncharged = [r \in Runs |-> 0]
    /\ spent = [f \in Faults |-> 0]

\* A disturbance of kind f, within its bound.
Spend(f) ==
    /\ spent' = [spent EXCEPT ![f] = @ + 1]
    /\ \E budget \in Budgets : \A g \in Faults : spent'[g] <= budget[g]
-----------------------------------------------------------------------------
(* Tasks and process-local state *)

SlotsOf(p) == {s \in Slots : ProcOf[s] = p}

\* Mutant of Vacate: the `finally` block forgets active_runs.
VacateKeepsEntries(S) ==
    /\ job' = [s \in Slots |-> IF s \in S THEN None ELSE job[s]]
    /\ beating' = beating \ S
    /\ drain' = drain \ S
    /\ UNCHANGED activeRuns

\* The tasks in S end: their permits are released, and `active_runs.pop`
\* drops the entry of their run whichever task it names.
Vacate(S) ==
    /\ job' = [s \in Slots |-> IF s \in S THEN None ELSE job[s]]
    /\ beating' = beating \ S
    /\ activeRuns' = [p \in Procs |-> [r \in Runs |->
                        IF \E s \in S : ProcOf[s] = p /\ job[s] = r
                        THEN None ELSE activeRuns[p][r]]]
    /\ drain' = drain \ S

Exit(s) ==
    /\ pc' = [pc EXCEPT ![s] = "idle"]
    /\ mark' = [mark EXCEPT ![s] = "none"]
    /\ Vacate({s})

Goto(s, phase) == pc' = [pc EXCEPT ![s] = phase]

\* Where CancelledError leads, thrown at the await of slot s.  While the
\* outer task awaits execute_run, cancelling either cancels execute_run; a
\* cancel inside one of its exception handlers abandons that handler.
AfterCancel(s) ==
    IF pc[s] \in {"start", "stream", "success", "interrupted"} THEN "cancelled"
    ELSE IF pc[s] \in {"finCancel", "finError"} THEN "signal"
    ELSE IF pc[s] = "donekey" THEN "release"
    ELSE IF pc[s] \in {"cancelled", "signal"} THEN pc[s]
    ELSE "idle"

\* task.cancel() on the `_execute_and_release` task of every slot in S.
CancelTasks(S) ==
    LET gone == {s \in S : AfterCancel(s) = "idle"} IN
    /\ pc' = [s \in Slots |-> IF s \in S THEN AfterCancel(s) ELSE pc[s]]
    /\ mark' = [s \in Slots |-> IF s \in gone THEN "none"
                                ELSE IF s \in S THEN "cancelled" ELSE mark[s]]
    /\ Vacate(gone)

\* execute_run's `active_runs.pop(run_id, None)`.
PopActive(s) == activeRuns' = [activeRuns EXCEPT ![ProcOf[s]][job[s]] = None]
-----------------------------------------------------------------------------
(* Clients: submission and cancellation *)

\* _prepare_run: the thread becomes busy and the row is committed as pending.
Prepare(r) ==
    /\ status[r] = "absent"
    /\ status' = [status EXCEPT ![r] = "pending"]
    /\ thread' = [thread EXCEPT ![r] = "busy"]
    /\ prepared' = prepared \cup {r}
    /\ UNCHANGED <<claimedBy, lease, retryCount, params, cancelReq, old>>
    /\ UNCHANGED <<redisVars, slotVars, procVars, reaperVars, histVars>>

\* executor.submit, after the commit: RPUSH of the run id.
Submit(r) ==
    /\ r \in prepared
    /\ redisUp
    /\ Len(queue) < QueueCap
    /\ queue' = Append(queue, r)
    /\ prepared' = prepared \ {r}
    /\ UNCHANGED <<doneKeys, cancelMsgs, redisUp, cancelReq, old>>
    /\ UNCHANGED <<rowVars, slotVars, procVars, reaperVars, histVars>>

\* The request dies between the commit and the RPUSH: Redis is unreachable,
\* or the process serving the request is killed.
SubmitFails(r) ==
    /\ r \in prepared
    /\ \/ ~redisUp /\ UNCHANGED spent
       \/ Spend("crash")
    /\ prepared' = prepared \ {r}
    /\ UNCHANGED <<cancelReq, old, attempts, uncharged>>
    /\ UNCHANGED <<rowVars, redisVars, slotVars, procVars, reaperVars>>

\* A pending run becomes older than STUCK_PENDING_THRESHOLD_SECONDS.
Age(r) ==
    /\ status[r] = "pending"
    /\ r \notin old
    /\ old' = old \cup {r}
    /\ UNCHANGED <<prepared, cancelReq>>
    /\ UNCHANGED <<rowVars, redisVars, slotVars, procVars, reaperVars, histVars>>

\* The cancel endpoint broadcasts its command over pub/sub ...
PublishCancel(r) ==
    /\ status[r] # "absent"
    /\ cancelReq[r] = "none"
    /\ redisUp
    /\ Spend("cancel")
    /\ cancelReq' = [cancelReq EXCEPT ![r] = "published"]
    /\ cancelMsgs' = cancelMsgs \cup {<<p, r>> : p \in {q \in Procs : up[q] # "down"}}
    /\ UNCHANGED <<queue, doneKeys, redisUp, prepared, old, attempts, uncharged>>
    /\ UNCHANGED <<rowVars, slotVars, procVars, reaperVars>>

\* ... or, when the publish fails, cancels a task of its own process p.
CancelLocally(p, r) ==
    /\ status[r] # "absent"
    /\ cancelReq[r] = "none"
    /\ ~redisUp
    /\ up[p] # "down"
    /\ Spend("cancel")
    /\ cancelReq' = [cancelReq EXCEPT ![r] = "published"]
    /\ CancelTasks({activeRuns[p][r]} \ {None})
    /\ UNCHANGED <<up, lossSet, late, prepared, old, attempts, uncharged>>
    /\ UNCHANGED <<rowVars, redisVars, reaperVars>>

\* ... and then persists "interrupted", whatever the row says by now.
PersistCancel(r) ==
    /\ cancelReq[r] = "published"
    /\ cancelReq' = [cancelReq EXCEPT ![r] = "done"]
    /\ status' = [status EXCEPT ![r] = "interrupted"]
    /\ UNCHANGED <<claimedBy, lease, retryCount, params, thread, prepared, old>>
    /\ UNCHANGED <<redisVars, slotVars, procVars, reaperVars, histVars>>

\* A cancel listener handles the command: only a registered task is cancelled.
DeliverCancel(p, r) ==
    /\ <<p, r>> \in cancelMsgs
    /\ cancelMsgs' = cancelMsgs \ {<<p, r>>}
    /\ CancelTasks({activeRuns[p][r]} \ {None})
    /\ UNCHANGED <<queue, doneKeys, redisUp, up, lossSet, late>>
    /\ UNCHANGED <<rowVars, reaperVars, clientVars, histVars>>

\* Pub/sub is at most once: a listener that is reconnecting misses it.
LoseCancel(p, r) ==
    /\ <<p, r>> \in cancelMsgs
    /\ cancelMsgs' = cancelMsgs \ {<<p, r>>}
    /\ UNCHANGED <<queue, doneKeys, redisUp>>
    /\ UNCHANGED <<rowVars, slotVars, procVars, reaperVars, clientVars, histVars>>

RedisDown ==
    /\ redisUp
    /\ Spend("outage")
    /\ redisUp' = FALSE
    /\ UNCHANGED <<queue, doneKeys, cancelMsgs, attempts, uncharged>>
    /\ UNCHANGED <<rowVars, slotVars, procVars, reaperVars, clientVars>>

RedisRecovers ==
    /\ ~redisUp
    /\ redisUp' = TRUE
    /\ UNCHANGED <<queue, doneKeys, cancelMsgs>>
    /\ UNCHANGED <<rowVars, slotVars, procVars, reaperVars, clientVars, histVars>>
-----------------------------------------------------------------------------
(* Worker loops and the jobs they run *)

\* The loop of slot s is inside `_dequeue`, or may enter it.  A loop that was
\* inside when stop() began still spawns one job.
MayDequeue(s) ==
    \/ up[ProcOf[s]] = "running"
    \/ up[ProcOf[s]] \in {"draining", "cancelling"} /\ WorkerOf[s] \in late

\* `_dequeue` has returned: `while self._running` ends a loop being stopped.
LoopTurns(s) ==
    late' = IF up[ProcOf[s]] = "running" THEN late ELSE late \ {WorkerOf[s]}

\* `_execute_and_release` starts: the task registers itself in active_runs.
Register(s, r) ==
    /\ Goto(s, "acquire")
    /\ job' = [job EXCEPT ![s] = r]
    /\ activeRuns' = [activeRuns EXCEPT ![ProcOf[s]][r] = s]
    /\ LoopTurns(s)
    /\ UNCHANGED <<mark, beating, up, lossSet, drain>>

\* BLPOP removes the run id from the list before anything is recorded.
Dequeue(s) ==
    /\ pc[s] = "idle"
    /\ MayDequeue(s)
    /\ redisUp
    /\ queue # <<>>
    /\ Register(s, Head(queue))
    /\ queue' = Tail(queue)
    /\ UNCHANGED <<doneKeys, cancelMsgs, redisUp>>
    /\ UNCHANGED <<rowVars, reaperVars, clientVars, histVars>>

\* Redis is down: the loop waits before it polls Postgres instead.
DequeueFails(s) ==
    /\ pc[s] = "idle"
    /\ MayDequeue(s)
    /\ ~redisUp
    /\ Goto(s, "polling")
    /\ UNCHANGED <<job, mark, beating>>
    /\ UNCHANGED <<rowVars, redisVars, procVars, reaperVars, clientVars, histVars>>

\* A pending, unclaimed row is taken from Postgres (the code takes the oldest;
\* the order of creation is not modelled), or there is none.
PollPostgres(s) ==
    LET candidates == {r \in Runs : status[r] = "pending" /\ claimedBy[r] = None} IN
    /\ pc[s] = "polling"
    /\ MayDequeue(s)
    /\ \/ \E r \in candidates : Register(s, r)
       \/ /\ candidates = {}
          /\ Goto(s, "idle")
          /\ LoopTurns(s)
          /\ UNCHANGED <<job, mark, beating, up, activeRuns, lossSet, drain>>
    /\ UNCHANGED <<rowVars, redisVars, reaperVars, clientVars, histVars>>

\* Mutants of Acquirable: without the condition on claimed_by any row that is
\* not final, and a guard that forgets `status = 'pending'`.
NotFinal(r) == status[r] \notin TerminalStates
Unclaimed(r) == claimedBy[r] = None

\* The WHERE clause of the acquiring UPDATE.
Acquirable(r) == status[r] = "pending" /\ claimedBy[r] = None

\* What the row just claimed is good for.
LoadPhase(form) ==
    IF form = "full" THEN "claimed" ELSE IF form = "missing" THEN "incomplete" ELSE "corrupt"

\* `_acquire_and_load`: the conditional UPDATE, the SELECT and the commit.
Acquire(s) ==
    LET r == job[s] IN
    /\ pc[s] = "acquire"
    /\ \/ /\ Acquirable(r)
          /\ status' = [status EXCEPT ![r] = "running"]
          /\ claimedBy' = [claimedBy EXCEPT ![r] = WorkerOf[s]]
          /\ lease' = [lease EXCEPT ![r] = "live"]
          /\ attempts' = [attempts EXCEPT ![r] = @ + 1]
          /\ Goto(s, LoadPhase(params[r]))
          /\ UNCHANGED <<job, mark, beating, activeRuns, drain>>
       \/ /\ ~Acquirable(r)
          /\ Exit(s)
          /\ UNCHANGED <<status, claimedBy, lease, attempts>>
    /\ UNCHANGED <<retryCount, params, thread, uncharged, spent, up, lossSet, late>>
    /\ UNCHANGED <<redisVars, reaperVars, clientVars>>

\* The row names the loop of slot s; the UPDATE that gives such a claim back.
Owns(s, r) == claimedBy[r] = WorkerOf[s]

\* Mutant of ReleaseClaim: whoever claims the row by now.
ReleaseAnyClaim(s, r) ==
    /\ claimedBy' = [claimedBy EXCEPT ![r] = None]
    /\ lease' = [lease EXCEPT ![r] = "none"]

ReleaseClaim(s, r) ==
    /\ claimedBy' = IF Owns(s, r) THEN [claimedBy EXCEPT ![r] = None] ELSE claimedBy
    /\ lease' = IF Owns(s, r) THEN [lease EXCEPT ![r] = "none"] ELSE lease

\* The row is turned into a RunJob and execute_run's task is created.  A row
\* without execution_params is marked failed in a second transaction; one
\* that holds nothing but the reaper's counter raises, and keeps its lease.
Load(s) ==
    LET r == job[s] IN
    /\ \/ /\ pc[s] = "claimed"
          /\ Goto(s, "start")
          /\ beating' = beating \cup {s}
          /\ UNCHANGED <<status, claimedBy, lease, job, mark, activeRuns, drain>>
       \/ /\ pc[s] = "incomplete"
          /\ status' = IF Owns(s, r) THEN [status EXCEPT ![r] = "error"] ELSE status
          /\ ReleaseClaim(s, r)
          /\ Exit(s)
       \/ /\ pc[s] = "corrupt"
          /\ Exit(s)
          /\ UNCHANGED <<status, claimedBy, lease>>
    /\ UNCHANGED <<retryCount, params, thread, up, lossSet, late>>
    /\ UNCHANGED <<redisVars, reaperVars, clientVars, histVars>>

\* execute_run commits the run status st and goes on to phase next;
\* finalize_run writes the thread status in the same transaction.
WriteStatus(s, st, next) ==
    /\ status' = [status EXCEPT ![job[s]] = st]
    /\ Goto(s, next)
    /\ UNCHANGED <<claimedBy, lease, retryCount, params, job, mark, beating>>
    /\ UNCHANGED <<redisVars, procVars, reaperVars, clientVars, histVars>>

FinalizeRun(s, st, threadSt, next) ==
    /\ thread' = [thread EXCEPT ![job[s]] = threadSt]
    /\ WriteStatus(s, st, next)

\* execute_run begins with an unconditional update_run_status("running").
Start(s) ==
    /\ pc[s] = "start"
    /\ WriteStatus(s, "running", "stream")
    /\ UNCHANGED thread

\* Mutant of Stream: the result is signalled without having been stored.
StreamUnstored(s) ==
    /\ pc[s] = "stream"
    /\ \E next \in {"signal", "interrupted", "finError"} : Goto(s, next)
    /\ UNCHANGED <<job, mark, beating>>
    /\ UNCHANGED <<rowVars, redisVars, procVars, reaperVars, clientVars, histVars>>

\* The graph ends: with a result, at an interrupt, or by an exception.
Stream(s) ==
    /\ pc[s] = "stream"
    /\ \E next \in {"success", "interrupted", "finError"} : Goto(s, next)
    /\ UNCHANGED <<job, mark, beating>>
    /\ UNCHANGED <<rowVars, redisVars, procVars, reaperVars, clientVars, histVars>>

\* Mutant of Finalize: the status of the run is given to its thread, too.
FinalizeSameStatus(s) ==
    \/ pc[s] = "success" /\ FinalizeRun(s, "success", "success", "signal")
    \/ pc[s] = "interrupted" /\ FinalizeRun(s, "interrupted", "interrupted", "signal")

Finalize(s) ==
    \/ pc[s] = "success" /\ FinalizeRun(s, "success", "idle", "signal")
    \/ pc[s] = "interrupted" /\ FinalizeRun(s, "interrupted", "interrupted", "signal")

FinalizeError(s) ==
    /\ pc[s] = "finError"
    /\ FinalizeRun(s, "error", "error", "signal")

\* The CancelledError handler: a cancellation by the heartbeat ends the job
\* without a trace, any other one is recorded as an interruption.
HandleCancel(s) ==
    /\ pc[s] = "cancelled"
    /\ \/ /\ job[s] \in lossSet[ProcOf[s]]
          /\ lossSet' = [lossSet EXCEPT ![ProcOf[s]] = @ \ {job[s]}]
          /\ PopActive(s)
          /\ Goto(s, "release")
       \/ /\ job[s] \notin lossSet[ProcOf[s]]
          /\ Goto(s, "finCancel")
          /\ UNCHANGED <<lossSet, activeRuns>>
    /\ UNCHANGED <<job, mark, beating, up, drain, late>>
    /\ UNCHANGED <<rowVars, redisVars, reaperVars, clientVars, histVars>>

FinalizeInterrupted(s) ==
    /\ pc[s] = "finCancel"
    /\ FinalizeRun(s, "interrupted", "idle", "signal")

\* Best-effort end event, then the `finally` block up to its last await.
Signal(s) ==
    /\ pc[s] = "signal"
    /\ lossSet' = [lossSet EXCEPT ![ProcOf[s]] = @ \ {job[s]}]
    /\ PopActive(s)
    /\ Goto(s, "donekey")
    /\ UNCHANGED <<job, mark, beating, up, drain, late>>
    /\ UNCHANGED <<rowVars, redisVars, reaperVars, clientVars, histVars>>

SetDoneKey(s) ==
    /\ pc[s] = "donekey"
    /\ doneKeys' = IF redisUp THEN doneKeys \cup {job[s]} ELSE doneKeys
    /\ Goto(s, "release")
    /\ UNCHANGED <<queue, cancelMsgs, redisUp, job, mark, beating>>
    /\ UNCHANGED <<rowVars, procVars, reaperVars, clientVars, histVars>>

\* `_release_lease`, at the end of the job and after a timeout.  The end of
\* the heartbeat and of execute_run were awaited before; the task then ends
\* normally, a CancelledError of execute_run having been swallowed.
ReleaseLease(s) ==
    /\ pc[s] \in {"release", "timedOutRelease"}
    /\ ReleaseClaim(s, job[s])
    /\ Exit(s)
    /\ UNCHANGED <<status, retryCount, params, thread, up, lossSet, late>>
    /\ UNCHANGED <<redisVars, reaperVars, clientVars, histVars>>

\* BG_JOB_TIMEOUT_SECS is over: wait_for cancels what the task awaits.  The
\* TimeoutError branch is entered only where that CancelledError reaches
\* wait_for, and no other cancellation of the task is outstanding.
JobTimeout(s) ==
    /\ mark[s] # "expired"
    /\ Spend("timeout")
    /\ \/ /\ pc[s] \in JobPhases
          /\ Goto(s, AfterCancel(s))
          /\ mark' = IF mark[s] = "none" THEN [mark EXCEPT ![s] = "expired"] ELSE mark
          /\ UNCHANGED <<job, beating, activeRuns, drain>>
       \/ /\ pc[s] \in LoadPhases \cup {"acquire", "release"}
          /\ mark[s] = "none"
          /\ Goto(s, "timedOut")
          /\ mark' = [mark EXCEPT ![s] = "expired"]
          /\ UNCHANGED <<job, beating, activeRuns, drain>>
       \/ /\ pc[s] = "release"
          /\ mark[s] = "cancelled"
          /\ Exit(s)
    /\ UNCHANGED <<up, lossSet, late, attempts, uncharged>>
    /\ UNCHANGED <<rowVars, redisVars, reaperVars, clientVars>>

FinalizeTimeout(s) ==
    /\ pc[s] = "timedOut"
    /\ FinalizeRun(s, "error", "error", "timedOutRelease")

\* One beat of `_heartbeat_loop`: the lease is extended if the row still
\* names this worker loop, otherwise execute_run's task is cancelled and the
\* loop returns.
Heartbeat(s) ==
    LET r == job[s] IN
    /\ pc[s] \in JobPhases
    /\ s \in beating
    /\ \/ /\ Owns(s, r)
          /\ lease' = [lease EXCEPT ![r] = "live"]
          /\ UNCHANGED <<lossSet, pc, beating>>
       \/ /\ ~Owns(s, r)
          /\ beating' = beating \ {s}
          /\ lossSet' = [lossSet EXCEPT ![ProcOf[s]] = @ \cup {r}]
          /\ Goto(s, AfterCancel(s))
          /\ UNCHANGED lease
    /\ UNCHANGED <<status, claimedBy, retryCount, params, thread, job, mark>>
    /\ UNCHANGED <<up, activeRuns, drain, late>>
    /\ UNCHANGED <<redisVars, reaperVars, clientVars, histVars>>

\* The transaction a slot is in fails.  In execute_run that is an exception
\* like any other; in one of its handlers, only `finally` is left.
DbFailure(s) ==
    /\ Spend("db")
    /\ \/ /\ pc[s] \in {"start", "success", "interrupted"}
          /\ Goto(s, "finError")
          /\ UNCHANGED <<job, mark, beating, activeRuns, drain>>
       \/ /\ pc[s] \in {"finError", "finCancel"}
          /\ Goto(s, "signal")
          /\ UNCHANGED <<job, mark, beating, activeRuns, drain>>
       \/ /\ pc[s] \in {"acquire", "incomplete", "release", "timedOut", "timedOutRelease"}
          /\ Exit(s)
    /\ UNCHANGED <<up, lossSet, late, attempts, uncharged>>
    /\ UNCHANGED <<rowVars, redisVars, reaperVars, clientVars>>

\* Slot s was granted the lease of r and is still at work on it.
HoldsLease(s, r) ==
    job[s] = r /\ Owns(s, r) /\ pc[s] \in Holding

\* LEASE_DURATION_SECONDS pass without a heartbeat.  LEASE > 2 * HEARTBEAT
\* keeps a healthy owner's lease live: under a working owner this takes a
\* stall (a blocked event loop, or heartbeats whose UPDATE keeps failing).
Expire(r) ==
    /\ lease[r] = "live"
    /\ lease' = [lease EXCEPT ![r] = "expired"]
    /\ \/ (\A s \in Slots : ~HoldsLease(s, r)) /\ UNCHANGED spent
       \/ (\E s \in Slots : HoldsLease(s, r)) /\ Spend("stall")
    /\ UNCHANGED <<status, claimedBy, retryCount, params, thread, attempts, uncharged>>
    /\ UNCHANGED <<redisVars, slotVars, procVars, reaperVars, clientVars>>
-----------------------------------------------------------------------------
(* The lease reaper: every transaction of `_reap` is a step of its own *)

\* Mutants of the reaper's queries: the lease is not looked at; the search for
\* stuck rows is missing.
AnyRunning == {r \in Runs : status[r] = "running"}
NothingStuck == {r \in Runs : FALSE}

Crashed == {r \in Runs : status[r] = "running" /\ lease[r] = "expired"}
StuckPending == {r \in Runs : status[r] = "pending" /\ claimedBy[r] = None /\ r \in old}

ReaperGoto(p, phase) == rpc' = [rpc EXCEPT ![p] = phase]

\* A tick that finds nothing changes nothing and is not a step.
FindCrashed(p) ==
    /\ rpc[p] = "sleep"
    /\ p \in Reapers
    /\ up[p] = "running"
    /\ Crashed \cup StuckPending # {}
    /\ found' = [found EXCEPT ![p] = Crashed]
    /\ ReaperGoto(p, "findStuck")
    /\ UNCHANGED <<stuck, exhausted>>
    /\ UNCHANGED <<rowVars, redisVars, slotVars, procVars, clientVars, histVars>>

FindStuck(p) ==
    /\ rpc[p] = "findStuck"
    /\ stuck' = [stuck EXCEPT ![p] = StuckPending]
    /\ ReaperGoto(p, IF found[p] # {} THEN "reset"
                     ELSE IF StuckPending # {} THEN "requeue" ELSE "sleep")
    /\ UNCHANGED <<found, exhausted>>
    /\ UNCHANGED <<rowVars, redisVars, slotVars, procVars, clientVars, histVars>>

\* Mutant of ReturnRows: the claim stays.
ReturnKeepsClaim(R, st) ==
    /\ status' = [r \in Runs |-> IF r \in R THEN st ELSE status[r]]
    /\ lease' = [r \in Runs |-> IF r \in R THEN "none" ELSE lease[r]]
    /\ UNCHANGED claimedBy

\* Both UPDATEs of the reaper take the rows R away from whoever claims them.
ReturnRows(R, st) ==
    /\ status' = [r \in Runs |-> IF r \in R THEN st ELSE status[r]]
    /\ claimedBy' = [r \in Runs |-> IF r \in R THEN None ELSE claimedBy[r]]
    /\ lease' = [r \in Runs |-> IF r \in R THEN "none" ELSE lease[r]]

\* `_reset_to_pending` checks the rows again in its UPDATE.
ResetToPending(p) ==
    LET reset == found[p] \cap Crashed IN
    /\ rpc[p] = "reset"
    /\ ReturnRows(reset, "pending")
    /\ found' = [found EXCEPT ![p] = reset]
    /\ ReaperGoto(p, IF reset # {} THEN "retries" ELSE "requeue")
    /\ UNCHANGED <<retryCount, params, thread, stuck, exhausted>>
    /\ UNCHANGED <<redisVars, slotVars, procVars, clientVars, histVars>>

\* Mutant of IsExhausted: one retry too many.
OneRetryMore(r) == retryCount[r] > MaxRetries

IsExhausted(r) == retryCount[r] + 1 > MaxRetries

\* `_check_retry_limits`: the runs within their budget are charged one retry;
\* the counter lives in execution_params, which it creates where missing.
CheckRetryLimits(p) ==
    LET over == {r \in found[p] : IsExhausted(r)}
        retryable == found[p] \ over
    IN
    /\ rpc[p] = "retries"
    /\ retryCount' = [r \in Runs |-> IF r \in retryable THEN retryCount[r] + 1
                                     ELSE retryCount[r]]
    /\ params' = [r \in Runs |-> IF r \in retryable /\ params[r] = "missing"
                                 THEN "countOnly" ELSE params[r]]
    /\ found' = [found EXCEPT ![p] = retryable]
    /\ exhausted' = [exhausted EXCEPT ![p] = over]
    /\ ReaperGoto(p, IF over # {} THEN "fail" ELSE "requeue")
    /\ UNCHANGED <<status, claimedBy, lease, thread, stuck>>
    /\ UNCHANGED <<redisVars, slotVars, procVars, clientVars, histVars>>

\* `_mark_permanently_failed`: no condition but the run id.
MarkPermanentlyFailed(p) ==
    /\ rpc[p] = "fail"
    /\ ReturnRows(exhausted[p], "error")
    /\ exhausted' = [exhausted EXCEPT ![p] = {}]
    /\ ReaperGoto(p, "requeue")
    /\ UNCHANGED <<retryCount, params, thread, found, stuck>>
    /\ UNCHANGED <<redisVars, slotVars, procVars, clientVars, histVars>>

\* `_reenqueue` of the retryable runs, then of the stuck ones: one RPUSH per
\* run id; a RedisError gives up the rest of the list.
Reenqueue(p) ==
    /\ rpc[p] = "requeue"
    /\ \/ /\ found[p] = {}
          /\ found' = [found EXCEPT ![p] = stuck[p]]
          /\ stuck' = [stuck EXCEPT ![p] = {}]
          /\ ReaperGoto(p, IF stuck[p] = {} THEN "sleep" ELSE "requeue")
          /\ UNCHANGED queue
       \/ /\ redisUp
          /\ Len(queue) < QueueCap
          /\ \E r \in found[p] :
                /\ queue' = Append(queue, r)
                /\ found' = [found EXCEPT ![p] = @ \ {r}]
          /\ UNCHANGED <<stuck, rpc>>
       \/ /\ ~redisUp
          /\ found[p] # {}
          /\ found' = [found EXCEPT ![p] = {}]
          /\ UNCHANGED <<stuck, rpc, queue>>
    /\ UNCHANGED <<exhausted, doneKeys, cancelMsgs, redisUp>>
    /\ UNCHANGED <<rowVars, slotVars, procVars, clientVars, histVars>>

\* The reaper of p forgets its tick: an exception, a cancellation or a crash.
AbandonTick(p) ==
    LET forgotten == exhausted[p] \cup IF rpc[p] = "retries" THEN found[p] ELSE {} IN
    /\ uncharged' = [r \in Runs |-> IF r \in forgotten THEN uncharged[r] + 1
                                    ELSE uncharged[r]]
    /\ ReaperGoto(p, "sleep")
    /\ found' = [found EXCEPT ![p] = {}]
    /\ stuck' = [stuck EXCEPT ![p] = {}]
    /\ exhausted' = [exhausted EXCEPT ![p] = {}]

ReaperDbFailure(p) ==
    /\ rpc[p] \notin {"sleep", "requeue"}
    /\ Spend("db")
    /\ AbandonTick(p)
    /\ UNCHANGED attempts
    /\ UNCHANGED <<rowVars, redisVars, slotVars, procVars, clientVars>>
-----------------------------------------------------------------------------
(* Server processes *)

\* The process of p is gone, with its tasks and its memory.
ProcessEnds(p) ==
    /\ up' = [up EXCEPT ![p] = "down"]
    /\ pc' = [s \in Slots |-> IF ProcOf[s] = p THEN "idle" ELSE pc[s]]
    /\ job' = [s \in Slots |-> IF ProcOf[s] = p THEN None ELSE job[s]]
    /\ mark' = [s \in Slots |-> IF ProcOf[s] = p THEN "none" ELSE mark[s]]
    /\ beating' = beating \ SlotsOf(p)
    /\ activeRuns' = [activeRuns EXCEPT ![p] = [r \in Runs |-> None]]
    /\ lossSet' = [lossSet EXCEPT ![p] = {}]
    /\ drain' = drain \ SlotsOf(p)
    /\ late' = late \ {WorkerOf[s] : s \in SlotsOf(p)}
    /\ cancelMsgs' = {m \in cancelMsgs : m[1] # p}
    /\ AbandonTick(p)
    /\ UNCHANGED <<queue, doneKeys, redisUp, rowVars, clientVars, attempts>>

Crash(p) ==
    /\ up[p] # "down"
    /\ Spend("crash")
    /\ ProcessEnds(p)

Restart(p) ==
    /\ up[p] = "down"
    /\ up' = [up EXCEPT ![p] = "running"]
    /\ UNCHANGED <<activeRuns, lossSet, drain, late>>
    /\ UNCHANGED <<rowVars, redisVars, slotVars, reaperVars, clientVars, histVars>>

\* Shutdown: the reaper is stopped, then WorkerExecutor.stop waits for the
\* jobs it knows.
BeginStop(p) ==
    /\ up[p] = "running"
    /\ Spend("stop")
    /\ up' = [up EXCEPT ![p] = "draining"]
    /\ drain' = drain \cup {s \in SlotsOf(p) : job[s] # None}
    /\ late' = late \cup {WorkerOf[s] : s \in {t \in SlotsOf(p) : job[t] = None}}
    /\ AbandonTick(p)
    /\ UNCHANGED <<activeRuns, lossSet, attempts>>
    /\ UNCHANGED <<rowVars, redisVars, slotVars, clientVars>>

\* WORKER_DRAIN_TIMEOUT is over: what is left of those jobs is cancelled.
DrainTimeout(p) ==
    /\ up[p] = "draining"
    /\ drain \cap SlotsOf(p) # {}
    /\ up' = [up EXCEPT ![p] = "cancelling"]
    /\ CancelTasks(drain \cap SlotsOf(p))
    /\ UNCHANGED <<lossSet, late>>
    /\ UNCHANGED <<rowVars, redisVars, reaperVars, clientVars, histVars>>

\* The jobs stop() waited for are done; a job dequeued since is not waited for.
EndStop(p) ==
    /\ up[p] \in {"draining", "cancelling"}
    /\ drain \cap SlotsOf(p) = {}
    /\ ProcessEnds(p)
    /\ UNCHANGED spent
-----------------------------------------------------------------------------
SlotStep(s) ==
    \/ Acquire(s) \/ Load(s) \/ Start(s) \/ Stream(s) \/ Finalize(s)
    \/ FinalizeError(s) \/ HandleCancel(s) \/ FinalizeInterrupted(s)
    \/ Signal(s) \/ SetDoneKey(s) \/ ReleaseLease(s) \/ FinalizeTimeout(s)

Take(s) == Dequeue(s) \/ DequeueFails(s) \/ PollPostgres(s)

ReaperStep(p) ==
    \/ FindCrashed(p) \/ FindStuck(p) \/ ResetToPending(p)
    \/ CheckRetryLimits(p) \/ MarkPermanentlyFailed(p) \/ Reenqueue(p)

ClientStep(r) ==
    \/ Prepare(r) \/ Submit(r) \/ SubmitFails(r) \/ Age(r)
    \/ PublishCancel(r) \/ PersistCancel(r)
    \/ \E p \in Procs : CancelLocally(p, r) \/ DeliverCancel(p, r) \/ LoseCancel(p, r)

ProcessStep(p) ==
    Crash(p) \/ Restart(p) \/ BeginStop(p) \/ DrainTimeout(p) \/ EndStop(p)

Next ==
    \/ \E r \in Runs : ClientStep(r) \/ Expire(r)
    \/ \E s \in Slots : \/ Take(s) \/ SlotStep(s) \/ Heartbeat(s)
                        \/ JobTimeout(s) \/ DbFailure(s)
    \/ \E p \in Procs : ReaperStep(p) \/ ReaperDbFailure(p) \/ ProcessStep(p)
    \/ RedisDown \/ RedisRecovers

Spec == Init /\ [][Next]_vars

\* Every task that can run does, the database and Redis answer in the end, a
\* process that is down is started again, a lease nobody extends runs out, and
\* the graph ends.  Disturbances, and the calls of users, are never forced.
LeaseRunsOut(r) == Expire(r) /\ UNCHANGED spent
Fairness ==
    /\ \A s \in Slots : WF_vars(SlotStep(s)) /\ WF_vars(Take(s)) /\ WF_vars(Heartbeat(s))
    /\ \A p \in Procs : /\ WF_vars(ReaperStep(p))
                        /\ WF_vars(Restart(p)) /\ WF_vars(DrainTimeout(p)) /\ WF_vars(EndStop(p))
    /\ \A r \in Runs : /\ WF_vars(Submit(r)) /\ WF_vars(Age(r))
                       /\ WF_vars(LeaseRunsOut(r))
                       /\ \A p \in Procs : WF_vars(DeliverCancel(p, r))
    /\ WF_vars(RedisRecovers)

FairSpec == Spec /\ Fairness
-----------------------------------------------------------------------------
(* Safety *)

\* A row has a lease exactly when a worker loop has claimed it, and a pending
\* row is never claimed: the acquiring UPDATE and the reaper's search for
\* stuck rows both skip a pending row that still names a worker.
PendingIsClaimable ==
    \A r \in Runs : /\ claimedBy[r] = None <=> lease[r] = "none"
                    /\ status[r] \in {"absent", "pending"} => claimedBy[r] = None

HoldersOf(r) == {s \in Slots : job[s] = r /\ pc[s] \in Holding}

\* As long as no working owner has missed its heartbeats for a whole lease,
\* at most one slot of the cluster is between acquiring and releasing a run,
\* the row names that slot's loop or nobody, and a run that may be acquired
\* or reset to pending has no slot at work on it -- through every crash,
\* shutdown, database failure, cancellation and Redis outage.
HealthyLeaseExcludes ==
    spent["stall"] = 0 =>
        \A r \in Runs :
            /\ \A s, t \in HoldersOf(r) : s = t
            /\ \A s \in HoldersOf(r) : claimedBy[r] \in {None, WorkerOf[s]}
            /\ status[r] \in {"absent", "pending"} \/ lease[r] = "expired"
                    => HoldersOf(r) = {}

\* Every stall costs at most one more concurrent execution of a run: the
\* conditional UPDATE never hands a run to two loops by itself.
StallsBoundExecutors ==
    \A r \in Runs :
        Cardinality({s \in Slots : job[s] = r /\ pc[s] \in Executing}) <= 1 + spent["stall"]

\* The done key wakes wait_for_completion, whose callers then read the row:
\* it is only ever set when the row holds a final status.
DoneMeansTerminal == \A r \in doneKeys : status[r] \in TerminalStates

\* Without users, timeouts and shutdown, every cancellation comes from a
\* heartbeat that lost its lease, and none is recorded as an interruption:
\* the CancelledError handler always recognises it by the run id.
LeaseLossNeverInterrupts ==
    spent["cancel"] + spent["timeout"] + spent["stop"] = 0
        => \A s \in Slots : pc[s] # "finCancel"

\* BG_JOB_MAX_RETRIES bounds the executions of a run, whatever crashes: one
\* more than the retries, one for the retry charge that each forgotten tick
\* loses, and one for each reaper that has reset the exhausted run and has
\* not yet marked it failed.
RetriesBoundAttempts ==
    \A r \in Runs :
        attempts[r] <= MaxRetries + 1 + uncharged[r] + Cardinality(Reapers)

\* An entry of active_runs names a live task of that process, and one that
\* runs the entry's run: cancelling a run never hits the task of another one.
EntriesNameTheirRun ==
    \A p \in Procs, r \in Runs :
        activeRuns[p][r] # None
            => ProcOf[activeRuns[p][r]] = p /\ job[activeRuns[p][r]] = r

\* A job execute_run is at work on is found by `_execute_cancel`: its
\* process's active_runs names the very task that runs it.
CancelFindsTheTask ==
    \A s \in Slots : pc[s] \in Executing => activeRuns[ProcOf[s]][job[s]] = s
-----------------------------------------------------------------------------
(* What a step may never do *)

\* A worker loses a claim only after its lease has expired, to its own loop,
\* or to a reaper that gives the run up (`_mark_permanently_failed` does not
\* look at the lease): no late release, no stale recovery and no other worker
\* takes a run away from a worker whose lease is live.
ClaimEndsByOwnerOrExpiry ==
    [][\A r \in Runs : claimedBy[r] # None /\ claimedBy'[r] # claimedBy[r]
            => \/ lease[r] = "expired"
               \/ \E s \in Slots : job[s] = r /\ Owns(s, r) /\ job'[s] # r
               \/ \E p \in Procs : rpc[p] = "fail" /\ r \in exhausted[p]]_vars

\* A run whose cancellation was persisted before any worker acquired it is
\* never executed, however often its id is queued or requeued.
CancelledInQueueNeverRuns ==
    [][\A r \in Runs : cancelReq[r] = "done" /\ attempts[r] = 0
            => attempts'[r] = 0]_vars

\* A run that the reaper has given up, "permanently failed" as its log says,
\* never comes to succeed.
FailureIsPermanent ==
    [][\A r \in Runs : status[r] = "error" => status'[r] \notin {"running", "success"}]_vars

\* A cancelled run is not overwritten by "success".
CancelIsNotOverwritten ==
    [][\A r \in Runs : cancelReq[r] = "done" /\ status[r] = "interrupted"
            => status'[r] # "success"]_vars

\* A job that was cut short by BG_JOB_TIMEOUT_SECS is not left as the
\* CancelledError handler leaves it, interrupted with an idle thread: the
\* timeout corrects both to error before the lease is released.
TimedOutJobFails ==
    [][\A s \in Slots : mark[s] = "expired" /\ ReleaseLease(s)
            => ~(status[job[s]] = "interrupted" /\ thread[job[s]] = "idle")]_vars

\* Seen from outside, leases, queues and processes implement the run state
\* machine of RunLifecycle: in particular a final status stays final.
Lifecycle == INSTANCE RunLifecycle
LifecycleSpec == Lifecycle!Spec
-----------------------------------------------------------------------------
(* Liveness *)

\* Every run the API has committed reaches a final status, though processes
\* crash between any two steps, queue entries are lost with them and Redis
\* fails; and its thread does not stay busy (that of a row without parameters
\* does: it is failed without a look at its thread).
EveryRunSettles ==
    \A r \in Runs :
        status[r] # "absent" ~>
            status[r] \in TerminalStates /\ (params[r] = "full" => thread[r] # "busy")
=============================================================================
