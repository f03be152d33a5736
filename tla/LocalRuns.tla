------------------------------ MODULE LocalRuns ------------------------------
(***************************************************************************)
(* Runs in the single-process mode: the thread and run endpoints           *)
(* (api/threads.py, api/runs.py), stateless runs and their clean-up        *)
(* (api/stateless_runs.py, run_cleanup.py), the in-process executor        *)
(* (local_executor.py) and the in-memory broker (broker.py).               *)
(*                                                                         *)
(* One event loop runs everything, so what stands between two awaits is    *)
(* one step.  CancelledError reaches a task where it next resumes; the     *)
(* database may have executed the statement it was waiting for.            *)
(*                                                                         *)
(* The events of a run are numbered; the replay buffer of its broker holds *)
(* all that were put, the queue those that no stream has taken yet.        *)
(***************************************************************************)
EXTENDS Naturals, FiniteSets

CONSTANTS
    Runs, Streams,      \* runs in the order they are created, SSE connections
    Threads,            \* threads that users know by id
    Ephemeral,          \* threads made for one stateless run each
    None,
    MaxEvents,          \* events a graph emits
    Budgets             \* model bounds: runs, streams and disturbances, from one of these

Bounded == {"runs", "streams", "faults"}

ASSUME ConstantsAssumption ==
    /\ None \notin Threads \cup Ephemeral \cup Runs /\ Threads \cap Ephemeral = {}
    /\ Runs \subseteq Nat /\ MaxEvents \in Nat
    /\ Budgets \subseteq [Bounded -> Nat]

AllThreads == Threads \cup Ephemeral

VARIABLES
    thread,         \* status of each thread row
    status, of,     \* of each run: status of its row, thread
    phase, cancel,  \* its task: how far it is, whether CancelledError is due
    active,         \* active_runs: runs whose task is registered
    broker,         \* _brokers: [put, taken, end, finished] or none; one was dropped
    stream,         \* SSE connections: [run, own, step, last, got]
    clean,          \* stateless run: what becomes of its thread
    deleting,       \* delete_thread / delete_thread_by_id: [step, todo]
    request,        \* cancel and delete requests on a run
    cut, stale, late, lost, expired, blank, overruled, left    \* history; what is left of the budget

rowVars  == <<thread, status, of>>
taskVars == <<phase, cancel, active>>
reqVars  == <<clean, deleting, request>>
histVars == <<cut, stale, late, lost, expired, blank, overruled>>
vars == <<rowVars, taskVars, broker, stream, reqVars, histVars, left>>

Active == {"pending", "running"}
Terminal == {"success", "error", "interrupted"}
RunStates == {"absent", "gone"} \cup Active \cup Terminal
ThreadStates == {"none", "idle", "busy", "interrupted", "error"}
Finalizing == {"success", "pause", "undo", "fail"}
Alive == {"new", "start", "stream"} \cup Finalizing
Phases == {"none", "prepared", "done"} \cup Alive

NoBroker(dropped) ==
    [here |-> FALSE, put |-> 0, taken |-> 0, end |-> "none", finished |-> FALSE, dropped |-> dropped]

TypeOK ==
    /\ thread \in [AllThreads -> ThreadStates]
    /\ status \in [Runs -> RunStates]
    /\ of \in [Runs -> AllThreads \cup {None}]
    /\ \A r \in Runs : of[r] = None <=> status[r] = "absent"
    /\ phase \in [Runs -> Phases]
    /\ cancel \in [Runs -> BOOLEAN]
    /\ active \subseteq Runs
    /\ broker \in [Runs -> [here : BOOLEAN, put : Nat, taken : Nat,
                            end : {"none"} \cup Terminal, finished : BOOLEAN,
                            dropped : BOOLEAN]]
    /\ \A r \in Runs : broker[r].taken <= broker[r].put
    /\ stream \in [Streams -> [run : Runs \cup {None}, own : BOOLEAN, last : Nat, got : SUBSET Nat,
                               step : {"idle", "opened", "live", "ended", "gone"}]]
    /\ clean \in [Runs -> {"none", "task", "stream", "client", "kept", "over", "failed"}]
    /\ deleting \in [AllThreads -> [step : {"none", "cancel", "await", "delete"},
                                    todo : SUBSET Runs, now : Runs \cup {None}]]
    /\ request \in [Runs -> {"none", "persist", "await", "delete"}]
    /\ cut \subseteq Runs /\ stale \subseteq Runs /\ late \subseteq Runs /\ lost \subseteq Runs
    /\ expired \subseteq Runs /\ blank \subseteq Runs /\ overruled \subseteq Runs
    /\ left \in [Bounded -> Nat]

NotDeleting == [step |-> "none", todo |-> {}, now |-> None]

Init ==
    /\ thread = [t \in AllThreads |-> "none"]
    /\ status = [r \in Runs |-> "absent"] /\ of = [r \in Runs |-> None]
    /\ phase = [r \in Runs |-> "none"] /\ cancel = [r \in Runs |-> FALSE]
    /\ active = {}
    /\ broker = [r \in Runs |-> NoBroker(FALSE)]
    /\ stream = [k \in Streams |-> [run |-> None, own |-> FALSE, step |-> "idle", last |-> 0, got |-> {}]]
    /\ clean = [r \in Runs |-> "none"]
    /\ deleting = [t \in AllThreads |-> NotDeleting]
    /\ request = [r \in Runs |-> "none"]
    /\ cut = {} /\ stale = {} /\ late = {} /\ lost = {} /\ expired = {}
    /\ blank = {} /\ overruled = {}
    /\ left \in Budgets

Spend(kind) ==
    /\ left[kind] > 0
    /\ left' = [left EXCEPT ![kind] = @ - 1]

OnThread(t) == {r \in Runs : of[r] = t}
Row(r) == status[r] \notin {"absent", "gone"}

-----------------------------------------------------------------------------
(* The in-memory broker *)

\* `RunBroker.put` into a broker that is there or just made; a finished one
\* refuses.  The end event finishes it.
Put(b, count, end) ==
    IF b.finished THEN b
    ELSE [b EXCEPT !.here = TRUE, !.put = @ + count, !.end = end, !.finished = end # "none"]

\* `cleanup_broker`
Finish(b) == [b EXCEPT !.finished = b.here]

\* Mutant of Signal: the end event says success for a run that paused.
SignalSuccess(b, how) ==
    CASE how \in {"success", "pause"} -> IF b.here THEN Put(b, 1, "success") ELSE b
      [] how = "undo" -> Put(b, 1, "interrupted")
      [] how = "fail" -> Put(b, 2, "error")

\* The end event of a run that ended by itself goes to a broker that exists,
\* those of cancelled and failed runs to one that is made for them.
Signal(b, how) ==
    CASE how \in {"success", "pause"} ->
            IF b.here THEN Put(b, 1, IF how = "pause" THEN "interrupted" ELSE "success") ELSE b
      [] how = "undo" -> Put(b, 1, "interrupted")
      [] how = "fail" -> Put(b, 2, "error")

\* `request_cancel`: the task is cancelled, the streams are told at once.
RequestCancel(r) ==
    IF r \in active /\ phase[r] \in Alive
    THEN /\ cancel' = [cancel EXCEPT ![r] = TRUE]
         /\ broker' = [broker EXCEPT ![r] = Put(@, 1, "interrupted")]
    ELSE UNCHANGED <<cancel, broker>>

\* `_cleanup_old_brokers`: finished, drained, and older than an hour, hence of
\* a task that has begun.  The streams that follow it keep the broker they
\* hold, and end as it is finished and empty.
SweepBroker(r) ==
    /\ broker[r].here /\ broker[r].finished /\ broker[r].taken = broker[r].put
    /\ phase[r] # "new"
    /\ Spend("faults")
    /\ broker' = [broker EXCEPT ![r] = NoBroker(TRUE)]
    /\ stream' = [k \in Streams |->
           IF stream[k].run = r /\ stream[k].step = "live"
           THEN [stream[k] EXCEPT !.step = "ended"] ELSE stream[k]]
    /\ UNCHANGED <<rowVars, taskVars, reqVars, histVars>>

-----------------------------------------------------------------------------
(* Creation *)

\* `create_thread`
CreateThread(t) ==
    /\ thread[t] = "none"
    /\ thread' = [thread EXCEPT ![t] = "idle"]
    /\ UNCHANGED <<status, of, taskVars, broker, stream, reqVars, histVars, left>>

Fresh(t) == t \in Ephemeral /\ OnThread(t) = {}

\* `_prepare_run` commits the run with its thread, which it creates if need be.
Prepare(r, t) ==
    /\ status[r] = "absent" /\ Spend("runs")
    /\ \A q \in Runs : q < r => status[q] # "absent"
    /\ t \in Threads \/ Fresh(t)
    /\ status' = [status EXCEPT ![r] = "pending"]
    /\ of' = [of EXCEPT ![r] = t]
    /\ thread' = [thread EXCEPT ![t] = "busy"]
    /\ phase' = [phase EXCEPT ![r] = "prepared"]
    /\ late' = IF deleting[t].step # "none" THEN late \cup {r} ELSE late
    /\ UNCHANGED <<cancel, active, broker, stream, reqVars, cut, stale, lost, expired, blank, overruled>>

\* What the creation of a run on an ephemeral thread does for it: schedule a
\* clean-up after the task ("task"), delete after its stream ("stream") or
\* after the answer to a waiting client ("client").
CleanUps(r) == IF of[r] \in Ephemeral THEN {"task", "stream", "client"} ELSE {"none"}

\* `create_run`, which others delegate to: the row is committed first.
CreateRun(r, t) == Prepare(r, t)

\* `create_and_stream_run`: the request that made the run streams it from the
\* start, and cancels it when its client goes.
OwnStream(r) ==
    \E k \in Streams :
        /\ stream[k].step = "idle" /\ Spend("streams")
        /\ stream' = [stream EXCEPT ![k] = [run |-> r, own |-> TRUE, step |-> "opened", last |-> 0, got |-> {}]]

\* `LocalExecutor.submit` after the commit has returned.
Submit(r, how) ==
    /\ phase[r] = "prepared"
    /\ phase' = [phase EXCEPT ![r] = "new"]
    /\ active' = active \cup {r}
    /\ late' = IF Row(r) THEN late ELSE late \cup {r}
    /\ how \in CleanUps(r)
    /\ clean' = [clean EXCEPT ![r] = how]
    /\ \/ how # "stream" /\ UNCHANGED <<stream, left>>
       \/ how \in {"stream", "none"} /\ OwnStream(r)
    /\ UNCHANGED <<rowVars, cancel, broker, deleting, request, cut, stale, lost, expired, blank, overruled>>

-----------------------------------------------------------------------------
(* The task: execute_run *)

Become(r, ph) == phase' = [phase EXCEPT ![r] = ph]

Over(r) ==
    /\ Become(r, "done")
    /\ cancel' = [cancel EXCEPT ![r] = FALSE]

\* First step of the task.  One that is cancelled before runs nothing of
\* execute_run, not even its finally clause.
Begin(r) ==
    /\ phase[r] = "new"
    /\ IF cancel[r]
       THEN Over(r) /\ cut' = cut \cup {r}
       ELSE Become(r, "start") /\ UNCHANGED <<cancel, cut>>
    /\ UNCHANGED <<rowVars, active, broker, stream, reqVars, stale, late, lost, expired, blank, overruled, left>>

WriteRunning(r) == status' = IF Row(r) THEN [status EXCEPT ![r] = "running"] ELSE status

Start(r) ==
    /\ phase[r] = "start" /\ ~cancel[r]
    /\ WriteRunning(r)
    /\ Become(r, "stream")
    /\ UNCHANGED <<thread, of, cancel, active, broker, stream, reqVars, histVars, left>>

Emit(r) ==
    /\ phase[r] = "stream" /\ ~cancel[r]
    /\ broker[r].put < MaxEvents
    /\ broker' = [broker EXCEPT ![r] = Put(@, 1, "none")]
    /\ UNCHANGED <<rowVars, taskVars, stream, reqVars, histVars, left>>

\* The graph ends, or pauses for a human, or raises.
GraphEnds(r, how) ==
    /\ phase[r] = "stream" /\ ~cancel[r]
    /\ how \in Finalizing \ {"undo"}
    /\ Become(r, how)
    /\ UNCHANGED <<rowVars, cancel, active, broker, stream, reqVars, histVars, left>>

\* Mutant of ThreadOutcome: a cancelled run does not free its thread.
StaysBusy(how) == IF how = "undo" THEN "busy" ELSE "idle"

RunOutcome(how) ==
    CASE how = "success" -> "success" [] how = "fail" -> "error" [] OTHER -> "interrupted"
ThreadOutcome(how) ==
    CASE how = "fail" -> "error" [] how = "pause" -> "interrupted" [] OTHER -> "idle"

\* `finalize_run`: two UPDATEs, one commit; rows that are gone are not missed.
WriteOutcome(r, how) ==
    /\ status' = IF Row(r) THEN [status EXCEPT ![r] = RunOutcome(how)] ELSE status
    /\ thread' = IF thread[of[r]] # "none" THEN [thread EXCEPT ![of[r]] = ThreadOutcome(how)] ELSE thread
    /\ stale' = IF \E q \in OnThread(of[r]) \ {r} : phase[q] \in Alive \cup {"prepared"}
                THEN stale \cup OnThread(of[r]) ELSE stale

\* The rest of execute_run has no await that waits: the end event, the finally
\* clause.
LeaveWith(r, b) ==
    /\ Over(r)
    /\ active' = active \ {r}
    /\ broker' = [broker EXCEPT ![r] = Finish(b)]

Finalize(r) ==
    /\ phase[r] \in Finalizing /\ ~cancel[r]
    /\ WriteOutcome(r, phase[r])
    /\ LeaveWith(r, Signal(broker[r], phase[r]))
    /\ UNCHANGED <<of, stream, reqVars, cut, late, lost, expired, blank, overruled, left>>

\* CancelledError at the await of a task that has begun: it turns to writing
\* "interrupted", whatever it had reached.
Cancelled(r) ==
    /\ cancel[r] /\ phase[r] \in {"start", "stream", "success", "pause"}
    /\ Become(r, "undo")
    /\ cancel' = [cancel EXCEPT ![r] = FALSE]
    /\ \/ UNCHANGED <<status, thread, stale>>
       \/ phase[r] = "start" /\ WriteRunning(r) /\ UNCHANGED <<thread, stale>>
       \/ phase[r] \in Finalizing /\ WriteOutcome(r, phase[r])
    /\ UNCHANGED <<of, active, broker, stream, reqVars, cut, late, lost, expired, blank, overruled, left>>

\* CancelledError while an exception handler of execute_run is writing: only
\* the finally clause is left to run.
CancelledTwice(r) ==
    /\ cancel[r] /\ phase[r] \in {"undo", "fail"}
    /\ LeaveWith(r, broker[r])
    /\ cut' = cut \cup {r}
    /\ WriteOutcome(r, phase[r]) \/ UNCHANGED <<status, thread, stale>>
    /\ UNCHANGED <<of, stream, reqVars, late, lost, expired, blank, overruled, left>>

\* finalize_run raises: in the try clause that is a failure of the run, in a
\* handler it leaves execute_run by the finally clause.
FinalizeFails(r) ==
    /\ phase[r] \in Finalizing /\ ~cancel[r]
    /\ Spend("faults")
    /\ IF phase[r] \in {"success", "pause"}
       THEN Become(r, "fail") /\ UNCHANGED <<cancel, active, broker, cut>>
       ELSE LeaveWith(r, broker[r]) /\ cut' = cut \cup {r}
    /\ UNCHANGED <<rowVars, stream, reqVars, stale, late, lost, expired, blank, overruled>>

-----------------------------------------------------------------------------
(* Streams *)

\* `stream_run` on a run that is not over; resuming after event `last`.  On one
\* that is over, without Last-Event-ID, an end event is all there is.  The
\* client may know events of a broker that is no longer there.
Open(k, r, last) ==
    /\ stream[k].step = "idle" /\ Spend("streams")
    /\ Row(r)
    /\ status[r] \in Active \/ last > 0
    /\ last <= broker[r].put \/ broker[r].dropped
    /\ stream' = [stream EXCEPT ![k] = [run |-> r, own |-> FALSE, step |-> "opened", last |-> last, got |-> 1 .. last]]
    /\ UNCHANGED <<rowVars, taskVars, broker, reqVars, histVars>>

\* `_replay_stored_events` makes the broker if there is none, and sends what
\* its buffer holds after `last`.
Replay(k) ==
    LET r == stream[k].run
        n == broker[r].put
    IN
    /\ stream[k].step = "opened"
    /\ broker' = [broker EXCEPT ![r].here = TRUE]
    /\ stream' = [stream EXCEPT ![k].step = "live", ![k].got = @ \cup (1 .. n),
                                ![k].last = IF n > @ THEN n ELSE @]
    /\ blank' = IF ~broker[r].here /\ phase[r] = "done" THEN blank \cup {r} ELSE blank
    /\ UNCHANGED <<rowVars, taskVars, reqVars, cut, stale, late, lost, expired, overruled, left>>

IsNew(k, n) == n > stream[k].last

\* `_stream_live_events` takes the next event off the queue and drops it when
\* the replay had it; after the end event it stops.
Take(k) ==
    LET r == stream[k].run
        n == broker[r].taken + 1
        ends == n = broker[r].put /\ broker[r].end # "none"
    IN
    /\ stream[k].step = "live"
    /\ n <= broker[r].put
    /\ broker' = [broker EXCEPT ![r].taken = n]
    /\ stream' = [stream EXCEPT ![k].step = IF ends THEN "ended" ELSE "live",
                                ![k].got = IF IsNew(k, n) THEN @ \cup {n} ELSE @,
                                ![k].last = IF IsNew(k, n) THEN n ELSE @]
    /\ UNCHANGED <<rowVars, taskVars, reqVars, histVars, left>>

\* Nothing for 0.1 s, and the broker is finished.
Drained(k) ==
    LET b == broker[stream[k].run] IN
    /\ stream[k].step = "live"
    /\ b.finished /\ b.taken = b.put
    /\ stream' = [stream EXCEPT ![k].step = "ended"]
    /\ UNCHANGED <<rowVars, taskVars, broker, reqVars, histVars, left>>

\* The client goes.  A stream that created its run may cancel it.  A stateless
\* one deletes the thread if the run has finished by then, and else keeps it.
Disconnect(k) ==
    LET r == stream[k].run IN
    /\ stream[k].step \in {"opened", "live"}
    /\ Spend("faults")
    /\ stream' = [stream EXCEPT ![k].step = "gone"]
    /\ \/ stream[k].own /\ RequestCancel(r)
       \/ UNCHANGED <<cancel, broker>>
    /\ clean' = IF stream[k].own /\ clean[r] = "stream" /\ ~broker'[r].finished
                THEN [clean EXCEPT ![r] = "kept"] ELSE clean
    /\ UNCHANGED <<rowVars, phase, active, deleting, request, histVars>>

-----------------------------------------------------------------------------
(* Requests on a run *)

\* `cancel_run_endpoint` and `update_run`: cancel the task, then persist.
CancelRun(r) ==
    /\ Row(r) /\ request[r] = "none"
    /\ Spend("faults")
    /\ RequestCancel(r)
    /\ request' = [request EXCEPT ![r] = "persist"]
    /\ UNCHANGED <<rowVars, phase, active, stream, clean, deleting, histVars>>

PersistCancel(r) ==
    /\ request[r] = "persist"
    /\ status' = IF Row(r) THEN [status EXCEPT ![r] = "interrupted"] ELSE status
    /\ request' = [request EXCEPT ![r] = "none"]
    /\ overruled' = IF ~cancel[r] /\ phase[r] # "undo" THEN overruled \cup {r} ELSE overruled
    /\ UNCHANGED <<thread, of, taskVars, broker, stream, clean, deleting, cut, stale, late, lost, expired, blank, left>>

\* `delete_run` with force on an active run: cancel, then wait for the task;
\* on a run that is over it goes on at once.
DeleteRun(r) ==
    /\ Row(r) /\ request[r] = "none"
    /\ Spend("faults")
    /\ IF status[r] \in Active
       THEN RequestCancel(r) /\ request' = [request EXCEPT ![r] = "await"]
       ELSE UNCHANGED <<cancel, broker>> /\ request' = [request EXCEPT ![r] = "delete"]
    /\ UNCHANGED <<rowVars, phase, active, stream, clean, deleting, histVars>>

\* Mutant of Waits: any registered task.
Registered(r) == r \in active

\* Whom awaiting the registered task of r keeps waiting.
Waits(r) == r \in active /\ phase[r] \in Alive

AwaitTask(r) ==
    /\ request[r] = "await" /\ ~Waits(r)
    /\ request' = [request EXCEPT ![r] = "delete"]
    /\ UNCHANGED <<rowVars, taskVars, broker, stream, clean, deleting, histVars, left>>

\* It deletes the row, and cancels the task that is still registered.
DeleteRow(r) ==
    /\ request[r] = "delete"
    /\ status' = [status EXCEPT ![r] = "gone"]
    /\ cancel' = [cancel EXCEPT ![r] = @ \/ Waits(r)]
    /\ active' = active \ {r}
    /\ late' = IF phase[r] \in {"prepared", "new"} THEN late \cup {r} ELSE late
    /\ request' = [request EXCEPT ![r] = "none"]
    /\ UNCHANGED <<thread, of, phase, broker, stream, clean, deleting, cut, stale, lost, expired, blank, overruled, left>>

-----------------------------------------------------------------------------
(* Deletion of a thread: delete_thread, delete_thread_by_id *)

\* Mutant of BeginDelete: only running runs are looked for.
BeginDeleteRunning(t) ==
    deleting' = [deleting EXCEPT ![t] =
        [step |-> "cancel", todo |-> {r \in OnThread(t) : status[r] = "running"}, now |-> None]]

BeginDelete(t) ==
    deleting' = [deleting EXCEPT ![t] =
        [step |-> "cancel", todo |-> {r \in OnThread(t) : status[r] \in Active}, now |-> None]]

DeleteThread(t) ==
    /\ thread[t] # "none" /\ deleting[t].step = "none"
    /\ Spend("faults")
    /\ BeginDelete(t)
    /\ UNCHANGED <<rowVars, taskVars, broker, stream, clean, request, histVars>>

\* The next active run: request_cancel, take its task off the registry, cancel
\* it, and wait for it.
CancelNext(t, r) ==
    /\ deleting[t].step = "cancel" /\ r \in deleting[t].todo
    /\ RequestCancel(r)
    /\ active' = active \ {r}
    /\ deleting' = [deleting EXCEPT ![t] =
           [step |-> IF Waits(r) THEN "await" ELSE "cancel", todo |-> @.todo \ {r}, now |-> r]]
    /\ late' = IF phase[r] = "prepared" THEN late \cup {r} ELSE late
    /\ UNCHANGED <<rowVars, phase, stream, clean, request, cut, stale, lost, expired, blank, overruled, left>>

AwaitCancelled(t) ==
    /\ deleting[t].step = "await" /\ phase[deleting[t].now] \notin Alive
    /\ deleting' = [deleting EXCEPT ![t].step = "cancel"]
    /\ UNCHANGED <<rowVars, taskVars, broker, stream, clean, request, histVars, left>>

\* The row goes, and with it the rows of all its runs (ON DELETE CASCADE).
DropThread(t) ==
    /\ deleting[t].step = "cancel" /\ deleting[t].todo = {}
    /\ thread' = [thread EXCEPT ![t] = "none"]
    /\ status' = [r \in Runs |-> IF of[r] = t THEN "gone" ELSE status[r]]
    /\ late' = late \cup {r \in OnThread(t) : phase[r] = "prepared"}
    /\ deleting' = [deleting EXCEPT ![t] = NotDeleting]
    /\ UNCHANGED <<of, taskVars, broker, stream, clean, request, cut, stale, lost, expired, blank, overruled, left>>

\* The database fails, before anything is cancelled or at the end.  The user
\* has an error; the clean-up of a stateless run logs it and is not repeated.
DropFails(t) ==
    /\ deleting[t].step = "cancel" /\ (deleting[t].now = None \/ deleting[t].todo = {})
    /\ Spend("faults")
    /\ deleting' = [deleting EXCEPT ![t] = NotDeleting]
    /\ clean' = [r \in Runs |-> IF of[r] = t /\ clean[r] = "over" THEN "failed" ELSE clean[r]]
    /\ UNCHANGED <<rowVars, taskVars, broker, stream, request, histVars>>

-----------------------------------------------------------------------------
(* Clean-up of stateless runs *)

\* The task is over (or not registered), the wait for it times out after an
\* hour, or the stream of the creator has completed.
CleanUp(r) ==
    /\ clean[r] \in {"task", "stream", "client"}
    /\ IF clean[r] = "stream"
       THEN /\ \A k \in Streams : stream[k].run = r => stream[k].step \notin {"opened", "live"}
            /\ UNCHANGED <<left, expired>>
       ELSE \/ ~Waits(r) /\ UNCHANGED <<left, expired>>
            \/ Waits(r) /\ Spend("faults") /\ expired' = expired \cup {r}
    /\ clean' = [clean EXCEPT ![r] = "over"]
    /\ BeginDelete(of[r])
    /\ UNCHANGED <<rowVars, taskVars, broker, stream, request, cut, stale, late, lost, blank, overruled>>

\* The client that waits goes: the thread is kept.
ClientGoes(r) ==
    /\ clean[r] = "client"
    /\ Spend("faults")
    /\ clean' = [clean EXCEPT ![r] = "kept"]
    /\ UNCHANGED <<rowVars, taskVars, broker, stream, deleting, request, histVars>>

-----------------------------------------------------------------------------
(* The process *)

\* `LocalExecutor.stop` cancels every task.  The server has let the requests
\* finish and takes no more; clean-ups that wait go with the process.
Stop ==
    /\ \A k \in Streams : stream[k].step \notin {"opened", "live"}
    /\ \A r \in Runs : request[r] = "none" /\ phase[r] # "prepared"
    /\ left["faults"] > 0
    /\ left' = [kind \in Bounded |-> 0]
    /\ cancel' = [r \in Runs |-> cancel[r] \/ Waits(r)]
    /\ lost' = lost \cup {r \in Runs : clean[r] # "none"}
    /\ UNCHANGED <<rowVars, phase, active, broker, stream, reqVars, cut, stale, late, expired, blank, overruled>>

\* Killed and started again: only the rows are left.
Crash ==
    /\ Spend("faults")
    /\ lost' = lost \cup {r \in Runs : phase[r] \in Alive \cup {"prepared"} \/ clean[r] # "none"}
    /\ phase' = [r \in Runs |-> IF phase[r] = "none" THEN "none" ELSE "done"]
    /\ cancel' = [r \in Runs |-> FALSE]
    /\ active' = {}
    /\ broker' = [r \in Runs |-> NoBroker(broker[r].here \/ broker[r].dropped)]
    /\ stream' = [k \in Streams |-> IF stream[k].step \in {"opened", "live"}
                                    THEN [stream[k] EXCEPT !.step = "gone"] ELSE stream[k]]
    /\ clean' = [r \in Runs |-> IF clean[r] = "none" THEN "none" ELSE "over"]
    /\ deleting' = [t \in AllThreads |-> NotDeleting]
    /\ request' = [r \in Runs |-> "none"]
    /\ UNCHANGED <<rowVars, cut, stale, late, expired, blank, overruled>>

-----------------------------------------------------------------------------
Task(r) ==
    \/ (\E how \in {"none", "task", "stream", "client"} : Submit(r, how))
    \/ Begin(r) \/ Start(r) \/ (\E how \in Finalizing : GraphEnds(r, how))
    \/ Finalize(r) \/ Cancelled(r) \/ CancelledTwice(r)

Stream(k) == Replay(k) \/ Take(k) \/ Drained(k)

Request(r) == PersistCancel(r) \/ AwaitTask(r) \/ DeleteRow(r) \/ CleanUp(r)

Deletion(t) == (\E r \in Runs : CancelNext(t, r)) \/ AwaitCancelled(t) \/ DropThread(t)

Next ==
    \/ \E r \in Runs :
          \/ \E t \in AllThreads : CreateRun(r, t)
          \/ Task(r) \/ Emit(r) \/ FinalizeFails(r) \/ SweepBroker(r)
          \/ CancelRun(r) \/ DeleteRun(r) \/ Request(r) \/ ClientGoes(r)
    \/ \E k \in Streams :
          \/ Stream(k) \/ Disconnect(k)
          \/ \E r \in Runs, last \in 0 .. MaxEvents : Open(k, r, last)
    \/ \E t \in AllThreads : Deletion(t) \/ DropFails(t)
    \/ \E t \in Threads : CreateThread(t) \/ DeleteThread(t)
    \/ Stop \/ Crash

Spec == Init /\ [][Next]_vars

\* Every graph ends; tasks, streams, requests and deletions go on.
FairSpec ==
    /\ Spec
    /\ \A r \in Runs : WF_vars(Task(r)) /\ WF_vars(Request(r))
    /\ \A k \in Streams : WF_vars(Stream(k))
    /\ \A t \in AllThreads : WF_vars(Deletion(t))

-----------------------------------------------------------------------------
(* Properties *)

\* A run ends in a terminal status or is deleted, whatever is cancelled,
\* disconnected or deleted meanwhile, unless its last write was cut off by a
\* second cancellation or lost: nothing in this mode picks such a run up again.
EveryRunSettles == \A r \in Runs : (status[r] \in Active) ~> (status[r] \notin Active \/ r \in cut \cup lost)

\* A thread stays busy only for a run that still executes, or one that never
\* came to write its outcome.
BusyHasReason ==
    \A t \in AllThreads :
        thread[t] = "busy" =>
            \E r \in OnThread(t) : phase[r] \in Alive \cup {"prepared"} \/ r \in cut \cup lost

\* The thread of a run that executes shows busy, unless a run that shares the
\* thread has ended meanwhile, or the thread was deleted under the run.
ExecutingMeansBusy ==
    \A r \in Runs :
        phase[r] \in {"new", "start", "stream"} /\ Row(r) =>
            thread[of[r]] = "busy" \/ r \in stale \cup late

\* No task goes on for a run that was deleted, by itself or with its thread,
\* unless it was created while the deletion was under way, or a cancel request
\* that did not find the task yet had made the run look over.
DeletedRunsStop ==
    \A r \in Runs :
        phase[r] \in {"new", "start", "stream"} /\ ~Row(r) => cancel[r] \/ r \in late \cup overruled

\* The clean-up of a stateless run never cancels the run itself while it still
\* executes, unless the wait for it timed out.
CleanUpWaits ==
    [][\A r \in Runs :
          of[r] \in Ephemeral /\ deleting' # deleting /\ phase[r] \in {"new", "start", "stream"}
          /\ ~cancel[r] /\ cancel'[r] => r \in expired]_vars

\* The end event in the buffer of a run tells the status the run ended with,
\* unless a cancel request rewrote the row of a run that was over.
EndTellsStatus ==
    \A r \in Runs :
        phase[r] = "done" /\ Row(r) /\ broker[r].end # "none" =>
            status[r] = broker[r].end \/ r \in cut \cup overruled

\* A stream that ends has seen every event of its run, when no other stream
\* of the run takes events off the same queue, and no earlier broker of the run
\* is gone, by the sweep or a crash, with what its buffer held.
SoleStreamSeesAll ==
    [][\A k \in Streams :
          stream[k].step = "live" /\ stream'[k].step = "ended" =>
              \/ stream'[k].got = 1 .. broker[stream[k].run].put
              \/ broker[stream[k].run].dropped
              \/ \E j \in Streams \ {k} : stream[j].run = stream[k].run]_vars

Attached(k) == stream[k].step \in {"opened", "live"}

\* Every stream comes to its end, unless it made the broker of a run that was
\* over, which nobody will finish, or a deletion of the run overtook its start.
StreamsEnd == \A k \in Streams : Attached(k) ~> (~Attached(k) \/ stream[k].run \in blank \cup late)

\* The thread of a stateless run is deleted in the end, unless its client went
\* while the run went on, the process ended, or the database failed when it was
\* to be deleted, which is only logged: nothing comes back to such a thread.
EphemeralThreadsGo ==
    \A r \in Runs :
        (clean[r] \in {"task", "stream", "client"}) ~>
            (status[r] = "gone" \/ clean[r] \in {"kept", "failed"} \/ r \in lost \cup blank)

\* "The queue delivers events to live subscribers": each stream of a run sees
\* every event of it.
EveryStreamSeesAll ==
    [][\A k \in Streams :
          stream[k].step = "live" /\ stream'[k].step = "ended" =>
              stream'[k].got = 1 .. broker[stream[k].run].put]_vars
=============================================================================
