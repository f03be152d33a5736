------------------------------ MODULE RunWaits ------------------------------
(***************************************************************************)
(* Who waits for a run of the Redis mode: join and wait requests           *)
(* (api/runs.py, run_waiters.py), stateless waits and the background       *)
(* clean-up, which delete the thread afterwards (api/stateless_runs.py,    *)
(* run_cleanup.py), and cancel requests with wait=1.                       *)
(*                                                                         *)
(* They poll a done key in Redis and, every second time, the row of the    *)
(* run (`WorkerExecutor.wait_for_completion`).  What they wait for is the  *)
(* run of RunLease, seen from outside: its attempts by workers of this or  *)
(* another process, the row they write and the key they set.  The thread   *)
(* of the run lives and goes with the row.                                 *)
(***************************************************************************)
EXTENDS Naturals

CONSTANTS
    Waiters,
    Reapers,        \* the processes whose lease reaper runs
    Retries,        \* the settings of BG_JOB_MAX_RETRIES
    MaxAttempts,    \* model bound on the executions of the run
    Budgets         \* model bounds on the disturbances, from one of these

Bounded == {"crash", "stall", "outage", "db", "cut", "leave", "cancel"}

ASSUME ConstantsAssumption ==
    MaxAttempts \in Nat \ {0} /\ Retries \subseteq Nat /\ Budgets \subseteq [Bounded -> Nat]

Attempts == 1 .. MaxAttempts

VARIABLES
    row,            \* status of the run's row, "gone" with its thread
    output,         \* its output: the attempt that produced it, 0 for {}
    owner,          \* claimed_by: an attempt, 0 for nobody
    attempt,        \* executions: [step, here]
    reaper,         \* where each reaper is after it took back the claim
    retries,        \* retries that are left: BG_JOB_MAX_RETRIES - _retry_count
    key, redis,     \* the done key; whether Redis is up
    sent,           \* a cancellation is on the channel
    waiter,         \* [kind, step, answer, task, cut]
    cancelled, unwritten, stalled,  \* history: a request cancelled the run,
                                    \* a final write failed, a working owner lost its lease
    left            \* what is left of the budget

reaperVars == <<reaper, retries>>
runVars == <<row, output, owner, attempt, reaperVars>>
redisVars == <<key, redis, sent>>
histVars == <<cancelled, unwritten, stalled>>
vars == <<runVars, redisVars, waiter, histVars, left>>

Active == {"pending", "running"}
Terminal == {"success", "error", "interrupted"}
Idle == [kind |-> "none", step |-> "idle", answer |-> 0, task |-> 0, cut |-> FALSE]

TypeOK ==
    /\ row \in {"gone"} \cup Active \cup Terminal
    /\ output \in 0 .. MaxAttempts /\ owner \in 0 .. MaxAttempts
    /\ attempt \in [Attempts -> [step : {"none", "start", "stream", "undo", "signal", "release", "over"}, here : BOOLEAN]]
    /\ reaper \in [Reapers -> {"idle", "check", "fail"}] /\ retries \in Nat
    /\ key \in BOOLEAN /\ redis \in BOOLEAN /\ sent \in BOOLEAN
    /\ waiter \in [Waiters -> [kind : {"none", "join", "wait", "clean", "cancel"},
                               step : {"idle", "first", "second", "row", "read", "select", "cancel", "await",
                                       "drop", "publish", "persist", "settle", "answered", "over", "left"},
                               answer : 0 .. MaxAttempts, task : 0 .. MaxAttempts, cut : BOOLEAN]]
    /\ cancelled \in BOOLEAN /\ unwritten \in BOOLEAN /\ stalled \in BOOLEAN
    /\ left \in [Bounded -> Nat]

Init ==
    /\ row = "pending" /\ output = 0 /\ owner = 0
    /\ attempt = [a \in Attempts |-> [step |-> "none", here |-> FALSE]]
    /\ reaper = [p \in Reapers |-> "idle"] /\ retries \in Retries
    /\ key = FALSE /\ redis = TRUE /\ sent = FALSE
    /\ waiter = [w \in Waiters |-> Idle]
    /\ cancelled = FALSE /\ unwritten = FALSE /\ stalled = FALSE
    /\ left \in Budgets

Spend(kind) ==
    /\ left[kind] > 0
    /\ left' = [left EXCEPT ![kind] = @ - 1]

-----------------------------------------------------------------------------
(* The run *)

Working(a) == attempt[a].step \in {"start", "stream", "undo"}

Begin(a, step) == attempt' = [attempt EXCEPT ![a].step = step]

\* An UPDATE of the row that finds it, whoever owns it.
Write(status, out) ==
    /\ row' = IF row = "gone" THEN "gone" ELSE status
    /\ output' = IF row = "gone" THEN output ELSE out

Acquire(a, here) ==
    /\ row = "pending" /\ attempt[a].step = "none"
    /\ \A b \in Attempts : b < a => attempt[b].step # "none"
    /\ row' = "running" /\ owner' = a
    /\ attempt' = [attempt EXCEPT ![a] = [step |-> "start", here |-> here]]
    /\ UNCHANGED <<output, reaperVars, redisVars, waiter, histVars, left>>

\* `execute_run` writes running once more, unconditionally.
WriteRunning(a) ==
    /\ attempt[a].step = "start"
    /\ Begin(a, "stream") /\ Write("running", output)
    /\ UNCHANGED <<owner, reaperVars, redisVars, waiter, histVars, left>>

\* The graph ends and the outcome is committed.
Finalize(a, status) ==
    /\ attempt[a].step = "stream"
    /\ Begin(a, "signal")
    /\ Write(status, IF status = "error" THEN 0 ELSE a)
    /\ UNCHANGED <<owner, reaperVars, redisVars, waiter, histVars, left>>

\* The handler of CancelledError.
Undo(a) ==
    /\ attempt[a].step = "undo"
    /\ Begin(a, "signal") /\ Write("interrupted", 0)
    /\ UNCHANGED <<owner, reaperVars, redisVars, waiter, histVars, left>>

\* The write fails, and that of the error as well: the task signals all the same.
WriteFails(a) ==
    /\ Spend("db")
    /\ attempt[a].step \in {"stream", "undo"}
    /\ Begin(a, "signal") /\ unwritten' = TRUE
    /\ UNCHANGED <<row, output, owner, reaperVars, redisVars, waiter, cancelled, stalled>>

\* `_signal_run_done`
Signal(a) ==
    /\ attempt[a].step = "signal"
    /\ Begin(a, "release")
    /\ key' = (key \/ redis)
    /\ UNCHANGED <<row, output, owner, reaperVars, redis, sent, waiter, histVars, left>>

\* `_release_lease`, whatever became of the row: the claim goes if it is still
\* the worker's.
Release(a) ==
    /\ attempt[a].step = "release"
    /\ Begin(a, "over")
    /\ owner' = IF owner = a THEN 0 ELSE owner
    /\ UNCHANGED <<row, output, reaperVars, redisVars, waiter, histVars, left>>

\* Its transaction fails, which is logged: the claim stays.
ReleaseFails(a) ==
    /\ Spend("db")
    /\ attempt[a].step = "release"
    /\ Begin(a, "over")
    /\ UNCHANGED <<row, output, owner, reaperVars, redisVars, waiter, histVars>>

\* The heartbeat finds that the claim is another's, or that the row is gone:
\* neither the row is written nor the key.
LoseLease(a) ==
    /\ attempt[a].step \in {"start", "stream"}
    /\ owner # a \/ row = "gone"
    /\ Begin(a, "over")
    /\ UNCHANGED <<row, output, owner, reaperVars, redisVars, waiter, histVars, left>>

Crash(a) ==
    /\ Spend("crash")
    /\ Working(a) \/ attempt[a].step \in {"signal", "release"}
    /\ Begin(a, "over")
    /\ UNCHANGED <<row, output, owner, reaperVars, redisVars, waiter, histVars>>

-----------------------------------------------------------------------------
(* The lease reaper: three transactions, between which the run may be acquired *)

\* `_reset_to_pending` of an expired claim.
Reap(p) ==
    /\ reaper[p] = "idle" /\ row = "running" /\ owner # 0
    /\ IF attempt[owner].step = "over" THEN UNCHANGED <<left, stalled>>
       ELSE Spend("stall") /\ stalled' = TRUE
    /\ row' = "pending" /\ owner' = 0
    /\ reaper' = [reaper EXCEPT ![p] = "check"]
    /\ UNCHANGED <<output, attempt, retries, redisVars, waiter, cancelled, unwritten>>

\* `_check_retry_limits` charges a retry, if one is left.
CheckRetries(p) ==
    /\ reaper[p] = "check"
    /\ reaper' = [reaper EXCEPT ![p] = IF row # "gone" /\ retries = 0 THEN "fail" ELSE "idle"]
    /\ retries' = IF row # "gone" /\ retries > 0 THEN retries - 1 ELSE retries
    /\ UNCHANGED <<row, output, owner, attempt, redisVars, waiter, histVars, left>>

\* `_mark_permanently_failed`, whoever acquired the run meanwhile.
MarkFailed(p) ==
    /\ reaper[p] = "fail"
    /\ reaper' = [reaper EXCEPT ![p] = "idle"]
    /\ Write("error", output) /\ owner' = 0
    /\ stalled' = (stalled \/ \E a \in Attempts : Working(a))
    /\ UNCHANGED <<attempt, retries, redisVars, waiter, cancelled, unwritten, left>>

\* The process ends or the transaction fails: the rest is not done.
ReaperStops(p) ==
    /\ reaper[p] # "idle"
    /\ \E kind \in {"crash", "db"} : Spend(kind)
    /\ reaper' = [reaper EXCEPT ![p] = "idle"]
    /\ UNCHANGED <<row, output, owner, attempt, retries, redisVars, waiter, histVars>>

\* CancelledError in the tasks of the attempts in `hit`: the handler starts, or
\* its write is lost, or the key, unless it was to be set anyway.
Strike(hit) ==
    /\ \E quiet \in BOOLEAN :
          attempt' = [a \in Attempts |->
             IF a \notin hit THEN attempt[a]
             ELSE [attempt[a] EXCEPT !.step =
                      CASE @ \in {"start", "stream"} -> "undo"
                        [] @ = "undo" -> "signal"
                        [] @ = "signal" -> IF quiet THEN "release" ELSE "signal"
                        [] OTHER -> @]]
    /\ unwritten' = (unwritten \/ \E a \in hit : attempt[a].step = "undo")

\* A cancellation reaches the processes that execute the run; one that nobody
\* executes yet it misses.
Deliver ==
    /\ sent /\ sent' = FALSE
    /\ Strike(Attempts)
    /\ UNCHANGED <<row, output, owner, reaperVars, key, redis, waiter, cancelled, stalled, left>>

Outage ==
    /\ Spend("outage")
    /\ redis /\ redis' = FALSE /\ sent' = FALSE
    /\ UNCHANGED <<runVars, key, waiter, histVars>>

Recover ==
    /\ ~redis /\ redis' = TRUE
    /\ UNCHANGED <<runVars, key, sent, waiter, histVars, left>>

\* The key lives for an hour.
Expire ==
    /\ Spend("outage")
    /\ key /\ key' = FALSE
    /\ UNCHANGED <<runVars, redis, sent, waiter, histVars>>

-----------------------------------------------------------------------------
(* Waiting *)

Goto(w, step) == waiter' = [waiter EXCEPT ![w].step = step]

Start(w, kind, step) == waiter' = [waiter EXCEPT ![w] = [Idle EXCEPT !.kind = kind, !.step = step]]

Answer(w, out) == waiter' = [waiter EXCEPT ![w].step = "answered", ![w].answer = out]

\* Where a wait goes when it is over: a request reads the output, the
\* clean-up deletes the thread.
Waited(w) == IF waiter[w].kind = "clean" THEN "select" ELSE "read"

\* `join_run`: 404, the output of a finished run, or the wait.
Join(w) ==
    /\ waiter[w].step = "idle" /\ row # "gone"
    /\ waiter' = [waiter EXCEPT ![w] =
                     IF row \in Terminal THEN [Idle EXCEPT !.kind = "join", !.step = "answered", !.answer = output]
                     ELSE [Idle EXCEPT !.kind = "join", !.step = "first"]]
    /\ UNCHANGED <<runVars, redisVars, histVars, left>>

\* The request that made the run.
Made(w, kind) ==
    /\ waiter[w].step = "idle" /\ row # "gone"
    /\ \A v \in Waiters : waiter[v].kind \notin {"wait", "clean"}
    /\ Start(w, kind, "first")
    /\ UNCHANGED <<runVars, redisVars, histVars, left>>

\* It waits itself, or, for a background run, leaves a clean-up that does.
StatelessWait(w) == Made(w, "wait")
BackgroundRun(w) == Made(w, "clean")

\* `client.exists`: an error counts as no.
CheckKey(w) ==
    /\ waiter[w].step \in {"first", "second"}
    /\ Goto(w, IF key /\ redis THEN Waited(w)
               ELSE IF waiter[w].step = "first" THEN "second" ELSE "row")
    /\ UNCHANGED <<runVars, redisVars, histVars, left>>

\* Mutant of IsTerminal: the row of a deleted run is waited for.
IsFinal == row \in Terminal

\* Mutant of IsTerminal: a run that is back in the queue counts.
IsNotRunning == row # "running"

\* `_is_run_terminal`
IsTerminal == row = "gone" \/ row \in Terminal

CheckRow(w) ==
    /\ waiter[w].step = "row"
    /\ Goto(w, IF IsTerminal THEN Waited(w) ELSE "first")
    /\ UNCHANGED <<runVars, redisVars, histVars, left>>

\* The hour is over, the server shuts down, or the query of the row fails: the
\* wait ends, and what follows goes on as if the run had ended.
Cut(w) ==
    /\ waiter[w].step \in {"first", "second", "row"}
    /\ Spend("cut")
    /\ waiter' = [waiter EXCEPT ![w].step = Waited(w), ![w].cut = TRUE]
    /\ UNCHANGED <<runVars, redisVars, histVars>>

\* `read_run_output`; a stateless wait then deletes the thread.
ReadOutput(w) ==
    LET out == IF row = "gone" THEN 0 ELSE output IN
    /\ waiter[w].step = "read"
    /\ waiter' = [waiter EXCEPT ![w].answer = out,
                                ![w].step = IF waiter[w].kind = "wait" THEN "select" ELSE "answered"]
    /\ UNCHANGED <<runVars, redisVars, histVars, left>>

\* The client goes: a thread whose stateless wait did not complete is kept.
Disconnect(w) ==
    /\ waiter[w].kind \in {"join", "wait"}
    /\ waiter[w].step \in {"first", "second", "row", "read"}
    /\ Spend("leave")
    /\ Goto(w, "left")
    /\ UNCHANGED <<runVars, redisVars, histVars>>

-----------------------------------------------------------------------------
(* `delete_thread_by_id` *)

SelectActive(w) ==
    /\ waiter[w].step = "select"
    /\ Goto(w, IF row \in Active THEN "cancel" ELSE "drop")
    /\ UNCHANGED <<runVars, redisVars, histVars, left>>

\* The task of this process that executes the run, if any: the latest.
Local == {a \in Attempts : /\ attempt[a].here /\ attempt[a].step \notin {"none", "release", "over"}
                           /\ \A b \in Attempts : b > a /\ attempt[b].here => attempt[b].step = "none"}

\* `request_cancel`, and a task of this process is cancelled and awaited.
CancelRun(w) ==
    /\ waiter[w].step = "cancel"
    /\ sent' = (sent \/ redis)
    /\ Strike(Local)
    /\ IF Local = {} THEN Goto(w, "drop")
       ELSE \E a \in Local : waiter' = [waiter EXCEPT ![w].step = "await", ![w].task = a]
    /\ UNCHANGED <<row, output, owner, reaperVars, key, redis, cancelled, stalled, left>>

AwaitTask(w) ==
    /\ waiter[w].step = "await"
    /\ attempt[waiter[w].task].step = "over"
    /\ Goto(w, "drop")
    /\ UNCHANGED <<runVars, redisVars, histVars, left>>

\* The thread goes and its runs with it.
Drop(w) ==
    /\ waiter[w].step = "drop"
    /\ row' = "gone" /\ Goto(w, "over")
    /\ UNCHANGED <<output, owner, attempt, reaperVars, redisVars, histVars, left>>

\* A transaction of the deletion fails, which is logged: the thread is kept.
DropFails(w) ==
    /\ waiter[w].step \in {"select", "drop"}
    /\ Spend("db")
    /\ Goto(w, "over")
    /\ UNCHANGED <<runVars, redisVars, histVars>>

-----------------------------------------------------------------------------
(* `cancel_run_endpoint` with wait=1; an outage makes request_cancel local *)

Cancel(w) ==
    /\ waiter[w].step = "idle" /\ row # "gone"
    /\ Spend("cancel")
    /\ Start(w, "cancel", "persist")
    /\ sent' = (sent \/ redis) /\ cancelled' = TRUE
    /\ Strike(IF redis THEN {} ELSE Local)
    /\ UNCHANGED <<row, output, owner, reaperVars, key, redis, stalled>>

Persist(w) ==
    /\ waiter[w].step = "persist"
    /\ Write("interrupted", output) /\ Goto(w, "settle")
    /\ UNCHANGED <<owner, attempt, reaperVars, redisVars, histVars, left>>

\* Up to twenty looks at the row.
Settle(w) ==
    /\ waiter[w].step = "settle"
    /\ row \in Terminal /\ Answer(w, output)
    /\ UNCHANGED <<runVars, redisVars, histVars, left>>

GiveUp(w) ==
    /\ waiter[w].step = "settle" /\ row \notin Terminal
    /\ waiter' = [waiter EXCEPT ![w].step = "left", ![w].cut = TRUE]
    /\ UNCHANGED <<runVars, redisVars, histVars, left>>

-----------------------------------------------------------------------------
Run ==
    \/ \E a \in Attempts :
          \/ \E here \in BOOLEAN : Acquire(a, here)
          \/ WriteRunning(a) \/ \E status \in Terminal : Finalize(a, status)
          \/ Undo(a) \/ WriteFails(a) \/ Signal(a) \/ Release(a) \/ ReleaseFails(a)
          \/ LoseLease(a) \/ Crash(a)
    \/ \E p \in Reapers : Reap(p) \/ CheckRetries(p) \/ MarkFailed(p) \/ ReaperStops(p)
    \/ Deliver

Server == Outage \/ Recover \/ Expire

Request(w) ==
    \/ Join(w) \/ StatelessWait(w) \/ BackgroundRun(w)
    \/ CheckKey(w) \/ CheckRow(w) \/ Cut(w) \/ ReadOutput(w) \/ Disconnect(w)
    \/ Cancel(w) \/ Persist(w) \/ Settle(w) \/ GiveUp(w)

Deletion(w) == SelectActive(w) \/ CancelRun(w) \/ AwaitTask(w) \/ Drop(w) \/ DropFails(w)

Next == Run \/ Server \/ \E w \in Waiters : Request(w) \/ Deletion(w)

Spec == Init /\ [][Next]_vars

\* Workers and requests go on, graphs end, the reaper comes by, outages end;
\* no wait has to run out of time.
Steps(w) == \/ CheckKey(w) \/ CheckRow(w) \/ ReadOutput(w) \/ Persist(w) \/ Settle(w) \/ GiveUp(w)
            \/ SelectActive(w) \/ CancelRun(w) \/ AwaitTask(w) \/ Drop(w)

Fairness ==
    /\ \A a \in Attempts :
          /\ WF_vars(\E here \in BOOLEAN : Acquire(a, here))
          /\ WF_vars(WriteRunning(a)) /\ WF_vars(\E status \in Terminal : Finalize(a, status))
          /\ WF_vars(Undo(a)) /\ WF_vars(Signal(a)) /\ WF_vars(Release(a)) /\ WF_vars(LoseLease(a))
    /\ \A p \in Reapers : /\ WF_vars(Reap(p) /\ left' = left)
                          /\ WF_vars(CheckRetries(p)) /\ WF_vars(MarkFailed(p))
    /\ WF_vars(Deliver) /\ WF_vars(Recover)
    /\ \A w \in Waiters : WF_vars(Steps(w))

FairSpec == Spec /\ Fairness

-----------------------------------------------------------------------------
(* Properties *)

Disturbed == cancelled \/ unwritten \/ stalled

\* The request has read the output.
Told(w) ==
    \/ waiter[w].kind = "join" /\ waiter[w].step = "answered"
    \/ waiter[w].kind = "wait" /\ waiter[w].step \in {"select", "cancel", "await", "drop", "over"}

\* A join or wait that was not cut short answers with the final output of the
\* run, which nothing changes later: unless the run was cancelled, its final
\* write failed, or a working owner lost its lease.  ({} after its deletion.)
AnswerIsFinal ==
    \A w \in Waiters :
        Told(w) =>
            \/ Disturbed \/ waiter[w].cut
            \/ row = "gone" /\ waiter[w].answer \in {0, output}
            \/ row \in Terminal /\ waiter[w].answer = output

\* A thread is deleted after its run is over, unless the wait was cut short, or
\* the end of the run was not what it looked like.
CleanUpWaits ==
    [][\A w \in Waiters : Drop(w) => row \in Terminal \/ Disturbed \/ waiter[w].cut]_vars

\* Every wait ends without running out of time, by the key or by the row, also
\* when the key was never set or is gone, or another request deleted the run.
\* Two things leave a row that says running for ever, and are excused: a working
\* owner lost its claim; or the final write failed, the worker released the
\* claim all the same, and the key was not set either.
Ended(w) == waiter[w].step \in {"answered", "over", "left"}
Stranded == row = "running" /\ owner = 0 /\ ~key
EveryWaitEnds == \A w \in Waiters : waiter[w].step # "idle" ~> Ended(w) \/ stalled \/ Stranded

\* api/runs.py: "Set `wait=1` to block until the background task has fully
\* settled before returning the updated run."
CancelSettles ==
    \A w \in Waiters : waiter[w].kind = "cancel" /\ waiter[w].step = "answered" =>
        \A a \in Attempts : ~Working(a)
=============================================================================
