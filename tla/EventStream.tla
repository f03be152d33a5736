----------------------------- MODULE EventStream -----------------------------
(***************************************************************************)
(* The event stream of one run in Redis mode: the replay list, the event   *)
(* counter and the pub/sub channel in Redis, the run's broker object in    *)
(* every process, the execution that produces events, the cancel listener  *)
(* that may end the stream on its behalf, and the clients that read it     *)
(* over SSE, lose their connection and resume with Last-Event-ID.          *)
(*                                                                         *)
(* Events are data, an error report or the end mark.  Their ids are        *)
(* represented by the sequence numbers in them.  A step runs from one      *)
(* `await` to the next.  The execution's database side is in RunLease;     *)
(* here the row is active or over.                                         *)
(***************************************************************************)
EXTENDS Naturals, Sequences, FiniteSets

CONSTANTS
    Procs,          \* server processes
    Readers,        \* SSE clients
    ProcOf,         \* the process that serves a client
    MaxEvents,      \* model bound on the data events of one execution
    MaxConns,       \* model bound on the connections of one client
    BufCap,         \* _REPLAY_MAX_EVENTS
    StampBase,      \* a wall-clock id: larger than any counter value
    Budgets         \* model bounds: how often each kind of disturbance may happen together

Faults == {"crash", "outage", "cancel", "interrupt", "expiry"}
Emitters == {"run", "listener"}

ASSUME ConstantsAssumption ==
    /\ ProcOf \in [Readers -> Procs]
    /\ Procs # {}
    /\ {MaxEvents, MaxConns, BufCap, StampBase} \subseteq Nat \ {0}
    /\ Budgets \subseteq [Faults -> Nat]
    /\ Readers \cap Emitters = {}

VARIABLES
    status,         \* the run's row: "active" or "over"
    \* Redis
    redisUp, counter, buffer,
    \* per process: the run's entry in _brokers
    broker,
    \* who still works with a broker object that was popped from _brokers
    \* (it is finished, and stays so)
    orphaned,
    \* the execution and the cancel listener of its process
    home, at, ev, outcome, emitted,
    \* cancellation: the API request and its message to the listener
    cancelReq, cancelMsg,
    \* per client: stage of its stream, the row status its request saw, events
    \* read from Redis and not yet handled, last_sent_sequence,
    \* end_already_in_buffer, and all that the client has received
    stage, seen, inbox, lastSent, endSeen, got,
    \* history: connections per client, clock of wall-clock ids, disturbances
    conns, stamps, spent

redisVars  == <<redisUp, counter, buffer>>
runVars    == <<home, at, ev, outcome, emitted>>
cancelVars == <<cancelReq, cancelMsg>>
readerVars == <<stage, seen, inbox, lastSent, endSeen, got, conns>>
vars == <<status, redisVars, broker, orphaned, runVars, cancelVars, readerVars,
          stamps, spent>>

Kinds == {"data", "error", "end"}
Events == [seq : Nat, kind : Kinds]

Stages == {"away", "opened", "replaying", "iterate", "checkEnd", "listen",
           "backoff", "closed"}
Subscribed == {"checkEnd", "listen"}
Iterating == Subscribed \cup {"iterate", "backoff"}
Connected(r) == stage[r] \notin {"away", "closed"}

RowOK ==
    /\ status \in {"active", "over"}
    /\ cancelReq \in {"none", "published", "persisted"}
    /\ cancelMsg \in BOOLEAN
RedisOK ==
    /\ redisUp \in BOOLEAN
    /\ counter \in Nat
    /\ buffer \in Seq(Events)
BrokersOK ==
    /\ broker \in [Procs -> {"none", "open", "finished"}]
    /\ orphaned \subseteq Readers \cup {"listener"}
\* who iterates over a broker has one: registered, or popped and finished
HoldersOK ==
    \A r \in Readers : stage[r] \in Iterating =>
        broker[ProcOf[r]] # "none" \/ r \in orphaned
RunOK ==
    /\ home \in Procs
    /\ at \in [Emitters -> {"waiting", "graph", "finalize", "alloc", "push",
                            "publish", "over", "idle"}]
    /\ ev \in [Emitters -> Events]
    /\ outcome \in {"success", "error", "cancelled"}
    /\ emitted \in Nat
ReadersOK ==
    /\ stage \in [Readers -> Stages]
    /\ seen \in [Readers -> {"active", "over"}]
    /\ inbox \in [Readers -> Seq(Events)]
    /\ lastSent \in [Readers -> Nat]
    /\ endSeen \in [Readers -> BOOLEAN]
    /\ got \in [Readers -> Seq(Events)]
    /\ conns \in [Readers -> Nat]
HistOK ==
    /\ stamps \in Nat
    /\ spent \in [Faults -> Nat]

TypeOK == RowOK /\ RedisOK /\ BrokersOK /\ HoldersOK /\ RunOK /\ ReadersOK /\ HistOK

NoEvent == [seq |-> 0, kind |-> "data"]

Init ==
    /\ status = "active"
    /\ redisUp = TRUE /\ counter = 0 /\ buffer = <<>>
    /\ broker = [p \in Procs |-> "none"]
    /\ orphaned = {}
    /\ home \in Procs
    /\ at = [e \in Emitters |-> IF e = "run" THEN "waiting" ELSE "idle"]
    /\ ev = [e \in Emitters |-> NoEvent]
    /\ outcome = "success"
    /\ emitted = 0
    /\ cancelReq = "none" /\ cancelMsg = FALSE
    /\ stage = [r \in Readers |-> "away"]
    /\ seen = [r \in Readers |-> "active"]
    /\ inbox = [r \in Readers |-> <<>>]
    /\ lastSent = [r \in Readers |-> 0]
    /\ endSeen = [r \in Readers |-> FALSE]
    /\ got = [r \in Readers |-> <<>>]
    /\ conns = [r \in Readers |-> 0]
    /\ stamps = 0
    /\ spent = [f \in Faults |-> 0]

Disturb(f) ==
    /\ spent' = [spent EXCEPT ![f] = @ + 1]
    /\ \E budget \in Budgets : \A g \in Faults : spent'[g] <= budget[g]
-----------------------------------------------------------------------------
(* Brokers.  _brokers holds one object per process, shared by everything in *)
(* the process that produces or reads the run's events.                     *)

\* get_or_create_broker
Created(b) == IF b = "none" THEN "open" ELSE b

\* is_finished of the object that x works with
Finished(x) ==
    \/ x \in orphaned
    \/ broker[IF x \in Emitters THEN home ELSE ProcOf[x]] = "finished"

\* mark_finished of the object that x works with
Finish(x, p) == IF x \in orphaned THEN broker ELSE [broker EXCEPT ![p] = "finished"]

\* cleanup_broker in process home: the entry goes, its object is finished.
Cleanup ==
    /\ broker' = [broker EXCEPT ![home] = "none"]
    /\ orphaned' = orphaned
          \cup {r \in Readers : ProcOf[r] = home /\ stage[r] \in Iterating}
          \cup (IF at["listener"] = "idle" THEN {} ELSE {"listener"})

\* Mutant: ids count from zero.
FromZero == IF redisUp THEN counter ELSE StampBase + stamps + 1

\* allocate_event_id: INCR, or the clock when Redis cannot be reached.
NextSeq == IF redisUp THEN counter + 1 ELSE StampBase + stamps + 1

IsEnd(e) == e.kind = "end"

\* Mutant: the end of the buffer is not looked at.
EndUnseen == FALSE

EndInBuffer == buffer # <<>> /\ IsEnd(buffer[Len(buffer)])
Trimmed(s) == IF Len(s) > BufCap THEN SubSeq(s, Len(s) - BufCap + 1, Len(s)) ELSE s

\* Events that follow `id` in the replay list; all of it without an id, or
\* when the id is not there any more.
ReplayAfter(id) ==
    IF \E i \in 1..Len(buffer) : buffer[i].seq = id
    THEN LET i == CHOOSE i \in 1..Len(buffer) : buffer[i].seq = id
         IN  SubSeq(buffer, i + 1, Len(buffer))
    ELSE buffer
-----------------------------------------------------------------------------
(* Emitting an event: allocate an id, store it in the replay list, publish. *)

Begin(e, kind) ==
    /\ at' = [at EXCEPT ![e] = "alloc"]
    /\ ev' = [ev EXCEPT ![e] = [seq |-> 0, kind |-> kind]]

\* What follows when `put` has returned, whether or not the event went out.
\* After its end event nothing keeps execute_run from cleaning up at once.
AfterPut(e) ==
    \/ /\ e = "listener"
       /\ at' = [at EXCEPT ![e] = "idle"]
       /\ broker' = Finish(e, home)
       /\ UNCHANGED <<ev, orphaned>>
    \/ /\ e = "run" /\ ev[e].kind = "data"
       /\ at' = [at EXCEPT ![e] = "graph"]
       /\ UNCHANGED <<ev, broker, orphaned>>
    \/ /\ e = "run" /\ ev[e].kind = "error"
       /\ Begin(e, "end")
       /\ UNCHANGED <<broker, orphaned>>
    \/ /\ e = "run" /\ IsEnd(ev[e])
       /\ at' = [at EXCEPT ![e] = "over"]
       /\ Cleanup
       /\ UNCHANGED ev

\* allocate_event_id and the synchronous head of `put`: a finished broker
\* drops the event.
Allocate(e) ==
    /\ at[e] = "alloc"
    /\ IF redisUp THEN counter' = counter + 1 /\ UNCHANGED stamps
                  ELSE stamps' = stamps + 1 /\ UNCHANGED counter
    /\ IF Finished(e)
       THEN AfterPut(e)
       ELSE /\ at' = [at EXCEPT ![e] = "push"]
            /\ ev' = [ev EXCEPT ![e].seq = NextSeq]
            /\ broker' = [broker EXCEPT ![home] =
                            IF e = "run" THEN Created(@) ELSE @]
            /\ UNCHANGED orphaned
    /\ UNCHANGED <<status, redisUp, buffer, home, outcome, emitted, cancelVars,
                   readerVars, spent>>

\* The pipeline RPUSH, LTRIM, EXPIRE, INCR.
Push(e) ==
    /\ at[e] = "push"
    /\ IF redisUp
       THEN /\ buffer' = Trimmed(Append(buffer, ev[e]))
            /\ counter' = counter + 1
            /\ at' = [at EXCEPT ![e] = "publish"]
            /\ UNCHANGED <<ev, broker, orphaned>>
       ELSE AfterPut(e) /\ UNCHANGED <<buffer, counter>>
    /\ UNCHANGED <<status, redisUp, home, outcome, emitted, cancelVars,
                   readerVars, stamps, spent>>

\* PUBLISH reaches who is subscribed now.
Publish(e) ==
    /\ at[e] = "publish"
    /\ inbox' = [r \in Readers |->
                   IF redisUp /\ stage[r] \in Subscribed
                   THEN Append(inbox[r], ev[e]) ELSE inbox[r]]
    /\ AfterPut(e)
    /\ UNCHANGED <<status, redisVars, home, outcome, emitted, cancelVars, stage,
                   seen, lastSent, endSeen, got, conns, stamps, spent>>
-----------------------------------------------------------------------------
(* The execution (execute_run).                                             *)

\* A worker acquires the run, which only an unfinished row admits.
StartExecution(p) ==
    /\ at["run"] = "waiting" /\ status = "active"
    /\ home' = p
    /\ at' = [at EXCEPT !["run"] = "graph"]
    /\ emitted' = 0 /\ outcome' = "success"
    /\ UNCHANGED <<status, redisVars, broker, orphaned, ev, cancelVars,
                   readerVars, stamps, spent>>

GraphEmits ==
    /\ at["run"] = "graph" /\ emitted < MaxEvents
    /\ emitted' = emitted + 1
    /\ Begin("run", "data")
    /\ UNCHANGED <<status, redisVars, broker, orphaned, home, outcome, cancelVars,
                   readerVars, stamps, spent>>

\* The stream of a graph opens with a metadata event, so a successful one has
\* emitted something; building the graph may fail before that.
GraphEnds(result) ==
    /\ at["run"] = "graph"
    /\ result = "success" => emitted > 0
    /\ outcome' = result
    /\ at' = [at EXCEPT !["run"] = "finalize"]
    /\ UNCHANGED <<status, redisVars, broker, orphaned, home, ev, emitted,
                   cancelVars, readerVars, stamps, spent>>

\* Mutant: the commit fails and the failure is swallowed.
RowUnwritten == UNCHANGED status

\* The row as finalize_run and the cancel endpoint write it.
RowOver == status' = "over"

\* finalize_run, and the synchronous head of the signal that belongs to the
\* outcome.  _signal_end_event needs a broker that exists; the other two make
\* one.  A finished broker means that somebody else has sent the end.
Finalize ==
    /\ at["run"] = "finalize"
    /\ RowOver
    /\ IF broker[home] = "finished" \/ (outcome = "success" /\ broker[home] = "none")
       THEN /\ at' = [at EXCEPT !["run"] = "over"]
            /\ Cleanup
            /\ UNCHANGED ev
       ELSE /\ Begin("run", IF outcome = "error" THEN "error" ELSE "end")
            /\ broker' = [broker EXCEPT ![home] = "open"]
            /\ UNCHANGED orphaned
    /\ UNCHANGED <<redisVars, home, outcome, emitted, cancelVars, readerVars,
                   stamps, spent>>

Emitting(e) == at[e] \in {"alloc", "push", "publish"}

\* The task of the run exists (active_runs) and is not done.
TaskActive == at["run"] \in {"graph", "finalize"} \/ Emitting("run")

\* Outside the handlers of execute_run a CancelledError is handled as a
\* cancellation; inside a handler or a signal it leaves through `finally`.
Interruptible ==
    \/ at["run"] = "graph"
    \/ at["run"] = "finalize" /\ outcome = "success"
    \/ Emitting("run") /\ ev["run"].kind = "data"

\* Where a CancelledError takes the execution.
Struck == IF Interruptible THEN "finalize" ELSE "over"

\* Shutdown or the job timeout cancels the task.
Interrupt ==
    /\ TaskActive /\ Disturb("interrupt")
    /\ at' = [at EXCEPT !["run"] = Struck]
    /\ IF Interruptible
       THEN outcome' = "cancelled" /\ UNCHANGED <<broker, orphaned>>
       ELSE Cleanup /\ UNCHANGED outcome
    /\ UNCHANGED <<status, redisVars, home, ev, emitted, cancelVars, readerVars,
                   stamps>>
-----------------------------------------------------------------------------
(* Cancellation by a user, or by the close handler of a stream, which sends *)
(* the same message and does not touch the row.                             *)

RequestCancel ==
    /\ cancelReq = "none" /\ Disturb("cancel")
    /\ cancelReq' = "published"
    \* without Redis the command is executed in the process of the request
    /\ cancelMsg' \in (IF redisUp THEN {TRUE} ELSE BOOLEAN)
    /\ UNCHANGED <<status, redisVars, broker, orphaned, runVars, readerVars, stamps>>

\* The cancel endpoint writes "interrupted" whatever the row says.
PersistCancel ==
    /\ cancelReq = "published"
    /\ cancelReq' = "persisted"
    /\ RowOver
    /\ UNCHANGED <<redisVars, broker, orphaned, runVars, cancelMsg, readerVars,
                   stamps, spent>>

\* _execute_cancel up to its first await.  The cancelled task runs before the
\* answer to that await, so its CancelledError is part of this step: either it
\* goes on to finalize, or it leaves at once and takes the broker with it.
HandleCancel ==
    /\ cancelMsg /\ at["listener"] = "idle"
    /\ cancelMsg' = FALSE
    /\ IF TaskActive
       THEN /\ ev' = [ev EXCEPT !["listener"] = [seq |-> 0, kind |-> "end"]]
            /\ at' = [at EXCEPT
                        !["run"] = Struck,
                        !["listener"] = IF broker[home] = "finished"
                                        THEN "idle" ELSE "alloc"]
            /\ IF Interruptible
               THEN /\ outcome' = "cancelled"
                    /\ broker' = [broker EXCEPT ![home] = Created(@)]
                    /\ orphaned' = orphaned \ {"listener"}
               ELSE /\ broker' = [broker EXCEPT ![home] = "none"]
                    /\ orphaned' = orphaned \cup {"listener"} \cup
                         {r \in Readers : ProcOf[r] = home /\ stage[r] \in Iterating}
                    /\ UNCHANGED outcome
       ELSE UNCHANGED <<at, ev, outcome, broker, orphaned>>
    /\ UNCHANGED <<status, redisVars, home, emitted, cancelReq, readerVars,
                   stamps, spent>>
-----------------------------------------------------------------------------
(* Failures of the environment.                                             *)

\* Redis becomes unreachable: subscriptions and undelivered messages are gone.
Outage ==
    /\ redisUp /\ Disturb("outage")
    /\ redisUp' = FALSE
    /\ cancelMsg' = FALSE
    /\ stage' = [r \in Readers |->
                   IF stage[r] \in Subscribed THEN "backoff" ELSE stage[r]]
    /\ inbox' = [r \in Readers |->
                   IF stage[r] \in Subscribed THEN <<>> ELSE inbox[r]]
    /\ UNCHANGED <<status, counter, buffer, broker, orphaned, runVars, cancelReq,
                   seen, lastSent, endSeen, got, conns, stamps>>

Recover ==
    /\ ~redisUp
    /\ redisUp' = TRUE
    /\ UNCHANGED <<status, counter, buffer, broker, orphaned, runVars, cancelVars,
                   readerVars, stamps, spent>>

\* The executing process dies.  Its clients lose their connections.  The run
\* is executed again if its row is unfinished, on any process.
Crash ==
    /\ TaskActive /\ Disturb("crash")
    /\ broker' = [broker EXCEPT ![home] = "none"]
    /\ at' = [at EXCEPT !["run"] = IF status = "active" THEN "waiting" ELSE "over",
                        !["listener"] = "idle"]
    /\ stage' = [r \in Readers |->
                   IF ProcOf[r] = home /\ Connected(r) THEN "away" ELSE stage[r]]
    /\ inbox' = [r \in Readers |-> IF ProcOf[r] = home THEN <<>> ELSE inbox[r]]
    /\ orphaned' = orphaned \ {"listener"}
    \* a message on its way died with its listener or may still find another
    /\ cancelMsg' \in {FALSE, cancelMsg}
    /\ UNCHANGED <<status, redisVars, home, ev, outcome, emitted, cancelReq,
                   seen, lastSent, endSeen, got, conns, stamps>>

\* _mark_permanently_failed: retries are used up; nothing is told to Redis.
GiveUp ==
    /\ at["run"] = "waiting" /\ spent["crash"] > 0 /\ status = "active"
    /\ status' = "over"
    /\ at' = [at EXCEPT !["run"] = "over"]
    /\ UNCHANGED <<redisVars, broker, orphaned, home, ev, outcome, emitted,
                   cancelVars, readerVars, stamps, spent>>

AtRest ==
    /\ at["run"] # "finalize" /\ \A e \in Emitters : ~Emitting(e)
    /\ ~cancelMsg
    /\ \A r \in Readers : stage[r] \in {"away", "listen", "closed"} /\ inbox[r] = <<>>

\* For _REPLAY_TTL_SECONDS nothing was emitted, be it that the graph is silent:
\* the replay list and the counter are gone.
Expire ==
    /\ AtRest /\ buffer # <<>> /\ Disturb("expiry")
    /\ buffer' = <<>> /\ counter' = 0
    /\ UNCHANGED <<status, redisUp, broker, orphaned, runVars, cancelVars,
                   readerVars, stamps>>
-----------------------------------------------------------------------------
(* A client and the generator that serves it.                               *)

HasEnd(s) == \E i \in 1..Len(s) : IsEnd(s[i])

\* Last-Event-ID, 0 when there is none.
LastId(r) == IF got[r] = <<>> THEN 0 ELSE got[r][Len(got[r])].seq

\* stream_run, or create_and_stream_run for a first connection.  A finished
\* run answers a request without Last-Event-ID by a bare end event.
Connect(r) ==
    /\ ~Connected(r) /\ ~HasEnd(got[r])
    /\ conns[r] < MaxConns
    /\ conns' = [conns EXCEPT ![r] = @ + 1]
    /\ seen' = [seen EXCEPT ![r] = status]
    /\ lastSent' = [lastSent EXCEPT ![r] = LastId(r)]
    /\ IF status = "over" /\ got[r] = <<>>
       THEN /\ got' = [got EXCEPT ![r] = <<[seq |-> 0, kind |-> "end"]>>]
            /\ stage' = [stage EXCEPT ![r] = "closed"]
       ELSE /\ stage' = [stage EXCEPT ![r] = "opened"]
            /\ UNCHANGED got
    /\ UNCHANGED <<status, redisVars, broker, orphaned, runVars, cancelVars,
                   inbox, endSeen, stamps, spent>>

\* _replay_stored_events up to the LRANGE; an unreachable Redis has no events.
Replay(r) ==
    /\ stage[r] = "opened"
    /\ broker' = [broker EXCEPT ![ProcOf[r]] = Created(@)]
    /\ inbox' = [inbox EXCEPT ![r] = IF redisUp THEN ReplayAfter(LastId(r)) ELSE <<>>]
    /\ stage' = [stage EXCEPT ![r] = "replaying"]
    /\ UNCHANGED <<status, redisVars, orphaned, runVars, cancelVars, seen,
                   lastSent, endSeen, got, conns, stamps, spent>>

SendReplayed(r) ==
    /\ stage[r] = "replaying" /\ inbox[r] # <<>>
    /\ LET e == Head(inbox[r]) IN
       /\ got' = [got EXCEPT ![r] = Append(@, e)]
       /\ lastSent' = [lastSent EXCEPT ![r] = IF e.seq > @ THEN e.seq ELSE @]
    /\ inbox' = [inbox EXCEPT ![r] = Tail(@)]
    /\ UNCHANGED <<status, redisVars, broker, orphaned, runVars, cancelVars, stage,
                   seen, endSeen, conns, stamps, spent>>

\* The head of _stream_live_events and of aiter: a finished broker, or none
\* for a finished run, has nothing live.
StartLive(r) ==
    /\ stage[r] = "replaying" /\ inbox[r] = <<>>
    /\ LET b == broker[ProcOf[r]]
           nothingLive == b = "finished" \/ (b = "none" /\ seen[r] = "over")
       IN
       /\ stage' = [stage EXCEPT ![r] = IF nothingLive THEN "closed" ELSE "iterate"]
       /\ broker' = [broker EXCEPT ![ProcOf[r]] =
                       IF nothingLive THEN @ ELSE Created(@)]
    /\ orphaned' = orphaned \ {r}
    /\ UNCHANGED <<status, redisVars, runVars, cancelVars, seen, inbox, lastSent,
                   endSeen, got, conns, stamps, spent>>

Subscribe(r) ==
    /\ stage[r] = "iterate"
    /\ stage' = [stage EXCEPT ![r] = IF redisUp THEN "checkEnd" ELSE "backoff"]
    /\ UNCHANGED <<status, redisVars, broker, orphaned, runVars, cancelVars, seen,
                   inbox, lastSent, endSeen, got, conns, stamps, spent>>

\* _check_end_in_buffer
CheckEnd(r) ==
    /\ stage[r] = "checkEnd"
    /\ endSeen' = [endSeen EXCEPT ![r] = EndInBuffer]
    /\ broker' = IF EndInBuffer THEN Finish(r, ProcOf[r]) ELSE broker
    /\ stage' = [stage EXCEPT ![r] = "listen"]
    /\ UNCHANGED <<status, redisVars, orphaned, runVars, cancelVars, seen, inbox,
                   lastSent, got, conns, stamps, spent>>

\* Mutant: the last replayed event is sent again.
IsOlder(r, e) == e.seq < lastSent[r]

\* A live message; one that was replayed is skipped, and an end closes the
\* stream even when it is skipped.
IsReplayed(r, e) == e.seq <= lastSent[r]

Receive(r) ==
    /\ stage[r] = "listen" /\ inbox[r] # <<>>
    /\ LET e == Head(inbox[r]) IN
       /\ IF IsReplayed(r, e)
          THEN UNCHANGED <<got, lastSent>>
          ELSE /\ got' = [got EXCEPT ![r] = Append(@, e)]
               /\ lastSent' = [lastSent EXCEPT ![r] = e.seq]
       /\ IF IsEnd(e)
          THEN /\ broker' = Finish(r, ProcOf[r])
               /\ stage' = [stage EXCEPT ![r] = "closed"]
               /\ inbox' = [inbox EXCEPT ![r] = <<>>]
          ELSE /\ inbox' = [inbox EXCEPT ![r] = Tail(@)]
               /\ UNCHANGED <<broker, stage>>
    /\ UNCHANGED <<status, redisVars, orphaned, runVars, cancelVars, seen, endSeen,
                   conns, stamps, spent>>

\* No message within the timeout, and the run is known to have ended.
LeaveQuiet(r) ==
    /\ stage[r] = "listen" /\ inbox[r] = <<>>
    /\ Finished(r) \/ endSeen[r]
    /\ stage' = [stage EXCEPT ![r] = "closed"]
    /\ UNCHANGED <<status, redisVars, broker, orphaned, runVars, cancelVars, seen,
                   inbox, lastSent, endSeen, got, conns, stamps, spent>>

\* Mutant: the lost subscription is taken for a live one.
KeepListening(r) ==
    /\ stage[r] = "backoff"
    /\ stage' = [stage EXCEPT ![r] = IF Finished(r) THEN "closed" ELSE "listen"]
    /\ UNCHANGED <<status, redisVars, broker, orphaned, runVars, cancelVars, seen,
                   inbox, lastSent, endSeen, got, conns, stamps, spent>>

\* The retry loop of aiter.
Retry(r) ==
    /\ stage[r] = "backoff"
    /\ stage' = [stage EXCEPT ![r] = IF Finished(r) THEN "closed" ELSE "iterate"]
    /\ UNCHANGED <<status, redisVars, broker, orphaned, runVars, cancelVars, seen,
                   inbox, lastSent, endSeen, got, conns, stamps, spent>>

\* The client goes away, at any point of its stream.
Disconnect(r) ==
    /\ Connected(r) /\ conns[r] < MaxConns
    /\ stage' = [stage EXCEPT ![r] = "away"]
    /\ inbox' = [inbox EXCEPT ![r] = <<>>]
    /\ UNCHANGED <<status, redisVars, broker, orphaned, runVars, cancelVars, seen,
                   lastSent, endSeen, got, conns, stamps, spent>>
-----------------------------------------------------------------------------
Emit(e) == Allocate(e) \/ Push(e) \/ Publish(e)
Read(r) ==
    \/ Replay(r) \/ SendReplayed(r) \/ StartLive(r) \/ Subscribe(r) \/ CheckEnd(r)
    \/ Receive(r) \/ LeaveQuiet(r) \/ Retry(r)

Next ==
    \/ \E p \in Procs : StartExecution(p)
    \/ GraphEmits
    \/ \E result \in {"success", "error"} : GraphEnds(result)
    \/ Finalize
    \/ \E e \in Emitters : Emit(e)
    \/ Interrupt \/ RequestCancel \/ PersistCancel \/ HandleCancel
    \/ Outage \/ Recover \/ Crash \/ GiveUp \/ Expire
    \/ \E r \in Readers : Connect(r) \/ Read(r) \/ Disconnect(r)

Spec == Init /\ [][Next]_vars

\* Every task that can go on does; graphs end (the job timeout sees to that);
\* pending runs are executed; Redis comes back.
Fairness ==
    /\ WF_vars(\E p \in Procs : StartExecution(p))
    /\ WF_vars(\E result \in {"success", "error"} : GraphEnds(result))
    /\ WF_vars(Finalize)
    /\ \A e \in Emitters : WF_vars(Emit(e))
    /\ WF_vars(HandleCancel)
    /\ WF_vars(Recover)
    /\ \A r \in Readers : WF_vars(Read(r))

FairSpec == Spec /\ Fairness
-----------------------------------------------------------------------------
(* Properties.                                                              *)

\* As long as no id had to be taken from the clock or from a counter that was
\* started again, a client receives events in the order of their production.
InOrder ==
    stamps + spent["expiry"] = 0 =>
        \A r \in Readers : \A i, j \in 1..Len(got[r]) :
            i < j /\ ~IsEnd(got[r][i]) /\ ~IsEnd(got[r][j])
                => got[r][i].seq < got[r][j].seq

\* A live event is skipped as already replayed that this client was never sent.
SkipsUnsent(r) ==
    /\ Receive(r)
    /\ IsReplayed(r, Head(inbox[r]))
    /\ ~IsEnd(Head(inbox[r]))
    /\ \A i \in 1..Len(got[r]) : got[r][i] # Head(inbox[r])

\* While Redis stays reachable and its keys last, a live event that the
\* generator skips as already replayed has been sent to this client.  (A
\* second end may be skipped: the first one said the same.)
SkippedWasSent ==
    [][\A r \in Readers : SkipsUnsent(r) => spent["outage"] + spent["expiry"] > 0]_vars

\* "This TTL only matters if cleanup never fires": the keys of a run whose
\* process is alive and whose Redis is reachable may expire without a loss.
QuietRunsLoseNothing ==
    [][\A r \in Readers : SkipsUnsent(r) => spent["outage"] + spent["crash"] > 0]_vars

\* A client that is told the end of an uncancelled run finds its final status
\* in the database: finalize_run commits before the end is signalled.
EndMeansOver ==
    cancelReq = "none" =>
        \A r \in Readers : HasEnd(got[r]) => status = "over"

Undisturbed == \A f \in Faults : spent[f] = 0
Killed == spent["crash"] + spent["interrupt"] + spent["cancel"] > 0

\* The stream of every client ends: no generator waits for messages that
\* nobody will publish, on whatever process and however late it attached.
EveryStreamEnds ==
    \A r \in Readers : Connected(r) ~> (~Connected(r) \/ ~Undisturbed)

\* An end mark that has reached the replay list ends every stream, also when
\* its message was lost in an outage: who subscribes again looks for it.
StoredEndEndsStreams ==
    \A r \in Readers :
        (Connected(r) /\ EndInBuffer) ~> (~Connected(r) \/ Killed)

\* "Using get_broker (not get_or_create) avoids creating a blank broker that
\* would hang forever": a client whose request found the run over is let go.
LateResumeEnds ==
    \A r \in Readers : Connected(r) /\ seen[r] = "over" ~> ~Connected(r)

\* "On reconnect, LRANGE fetches missed events": a client that has received an
\* event has received every older one that Redis still keeps.
ClientMissesNothing ==
    \A r \in Readers : \A i \in 1..Len(buffer) : \A j \in 1..Len(got[r]) :
        buffer[i].seq < got[r][j].seq =>
            \E k \in 1..Len(got[r]) : got[r][k] = buffer[i]
=============================================================================
