# A TLA+ development of the agent API server

The repository is an Agent Protocol server: clients create *runs* of LangGraph
graphs on *threads*; runs are executed in the background by worker loops of one
or more server processes, their events are streamed over SSE, crons fire runs
on a schedule. State lives in Postgres, Redis carries the job queue, the
cancellation channel and the event streams.

This directory holds TLA+ models of the parts of the server in which the hard
behaviours live, the TLC runs that check it and TLAPS proofs about it. Source
paths below are relative to `src/src/` unless they start with `tests/`, `main.py`
or `README.md`, which are at the root of the repository.

## 1. Inventory

| Component | State it keeps | Operations | Hard behaviours | What makes it correct |
|---|---|---|---|---|
| **Worker executor** `services/worker_executor.py` | `_job_tasks`, a semaphore per loop; `claimed_by`, `lease_expires_at`, `status` of a run row | submit, dequeue (BLPOP, or Postgres when Redis is down), acquire and load, heartbeat, release, timeout, start, stop, wait for completion | two loops racing for a run, leases lost under a working owner, timeout against completion, drain on shutdown | at most one execution of a run while leases hold; a claim is never taken from a live worker; no run is lost; a timed-out run ends in error |
| **Run execution** `services/run_executor.py`, `run_status.py` | `status` of run and thread, `active_runs`, `_lease_loss_cancellations`, the done key | execute_run with its handlers and `finally`, update_run_status, finalize_run | cancellation at every await, failing transactions inside handlers, unconditional writes | a final status is stored before anybody is told; a lost lease leaves no trace; the thread is freed |
| **Lease reaper** `services/lease_reaper.py` | two local lists per tick, the retry counter in `execution_params` | find, reset, check retries, mark failed, requeue | separate transactions, crash between any two, several reapers | every crashed run is recovered or failed; retries are bounded |
| **Submission and cancellation** `services/run_preparation.py`, `api/runs.py` | run row, thread row | create (commit, then enqueue), cancel (broadcast, then persist), update, delete, join, wait, stream | crash or Redis failure between commit and enqueue; cancel racing completion | a committed run settles; a cancelled run stays cancelled |
| **Cancel channel** `services/redis_broker.py`, `core/active_runs.py` | pub/sub, `active_runs` | request_cancel, listen, _execute_cancel | at-most-once delivery, local fallback, duplicate entries | a cancellation hits only tasks of its run, and finds them |
| **Redis event broker** `services/redis_broker.py` | replay list, sequence counter, `_brokers` | put, subscribe, replay, allocate ids, clean up | reconnects, lost end events, TTL | every event exactly once and in order; every stream ends |
| **Streaming service** `services/streaming_service.py`, `event_converter.py`, `core/sse.py` | per-connection sequence number | replay then live, signal end, error or cancel | gap or overlap between replay and live | no gap, no duplicate, ends once |
| **In-memory broker, local executor** `services/broker.py`, `local_executor.py` | queue, replay buffer and counters per run, tasks | as above within one process | several consumers of one queue, re-created brokers, timed clean-up | as above |
| **Graph event routing** `services/graph_streaming.py` | none | choose and transform events by stream mode | pure algorithm with many cases | every requested mode gets its events, no other is emitted |
| **Waiters** `services/run_waiters.py`, `api/runs.py` | none | join, wait with keep-alive | done key, timeout, disconnect | returns the final state |
| **Stateless runs, clean-up** `api/stateless_runs.py`, `services/run_cleanup.py` | ephemeral thread, background tasks | create, wait, stream, delete after the run | deletion racing the run | thread deleted exactly once, after the run |
| **Threads** `api/threads.py`, `services/thread_state_service.py` | thread rows, checkpoints | CRUD, copy, history, state | deletion with runs in flight | no orphaned execution |
| **Cron** `services/cron_scheduler.py`, `cron_service.py`, `api/crons.py` | cron rows with claim and next run date | claim due, fire, advance, CRUD, cap | several schedulers, claim expiry, crash between fire and advance | fires once per due time |
| **Assistants** `services/assistant_service.py` | assistant and version rows | create, update, set latest, delete | concurrent updates, two commits | versions are unique and the latest exists |
| **LangGraph service** `services/langgraph_service.py`, `graph_factory.py` | graph cache | load, build run config | lazy loading | configuration keeps identity fields |
| **Auth** `core/auth_*.py` | cached backend | authenticate, resolve a handler, build a filter | precedence of handlers | the most specific handler decides |
| **Lifespan** `main.py`, `core/database.py` | pools, tasks | start, stop in order | jobs outliving their resources | nothing is used after it is closed |
| **Store, RAG, agents, HTTP plumbing, observability** | external services | | none of their own | |

Interactions: the API commits the row and pushes its id to the Redis list; a
worker loop pops it, claims the row, and starts `execute_run`'s task and a
heartbeat task; the heartbeat cancels the job when the row no longer names its
loop; the reaper takes rows with expired leases back and pushes them again; the
cancel endpoint broadcasts to the listeners of all processes, which look the
task up in `active_runs`; the end of a job sets the done key for the waiters.
Everything meets in the row of the run, which is written by seven different
places, five of them without a look at its present state.

## 2. Modules

| Module | What it is | Component |
|---|---|---|
| `RunLease` | rows, queue, worker loops, leases, heartbeats, reaper, timeouts, cancellation, Redis outages, crashes, shutdown | executor, execution, reaper, cancel channel, lifespan |
| `RunLifecycle` | abstract specification: the moves of a run's status; `RunLease` implements it | |
| `EventStream` | the event stream of one run: Redis keys and channel, broker objects, the emitting execution, the cancel listener, SSE clients | Redis event broker, streaming service |
| `RunWaits` | who waits for a run of the Redis mode, and deletes its thread afterwards | waiters, stateless runs, clean-up |
| `LocalRuns` | the single-process mode: in-memory broker, local executor, runs that share threads, cancel and delete requests, stateless runs | in-memory broker, local executor, run and thread endpoints |
| `CronClaim` | the cron table under several schedulers and its owners' requests | cron scheduler and service |
| `CronPromise` | abstract specification: what a cron promises its owner; `CronClaim` implements it | |
| `AssistantVersions` | assistants and their versions under concurrent requests, and the defaults made at start-up | assistant service, LangGraph service |
| `GraphLoading` | the caches of graphs and factories, and how a request comes by its graph | LangGraph service, graph factories |
| `GraphEvents` | what a run makes of the chunks of its graph | graph event routing |
| `ThreadStates` | the metadata and the checkpoints of a thread under the requests of its user | threads, submission |
| `MC...` | one module of instances for TLC beside each of these | |
| `RunLease_proofs`, `EventStream_proofs`, `RunResults_proofs` (of `RunWaits` and `GraphEvents`), `LocalRuns_proofs`, `GraphLoading_proofs`, `ThreadStates_proofs`, `CronClaim_proofs`, `AssistantVersions_proofs` | theorems and their proofs | |

`RunLease` and `EventStream` describe the Redis mode, `LocalRuns` the
single-process mode; they share `execute_run`, `finalize_run` and the endpoints
and differ in everything between. `RunWaits` takes from `RunLease` the run as
its waiters see it: attempts that claim the row, write it and set the key, that
die, stall or are cancelled. The other modules meet these in one place each: a
cron and a thread submit runs, and do not look at them again.

### RunLease and the code

A *slot* is one permit of a worker loop's semaphore and the
`_execute_and_release` task that holds it. Its phase `pc` is the await the task
is suspended at, so that one step runs from one await to the next; each
database transaction and each Redis command is one step.

| State | Code |
|---|---|
| `status`, `claimedBy`, `lease`, `retryCount`, `params` | columns of the run row; `lease` is `lease_expires_at` compared with now (none, live, expired); `retryCount` is `execution_params._retry_count`; `params` tells complete, missing and counter-only `execution_params` apart |
| `thread` | status of the run's thread (each run has a thread of its own here) |
| `queue`, `doneKeys`, `cancelMsgs`, `redisUp` | Redis list, done keys, pub/sub messages not yet handled per process, reachability |
| `pc`, `job`, `mark`, `beating` | task phase, run id, pending cancellation of the task (a user's or drain's, or the timeout's), slots whose heartbeat task still runs |
| `up`, `activeRuns`, `lossSet`, `drain`, `late` | process life cycle, `active_runs`, `_lease_loss_cancellations`, jobs stop() awaits, loops still inside BLPOP when stop() began |
| `rpc`, `found`, `stuck`, `exhausted` | position and local lists of one `_reap` call |
| `prepared`, `cancelReq`, `old` | requests between commit and RPUSH, progress of a cancel request, runs older than the stuck threshold |
| `attempts`, `uncharged`, `spent` | history for properties and bounds only |

| Actions | Code |
|---|---|
| `Prepare`, `Submit`, `SubmitFails`, `Age` | `_prepare_run` up to the commit; `executor.submit`; its failure; the passage of the threshold |
| `PublishCancel` / `CancelLocally`, `PersistCancel`, `DeliverCancel`, `LoseCancel` | `request_cancel` and its fallback, the endpoint's UPDATE, a listener, a listener that was away |
| `Dequeue`, `DequeueFails`, `PollPostgres` | `_dequeue` and `_poll_postgres`, then the registration in `active_runs` |
| `Acquire`, `Load` | `_acquire_and_load` with its two transactions and `from_run_orm` |
| `Start`, `Stream`, `Finalize`, `FinalizeError`, `HandleCancel`, `FinalizeInterrupted`, `Signal`, `SetDoneKey` | `execute_run` |
| `ReleaseLease`, `JobTimeout`, `FinalizeTimeout`, `Heartbeat`, `Expire` | end of `_execute_with_lease`, `wait_for`, its TimeoutError branch, `_heartbeat_loop`, the clock |
| `FindCrashed`, `FindStuck`, `ResetToPending`, `CheckRetryLimits`, `MarkPermanentlyFailed`, `Reenqueue`, `ReaperDbFailure` | `LeaseReaper._reap` |
| `DbFailure` | a transaction of a slot raises |
| `Crash`, `Restart`, `BeginStop`, `DrainTimeout`, `EndStop` | the process; `LeaseReaper.stop` and `WorkerExecutor.stop` in the order of `lifespan` |

Points where the model follows the code closely and a reader may stumble:

- A cancelled task is resumed where it stands. `AfterCancel` says where its
  CancelledError leads: in the body of `execute_run` to the handler, in a handler
  to `finally`, after `finally` to the release. `_execute_with_lease` swallows
  the CancelledError of the job task (line 287), and its own release runs on.
- `wait_for` raises TimeoutError only if its CancelledError comes back out of
  the coroutine. `JobTimeout` therefore reaches `timedOut` only from the awaits
  at which nothing swallows it (acquire, load, release).
- `Vacate` and `PopActive` remove the `active_runs` entry of a *run*, whichever
  task it names, because that is what `pop(run_id)` does.
- The heartbeat returns after it has lost the lease; if it hits the job while
  the done key is written, the mark in `_lease_loss_cancellations` stays behind.
- Worker names are reused after a restart (host name and pid are, in
  containers), which is the less favourable assumption.
- After shutdown the process exits, and with it any job that was dequeued
  after stop() had collected the tasks to wait for.

### EventStream and the code

`EventStream` takes from the database only whether the row of the run is active
or over, and looks at what `RunLease` leaves out: what clients receive. The two
are not composed; the row of `EventStream` allows what `RunLease` does without
lost leases (one execution at a time, taken up again after a crash).

| State | Code |
|---|---|
| `counter`, `buffer`, `redisUp` | the INCR key, the replay list, reachability |
| `broker`, `orphaned` | per process the entry of the run in `_brokers` (none, open, finished); who still works with an object that was popped from it (always finished) |
| `home`, `at`, `ev`, `outcome`, `emitted` | process of the execution; the await at which it and the cancel listener are; the event they are emitting; the result of the graph |
| `cancelReq`, `cancelMsg` | progress of a cancel request, its pub/sub message |
| `stage`, `seen`, `lastSent`, `endSeen`, `inbox` | of the generator that serves a client: position, run status its request read, `last_sent_sequence`, `end_already_in_buffer`, events read from Redis |
| `got` | all a client has received, over its connections; its last id is the next Last-Event-ID |
| `conns`, `stamps`, `spent` | bounds and history |

| Actions | Code |
|---|---|
| `Allocate`, `Push`, `Publish` | `allocate_event_id`; the pipeline of `put`; its PUBLISH and what the caller does next (`AfterPut`) |
| `StartExecution`, `GraphEmits`, `GraphEnds`, `Finalize`, `Interrupt` | `execute_run`; each signal function starts in the step that commits the final status |
| `RequestCancel`, `PersistCancel`, `HandleCancel` | `request_cancel` from the endpoint or from the close handler of a stream, the endpoint's UPDATE, `_execute_cancel` |
| `Connect`, `Replay`, `SendReplayed`, `StartLive` | `stream_run`, `stream_run_execution` up to `aiter` |
| `Subscribe`, `CheckEnd`, `Receive`, `LeaveQuiet`, `Retry` | `_subscribe_and_listen`, `_check_end_in_buffer`, the live loop, the retry loop of `aiter` |
| `Outage`, `Recover`, `Expire`, `Crash`, `GiveUp`, `Disconnect` | Redis, its TTL, the executing process, the reaper that fails a run, the client |

- Events are data, errors or ends, identified by the sequence number in their
  id. `put` increments the counter once more than the allocation did, so ids
  have gaps.
- A finished broker swallows what is put into it. That is how the second end is
  mostly avoided, and how the first may be lost: a task that is cancelled
  inside its own signal leaves through `finally` and pops the broker for which
  the listener is still allocating an id (`orphaned`).
- A cancelled task runs before the listener's first await returns, so its
  CancelledError is part of `HandleCancel`.
- `Expire` waits until everything is at rest: both keys live for ten minutes
  after the last event. Nothing deletes them; `cleanup_broker` is local.
- Not in this model: the conversion of events to SSE text (it may drop an event,
  which the client then never sees), exceptions of `finalize_run`, a second
  execution that overlaps the first after a lost lease.

### RunWaits and the code

| State | Code |
|---|---|
| `row`, `output`, `owner` | status, output and claim of the run's row; "gone" when the thread, and the row with it, was deleted; an output is the attempt it came from |
| `attempt` | the executions by workers, here or in another process: none, start, stream, undo, signal, release, over |
| `reaper`, `retries` | where each process's reaper is after it took a claim back; the retries that are left (`_retry_count`) |
| `key`, `redis`, `sent` | the done key, Redis, a cancellation on the channel |
| `waiter` | a join, a wait, a clean-up or a cancel with `wait=1`: where it stands and what it answered |

| Actions | Code |
|---|---|
| `Join`, `StatelessWait`, `BackgroundRun`, `Cancel` | the requests that wait |
| `CheckKey`, `CheckRow` | `wait_for_completion`: the key each turn, the row every second one or when Redis fails |
| `Cut`, `ReadOutput`, `Answer`, `Disconnect` | timeout or shutdown; `read_run_output`; the body; a client that goes |
| `SelectActive`, `CancelRun`, `AwaitTask`, `Drop`, `DropFails` | `delete_thread_by_id`; its failure, which is logged |
| `Persist`, `Settle`, `GiveUp` | the rest of `cancel_run_endpoint` |
| `Acquire`, `WriteRunning`, `Finalize`, `Undo`, `WriteFails`, `Signal`, `Release`, `ReleaseFails`, `LoseLease`, `Strike`, `Deliver`, `Crash` | the run, as `RunLease` has it: the worker releases its claim whatever became of the final write |
| `Reap`, `CheckRetries`, `MarkFailed`, `ReaperStops` | the three transactions of the reaper, between which the run may be acquired, and a tick that is abandoned |

A clean-up that times out, or meets a database error while it polls, goes on to
delete the thread of a run that still executes; `CleanUpWaits` excuses it. A
failed final write still sets the done key (`run_executor.py:84-97`), and those
who wait then answer the output of a run that is not over: `unwritten`. The
worker then releases its claim like any other: the row says running for ever,
nobody owns it, and no reaper looks for it. Whoever comes when the key is gone
too waits until its time is out: `Stranded`, which `EveryWaitEnds` excuses.

### LocalRuns and the code

Everything runs on one event loop, so a step is what stands between two awaits.
`phase`, `cancel` are the task of a run; `active`, `broker` the registries;
`stream` the SSE connections; `clean`, `deleting`, `request` what clean-ups and
requests have still to do. A run has one of a few threads, and the status of a
thread row is written by all of its runs.

- An end event in the buffer is written by the task or by a cancel request that
  found it; the status of the row by the task, by the cancel endpoint, by
  `update_run`. `EndTellsStatus` relates the two.
- `DeleteRun` with `force` cancels the task and waits for it;
  `delete_thread` and `delete_thread_by_id` cancel those runs that look active.
  A run that was prepared but not submitted has no task to cancel: `late`.
- `SweepBroker` is the sweep of brokers that are finished, empty and old, whoever
  still holds one: a task and its streams go on with the object. `Open` of a run
  that was swept makes a blank broker, which nobody finishes: `blank`.
- `DropFails` is a deletion that fails on the database. A user is told; the clean-up
  of a stateless run logs it (`run_cleanup.py:86-89`, `stateless_runs.py:108-111`),
  and its thread stays for ever.
- `Crash` ends the process; what is lost then stays lost, as nothing in this mode
  looks for runs at start-up.

### CronClaim and the code

`due` and `claim` count ticks until `next_run_date` and `claimed_until`; a
schedule is a period on a wall clock known modulo `Cycle`. A scheduler holds the
copies of the rows it claimed (`batch`) and fires one at a time: validate the
user, prepare the run, submit it, advance the cron or release the claim, each
its own transaction. Owners create a cron (count, insert, first run), edit and
delete it in between.

`CronPromise` has four phases for a cron (waiting, due, fired, off). A step
that skips a due occurrence, fires twice without a reason or revives a cron that
is off is none of its steps. The refinement maps the phase of a cron to the row
and to whether the present occurrence has a run; its fault parameter `raced`
holds the crons that an edit or an expired claim raced with.

### AssistantVersions and the code

A creation is a look at what exists, a commit of the row, a commit of its first
version. An update is a read of the row, a read of the highest number, a commit of the new
version, an UPDATE of the row. `set_assistant_latest` reads a version and
updates the row. Between any two, another request of any kind; each may be cut
off. Processes at start-up select the missing defaults and commit them at once
with their versions. `Numbered` and `Taken` are the unique constraints. The first
version of a default is inserted without a config, so it says NULL where the row
says {} (`langgraph_service.py:228-245`): `LatestIsRecorded` is about the assistants of
users, `DefaultsStand` about both rows of a default as they are made.

### GraphLoading and the code

`cache`, `factories` and `hooks` are the three tables of the two modules; `file`
is what the file of the graph exports (external). A request gets its graph in
one step unless it awaits a maker or an async factory; what it awaits and what
for is `step` and `code`. `raced` names the requests during whose wait the file
or the tables changed: what they build may be cached although it must not, and
be used by who comes after. The properties excuse it, and
`GraphLoading_cached_default.cfg` shows it. A maker with no argument that is a
context manager is left before its graph is used (`langgraph_service.py:547-548`);
the model has only plain makers.

### GraphEvents and the code

A chunk is a mode, a namespace and what it carries; an event is a type, a
namespace and the positions of the chunks its payload is made of, so that a
property can say which chunks a client has seen. LangGraph hands over any
sequence of chunks of the modes the run subscribes to (`Chunks`, `Has`:
external). `Processed` is `_process_stream_event`, `Take` the loop around it.
`StreamInit`, `StreamNext` and `StreamSpec` are its initial states, steps and
specification: the proofs about it stand in one module with those of `RunWaits`.

A graph is running, pausing or over. A node that calls `interrupt` makes its graph
hand over an update with a non-empty `__interrupt__` (`TakeInterrupt`), which
LangGraph from 1.0 repeats in a state for those who subscribe to states
(`TakeEcho`). A breakpoint (`interrupt_before`, `interrupt_after`) makes an update
whose `__interrupt__` is empty (`TakeBreakpoint`), which `Remapped` filters as the
code does.

A run that pauses below the root, with values and updates and subgraphs asked
for, may keep a state of the subgraph as its output; the output is {} when
values are not asked for. `EventConverter.set_subgraphs` is never called, so
events of subgraphs carry no namespace in their SSE name. Graphs compiled from
JavaScript are not modelled.

### ThreadStates and the code

`row` is the set of metadata keys of the thread, `checkpoints` what LangGraph
stores (external): numbered, each with its parent. `update_thread` and
`update_thread_metadata` read the whole metadata and write it back whole
(`seen`); `hidden` collects what such a write covers up. `UpdateState`, `Load`,
`Put` are runs and state updates, `GetState`, `GetStateAt`, `GetHistory` and
`GetPage` the reads. A client pages through the history until a page is empty; each
page is a request of its own. `GetHistory` reads the row again, which may be gone
(404) or have lost its graph, and `GetPage` the checkpoints; `PageFails` is an error on
the way. A page that is answered empty though nobody looked at the checkpoints
(`Unseen`) leaves the client with half a history: `blind`.

Checkpoints outlive a deleted thread and are its again when the id is reused. An
unreadable snapshot is dropped from its page (`thread_state_service.py:78-91`);
the model has none.

## 3. Runs

A *budget* bounds each kind of disturbance; what it does not name does not
happen in that behaviour, and a set of budgets gives every mix in one run.

| Run | Instance | Result |
|---|---|---|
| `crash_recovery` | `RunLease`: two processes with a loop each; 1 crash, 1 outage; 1 retry; the run may exist before the migration | types; `PendingIsClaimable`, `DoneMeansTerminal`; refinement `LifecycleSpec`; liveness `EveryRunSettles` |
| `faults` | `RunLease`: three slots, one of the first and two of the second loop of a process; no retry; a stall, or a timeout, or a crash or a failing transaction with a shutdown, or a cancellation with an outage | `HealthyLeaseExcludes`, `StallsBoundExecutors`, `RetriesBoundAttempts`, `EntriesNameTheirRun`, `ClaimEndsByOwnerOrExpiry`, `CancelledInQueueNeverRuns` |
| `timeout_swallowed` | `RunLease`: one slot; 1 timeout | violates `TimedOutJobFails` |
| `streams` | `EventStream`: one client, two connections; a cancellation, a crash or an interruption, or an outage, an interruption and an expiry | `InOrder`, `EndMeansOver`, `SkippedWasSent`; liveness `EveryStreamEnds`, `StoredEndEndsStreams` |
| `stream_silence` | `EventStream`: one client; 1 expiry | violates `QuietRunsLoseNothing` |
| `waits` | `RunWaits`: two waiters of any kind, two attempts, a reaper, no retry or one; two of a crash, an outage and a failing transaction, or a cut, a client that goes, or a cancellation | `AnswerIsFinal`, `CleanUpWaits`; liveness `EveryWaitEnds` |
| `local` | `LocalRuns`: one run, its stream, two disturbances; or two runs on one or two threads and one disturbance | `BusyHasReason`, `DeletedRunsStop`, `EndTellsStatus`; liveness `EphemeralThreadsGo` |
| `cron` | `CronClaim`: two schedulers, two crons, one disturbance of any kind | `ClaimExcludes`, `DuplicatesAreExcused`, `CapHoldsButForRaces`; liveness `DueIsServed`; refinement `CronPromise` |
| `assistants` | `AssistantVersions`: two clients, five requests, two starting processes, one crash | `LatestIsRecorded`, `VersionsAreNumbered`, `RowIsNewest`, `DefaultsStand` |
| `graphs` | `GraphLoading`: three requests of two users, one edit of the file, invalidations | `BuiltIsNotShared`, `RunsOwnGraph`, `ReloadReaches` |
| `events` | `GraphEvents`: five chunks, interrupts, echoes and breakpoints among them, one subgraph, two messages, eight choices of modes | `InterruptReachesClient`, `MessagesBuildUp` |
| `threads` | `ThreadStates`: four requests of any kind, one of them a run; three checkpoints; pages of one or two | `MetadataStays`, `StateSticks`, `PagesAreComplete` |

Sixteen more configurations are kept to be run by hand, in a minute or two each.
Thirteen show a departure of the code (below): `RunLease_cancel_overwritten`,
`RunLease_lease_loss_shared`, `RunLease_duplicate_entry`,
`RunLease_failure_revoked`, `EventStream_gap`,
`EventStream_resume`, `CronClaim_cron_edit`, `AssistantVersions_create_race`,
`LocalRuns_split`, `GraphLoading_cached_default`, `ThreadStates_lost_graph`,
`RunWaits_settles`, `GraphEvents_breakpoint`. The others pass. `RunLease_pairs`
checks the properties of `faults` but the bound on executors with two slots and
every pair of disturbances whose handlers meet, two stalls among them;
`LocalRuns_more` and `GraphEvents_more` check the types and further properties of
their modules (`EveryRunSettles`,
`ExecutingMeansBusy`, `CleanUpWaits`, `SoleStreamSeesAll`, `StreamsEnd`;
`OnlyAsked`, `OutputIsTheLastState`).

What the properties say:

- `HealthyLeaseExcludes`: while no lease has expired under a working owner, one
  slot of the cluster at most is between acquiring and releasing a run, and a
  run that may be acquired or taken back is not being worked on.
- `StallsBoundExecutors`: each such expiry adds one concurrent execution at
  most. Two do happen: nothing but the next heartbeat stops the late worker. With
  one stall and three slots, a third would be seen.
- `ClaimEndsByOwnerOrExpiry`: a claim is ended by its loop, after expiry, or by
  the reaper's `_mark_permanently_failed`, the one writer that looks at neither
  owner nor lease.
- `PendingIsClaimable`: a pending row is in the view of every worker.
- `EveryRunSettles`: every run comes to a final status and, if it can be executed
  at all, its thread is freed.
- `RetriesBoundAttempts`: executions are bounded by the retries, plus one for
  each charge a reaper lost with its tick, plus one for each reaper between
  reset and failure.
- `DoneMeansTerminal`: who is woken by the done key finds a final status.
- `CancelledInQueueNeverRuns`, `EntriesNameTheirRun`: see their comments.
- `InOrder`: over all connections of a client, whatever overlaps between the
  replay list and the live channel, and while ids come from one counter, the
  order in which events reach it is that of production, without repetition.
- `SkippedWasSent`: the live loop skips only what this client was sent. It holds
  while the counter lives: an id from the wall clock makes it skip new events,
  and so does a counter that expired while a graph was silent for ten minutes,
  which `QuietRunsLoseNothing` takes the comment on the time to live to rule out.
- `EndMeansOver`: a client that is told the end finds the final status stored.
- `EveryStreamEnds`, `StoredEndEndsStreams`: no generator waits for ever. The
  first holds without disturbances, the second also through outages and
  expiries, because whoever subscribes looks at the end of the list. With a
  crash or a cancellation an end mark can be lost, and both are then silent.
- `LifecycleSpec`: `RunLifecycle` under the identity mapping on `status`; in
  particular a final status is final. It is a promise about crashes and outages
  only (see `QuietBudgets` in section 4).

- `AnswerIsFinal`, `CleanUpWaits`, `EveryWaitEnds`: what a waiter is told stays
  true, nobody deletes the thread of a run under way, nobody waits for ever,
  though the key may be missing, early or expired. A row that says running for ever
  (a stall, or `Stranded`) is excused.
- `BusyHasReason`, `DeletedRunsStop`, `EndTellsStatus`, `EphemeralThreadsGo`: the
  four things that go wrong when several requests end, cancel and delete the
  runs of a thread and each writes what it knows. Ephemeral threads go unless the
  client kept them, their deletion failed, or the process ended.
- `ClaimExcludes`, `DuplicatesAreExcused`, `DueIsServed`: the claim of a cron is
  neither too weak nor too strong. While firings take less than the claim lasts,
  one scheduler has a cron, an occurrence has one run and one more for each
  failure that the docstring of `get_due_crons` admits; and a dead scheduler's
  claims do not keep a cron for ever.
- `CapHoldsButForRaces`: the cap is exceeded by racing requests only.
- `VersionsAreNumbered`, `LatestIsRecorded`, `RowIsNewest`: what remains true of
  versions though nothing is locked: the unique constraint is what saves the
  numbering, the order of the two commits the record.
- `DefaultsStand`: a process serves requests only with all defaults in place.
- `BuiltIsNotShared`, `RunsOwnGraph`, `ReloadReaches`: caches hold what they may,
  and an invalidation reaches whoever comes after it.
- `InterruptReachesClient`, `MessagesBuildUp`: over every stream of chunks. What is
  asked of a human in an update makes one event of one type, whatever modes were asked
  for, and marks the run interrupted; so does a breakpoint if updates were asked for,
  and nothing else does.
- `MetadataStays`, `StateSticks`, `PagesAreComplete`: what a user has done to a
  thread stays done, but for writers that overlap, and for pages that were answered
  without a look at the checkpoints.

**Departures.** `PROJECT.json` quotes them under `findings`; each has a
configuration that shows it. (1) The job timeout cancels the job, the
cancellation is recorded as an interruption and swallowed, and the branch that
should correct it to an error is never entered. (2) A cancelled run can still
be stored as success. (3) Two executions of a run in one process share one
lease-loss mark. (4) A duplicate queue entry makes a running task unreachable
for cancellation. (5) An event published between the LRANGE and the SUBSCRIBE
of a client is lost to it. (6) A client that resumes a finished run whose keys
have expired waits for ever on the blank broker that its own replay created. (7) A
graph that is silent for ten minutes loses its counter, and its connected
clients then skip its events. (8) An edit of a cron during a firing gets the
next run of the schedule it replaced. (9) Two equal creations with
`if_exists=do_nothing` may end in a refusal. (10) Two streams of a run in the
single-process mode share its events. (11) A graph built with defaults is cached
when an invalidation meets the build. (12) A patch of a thread hides the
graph of its first run. (13) `wait=1` does not wait for the task of a cancelled
run. (14) A run that the reaper marks permanently failed may be running again, and
succeed: it was pending while its retries were looked up, a worker acquired it
then, and the worker's own writes ask for no claim. (15) A run that stops at a
breakpoint is stored as success, and its clients hear nothing of the pause, unless
they asked for updates: the empty interrupt is filtered, as a unit test expects.

Two further departures limit where properties hold, and the budgets of the runs
follow them. A cancellation or a failing transaction *inside* an exception
handler of `execute_run` leaves a running row that its outer task then releases;
no worker and no reaper looks at it again, so `EveryRunSettles` is checked
without those disturbances. The API's cancel
overwrites final states, so `LifecycleSpec` is checked without users. Departure
(14) breaks `LifecycleSpec` and `DoneMeansTerminal` as soon as there are more
crashes than retries: both are checked, and proved, up to that number.

Error paths the code answers with a log line limit three more: a failed deletion
leaves an ephemeral thread behind (`EphemeralThreadsGo`), a row that was released
while it says running is waited for until the time is out (`EveryWaitEnds`), and a
page of a history is answered empty when its graph is hidden or cannot be found
(`PagesAreComplete`).

**Bounds.** *RunLease*: one run, two slots, three in `faults`: rows of different runs
interact only by sharing queue, slots and budgets, and every race between
executions is one between two slots on one row; a third slot is what the bound
after one stall could be exceeded by, and works only after one (`TwoAtWork`, a state
constraint: before it, a third slot could only repeat what the second does). `QueueCap = 2` admits a duplicate entry.
`Reapers` restricts ticks to one process; the races between a reaper and workers
need no second reaper. Each pair of `faults` meets in some handler; each
disturbance strikes at every step. Pairs with more states than three slots allow
are in `RunLease_pairs`, with two. *EventStream*: two processes and one client,
whose process is or is not the executing one; clients meet only in the finished
flag of a shared broker. `BufCap = 2` with up to four events makes the replay
list forget; two connections are one reconnect. *RunWaits*: two waiters meet in
the row they delete or cancel; two attempts are one recovery, one reaper takes a
run back from one attempt while the next begins. It has no stall, after which its
properties promise nothing; a run marked failed while it executes has the same effect. *LocalRuns*: two
runs are enough to share a thread; a third does nothing to it that a second
cannot. *CronClaim*: two schedulers race for one cron, two crons make a batch whose
second claim grows old and a cap that is reached; one disturbance at a time
(`AnyTwo` in `MCCronClaim` is the larger instance). One period, since schedules
only matter to edits, which `CronClaim_cron_edit` has two of.
*AssistantVersions*: a creation, two updates that overlap, a pin and a deletion
are five requests. *GraphLoading*: two users, and a third request to find what
two have left behind. *GraphEvents*: five chunks hold two messages of two tokens
and an interrupt, or an interrupt, its echo and a breakpoint. *ThreadStates*: a run, two writers that overlap and one who
reads. The theorems below do not have these bounds. `CHECK_DEADLOCK FALSE`:
runs settle, clients ask for nothing more, and the system rests; `graphs`, in
which requests may always come, is checked for deadlock.

**Fairness** (`FairSpec`, used for liveness only). Weak fairness of every task
that can run (asyncio resumes every ready task, the reaper and worker loops are
unconditional loops), of delivery on a connected pub/sub, of the clock (`Age`,
`LeaseRunsOut`, which is the expiry of a lease that nobody extends), and of
`Stream`: a graph ends, which BG_JOB_TIMEOUT_SECS enforces. Two assumptions are
on the environment: Redis comes back, and a process that died is started again
(recovery needs one process whose reaper runs). In `EventStream` likewise: the
execution, the listener and every generator go on, graphs end, Redis comes back;
clients are not forced to connect or to leave. In `RunWaits` attempts, polls and
the reaper go on, each transaction of it by itself, and no wait has to run out of
time or deletion to succeed if the database fails; in `LocalRuns` every graph
ends and the tasks, streams and deletions of the event loop go on; in
`CronClaim` schedulers tick and fire, and time passes. No disturbance, no request of a
user and no step of one is ever forced.

## 4. Proofs

For all values of the constants that satisfy the assumptions (each slot belongs
to one loop, a loop to one process; `None` is neither slot, worker nor run;
there are finitely many reapers; there is a period, and periods divide the cycle
of the clock; each graph has a default id of its own; the stream modes clients ask
for are the seven that the code or LangGraph knows, and the root namespace is none
of the subgraphs'; bounds are natural numbers):

| Theorem | States |
|---|---|
| `RunLease_proofs!TypeCorrect` | `Spec => []TypeOK` |
| `PendingAlwaysClaimable`, `HealthyLeaseAlwaysExcludes`, `StallsAlwaysBoundExecutors`, `RetriesAlwaysBoundAttempts`, `EntriesAlwaysNameTheirRun` | the invariants `PendingIsClaimable`, `HealthyLeaseExcludes`, `StallsBoundExecutors`, `RetriesBoundAttempts`, `EntriesNameTheirRun` of `RunLease` |
| `ClaimsAreSafe`, `CancelledRunsStayUnstarted` | its action properties `ClaimEndsByOwnerOrExpiry`, `CancelledInQueueNeverRuns` |
| `DoneKeysTellTheEnd`, `LifecycleImplemented` | `QuietBudgets => (Spec => []DoneMeansTerminal)`, `QuietBudgets => (Spec => LifecycleSpec)`: `RunLease` implements `RunLifecycle` |
| `EventStream_proofs!TypeCorrect`, `EndAlwaysMeansOver`, `ClientsReadInOrder`, `OnlyDuplicatesSkipped` | types, `EndMeansOver`, `InOrder`, `SkippedWasSent`: all safety properties of `EventStream` that hold |
| `RunResults_proofs!TypeCorrect`, `WaitsTellTheOutput`, `DeletionsWait` | types, `AnswerIsFinal`, `CleanUpWaits`: all safety properties of `RunWaits` that hold |
| `LocalRuns_proofs!TypeCorrect`, `BusyAlwaysHasReason`, `ExecutingAlwaysBusy`, `DeletedRunsAlwaysStop`, `EndAlwaysTellsStatus`, `CleanUpsAlwaysWait`, `SoleStreamAlwaysSeesAll` | types, `BusyHasReason`, `ExecutingMeansBusy`, `DeletedRunsStop`, `EndTellsStatus`, `CleanUpWaits`, `SoleStreamSeesAll`: all safety properties of `LocalRuns` that hold |
| `StreamTypeCorrect`, `InterruptAlwaysReachesClient`, `MessagesAlwaysBuildUp`, `OnlyAskedIsSent`, `OutputAlwaysTheLastState` | types, `InterruptReachesClient`, `MessagesBuildUp`, `OnlyAsked`, `OutputIsTheLastState`: all properties of `GraphEvents`, in `RunResults_proofs` |
| `GraphLoading_proofs!TypeCorrect`, `BuiltIsNeverShared`, `RunsAlwaysGetTheirOwn`, `ReloadAlwaysReaches`, `HooksAlwaysMatch` | types and the safety properties of `GraphLoading` |
| `ThreadStates_proofs!TypeCorrect`, `MetadataAlwaysStays`, `PagesAreAlwaysComplete`, `WritesAlwaysStick` | types, `MetadataStays`, `PagesAreComplete`, `StateSticks`: all safety properties of `ThreadStates` |
| `CronClaim_proofs!TypeCorrect`, `ClaimsExclude`, `DuplicatesHaveReasons`, `LimitHolds` | `Spec => []TypeOK` and the invariants `ClaimExcludes`, `DuplicatesAreExcused`, `CapHoldsButForRaces` of `CronClaim` |
| `PromiseKept` | `Spec => CronPromise`: `CronClaim` implements the specification of `CronPromise` |
| `AssistantVersions_proofs!TypeCorrect`, `NumbersAreDense`, `LatestStaysRecorded`, `NewestIsCurrent`, `DefaultsAreEnsured` | `Spec => []TypeOK` and the four invariants of `AssistantVersions` |

Type correctness goes through one lemma per group of variables and per helper
(`Goto`, `Exit`, `CancelTasks`, `Register`, `ProcessEnds`, ...), then one step per
action. `TypeOK` includes that a slot has a run exactly while its task exists,
without which "the row of job[s]" means nothing.

The exclusion theorem has the inductive invariant `TypeOK /\
PendingIsClaimable /\ HealthyLeaseExcludes`. Uniqueness alone is not inductive:
it needs that nobody holds a run that is *up for grabs* (absent, pending or
expired), that a holder's row names its loop or nobody, and, for the step in
which a lease runs out, that a live lease belongs to a claimed row. The frame
lemma `ExclusionFrame` says that a step which admits no holder, hands no row to
another loop and puts no row up for grabs preserves it; all actions but
`Acquire` and `Expire` are instances. `Acquire` admits a holder, to a pending row
that has none; `Expire` puts a row up for grabs, and unless a stall is spent
nobody holds it.

`ClaimsAreSafe` follows from types alone: three UPDATEs end claims, and each
has its excuse in its WHERE clause but the last. `EntriesAlwaysNameTheirRun`
rests on `VacateKeepsNames`: ending tasks clears the entries of their runs.

The two bounds of `RunLease` are inductive once the row is part of the count.
`CrewBound`: a run that is up for grabs has no more holders than stalls, and so
has a claimed run none of whose holders owns the claim; `Acquire` uses the first,
a stall makes the second. `AttemptsPaid`: every attempt but the current one was
charged, forgotten with its reaper's tick, or will be charged by a reaper that has
reset the run (`Recovering`); the current one is paid for when a claim ends. A run
that is neither waiting nor claimed gets no other attempt. `NeverStarted` says of a
run without an attempt that nobody holds it, and that it is in no queue that counts
once its cancellation is persisted.

`LifecycleSpec` and `DoneMeansTerminal` are false in general: users overwrite
final states, stalled workers write into rows that are no longer theirs, and
departure (14) does the same without either. `QuietBudgets` allows any number of
outages and as many crashes as there are retries, and nothing else; the budget of
`crash_recovery` is of this kind. What holds then is `Calm`: a slot that works
on a run owns its row, which is running until the result is stored and final
afterwards (`SlotCalm`); the charges of a run, those under way and the one for a
claim whose owner is gone (`Orphan`) are no more than the crashes (`Due`), so a run
with complete parameters is never exhausted (`RowCalm`). One without them is,
but no slot gets past loading it. A step then moves a status as
`RunLifecycle` allows (`Moved`), reapers several rows at once.

`EndMeansOver` is not inductive: the end mark a client receives was in its inbox,
in the replay list or in the hands of an emitter before. `EndInv` adds that
while no cancellation was requested the listener is quiet (`ListenerQuiet`), and
that while moreover the row is active no end mark is being emitted, stored, on
its way or received (`NoEndYet`). A step that brings the first end mark into
being is the one that makes the row final. `TypeOK` of `EventStream` includes
that whoever iterates over a broker has one, registered or popped and finished;
the case to look at is clean-up under iterating clients (`CleanupType`).

`InOrder` speaks of what was received, and holds because of what is still on its
way. `StreamInv` says, as long as all ids come from one counter: an id names
one event among all that are stored, in flight, in an inbox or received
(`Numbered`); a data event in flight is the newest and nobody has it (`Fresh`),
since a listener at work has only ends to emit and the task it cancelled emits no
more data (`Exclusive`); the replay list is in order, and what is received or
published is in it or older than all in it (`Kept`). For each client it follows
that what it replays is newer than all it was sent, and that what it hears live
and its position would skip, it was sent (`Client`). `ClientAt` has the stage, the
inbox and the rest as parameters, so that a step of a client proves it about the
new values and any other step proves only that these have not changed.
`OnlyDuplicatesSkipped` needs in addition that without an outage Redis is
reachable, so that no id came from a clock.

In `RunWaits`, `WaitsInv` says where each request can be (`Places`), that one
request at most deletes the thread and that only a finished deletion leaves the
row gone; and, unless an attempt was cancelled, stalled or could not write, that
one attempt works and owns the row, that a key and a signal mean the end
(`KeyMeansEnd`, `SignalsTheEnd`), that who passed its wait saw the end and has read
the output (`Calm`). A reaper that marks a run failed while an attempt works on it
breaks all of this at once, and counts as a stall; a release changes nothing but the
owner of a row that is final.

In `LocalRuns` every invariant is about tasks that have not settled, from the
commit of their row to their last write. A task that executes is registered or
cancelled (`Registry`); its row says that it is active, unless it is cancelled
(`Accounted`); a deletion of its thread has it on its list or has cancelled it
(`Hunted`). Together they say that a deletion finds whom it must, and
`DeletedRunsStop` follows. `Ending`: a broker that is finished before the task has
its outcome was finished by a cancellation that the task is bound to notice, so
that the end event that is already out is what the task will write. `CleanInv`: an
ephemeral thread has one run, which is followed by its creator's stream while the
clean-up waits for that, or is cancelled; and whom the clean-up means to cancel is
over, cancelled or waited too long. `Complete`: a stream without a rival has got
1, ..., n, all in the buffer, and nothing was taken off the queue beyond n; since
every event goes into buffer and queue in one step, what replay leaves out is
still in the queue, and the queue's surplus is what the stream skips.

In `GraphLoading` what a request gets was decided when it began to await, by
tables that may have changed since. `IInv` says what the tables promise
(`TablesFresh`: nothing in them is older than the file was at the last
invalidation) and what is known of each request that awaits (`Sound`: that its
code is that of the tables, and why it is awaited), *unless it raced*. Who races
is in `raced` from the moment a table changes under it, which is why the excuse
is inductive. The lemmas `FailStep`, `UseStep`, `AwaitStep` say what a step of
one request has to show; each action is an instance.

In `ThreadStates`, `MetadataStays` is inductive with the types: what a write
hides is what the row holds beyond what the writer had read. `PagesAreComplete`
needs `Paged`: the pages a client has fall without gaps from a checkpoint not
older than the latest when it began (`Continued`: a page that begins below the
last one continues them), so that an empty page means that 1 was reached, or that
nobody looked (`blind`).

`StateSticks` is about ancestors, which are a recursive function over the line of
parents. Its invariant `Lineage` says nothing of them: a checkpoint has an earlier
parent, not before what its writer had seen when it began and not before what the
same writer put earlier (`Grown`); and whoever is about to put holds a base of this
kind (`GoesOn`). That this is enough (`Sticks`) is an induction, and the library's
rules for induction are out of the provers' reach, so it is done with sets: a
non-empty set of naturals has a least element (`Least`), hence the function that
`Ancestors` chooses exists and is the only one of its kind (`LinesExist`,
`LinesAgree`), the ancestors of a checkpoint are itself and those of its parent
(`AncestorsOfParent`), and the least checkpoint that lost something which should
have stuck has a parent which lost it before.

In `GraphEvents`, `StreamInv` says what the events that were put have to do with the
chunks that were taken. Every event is made of chunks that were handed over
(`Positioned`), so a new chunk is in new events only, and what was said of the old
ones remains. An interrupt has one event, of the one type (`Interrupted`); what is
accumulated of a message are its chunks, each once and in order (`Accumulating`), and
the last part that was sent of it is just that (`BuiltUp`), whichever messages came
between; the output is the last state, of the root once a graph that never paused is over
(`OutputKept`, `Phases`). One lemma says what the events of a chunk are (`Simple` for
those passed on, `Gathering` for those of a message), `WhenTaken` that taking any
chunk LangGraph may hand over (`Lawful`) preserves the invariant; the five actions
are instances.

In `CronClaim` exclusion rests on `ClaimInv`: a batch has one copy of a cron
(`Single`), and the row carries at least the claim of any copy (`Leased`), so that
whoever finds the row claimable finds nobody with a copy. Both speak of the crons
that no firing outlived (`overran`). `DuplicatesAreExcused` counts runs against
excuses, which is inductive only together with who holds what (`Good`): a fresh
copy is of an occurrence that has come; while one is held and its run not
created, every run so far has its excuse; when it is, all but one; and unless an
owner interfered (`touched`) a held copy is what the row says and advances no
cron without a run. Excuses and copies move together, so each action either has
nobody fresh afterwards or hands the copy on. The refinement follows from the
same invariant: most steps leave the phase of a cron alone, and of the others
each action of `CronClaim` is at most one step of `CronPromise` (`PromiseStep`). `LimitHolds`
is a counting argument of its own (`CapInv`): crons that no other creation
overtook between its count and its insert never exceed the limit, and a creation
that has counted still has room among them.

In `AssistantVersions` the invariant is stated per assistant (`Good`). Numbers
are dense (`Dense`) because a request that holds the next number holds at most
one more than there are (`Requested`) and the unique constraint refuses those that
are taken. What a request is about to apply is recorded already (`Requested`),
so the row is too; that it is the newest needs that without an overlap one
update at a time is at its second commit, and with a number not below the row's
(`Newest`). `Frame` says what a step that leaves an assistant alone has to show,
`FrameGood` that this is enough; only the step that touches the assistant is
argued in full. Ids that were reused under a request (`haunted`) keep nothing but
a highest number. `DefaultsInv` is about all assistants: a start inserts at least
what is missing, since nobody can delete a default, not being its owner.

Only model-checked: the six liveness properties, which need fairness and are
beyond the prover. Every safety property that a passing run checks is proved;
`DoneMeansTerminal` and the refinement `LifecycleSpec` under `QuietBudgets`, since
they are false without.

## 5. Not modelled

Within the modelled parts: contents of inputs, outputs and errors; trace
context; ordering of `created_at`; `WORKER_COUNT = 0`; invalid ids in the queue;
deadlines as numbers; the SSE text of events; listing, searching and counting,
which read one table in one statement. Not modelled at all: authentication and
authorization (per request, without state but a cached backend), store, RAG
and agents (calls of external services), HTTP plumbing, configuration and
observability. `PROJECT.json` lists them with reasons.

The code imports `aegra_api` in two places (`services/broker.py:185`,
`services/base_broker.py:100`), the name of the package before it was renamed;
the model takes these imports to mean the modules of this repository.

## 6. What is left

1. An abstract log with one cursor per client that `EventStream` implements where
   it keeps its promises.
2. The choice of the handler in `core/auth_handlers.py` as an operator with a
   reference definition.
3. Several runs per thread in the Redis mode, composed of `RunLease` and the
   thread endpoints of `LocalRuns`.
