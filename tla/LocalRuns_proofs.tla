-------------------------- MODULE LocalRuns_proofs --------------------------
(***************************************************************************)
(* Proofs about LocalRuns, for every number of runs, streams and threads,  *)
(* every number of events and every budget of disturbances.                *)
(***************************************************************************)
EXTENDS LocalRuns, TLAPS

USE ConstantsAssumption

-----------------------------------------------------------------------------
(* Types *)

Brokers == [here : BOOLEAN, put : Nat, taken : Nat,
            end : {"none"} \cup Terminal, finished : BOOLEAN, dropped : BOOLEAN]
Connections == [run : Runs \cup {None}, own : BOOLEAN, last : Nat, got : SUBSET Nat,
                step : {"idle", "opened", "live", "ended", "gone"}]
Deletions == [step : {"none", "cancel", "await", "delete"},
              todo : SUBSET Runs, now : Runs \cup {None}]
Phase == [Runs -> Phases]

RowsOK ==
    /\ thread \in [AllThreads -> ThreadStates]
    /\ status \in [Runs -> RunStates]
    /\ of \in [Runs -> AllThreads \cup {None}]
    /\ \A r \in Runs : of[r] = None <=> status[r] = "absent"
TasksOK == phase \in Phase /\ cancel \in [Runs -> BOOLEAN] /\ active \subseteq Runs
BrokersOK == broker \in [Runs -> Brokers] /\ \A r \in Runs : broker[r].taken <= broker[r].put
StreamsOK == stream \in [Streams -> Connections]
RequestsOK ==
    /\ clean \in [Runs -> {"none", "task", "stream", "client", "kept", "over", "failed"}]
    /\ deleting \in [AllThreads -> Deletions]
    /\ request \in [Runs -> {"none", "persist", "await", "delete"}]
HistoryOK ==
    /\ cut \subseteq Runs /\ stale \subseteq Runs /\ late \subseteq Runs /\ lost \subseteq Runs
    /\ expired \subseteq Runs /\ blank \subseteq Runs /\ overruled \subseteq Runs
BudgetOK == left \in [Bounded -> Nat]

LEMMA TypeParts ==
    /\ TypeOK <=> /\ RowsOK /\ TasksOK /\ BrokersOK /\ StreamsOK /\ RequestsOK
                  /\ HistoryOK /\ BudgetOK
    /\ TypeOK' <=> /\ RowsOK' /\ TasksOK' /\ BrokersOK' /\ StreamsOK' /\ RequestsOK'
                   /\ HistoryOK' /\ BudgetOK'
BY DEF TypeOK, RowsOK, TasksOK, BrokersOK, StreamsOK, RequestsOK, HistoryOK, BudgetOK,
       Brokers, Connections, Deletions, Phase

LEMMA PartsKept ==
    /\ RowsOK /\ UNCHANGED rowVars => RowsOK'
    /\ TasksOK /\ UNCHANGED taskVars => TasksOK'
    /\ BrokersOK /\ UNCHANGED broker => BrokersOK'
    /\ StreamsOK /\ UNCHANGED stream => StreamsOK'
    /\ RequestsOK /\ UNCHANGED reqVars => RequestsOK'
    /\ HistoryOK /\ UNCHANGED histVars => HistoryOK'
    /\ BudgetOK /\ UNCHANGED left => BudgetOK'
BY DEF RowsOK, TasksOK, BrokersOK, StreamsOK, RequestsOK, HistoryOK, BudgetOK,
       rowVars, taskVars, reqVars, histVars

\* Where things are: only a run that was created has a task, a request or a
\* clean-up, and the latter only when the task was submitted; a cancellation is
\* due only for a task that is alive; a deletion cancels runs of its thread.
Begun ==
    \A r \in Runs :
        /\ phase[r] # "none" \/ request[r] # "none" \/ clean[r] # "none" => status[r] # "absent"
        /\ phase[r] \in {"none", "prepared"} => clean[r] = "none"
        /\ cancel[r] => phase[r] \in Alive
Followed == \A k \in Streams : stream[k].step # "idle" <=> stream[k].run \in Runs
Chosen == \A t \in AllThreads : \A r \in deleting[t].todo : of[r] = t
Places == Begun /\ Followed /\ Chosen

TypeInv == TypeOK /\ Places

LEMMA SetFacts ==
    /\ "faults" \in Bounded /\ "runs" \in Bounded /\ "streams" \in Bounded
    /\ Finalizing \subseteq Alive /\ Alive \subseteq Phases
    /\ Terminal \cap Active = {}
BY DEF Bounded, Finalizing, Alive, Phases, Terminal, Active

LEMMA SpendType == ASSUME BudgetOK, NEW kind \in Bounded, Spend(kind) PROVE BudgetOK'
BY DEF BudgetOK, Spend

\* What putting events does to a broker: they are appended to its buffer, and
\* an end event finishes it, unless it is finished already.
LEMMA PutType ==
    ASSUME NEW b \in Brokers, b.taken <= b.put, NEW n \in Nat,
           NEW end \in {"none"} \cup Terminal
    PROVE  /\ Put(b, n, end) \in Brokers
           /\ Put(b, n, end).taken = b.taken /\ b.put <= Put(b, n, end).put
           /\ Put(b, n, end).dropped = b.dropped
           /\ b.finished => Put(b, n, end) = b
           /\ ~b.finished => /\ Put(b, n, end).end = end /\ Put(b, n, end).here
                             /\ Put(b, n, end).finished <=> end # "none"
<1>1. CASE b.finished BY <1>1 DEF Put, Brokers
<1>2. CASE ~b.finished
  <2> DEFINE c == [b EXCEPT !.here = TRUE, !.put = @ + n, !.end = end, !.finished = end # "none"]
  <2>1. Put(b, n, end) = c BY <1>2 DEF Put
  <2>2. /\ c.taken = b.taken /\ c.put = b.put + n /\ c.end = end /\ c.finished = (end # "none")
        /\ c.here /\ c.dropped = b.dropped /\ c \in Brokers
    <3>1. /\ b.put + n \in Nat /\ b.taken \in Nat /\ (end # "none") \in BOOLEAN
          /\ DOMAIN b = {"here", "put", "taken", "end", "finished", "dropped"}
      BY DEF Brokers
    <3> QED BY <3>1 DEF Brokers
  <2>3. b.put \in Nat /\ b.put <= b.put + n BY DEF Brokers
  <2> HIDE DEF c
  <2> QED BY <1>2, <2>1, <2>2, <2>3
<1> QED BY <1>1, <1>2

\* A run whose broker is gone.
LEMMA DroppedType ==
    ASSUME NEW d \in BOOLEAN
    PROVE  /\ NoBroker(d) \in Brokers
           /\ NoBroker(d).taken <= NoBroker(d).put
           /\ NoBroker(d).dropped = d
BY DEF NoBroker, Brokers

LEMMA FinishType ==
    ASSUME NEW b \in Brokers
    PROVE  /\ Finish(b) \in Brokers /\ Finish(b).taken = b.taken /\ Finish(b).put = b.put
           /\ Finish(b).dropped = b.dropped
           /\ Finish(b).end = b.end /\ Finish(b).here = b.here /\ Finish(b).finished = b.here
BY DEF Finish, Brokers

\* The end event a run leaves: none, or the one of its outcome, unless the
\* buffer had one.
LEMMA SignalType ==
    ASSUME NEW b \in Brokers, b.taken <= b.put, NEW how \in Finalizing
    PROVE  /\ Signal(b, how) \in Brokers
           /\ Signal(b, how).taken = b.taken /\ b.put <= Signal(b, how).put
           /\ Signal(b, how).dropped = b.dropped
           /\ b.finished => Signal(b, how) = b
           /\ ~b.finished => \/ Signal(b, how) = b
                             \/ Signal(b, how).end = RunOutcome(how) /\ Signal(b, how).here
<1> USE DEF Finalizing, Terminal
<1>1. 1 \in Nat /\ 2 \in Nat OBVIOUS
<1>2. CASE how \in {"success", "pause"}
  <2>1. Signal(b, how) = IF b.here THEN Put(b, 1, RunOutcome(how)) ELSE b
    BY <1>2 DEF Signal, RunOutcome
  <2>2. RunOutcome(how) \in Terminal BY <1>2 DEF RunOutcome
  <2>3. b.put \in Nat BY DEF Brokers
  <2> QED BY <2>1, <2>2, <2>3, <1>1, PutType
<1>3. CASE how = "undo"
  <2>1. Signal(b, how) = Put(b, 1, "interrupted") /\ RunOutcome(how) = "interrupted"
    BY <1>3 DEF Signal, RunOutcome
  <2> QED BY <2>1, <1>1, PutType
<1>4. CASE how = "fail"
  <2>1. Signal(b, how) = Put(b, 2, "error") /\ RunOutcome(how) = "error"
    BY <1>4 DEF Signal, RunOutcome
  <2> QED BY <2>1, <1>1, PutType
<1> QED BY <1>2, <1>3, <1>4

\* A cancellation reaches the task of a registered run that is alive, tells its
\* streams, and touches no other run.
LEMMA CancelEffect ==
    ASSUME TasksOK, BrokersOK, NEW r \in Runs, RequestCancel(r)
    PROVE  /\ cancel' \in [Runs -> BOOLEAN] /\ BrokersOK'
           /\ \A q \in Runs \ {r} : cancel'[q] = cancel[q] /\ broker'[q] = broker[q]
           /\ r \in active /\ phase[r] \in Alive => cancel'[r]
           /\ ~(r \in active /\ phase[r] \in Alive) => cancel'[r] = cancel[r]
           /\ cancel[r] => cancel'[r]
           /\ \/ broker'[r] = broker[r]
              \/ cancel'[r] /\ broker'[r] = Put(broker[r], 1, "interrupted")
<1> USE DEF TasksOK, BrokersOK
<1>1. CASE r \in active /\ phase[r] \in Alive
  <2>1. /\ cancel' = [cancel EXCEPT ![r] = TRUE]
        /\ broker' = [broker EXCEPT ![r] = Put(@, 1, "interrupted")]
    BY <1>1 DEF RequestCancel
  <2>2. /\ Put(broker[r], 1, "interrupted") \in Brokers
        /\ Put(broker[r], 1, "interrupted").taken = broker[r].taken
        /\ broker[r].put <= Put(broker[r], 1, "interrupted").put
        /\ broker[r].taken <= broker[r].put
    BY PutType DEF Terminal
  <2>3. /\ \A q \in Runs \ {r} : cancel'[q] = cancel[q] /\ broker'[q] = broker[q]
        /\ cancel'[r] /\ broker'[r] = Put(broker[r], 1, "interrupted")
        /\ cancel' \in [Runs -> BOOLEAN] /\ broker' \in [Runs -> Brokers]
    BY <2>1, <2>2
  <2>4. broker'[r].taken <= broker'[r].put
    <3>1. /\ broker[r].taken \in Nat /\ broker[r].put \in Nat
          /\ Put(broker[r], 1, "interrupted").put \in Nat
      BY <2>2 DEF Brokers
    <3> QED BY <2>2, <2>3, <3>1
  <2> QED BY <1>1, <2>3, <2>4
<1>2. CASE ~(r \in active /\ phase[r] \in Alive) BY <1>2 DEF RequestCancel
<1> QED BY <1>1, <1>2

\* The rows after a run's outcome was written: its own, and its thread's.
LEMMA OutcomeEffect ==
    ASSUME RowsOK, HistoryOK, NEW r \in Runs, status[r] # "absent", NEW how \in Finalizing,
           WriteOutcome(r, how), UNCHANGED of
    PROVE  /\ RowsOK' /\ stale' \subseteq Runs
           /\ \A q \in Runs \ {r} : status'[q] = status[q]
           /\ status'[r] = IF Row(r) THEN RunOutcome(how) ELSE status[r]
           /\ \A t \in AllThreads :
                 thread'[t] = thread[t] \/ (t = of[r] /\ thread'[t] # "busy" /\ thread[t] # "none")
           /\ of[r] \in AllThreads /\ thread'[of[r]] # "busy"
<1> USE DEF RowsOK
<1>1. RunOutcome(how) \in Terminal /\ ThreadOutcome(how) \in ThreadStates \ {"none", "busy"}
  BY DEF RunOutcome, ThreadOutcome, Finalizing, Terminal, ThreadStates
<1>2. of[r] \in AllThreads OBVIOUS
<1>3. /\ status' \in [Runs -> RunStates]
      /\ \A q \in Runs \ {r} : status'[q] = status[q]
      /\ status'[r] = IF Row(r) THEN RunOutcome(how) ELSE status[r]
  BY <1>1 DEF WriteOutcome, RunStates
<1>4. /\ thread' \in [AllThreads -> ThreadStates]
      /\ \A t \in AllThreads :
            thread'[t] = thread[t] \/ (t = of[r] /\ thread'[t] # "busy" /\ thread[t] # "none")
      /\ thread'[of[r]] # "busy"
  BY <1>1, <1>2 DEF WriteOutcome
<1>5. stale' \subseteq Runs BY DEF WriteOutcome, HistoryOK, OnThread
<1>6. \A q \in Runs : of'[q] = None <=> status'[q] = "absent"
  BY <1>1, <1>3 DEF Terminal, Row
<1> QED BY <1>2, <1>3, <1>4, <1>5, <1>6

\* The end of a task: nothing of another run changes.
LEMMA LeaveEffect ==
    ASSUME TasksOK, BrokersOK, NEW r \in Runs, NEW b \in Brokers, b.taken <= b.put,
           LeaveWith(r, b)
    PROVE  /\ TasksOK' /\ BrokersOK'
           /\ phase' = [phase EXCEPT ![r] = "done"] /\ cancel' = [cancel EXCEPT ![r] = FALSE]
           /\ active' = active \ {r} /\ broker' = [broker EXCEPT ![r] = Finish(b)]
<1> USE DEF LeaveWith, Over, Become
<1>1. TasksOK' BY DEF TasksOK, Phase, Phases
<1>2. BrokersOK' BY FinishType DEF BrokersOK
<1> QED BY <1>1, <1>2

LEMMA BecomeType ==
    ASSUME TasksOK, NEW r \in Runs, NEW ph \in Phases, Become(r, ph)
    PROVE  phase' \in Phase
BY DEF TasksOK, Become, Phase

LEMMA RunningType ==
    ASSUME RowsOK, NEW r \in Runs, WriteRunning(r), UNCHANGED <<thread, of>>
    PROVE  RowsOK'
BY DEF RowsOK, WriteRunning, Row, RunStates, Active

LEMMA BeginDeleteType ==
    ASSUME RequestsOK, NEW t \in AllThreads, BeginDelete(t)
    PROVE  deleting' \in [AllThreads -> Deletions]
BY DEF RequestsOK, BeginDelete, Deletions, OnThread

\* The type of each variable survives a step of a run's task.
LEMMA TaskType ==
    ASSUME TypeInv, NEW r \in Runs, Task(r) \/ Emit(r) \/ FinalizeFails(r) \/ SweepBroker(r)
    PROVE  TypeOK'
<1> USE TypeParts, PartsKept, SetFacts DEF TypeInv
<1>1. ASSUME NEW how \in {"none", "task", "stream", "client"}, Submit(r, how) PROVE TypeOK'
  <2>1. TasksOK' BY <1>1 DEF Submit, TasksOK, Phase, Phases, Alive
  <2>2. StreamsOK' /\ BudgetOK'
    <3>1. CASE UNCHANGED <<stream, left>> BY <3>1
    <3>2. CASE OwnStream(r)
      <4>1. PICK k \in Streams :
               /\ Spend("streams")
               /\ stream' = [stream EXCEPT ![k] =
                     [run |-> r, own |-> TRUE, step |-> "opened", last |-> 0, got |-> {}]]
        BY <3>2 DEF OwnStream
      <4>2. [run |-> r, own |-> TRUE, step |-> "opened", last |-> 0, got |-> {}] \in Connections
        BY DEF Connections
      <4>3. StreamsOK' BY <4>1, <4>2 DEF StreamsOK
      <4> QED BY <4>1, <4>3, SpendType
    <3> QED BY <1>1, <3>1, <3>2 DEF Submit
  <2>3. RequestsOK' BY <1>1 DEF Submit, RequestsOK
  <2>4. HistoryOK' BY <1>1 DEF Submit, HistoryOK
  <2>5. UNCHANGED <<rowVars, broker>> BY <1>1 DEF Submit
  <2> QED BY <2>1, <2>2, <2>3, <2>4, <2>5
<1>2. ASSUME Begin(r) PROVE TypeOK'
  <2>1. TasksOK' BY <1>2 DEF Begin, Over, Become, TasksOK, Phase, Phases, Alive
  <2>2. HistoryOK' BY <1>2 DEF Begin, HistoryOK
  <2> QED BY <2>1, <2>2, <1>2 DEF Begin
<1>3. ASSUME Start(r) PROVE TypeOK'
  <2>1. RowsOK' BY <1>3, RunningType DEF Start
  <2>2. TasksOK' BY <1>3, BecomeType DEF Start, TasksOK, Phases, Alive
  <2> QED BY <2>1, <2>2, <1>3 DEF Start
<1>4. ASSUME NEW how \in Finalizing, GraphEnds(r, how) PROVE TypeOK'
  <2>1. TasksOK' BY <1>4, BecomeType DEF GraphEnds, TasksOK
  <2> QED BY <2>1, <1>4 DEF GraphEnds
<1>5. ASSUME Finalize(r) PROVE TypeOK'
  <2>1. status[r] # "absent" /\ phase[r] \in Finalizing
    BY <1>5 DEF Finalize, Places, Begun, Finalizing
  <2>2. RowsOK' /\ stale' \subseteq Runs BY <2>1, <1>5, OutcomeEffect DEF Finalize
  <2>3. broker[r] \in Brokers /\ broker[r].taken <= broker[r].put BY DEF BrokersOK
  <2> DEFINE b == Signal(broker[r], phase[r])
  <2>4. b \in Brokers /\ b.taken <= b.put
    <3>1. b \in Brokers /\ b.taken = broker[r].taken /\ broker[r].put <= b.put
      BY <2>1, <2>3, SignalType
    <3>2. b.put \in Nat /\ broker[r].taken \in Nat /\ broker[r].put \in Nat
      BY <2>3, <3>1 DEF Brokers
    <3> HIDE DEF b
    <3> QED BY <2>3, <3>1, <3>2
  <2>5. LeaveWith(r, b) BY <1>5 DEF Finalize
  <2> HIDE DEF b
  <2>6. TasksOK' /\ BrokersOK' BY <2>4, <2>5, LeaveEffect
  <2>7. HistoryOK' BY <2>2, <1>5 DEF Finalize, HistoryOK
  <2> QED BY <2>2, <2>6, <2>7, <1>5 DEF Finalize
<1>6. ASSUME Cancelled(r) PROVE TypeOK'
  <2>1. status[r] # "absent" BY <1>6 DEF Cancelled, Places, Begun
  <2>2. TasksOK'
    <3>1. phase' \in Phase BY <1>6, BecomeType DEF Cancelled, Finalizing, Alive, Phases
    <3> QED BY <3>1, <1>6 DEF Cancelled, TasksOK
  <2>3. RowsOK' /\ stale' \subseteq Runs
    <3>1. CASE UNCHANGED <<status, thread, stale>>
      BY <3>1, <1>6 DEF Cancelled, RowsOK, HistoryOK
    <3>2. CASE phase[r] = "start" /\ WriteRunning(r) /\ UNCHANGED <<thread, stale>>
      BY <3>2, <1>6, RunningType DEF Cancelled, HistoryOK
    <3>3. CASE phase[r] \in Finalizing /\ WriteOutcome(r, phase[r])
      BY <3>3, <2>1, <1>6, OutcomeEffect DEF Cancelled
    <3> QED BY <1>6, <3>1, <3>2, <3>3 DEF Cancelled
  <2>4. HistoryOK' BY <2>3, <1>6 DEF Cancelled, HistoryOK
  <2> QED BY <2>2, <2>3, <2>4, <1>6 DEF Cancelled
<1>7. ASSUME CancelledTwice(r) PROVE TypeOK'
  <2>1. status[r] # "absent" /\ phase[r] \in Finalizing
    BY <1>7 DEF CancelledTwice, Places, Begun, Finalizing
  <2>2. RowsOK' /\ stale' \subseteq Runs
    <3>1. CASE UNCHANGED <<status, thread, stale>>
      BY <3>1, <1>7 DEF CancelledTwice, RowsOK, HistoryOK
    <3>2. CASE WriteOutcome(r, phase[r])
      BY <3>2, <2>1, <1>7, OutcomeEffect DEF CancelledTwice
    <3> QED BY <1>7, <3>1, <3>2 DEF CancelledTwice
  <2>3. TasksOK' /\ BrokersOK' BY <1>7, LeaveEffect DEF CancelledTwice, BrokersOK
  <2>4. HistoryOK' BY <2>2, <1>7 DEF CancelledTwice, HistoryOK
  <2> QED BY <2>2, <2>3, <2>4, <1>7 DEF CancelledTwice
<1>8. ASSUME Emit(r) PROVE TypeOK'
  <2> DEFINE b == Put(broker[r], 1, "none")
  <2>1. broker[r] \in Brokers /\ broker[r].taken <= broker[r].put BY DEF BrokersOK
  <2>2. b \in Brokers /\ b.taken <= b.put
    <3>1. b \in Brokers /\ b.taken = broker[r].taken /\ broker[r].put <= b.put
      BY <2>1, PutType
    <3>2. b.put \in Nat /\ broker[r].taken \in Nat /\ broker[r].put \in Nat
      BY <2>1, <3>1 DEF Brokers
    <3> HIDE DEF b
    <3> QED BY <2>1, <3>1, <3>2
  <2>3. broker' = [broker EXCEPT ![r] = b] BY <1>8 DEF Emit
  <2> HIDE DEF b
  <2>4. BrokersOK' BY <2>2, <2>3 DEF BrokersOK
  <2> QED BY <2>4, <1>8 DEF Emit
<1>9. ASSUME FinalizeFails(r) PROVE TypeOK'
  <2>1. TasksOK' /\ BrokersOK' /\ cut' \subseteq Runs
    <3>1. CASE Become(r, "fail") /\ UNCHANGED <<cancel, active, broker, cut>>
      BY <3>1, BecomeType DEF TasksOK, HistoryOK, Finalizing
    <3>2. CASE LeaveWith(r, broker[r]) /\ cut' = cut \cup {r}
      BY <3>2, LeaveEffect DEF BrokersOK, HistoryOK
    <3> QED BY <1>9, <3>1, <3>2 DEF FinalizeFails
  <2>2. BudgetOK' BY <1>9, SpendType DEF FinalizeFails
  <2>3. HistoryOK' BY <2>1, <1>9 DEF FinalizeFails, HistoryOK
  <2> QED BY <2>1, <2>2, <2>3, <1>9 DEF FinalizeFails
<1>10. ASSUME SweepBroker(r) PROVE TypeOK'
  <2> DEFINE none == NoBroker(TRUE)
  <2>1. none \in Brokers /\ none.taken <= none.put BY DroppedType
  <2>2. BrokersOK'
    <3>1. broker' = [broker EXCEPT ![r] = none] BY <1>10 DEF SweepBroker
    <3> HIDE DEF none
    <3> QED BY <2>1, <3>1 DEF BrokersOK
  <2>3. BudgetOK' BY <1>10, SpendType DEF SweepBroker
  <2>4. StreamsOK' BY <1>10, SMTT(30) DEF SweepBroker, StreamsOK, Connections
  <2> QED BY <2>2, <2>3, <2>4, <1>10 DEF SweepBroker
<1> QED BY <1>1, <1>2, <1>3, <1>4, <1>5, <1>6, <1>7, <1>8, <1>9, <1>10 DEF Task

LEMMA RequestType ==
    ASSUME TypeInv, NEW r \in Runs,
           CancelRun(r) \/ DeleteRun(r) \/ Request(r) \/ ClientGoes(r)
    PROVE  TypeOK'
<1> USE TypeParts, PartsKept, SetFacts DEF TypeInv
<1>1. ASSUME CancelRun(r) PROVE TypeOK'
  <2>1. TasksOK' /\ BrokersOK' BY <1>1, CancelEffect DEF CancelRun, TasksOK
  <2>2. RequestsOK' BY <1>1 DEF CancelRun, RequestsOK
  <2> QED BY <2>1, <2>2, <1>1, SpendType DEF CancelRun
<1>2. ASSUME DeleteRun(r) PROVE TypeOK'
  <2>1. TasksOK' /\ BrokersOK'
    <3>1. CASE RequestCancel(r) BY <3>1, <1>2, CancelEffect DEF DeleteRun, TasksOK
    <3>2. CASE UNCHANGED <<cancel, broker>> BY <3>2, <1>2 DEF DeleteRun, TasksOK, BrokersOK
    <3> QED BY <1>2, <3>1, <3>2 DEF DeleteRun
  <2>2. RequestsOK' BY <1>2 DEF DeleteRun, RequestsOK
  <2> QED BY <2>1, <2>2, <1>2, SpendType DEF DeleteRun
<1>3. ASSUME PersistCancel(r) PROVE TypeOK'
  <2>1. RowsOK' BY <1>3 DEF PersistCancel, RowsOK, Row, RunStates, Terminal
  <2>2. RequestsOK' BY <1>3 DEF PersistCancel, RequestsOK
  <2>3. HistoryOK' BY <1>3 DEF PersistCancel, HistoryOK
  <2> QED BY <2>1, <2>2, <2>3, <1>3 DEF PersistCancel
<1>4. ASSUME AwaitTask(r) PROVE TypeOK'
  <2>1. RequestsOK' BY <1>4 DEF AwaitTask, RequestsOK
  <2> QED BY <2>1, <1>4 DEF AwaitTask
<1>5. ASSUME DeleteRow(r) PROVE TypeOK'
  <2>1. RowsOK'
    <3>1. status[r] # "absent" BY <1>5 DEF DeleteRow, Places, Begun
    <3> QED BY <3>1, <1>5 DEF DeleteRow, RowsOK, RunStates
  <2>2. TasksOK' BY <1>5 DEF DeleteRow, TasksOK, Waits
  <2>3. RequestsOK' BY <1>5 DEF DeleteRow, RequestsOK
  <2>4. HistoryOK' BY <1>5 DEF DeleteRow, HistoryOK
  <2> QED BY <2>1, <2>2, <2>3, <2>4, <1>5 DEF DeleteRow
<1>6. ASSUME CleanUp(r) PROVE TypeOK'
  <2>1. of[r] \in AllThreads BY <1>6 DEF CleanUp, Places, Begun, RowsOK
  <2>2. RequestsOK' BY <2>1, <1>6, BeginDeleteType DEF CleanUp, RequestsOK
  <2>3. BudgetOK' /\ expired' \subseteq Runs
    BY <1>6, SpendType DEF CleanUp, BudgetOK, HistoryOK
  <2>4. HistoryOK' BY <2>3, <1>6 DEF CleanUp, HistoryOK
  <2> QED BY <2>2, <2>3, <2>4, <1>6 DEF CleanUp
<1>7. ASSUME ClientGoes(r) PROVE TypeOK'
  <2>1. RequestsOK' BY <1>7 DEF ClientGoes, RequestsOK
  <2> QED BY <2>1, <1>7, SpendType DEF ClientGoes
<1> QED BY <1>1, <1>2, <1>3, <1>4, <1>5, <1>6, <1>7 DEF Request

LEMMA StreamType ==
    ASSUME TypeInv, NEW k \in Streams,
           \/ Stream(k) \/ Disconnect(k)
           \/ \E r \in Runs, last \in 0 .. MaxEvents : Open(k, r, last)
    PROVE  TypeOK'
<1> USE TypeParts, PartsKept, SetFacts DEF TypeInv
<1> DEFINE run == stream[k].run
<1>1. stream[k] \in Connections /\ (run \in Runs => broker[run] \in Brokers)
  BY DEF StreamsOK, BrokersOK
<1>2. stream[k].step # "idle" => run \in Runs BY DEF Places, Followed
<1>3. ASSUME Replay(k) PROVE TypeOK'
  <2>1. run \in Runs BY <1>2, <1>3 DEF Replay
  <2>2. BrokersOK'
    <3> DEFINE b == [broker[run] EXCEPT !.here = TRUE]
    <3>1. broker' = [broker EXCEPT ![run] = b] BY <1>3 DEF Replay
    <3>2. b \in Brokers /\ b.taken = broker[run].taken /\ b.put = broker[run].put
      BY <1>1, <2>1 DEF Brokers
    <3> HIDE DEF b
    <3> QED BY <3>1, <3>2, <2>1 DEF BrokersOK
  <2>3. StreamsOK'
    <3> DEFINE n == broker[run].put
               s == [stream[k] EXCEPT !.step = "live", !.got = @ \cup (1 .. n),
                                      !.last = IF n > @ THEN n ELSE @]
    <3>1. stream' = [stream EXCEPT ![k] = s] BY <1>3 DEF Replay
    <3>2. s \in Connections
      <4>1. n \in Nat /\ stream[k].last \in Nat BY <1>1, <2>1 DEF Brokers, Connections
      <4>2. 1 .. n \subseteq Nat BY <4>1
      <4> HIDE DEF n
      <4> QED BY <1>1, <4>1, <4>2 DEF Connections
    <3> HIDE DEF s
    <3> QED BY <3>1, <3>2 DEF StreamsOK
  <2>4. HistoryOK' BY <2>1, <1>3 DEF Replay, HistoryOK
  <2> QED BY <2>2, <2>3, <2>4, <1>3 DEF Replay
<1>4. ASSUME Take(k) PROVE TypeOK'
  <2> DEFINE n == broker[run].taken + 1
             s == [stream[k] EXCEPT
                      !.step = IF n = broker[run].put /\ broker[run].end # "none" THEN "ended" ELSE "live",
                      !.got = IF IsNew(k, n) THEN @ \cup {n} ELSE @,
                      !.last = IF IsNew(k, n) THEN n ELSE @]
  <2>1. run \in Runs BY <1>2, <1>4 DEF Take
  <2>2. n \in Nat /\ n <= broker[run].put
    <3>1. n <= broker[run].put BY <1>4 DEF Take
    <3>2. broker[run].taken \in Nat BY <1>1, <2>1 DEF Brokers
    <3> QED BY <3>1, <3>2
  <2>3. broker' = [broker EXCEPT ![run].taken = n] BY <1>4 DEF Take
  <2>4. BrokersOK' BY <2>1, <2>2, <2>3 DEF BrokersOK, Brokers
  <2>5. stream' = [stream EXCEPT ![k] = s] BY <1>4 DEF Take
  <2>6. s \in Connections
    <3> HIDE DEF n, run
    <3> QED BY <1>1, <2>2 DEF Connections
  <2> HIDE DEF s
  <2>7. StreamsOK' BY <2>5, <2>6 DEF StreamsOK
  <2> QED BY <2>4, <2>7, <1>4 DEF Take
<1>5. ASSUME Drained(k) PROVE TypeOK'
  <2>1. StreamsOK' BY <1>5 DEF Drained, StreamsOK, Connections
  <2> QED BY <2>1, <1>5 DEF Drained
<1>6. ASSUME Disconnect(k) PROVE TypeOK'
  <2>1. run \in Runs BY <1>2, <1>6 DEF Disconnect
  <2>2. StreamsOK' BY <1>6 DEF Disconnect, StreamsOK, Connections
  <2>3. TasksOK' /\ BrokersOK'
    <3>1. CASE RequestCancel(run) BY <2>1, <3>1, <1>6, CancelEffect DEF Disconnect, TasksOK
    <3>2. CASE UNCHANGED <<cancel, broker>> BY <3>2, <1>6 DEF Disconnect, TasksOK, BrokersOK
    <3> QED BY <1>6, <3>1, <3>2 DEF Disconnect
  <2>4. RequestsOK' BY <2>1, <1>6 DEF Disconnect, RequestsOK
  <2>5. BudgetOK' BY <1>6, SpendType DEF Disconnect
  <2> QED BY <2>2, <2>3, <2>4, <2>5, <1>6 DEF Disconnect
<1>7. ASSUME NEW r \in Runs, NEW last \in 0 .. MaxEvents, Open(k, r, last) PROVE TypeOK'
  <2> DEFINE s == [run |-> r, own |-> FALSE, step |-> "opened", last |-> last, got |-> 1 .. last]
  <2>1. stream' = [stream EXCEPT ![k] = s] BY <1>7 DEF Open
  <2>2. last \in Nat /\ 1 .. last \in SUBSET Nat OBVIOUS
  <2>3. s \in Connections BY <2>2 DEF Connections
  <2> HIDE DEF s
  <2>4. StreamsOK' BY <2>1, <2>3 DEF StreamsOK
  <2>5. BudgetOK' BY <1>7, SpendType DEF Open
  <2> QED BY <2>4, <2>5, <1>7 DEF Open
<1> QED BY <1>3, <1>4, <1>5, <1>6, <1>7 DEF Stream

LEMMA ThreadType ==
    ASSUME TypeInv, NEW t \in AllThreads,
           \/ Deletion(t) \/ DropFails(t) \/ CreateThread(t) \/ DeleteThread(t)
           \/ \E r \in Runs : CreateRun(r, t)
    PROVE  TypeOK'
<1> USE TypeParts, PartsKept, SetFacts DEF TypeInv
<1>1. ASSUME NEW r \in Runs, CancelNext(t, r) PROVE TypeOK'
  <2>1. TasksOK' /\ BrokersOK' BY <1>1, CancelEffect DEF CancelNext, TasksOK
  <2>2. RequestsOK'
    <3> DEFINE d == [step |-> IF Waits(r) THEN "await" ELSE "cancel",
                     todo |-> deleting[t].todo \ {r}, now |-> r]
    <3>1. deleting' = [deleting EXCEPT ![t] = d] BY <1>1 DEF CancelNext
    <3>2. d \in Deletions BY DEF RequestsOK, Deletions
    <3> HIDE DEF d
    <3> QED BY <3>1, <3>2, <1>1 DEF CancelNext, RequestsOK
  <2>3. HistoryOK' BY <1>1 DEF CancelNext, HistoryOK
  <2> QED BY <2>1, <2>2, <2>3, <1>1 DEF CancelNext
<1>2. ASSUME AwaitCancelled(t) PROVE TypeOK'
  <2>1. RequestsOK' BY <1>2 DEF AwaitCancelled, RequestsOK, Deletions
  <2> QED BY <2>1, <1>2 DEF AwaitCancelled
<1>3. ASSUME DropThread(t) PROVE TypeOK'
  <2>1. RowsOK' BY <1>3 DEF DropThread, RowsOK, ThreadStates, RunStates, AllThreads
  <2>2. RequestsOK' BY <1>3 DEF DropThread, RequestsOK, Deletions, NotDeleting
  <2>3. HistoryOK' BY <1>3 DEF DropThread, HistoryOK, OnThread
  <2> QED BY <2>1, <2>2, <2>3, <1>3 DEF DropThread
<1>4. ASSUME CreateThread(t) PROVE TypeOK'
  <2>1. RowsOK' BY <1>4 DEF CreateThread, RowsOK, ThreadStates
  <2> QED BY <2>1, <1>4 DEF CreateThread
<1>5. ASSUME DeleteThread(t) PROVE TypeOK'
  <2>1. RequestsOK' BY <1>5, BeginDeleteType DEF DeleteThread, RequestsOK
  <2>2. BudgetOK' BY <1>5, SpendType DEF DeleteThread
  <2> QED BY <2>1, <2>2, <1>5 DEF DeleteThread
<1>6. ASSUME NEW r \in Runs, CreateRun(r, t) PROVE TypeOK'
  <2>1. Prepare(r, t) BY <1>6 DEF CreateRun
  <2>2. RowsOK'
    <3>1. /\ status' = [status EXCEPT ![r] = "pending"] /\ of' = [of EXCEPT ![r] = t]
          /\ thread' = [thread EXCEPT ![t] = "busy"]
      BY <2>1 DEF Prepare
    <3>2. t # None BY DEF AllThreads
    <3> QED BY <3>1, <3>2 DEF RowsOK, RunStates, Active, ThreadStates
  <2>3. TasksOK' BY <2>1 DEF Prepare, TasksOK, Phase, Phases
  <2>4. HistoryOK' BY <2>1 DEF Prepare, HistoryOK
  <2>5. BudgetOK' BY <2>1, SpendType DEF Prepare
  <2> QED BY <2>1, <2>2, <2>3, <2>4, <2>5 DEF Prepare
<1>7. ASSUME DropFails(t) PROVE TypeOK'
  <2>1. RequestsOK' BY <1>7 DEF DropFails, RequestsOK, Deletions, NotDeleting
  <2>2. BudgetOK' BY <1>7, SpendType DEF DropFails
  <2> QED BY <2>1, <2>2, <1>7 DEF DropFails
<1> QED BY <1>1, <1>2, <1>3, <1>4, <1>5, <1>6, <1>7 DEF Deletion

LEMMA ProcessType == ASSUME TypeInv, Stop \/ Crash PROVE TypeOK'
<1> USE TypeParts, PartsKept, SetFacts DEF TypeInv
<1>1. ASSUME Stop PROVE TypeOK'
  <2>1. TasksOK' BY <1>1 DEF Stop, TasksOK, Waits
  <2>2. HistoryOK' BY <1>1 DEF Stop, HistoryOK
  <2>3. BudgetOK' BY <1>1 DEF Stop, BudgetOK
  <2> QED BY <2>1, <2>2, <2>3, <1>1 DEF Stop
<1>2. ASSUME Crash PROVE TypeOK'
  <2>1. TasksOK' BY <1>2 DEF Crash, TasksOK, Phase, Phases
  <2>2. BrokersOK'
    <3> DEFINE none(r) == NoBroker(broker[r].here \/ broker[r].dropped)
    <3>1. broker' = [r \in Runs |-> none(r)] BY <1>2 DEF Crash
    <3>2. ASSUME NEW r \in Runs PROVE none(r) \in Brokers /\ none(r).taken <= none(r).put
      <4>1. broker[r] \in Brokers BY DEF BrokersOK
      <4>2. (broker[r].here \/ broker[r].dropped) \in BOOLEAN OBVIOUS
      <4> QED BY <4>2, DroppedType
    <3> HIDE DEF none
    <3> QED BY <3>1, <3>2 DEF BrokersOK
  <2>3. StreamsOK'
    <3>1. ASSUME NEW k \in Streams PROVE [stream[k] EXCEPT !.step = "gone"] \in Connections
      BY DEF StreamsOK, Connections
    <3> QED BY <1>2, <3>1 DEF Crash, StreamsOK
  <2>4. RequestsOK' BY <1>2 DEF Crash, RequestsOK, NotDeleting, Deletions
  <2>5. HistoryOK' BY <1>2 DEF Crash, HistoryOK
  <2>6. BudgetOK' BY <1>2, SpendType DEF Crash
  <2> QED BY <2>1, <2>2, <2>3, <2>4, <2>5, <2>6, <1>2 DEF Crash
<1> QED BY <1>1, <1>2

LEMMA TypeStep == TypeInv /\ [Next]_vars => TypeOK'
<1> SUFFICES ASSUME TypeInv, [Next]_vars PROVE TypeOK' OBVIOUS
<1>1. CASE UNCHANGED vars BY <1>1, TypeParts, PartsKept DEF TypeInv, vars
<1>2. Threads \subseteq AllThreads BY DEF AllThreads
<1> QED BY <1>1, <1>2, TaskType, RequestType, StreamType, ThreadType, ProcessType DEF Next

\* The actions that a step can be, by what they do to the rows.
LEMMA RowCases ==
    ASSUME [Next]_vars
    PROVE  \/ UNCHANGED rowVars
           \/ \E r \in Runs, t \in AllThreads : Prepare(r, t)
           \/ \E r \in Runs : \/ Start(r) \/ Finalize(r) \/ Cancelled(r) \/ CancelledTwice(r)
                              \/ PersistCancel(r) \/ DeleteRow(r)
           \/ \E t \in AllThreads : DropThread(t) \/ CreateThread(t)
<1> USE DEF rowVars
<1>1. ASSUME NEW r \in Runs,
             \/ (\E how \in {"none", "task", "stream", "client"} : Submit(r, how))
             \/ Begin(r) \/ (\E how \in Finalizing : GraphEnds(r, how))
             \/ Emit(r) \/ FinalizeFails(r) \/ SweepBroker(r)
      PROVE  UNCHANGED rowVars
  BY <1>1 DEF Submit, Begin, GraphEnds, Emit, FinalizeFails, SweepBroker
<1>2. ASSUME NEW r \in Runs,
             CancelRun(r) \/ DeleteRun(r) \/ AwaitTask(r) \/ CleanUp(r) \/ ClientGoes(r)
      PROVE  UNCHANGED rowVars
  BY <1>2 DEF CancelRun, DeleteRun, AwaitTask, CleanUp, ClientGoes
<1>3. ASSUME NEW k \in Streams,
             \/ Stream(k) \/ Disconnect(k)
             \/ \E r \in Runs, last \in 0 .. MaxEvents : Open(k, r, last)
      PROVE  UNCHANGED rowVars
  BY <1>3 DEF Stream, Replay, Take, Drained, Disconnect, Open
<1>4. ASSUME NEW t \in AllThreads,
             \/ (\E r \in Runs : CancelNext(t, r)) \/ AwaitCancelled(t)
             \/ DropFails(t) \/ DeleteThread(t)
      PROVE  UNCHANGED rowVars
  BY <1>4 DEF CancelNext, AwaitCancelled, DropFails, DeleteThread
<1>5. CASE Stop \/ Crash \/ UNCHANGED vars BY <1>5 DEF Stop, Crash, vars
<1>6. Threads \subseteq AllThreads BY DEF AllThreads
<1> QED
  BY <1>1, <1>2, <1>3, <1>4, <1>5, <1>6 DEF Next, Task, Request, Deletion, CreateRun

\* A run that was created stays so, and keeps its thread.
LEMMA CreatedStays ==
    ASSUME TypeInv, [Next]_vars, NEW q \in Runs, status[q] # "absent"
    PROVE  status'[q] # "absent" /\ of'[q] = of[q]
<1> USE TypeParts DEF TypeInv, RowsOK
<1>1. CASE UNCHANGED rowVars BY <1>1 DEF rowVars
<1>2. ASSUME NEW r \in Runs, NEW t \in AllThreads, Prepare(r, t)
      PROVE  status'[q] # "absent" /\ of'[q] = of[q]
  BY <1>2 DEF Prepare
<1>3. ASSUME NEW r \in Runs, Finalize(r) \/ Cancelled(r) \/ CancelledTwice(r)
      PROVE  status'[q] # "absent" /\ of'[q] = of[q]
  BY <1>3 DEF Finalize, Cancelled, CancelledTwice, WriteOutcome, WriteRunning, RunOutcome
<1>4. ASSUME NEW r \in Runs, Start(r) \/ PersistCancel(r) \/ DeleteRow(r)
      PROVE  status'[q] # "absent" /\ of'[q] = of[q]
  BY <1>4 DEF Start, PersistCancel, DeleteRow, WriteRunning
<1>5. ASSUME NEW t \in AllThreads, DropThread(t) \/ CreateThread(t)
      PROVE  status'[q] # "absent" /\ of'[q] = of[q]
  BY <1>5 DEF DropThread, CreateThread
<1> QED BY <1>1, <1>2, <1>3, <1>4, <1>5, RowCases

\* Tasks and requests stay as they are; a clean-up may turn out to have failed.
TasksRest ==
    /\ UNCHANGED <<phase, cancel, active, request>>
    /\ \A r \in Runs : clean'[r] = clean[r] \/ (clean[r] = "over" /\ clean'[r] = "failed")

\* The actions that a step can be, by what they do to tasks, requests and
\* clean-ups.
LEMMA TaskCases ==
    ASSUME TypeInv, [Next]_vars
    PROVE  \/ TasksRest
           \/ \E r \in Runs, t \in AllThreads : Prepare(r, t)
           \/ \E r \in Runs, how \in {"none", "task", "stream", "client"} : Submit(r, how)
           \/ \E r \in Runs : Begin(r) \/ Start(r) \/ \E how \in Finalizing : GraphEnds(r, how)
           \/ \E r \in Runs : \/ Finalize(r) \/ Cancelled(r) \/ CancelledTwice(r)
                              \/ FinalizeFails(r)
           \/ \E r \in Runs : \/ CancelRun(r) \/ DeleteRun(r) \/ PersistCancel(r)
                              \/ AwaitTask(r) \/ DeleteRow(r) \/ CleanUp(r) \/ ClientGoes(r)
           \/ \E k \in Streams : Disconnect(k)
           \/ \E t \in AllThreads, r \in Runs : CancelNext(t, r)
           \/ Stop \/ Crash
<1> USE DEF taskVars, reqVars, TasksRest
<1>1. ASSUME NEW r \in Runs, Emit(r) \/ SweepBroker(r)
      PROVE  TasksRest
  BY <1>1 DEF Emit, SweepBroker
<1>2. ASSUME NEW k \in Streams,
             Stream(k) \/ \E r \in Runs, last \in 0 .. MaxEvents : Open(k, r, last)
      PROVE  TasksRest
  BY <1>2 DEF Stream, Replay, Take, Drained, Open
<1>3. ASSUME NEW t \in AllThreads,
             AwaitCancelled(t) \/ DropThread(t) \/ CreateThread(t) \/ DeleteThread(t)
      PROVE  TasksRest
  BY <1>3 DEF AwaitCancelled, DropThread, CreateThread, DeleteThread
<1>4. CASE UNCHANGED vars BY <1>4 DEF vars
<1>5. Threads \subseteq AllThreads BY DEF AllThreads
<1>6. ASSUME NEW t \in AllThreads, DropFails(t) PROVE TasksRest
  BY <1>6, TypeParts DEF DropFails, TypeInv, RequestsOK
<1> QED BY <1>1, <1>2, <1>3, <1>4, <1>5, <1>6 DEF Next, Task, Request, Deletion, CreateRun

LEMMA BegunStep == TypeInv /\ [Next]_vars => Begun'
<1> SUFFICES ASSUME TypeInv, [Next]_vars, NEW q \in Runs
             PROVE  /\ phase'[q] # "none" \/ request'[q] # "none" \/ clean'[q] # "none"
                          => status'[q] # "absent"
                    /\ phase'[q] \in {"none", "prepared"} => clean'[q] = "none"
                    /\ cancel'[q] => phase'[q] \in Alive
  BY DEF Begun
<1> DEFINE Goal ==
        /\ phase'[q] # "none" \/ request'[q] # "none" \/ clean'[q] # "none"
              => status'[q] # "absent"
        /\ phase'[q] \in {"none", "prepared"} => clean'[q] = "none"
        /\ cancel'[q] => phase'[q] \in Alive
<1>1. /\ phase \in Phase /\ cancel \in [Runs -> BOOLEAN]
      /\ clean \in [Runs -> {"none", "task", "stream", "client", "kept", "over", "failed"}]
      /\ request \in [Runs -> {"none", "persist", "await", "delete"}]
      /\ status \in [Runs -> RunStates] /\ TasksOK /\ BrokersOK
  BY TypeParts DEF TypeInv, TasksOK, RequestsOK, RowsOK
<1>2. /\ phase[q] # "none" \/ request[q] # "none" \/ clean[q] # "none" => status[q] # "absent"
      /\ phase[q] \in {"none", "prepared"} => clean[q] = "none"
      /\ cancel[q] => phase[q] \in Alive
  BY DEF TypeInv, Places, Begun
<1>3. status[q] # "absent" => status'[q] # "absent" BY CreatedStays
<1> USE DEF Phase, taskVars, reqVars
<1>4. CASE TasksRest BY <1>2, <1>3, <1>4 DEF TasksRest
<1>5. ASSUME NEW r \in Runs, NEW t \in AllThreads, Prepare(r, t) PROVE Goal
  BY <1>1, <1>2, <1>3, <1>5 DEF Prepare, Alive, Finalizing
<1>6. ASSUME NEW r \in Runs, NEW how \in {"none", "task", "stream", "client"}, Submit(r, how)
      PROVE  Goal
  BY <1>1, <1>2, <1>3, <1>6 DEF Submit, Alive, Finalizing
<1>7. ASSUME NEW r \in Runs, Begin(r) \/ Start(r) \/ \E how \in Finalizing : GraphEnds(r, how)
      PROVE  Goal
  BY <1>1, <1>2, <1>3, <1>7 DEF Begin, Over, Become, Start, GraphEnds, Alive, Finalizing
<1>8. ASSUME NEW r \in Runs, Finalize(r) \/ Cancelled(r) \/ CancelledTwice(r) \/ FinalizeFails(r)
      PROVE  Goal
  BY <1>1, <1>2, <1>3, <1>8 DEF Finalize, Cancelled, CancelledTwice, FinalizeFails, LeaveWith,
         Over, Become, Alive, Finalizing
<1>9. ASSUME NEW r \in Runs, RequestCancel(r), UNCHANGED <<phase, clean>>,
             request' = request \/ (Row(r) /\ \E s : request' = [request EXCEPT ![r] = s])
      PROVE  Goal
  BY <1>1, <1>2, <1>3, <1>9, CancelEffect DEF Row
<1>10. ASSUME NEW r \in Runs, CancelRun(r) \/ DeleteRun(r) PROVE Goal
  <2>1. CASE RequestCancel(r) BY <1>9, <1>10, <2>1 DEF CancelRun, DeleteRun
  <2>2. CASE UNCHANGED cancel BY <1>1, <1>2, <1>3, <1>10, <2>2 DEF CancelRun, DeleteRun, Row
  <2> QED BY <1>10, <2>1, <2>2 DEF CancelRun, DeleteRun
<1>11. ASSUME NEW r \in Runs, \/ PersistCancel(r) \/ AwaitTask(r) \/ DeleteRow(r)
                              \/ CleanUp(r) \/ ClientGoes(r)
       PROVE  Goal
  BY <1>1, <1>2, <1>3, <1>11 DEF PersistCancel, AwaitTask, DeleteRow, CleanUp, ClientGoes, Waits
<1>12. ASSUME NEW k \in Streams, Disconnect(k) PROVE Goal
  <2> DEFINE r == stream[k].run
  <2>1. r \in Runs BY <1>12 DEF Disconnect, TypeInv, Places, Followed
  <2>2. UNCHANGED <<phase, request>> BY <1>12 DEF Disconnect
  <2>3. /\ \A p \in Runs \ {r} : clean'[p] = clean[p]
        /\ clean'[r] = clean[r] \/ clean[r] = "stream"
    BY <1>1, <2>1, <1>12 DEF Disconnect
  <2>4. cancel'[q] => cancel[q] \/ phase[q] \in Alive
    <3>1. CASE RequestCancel(r) BY <1>1, <2>1, <3>1, CancelEffect
    <3> QED BY <1>12, <3>1 DEF Disconnect
  <2> HIDE DEF r
  <2> QED BY <1>2, <1>3, <2>1, <2>2, <2>3, <2>4
<1>13. ASSUME NEW r \in Runs, NEW t \in AllThreads, CancelNext(t, r) PROVE Goal
  BY <1>9, <1>13 DEF CancelNext
<1>14. CASE Stop BY <1>1, <1>2, <1>3, <1>14 DEF Stop, Waits
<1>15. CASE Crash BY <1>1, <1>2, <1>3, <1>15 DEF Crash, Alive, Finalizing
<1> QED
  BY <1>4, <1>5, <1>6, <1>7, <1>8, <1>10, <1>11, <1>12, <1>13, <1>14, <1>15, TaskCases

\* The actions that a step can be, by what they do to the streams.
LEMMA StreamCases ==
    ASSUME [Next]_vars
    PROVE  \/ UNCHANGED stream \/ Crash \/ \E r \in Runs : SweepBroker(r)
           \/ \E r \in Runs : OwnStream(r) /\ \E how \in {"stream", "none"} : Submit(r, how)
           \/ \E k \in Streams : \/ Stream(k) \/ Disconnect(k)
                                 \/ \E r \in Runs, last \in 0 .. MaxEvents : Open(k, r, last)
<1>1. ASSUME NEW r \in Runs, \E how \in {"none", "task", "stream", "client"} : Submit(r, how)
      PROVE  \/ UNCHANGED stream
             \/ OwnStream(r) /\ \E how \in {"stream", "none"} : Submit(r, how)
  BY <1>1 DEF Submit
<1>2. ASSUME NEW r \in Runs,
             \/ Begin(r) \/ Start(r) \/ (\E how \in Finalizing : GraphEnds(r, how))
             \/ Finalize(r) \/ Cancelled(r) \/ CancelledTwice(r)
             \/ Emit(r) \/ FinalizeFails(r)
             \/ CancelRun(r) \/ DeleteRun(r) \/ Request(r) \/ ClientGoes(r)
      PROVE  UNCHANGED stream
  BY <1>2 DEF Begin, Start, GraphEnds, Finalize, Cancelled, CancelledTwice, Emit,
         FinalizeFails, CancelRun, DeleteRun, Request, PersistCancel, AwaitTask,
         DeleteRow, CleanUp, ClientGoes
<1>3. ASSUME NEW t \in AllThreads,
             \/ Deletion(t) \/ DropFails(t) \/ CreateThread(t) \/ DeleteThread(t)
             \/ \E r \in Runs : CreateRun(r, t)
      PROVE  UNCHANGED stream
  BY <1>3 DEF Deletion, CancelNext, AwaitCancelled, DropThread, DropFails, CreateThread,
         DeleteThread, CreateRun, Prepare
<1>4. CASE Stop \/ UNCHANGED vars BY <1>4 DEF Stop, vars
<1>5. Threads \subseteq AllThreads BY DEF AllThreads
<1> QED BY <1>1, <1>2, <1>3, <1>4, <1>5 DEF Next, Task

LEMMA FollowedStep == TypeInv /\ [Next]_vars => Followed'
<1> SUFFICES ASSUME TypeInv, [Next]_vars PROVE Followed' OBVIOUS
<1> USE DEF Followed
<1>1. stream \in [Streams -> Connections] /\ Followed
  BY TypeParts DEF TypeInv, StreamsOK, Places
<1>2. CASE UNCHANGED stream BY <1>1, <1>2
<1>3. ASSUME NEW r \in Runs, OwnStream(r) PROVE Followed'
  <2>1. PICK k \in Streams : stream' = [stream EXCEPT ![k] =
           [run |-> r, own |-> TRUE, step |-> "opened", last |-> 0, got |-> {}]]
    BY <1>3 DEF OwnStream
  <2> QED BY <1>1, <2>1
<1>4. ASSUME NEW k \in Streams, Stream(k) \/ Disconnect(k) PROVE Followed'
  <2>1. /\ stream[k].step # "idle" /\ stream'[k].step # "idle"
        /\ stream'[k].run = stream[k].run
        /\ \A j \in Streams \ {k} : stream'[j] = stream[j]
    <3>1. CASE Replay(k) BY <1>1, <3>1 DEF Replay, Connections
    <3>2. CASE Take(k) BY <1>1, <3>2 DEF Take, Connections
    <3>3. CASE Drained(k) BY <1>1, <3>3 DEF Drained, Connections
    <3>4. CASE Disconnect(k) BY <1>1, <3>4 DEF Disconnect, Connections
    <3> QED BY <1>4, <3>1, <3>2, <3>3, <3>4 DEF Stream
  <2> QED BY <1>1, <2>1
<1>5. ASSUME NEW k \in Streams, NEW r \in Runs, NEW last \in 0 .. MaxEvents, Open(k, r, last)
      PROVE  Followed'
  <2>1. stream'[k].run = r /\ stream'[k].step # "idle" /\ \A j \in Streams \ {k} : stream'[j] = stream[j]
    BY <1>1, <1>5 DEF Open
  <2> QED BY <1>1, <2>1
<1>6. CASE Crash BY <1>1, <1>6 DEF Crash, Connections
<1>7. ASSUME NEW r \in Runs, SweepBroker(r) PROVE Followed'
  BY <1>1, <1>7 DEF SweepBroker, Connections
<1> QED BY <1>2, <1>3, <1>4, <1>5, <1>6, <1>7, StreamCases

\* The actions that a step can be, by what they do to the deletions.
LEMMA DeletionCases ==
    ASSUME [Next]_vars
    PROVE  \/ UNCHANGED deleting
           \/ \E r \in Runs : CleanUp(r)
           \/ \E t \in AllThreads, r \in Runs : CancelNext(t, r)
           \/ \E t \in AllThreads : AwaitCancelled(t) \/ DropThread(t) \/ DropFails(t)
           \/ \E t \in Threads : DeleteThread(t)
           \/ Crash
<1> USE DEF reqVars
<1>1. ASSUME NEW r \in Runs,
             \/ Task(r) \/ Emit(r) \/ FinalizeFails(r) \/ SweepBroker(r)
             \/ CancelRun(r) \/ DeleteRun(r) \/ ClientGoes(r)
             \/ PersistCancel(r) \/ AwaitTask(r) \/ DeleteRow(r)
      PROVE  UNCHANGED deleting
  BY <1>1 DEF Task, Submit, Begin, Start, GraphEnds, Finalize, Cancelled, CancelledTwice, Emit,
         FinalizeFails, SweepBroker, CancelRun, DeleteRun, PersistCancel, AwaitTask, DeleteRow,
         ClientGoes
<1>2. ASSUME NEW k \in Streams,
             \/ Stream(k) \/ Disconnect(k)
             \/ \E r \in Runs, last \in 0 .. MaxEvents : Open(k, r, last)
      PROVE  UNCHANGED deleting
  BY <1>2 DEF Stream, Replay, Take, Drained, Disconnect, Open
<1>3. ASSUME NEW t \in AllThreads, CreateThread(t) \/ \E r \in Runs : CreateRun(r, t)
      PROVE  UNCHANGED deleting
  BY <1>3 DEF CreateThread, CreateRun, Prepare
<1>4. CASE Stop \/ UNCHANGED vars BY <1>4 DEF Stop, vars
<1>5. Threads \subseteq AllThreads BY DEF AllThreads
<1> QED BY <1>1, <1>2, <1>3, <1>4, <1>5 DEF Next, Request, Deletion

LEMMA ChosenStep == TypeInv /\ [Next]_vars => Chosen'
<1> SUFFICES ASSUME TypeInv, [Next]_vars, NEW t \in AllThreads, NEW q \in deleting'[t].todo
             PROVE  of'[q] = t
  BY DEF Chosen
<1>1. deleting \in [AllThreads -> Deletions] /\ RowsOK /\ Chosen
  BY TypeParts DEF TypeInv, RequestsOK, Places
<1>2. q \in deleting[t].todo => q \in Runs /\ of[q] = t
  BY <1>1 DEF Deletions, Chosen
<1>3. ASSUME NEW p \in AllThreads, BeginDelete(p)
      PROVE  q \in deleting[t].todo \/ (q \in Runs /\ of[q] = t)
  BY <1>1, <1>3 DEF BeginDelete, OnThread
<1>4. q \in deleting[t].todo \/ (q \in Runs /\ of[q] = t)
  <2>1. ASSUME NEW r \in Runs, CleanUp(r)
        PROVE  q \in deleting[t].todo \/ (q \in Runs /\ of[q] = t)
    <3>1. status[r] # "absent" BY <2>1 DEF CleanUp, TypeInv, Places, Begun
    <3>2. of[r] \in AllThreads BY <1>1, <3>1 DEF RowsOK
    <3>3. BeginDelete(of[r]) BY <2>1 DEF CleanUp
    <3> QED BY <1>3, <3>2, <3>3
  <2>2. ASSUME NEW p \in AllThreads, NEW r \in Runs, CancelNext(p, r)
        PROVE  q \in deleting[t].todo
    BY <1>1, <2>2 DEF CancelNext
  <2>3. ASSUME NEW p \in AllThreads, AwaitCancelled(p) PROVE q \in deleting[t].todo
    BY <1>1, <2>3 DEF AwaitCancelled, Deletions
  <2>4. ASSUME NEW p \in AllThreads, DropThread(p) \/ DropFails(p) PROVE q \in deleting[t].todo
    BY <1>1, <2>4 DEF DropThread, DropFails, NotDeleting
  <2>5. CASE Crash BY <2>5 DEF Crash, NotDeleting
  <2>6. ASSUME NEW p \in Threads, DeleteThread(p)
        PROVE  q \in deleting[t].todo \/ (q \in Runs /\ of[q] = t)
    BY <1>3, <2>6 DEF DeleteThread, AllThreads
  <2> QED BY <2>1, <2>2, <2>3, <2>4, <2>5, <2>6, DeletionCases
<1>5. q \in Runs /\ of[q] = t BY <1>2, <1>4
<1>6. status[q] # "absent" BY <1>1, <1>5 DEF RowsOK, AllThreads
<1> QED BY <1>5, <1>6, CreatedStays

LEMMA TypeInvStep == TypeInv /\ [Next]_vars => TypeInv'
BY TypeStep, BegunStep, FollowedStep, ChosenStep DEF TypeInv, Places

LEMMA TypeInvInit == Init => TypeInv
<1> SUFFICES ASSUME Init PROVE TypeInv OBVIOUS
<1> USE DEF Init
<1>1. RowsOK BY DEF RowsOK, ThreadStates, RunStates
<1>2. TasksOK BY DEF TasksOK, Phase, Phases
<1>3. BrokersOK BY DEF BrokersOK, Brokers, NoBroker
<1>4. StreamsOK BY DEF StreamsOK, Connections
<1>5. RequestsOK BY DEF RequestsOK, Deletions, NotDeleting
<1>6. HistoryOK /\ BudgetOK BY DEF HistoryOK, BudgetOK
<1>7. Places BY DEF Places, Begun, Followed, Chosen, NotDeleting
<1> QED BY <1>1, <1>2, <1>3, <1>4, <1>5, <1>6, <1>7, TypeParts DEF TypeInv

LEMMA TypeInvAlways == Spec => []TypeInv
BY TypeInvInit, TypeInvStep, PTL DEF Spec

\* Every variable keeps its type; a run has a thread as soon as it was created;
\* no stream takes more from a queue than was put.
THEOREM TypeCorrect == Spec => []TypeOK
BY TypeInvAlways, PTL DEF TypeInv

-----------------------------------------------------------------------------
(* Runs that have not come to their end, and the status of their threads *)

Executing == {"new", "start", "stream"}
Unsettled == {"prepared"} \cup Executing

\* What happened to a run is not forgotten.
LEMMA HistoryGrows ==
    ASSUME [Next]_vars
    PROVE  /\ cut \subseteq cut' /\ stale \subseteq stale' /\ late \subseteq late'
           /\ lost \subseteq lost' /\ expired \subseteq expired' /\ overruled \subseteq overruled'
<1> DEFINE Goal == /\ cut \subseteq cut' /\ stale \subseteq stale' /\ late \subseteq late'
                   /\ lost \subseteq lost' /\ expired \subseteq expired'
                   /\ overruled \subseteq overruled'
<1> USE DEF histVars
<1>1. ASSUME NEW r \in Runs, Task(r) \/ Emit(r) \/ FinalizeFails(r) \/ SweepBroker(r) PROVE Goal
  BY <1>1 DEF Task, Submit, Begin, Start, GraphEnds, Finalize, Cancelled, CancelledTwice, Emit,
         FinalizeFails, SweepBroker, WriteOutcome
<1>2. ASSUME NEW r \in Runs, CancelRun(r) \/ DeleteRun(r) \/ Request(r) \/ ClientGoes(r)
      PROVE  Goal
  BY <1>2 DEF CancelRun, DeleteRun, Request, PersistCancel, AwaitTask, DeleteRow, CleanUp,
         ClientGoes
<1>3. ASSUME NEW k \in Streams,
             \/ Stream(k) \/ Disconnect(k)
             \/ \E r \in Runs, last \in 0 .. MaxEvents : Open(k, r, last)
      PROVE  Goal
  BY <1>3 DEF Stream, Replay, Take, Drained, Disconnect, Open
<1>4. ASSUME NEW t \in AllThreads, \/ Deletion(t) \/ DropFails(t)
                                   \/ CreateThread(t) \/ DeleteThread(t)
                                   \/ \E r \in Runs : CreateRun(r, t)
      PROVE  Goal
  BY <1>4 DEF Deletion, CancelNext, AwaitCancelled, DropThread, DropFails, CreateThread,
         DeleteThread, CreateRun, Prepare
<1>5. CASE UNCHANGED vars BY <1>5 DEF vars
<1>6. CASE Stop \/ Crash BY <1>6 DEF Stop, Crash
<1>7. Threads \subseteq AllThreads BY DEF AllThreads
<1> QED BY <1>1, <1>2, <1>3, <1>4, <1>5, <1>6, <1>7 DEF Next

\* A run is unsettled from its creation on; until it turns to its outcome, a
\* cancellation that is due stays so, and its task stays registered or is
\* cancelled.
LEMMA UnsettledStep ==
    ASSUME TypeInv, [Next]_vars, NEW q \in Runs, phase'[q] \in Unsettled
    PROVE  \/ \E t \in AllThreads : Prepare(q, t)
           \/ /\ phase[q] \in Unsettled
              /\ cancel[q] => cancel'[q]
              /\ \/ phase'[q] \notin Executing \/ q \in active'
                 \/ phase[q] \in Executing /\ (q \in active => cancel'[q])
<1> DEFINE Kept == /\ phase[q] \in Unsettled
                   /\ cancel[q] => cancel'[q]
                   /\ \/ phase'[q] \notin Executing \/ q \in active'
                      \/ phase[q] \in Executing /\ (q \in active => cancel'[q])
<1>1. phase \in Phase /\ cancel \in [Runs -> BOOLEAN] /\ TasksOK /\ BrokersOK
  BY TypeParts DEF TypeInv, TasksOK
<1>2. Executing \subseteq Alive BY DEF Executing, Alive, Finalizing
<1> USE DEF Phase, Unsettled, Executing, taskVars
<1>3. CASE TasksRest BY <1>3 DEF TasksRest
<1>4. ASSUME NEW r \in Runs, NEW t \in AllThreads, Prepare(r, t), r # q PROVE Kept
  BY <1>1, <1>4 DEF Prepare
<1>5. ASSUME NEW r \in Runs, NEW how \in {"none", "task", "stream", "client"}, Submit(r, how)
      PROVE  Kept
  BY <1>1, <1>5 DEF Submit
<1>6. ASSUME NEW r \in Runs, Begin(r) \/ Start(r) \/ \E how \in Finalizing : GraphEnds(r, how)
      PROVE  Kept
  BY <1>1, <1>6 DEF Begin, Over, Become, Start, GraphEnds, Finalizing
<1>7. ASSUME NEW r \in Runs, Finalize(r) \/ Cancelled(r) \/ CancelledTwice(r) \/ FinalizeFails(r)
      PROVE  Kept
  BY <1>1, <1>7 DEF Finalize, Cancelled, CancelledTwice, FinalizeFails, LeaveWith, Over, Become
<1>8. ASSUME NEW r \in Runs, RequestCancel(r), UNCHANGED phase, active' \in {active, active \ {r}}
      PROVE  Kept
  BY <1>1, <1>2, <1>8, CancelEffect
<1>9. ASSUME NEW r \in Runs, CancelRun(r) \/ DeleteRun(r) PROVE Kept
  <2>1. CASE RequestCancel(r) BY <1>8, <1>9, <2>1 DEF CancelRun, DeleteRun
  <2>2. CASE UNCHANGED cancel BY <1>9, <2>2 DEF CancelRun, DeleteRun
  <2> QED BY <1>9, <2>1, <2>2 DEF CancelRun, DeleteRun
<1>10. ASSUME NEW r \in Runs, PersistCancel(r) \/ AwaitTask(r) \/ CleanUp(r) \/ ClientGoes(r)
       PROVE  Kept
  BY <1>10 DEF PersistCancel, AwaitTask, CleanUp, ClientGoes
<1>11. ASSUME NEW r \in Runs, DeleteRow(r) PROVE Kept
  BY <1>1, <1>2, <1>11 DEF DeleteRow, Waits
<1>12. ASSUME NEW k \in Streams, Disconnect(k) PROVE Kept
  <2>1. stream[k].run \in Runs BY <1>12 DEF Disconnect, TypeInv, Places, Followed
  <2>2. CASE RequestCancel(stream[k].run) BY <1>8, <1>12, <2>1, <2>2 DEF Disconnect
  <2>3. CASE UNCHANGED cancel BY <1>12, <2>3 DEF Disconnect
  <2> QED BY <1>12, <2>2, <2>3 DEF Disconnect
<1>13. ASSUME NEW r \in Runs, NEW t \in AllThreads, CancelNext(t, r) PROVE Kept
  BY <1>8, <1>13 DEF CancelNext
<1>14. CASE Stop BY <1>1, <1>14 DEF Stop, Waits
<1>15. CASE Crash BY <1>1, <1>15 DEF Crash
<1> HIDE DEF Kept
<1>16. (\E t \in AllThreads : Prepare(q, t)) \/ Kept
  BY <1>3, <1>4, <1>5, <1>6, <1>7, <1>9, <1>10, <1>11, <1>12, <1>13, <1>14, <1>15, TaskCases
     DEF Kept
<1> QED BY <1>16 DEF Kept

Reason(r) == phase[r] \in Alive \cup {"prepared"} \/ r \in cut \cup lost

\* A run stops being a reason for a busy thread only by writing its outcome.
LEMMA ReasonStep ==
    ASSUME TypeInv, [Next]_vars, NEW q \in Runs, Reason(q), ~Finalize(q)
    PROVE  phase'[q] \in Alive \cup {"prepared"} \/ q \in cut' \cup lost'
<1> DEFINE Stays == phase'[q] \in Alive \cup {"prepared"} \/ q \in cut' \cup lost'
<1>1. phase \in Phase BY TypeParts DEF TypeInv, TasksOK
<1>2. phase[q] # "none" => status[q] # "absent" BY DEF TypeInv, Places, Begun
<1>3. q \in cut \cup lost => Stays BY HistoryGrows
<1>4. CASE q \notin cut \cup lost
  <2>1. phase[q] \in Alive \cup {"prepared"} BY <1>4 DEF Reason
  <2> USE DEF Alive, Finalizing, Phase, taskVars
  <2>2. CASE TasksRest BY <2>1, <2>2 DEF TasksRest
  <2>3. ASSUME NEW r \in Runs, NEW t \in AllThreads, Prepare(r, t) PROVE Stays
    BY <1>1, <2>1, <2>3 DEF Prepare
  <2>4. ASSUME NEW r \in Runs, NEW how \in {"none", "task", "stream", "client"}, Submit(r, how)
        PROVE  Stays
    BY <1>1, <2>1, <2>4 DEF Submit
  <2>5. ASSUME NEW r \in Runs, Begin(r) \/ Start(r) \/ \E how \in Finalizing : GraphEnds(r, how)
        PROVE  Stays
    BY <1>1, <2>1, <2>5 DEF Begin, Over, Become, Start, GraphEnds
  <2>6. ASSUME NEW r \in Runs, Finalize(r) PROVE Stays
    BY <1>1, <2>1, <2>6 DEF Finalize, LeaveWith, Over, Become
  <2>7. ASSUME NEW r \in Runs, Cancelled(r) \/ CancelledTwice(r) \/ FinalizeFails(r) PROVE Stays
    BY <1>1, <2>1, <2>7 DEF Cancelled, CancelledTwice, FinalizeFails, LeaveWith, Over, Become
  <2>8. ASSUME NEW r \in Runs, \/ CancelRun(r) \/ DeleteRun(r) \/ PersistCancel(r)
                               \/ AwaitTask(r) \/ DeleteRow(r) \/ CleanUp(r) \/ ClientGoes(r)
        PROVE  UNCHANGED phase
    BY <2>8 DEF CancelRun, DeleteRun, PersistCancel, AwaitTask, DeleteRow, CleanUp, ClientGoes
  <2>9. ASSUME NEW k \in Streams, Disconnect(k) PROVE UNCHANGED phase BY <2>9 DEF Disconnect
  <2>10. ASSUME NEW r \in Runs, NEW t \in AllThreads, CancelNext(t, r) PROVE UNCHANGED phase
    BY <2>10 DEF CancelNext
  <2>11. CASE Stop BY <2>1, <2>11 DEF Stop
  <2>12. CASE Crash BY <2>1, <2>12 DEF Crash
  <2> QED BY <2>1, <2>2, <2>3, <2>4, <2>5, <2>6, <2>7, <2>8, <2>9, <2>10, <2>11, <2>12, TaskCases
<1> QED BY <1>3, <1>4

\* A thread becomes busy when a run is prepared on it.
LEMMA ThreadStep ==
    ASSUME TypeInv, [Next]_vars, NEW t \in AllThreads, thread'[t] = "busy"
    PROVE  thread[t] = "busy" \/ \E r \in Runs : Prepare(r, t)
<1>1. RowsOK /\ HistoryOK BY TypeParts DEF TypeInv
<1>2. ASSUME NEW r \in Runs, NEW p \in AllThreads, Prepare(r, p), p # t PROVE thread[t] = "busy"
  BY <1>1, <1>2 DEF Prepare, RowsOK
<1>3. ASSUME NEW r \in Runs, phase[r] \in Finalizing, WriteOutcome(r, phase[r]), UNCHANGED of
      PROVE  thread[t] = "busy"
  <2>1. status[r] # "absent" BY <1>3 DEF TypeInv, Places, Begun, Finalizing
  <2> QED BY <1>1, <1>3, <2>1, OutcomeEffect
<1>4. ASSUME NEW r \in Runs, Finalize(r) \/ Cancelled(r) \/ CancelledTwice(r)
      PROVE  thread[t] = "busy"
  <2>1. UNCHANGED of BY <1>4 DEF Finalize, Cancelled, CancelledTwice
  <2>2. UNCHANGED thread \/ (phase[r] \in Finalizing /\ WriteOutcome(r, phase[r]))
    BY <1>4 DEF Finalize, Cancelled, CancelledTwice, Finalizing
  <2> QED BY <1>3, <2>1, <2>2
<1>5. ASSUME NEW r \in Runs, Start(r) \/ PersistCancel(r) \/ DeleteRow(r)
      PROVE  thread[t] = "busy"
  BY <1>5 DEF Start, PersistCancel, DeleteRow
<1>6. ASSUME NEW p \in AllThreads, DropThread(p) \/ CreateThread(p) PROVE thread[t] = "busy"
  BY <1>1, <1>6 DEF DropThread, CreateThread, RowsOK
<1>7. CASE UNCHANGED rowVars BY <1>7 DEF rowVars
<1> QED BY <1>2, <1>4, <1>5, <1>6, <1>7, RowCases

LEMMA BusyStep == TypeInv /\ BusyHasReason /\ [Next]_vars => BusyHasReason'
<1> SUFFICES ASSUME TypeInv, BusyHasReason, [Next]_vars,
                    NEW t \in AllThreads, thread'[t] = "busy"
             PROVE  \E r \in Runs : /\ of'[r] = t
                                    /\ \/ phase'[r] \in Alive \cup {"prepared"}
                                       \/ r \in cut' \cup lost'
  BY DEF BusyHasReason, OnThread
<1>1. RowsOK /\ HistoryOK /\ TasksOK BY TypeParts DEF TypeInv
<1>2. ASSUME NEW r \in Runs, Prepare(r, t)
      PROVE  of'[r] = t /\ phase'[r] = "prepared"
  BY <1>1, <1>2 DEF Prepare, RowsOK, TasksOK, Phase
<1>3. CASE thread[t] = "busy"
  <2>1. PICK r \in Runs : of[r] = t /\ Reason(r)
    BY <1>3 DEF BusyHasReason, OnThread, Reason
  <2>2. status[r] # "absent" BY <1>1, <2>1 DEF RowsOK, AllThreads
  <2>3. of'[r] = t BY <2>1, <2>2, CreatedStays
  <2>4. ~Finalize(r)
    <3>1. ASSUME Finalize(r) PROVE thread'[of[r]] # "busy"
      <4>1. phase[r] \in Finalizing /\ WriteOutcome(r, phase[r]) /\ UNCHANGED of
        BY <3>1 DEF Finalize
      <4> QED BY <1>1, <2>2, <4>1, OutcomeEffect
    <3> QED BY <2>1, <3>1
  <2> QED BY <2>1, <2>3, <2>4, ReasonStep
<1> QED BY <1>2, <1>3, ThreadStep

\* A thread that shows busy has a run that executes, that waits to be submitted
\* or whose outcome was never written: no run that ended by itself leaves its
\* thread busy, whatever shares the thread, is cancelled, deleted or fails.
THEOREM BusyAlwaysHasReason == Spec => []BusyHasReason
<1>1. Init => BusyHasReason BY DEF Init, BusyHasReason
<1> QED BY <1>1, BusyStep, TypeInvAlways, PTL DEF Spec

\* A deleted row does not come back.
LEMMA GoneStays ==
    ASSUME TypeInv, [Next]_vars, NEW q \in Runs, status[q] = "gone"
    PROVE  status'[q] = "gone"
<1>1. RowsOK BY TypeParts DEF TypeInv
<1> USE DEF RowsOK, Row
<1>2. CASE UNCHANGED rowVars BY <1>2 DEF rowVars
<1>3. ASSUME NEW r \in Runs, NEW t \in AllThreads, Prepare(r, t) PROVE status'[q] = "gone"
  BY <1>1, <1>3 DEF Prepare
<1>4. ASSUME NEW r \in Runs, Finalize(r) \/ Cancelled(r) \/ CancelledTwice(r)
      PROVE  status'[q] = "gone"
  BY <1>1, <1>4 DEF Finalize, Cancelled, CancelledTwice, WriteOutcome, WriteRunning
<1>5. ASSUME NEW r \in Runs, Start(r) \/ PersistCancel(r) \/ DeleteRow(r)
      PROVE  status'[q] = "gone"
  BY <1>1, <1>5 DEF Start, PersistCancel, DeleteRow, WriteRunning
<1>6. ASSUME NEW t \in AllThreads, DropThread(t) \/ CreateThread(t) PROVE status'[q] = "gone"
  BY <1>1, <1>6 DEF DropThread, CreateThread
<1> QED BY <1>2, <1>3, <1>4, <1>5, <1>6, RowCases

\* A run that writes an outcome is settled by that.
LEMMA OutcomeSettles ==
    ASSUME TypeInv, NEW r \in Runs, Finalize(r) \/ Cancelled(r) \/ CancelledTwice(r)
    PROVE  phase'[r] \notin Unsettled
<1>1. phase \in Phase BY TypeParts DEF TypeInv, TasksOK
<1> QED
  BY <1>1 DEF Finalize, Cancelled, CancelledTwice, LeaveWith, Over, Become, Unsettled, Executing,
     Phase

Shown ==
    \A r \in Runs :
        phase[r] \in Unsettled /\ Row(r) => thread[of[r]] = "busy" \/ r \in stale \cup late

LEMMA ShownStep == TypeInv /\ Shown /\ [Next]_vars => Shown'
<1> SUFFICES ASSUME TypeInv, Shown, [Next]_vars, NEW q \in Runs,
                    phase'[q] \in Unsettled, status'[q] \notin {"absent", "gone"}
             PROVE  thread'[of'[q]] = "busy" \/ q \in stale' \cup late'
  BY DEF Shown, Row
<1> DEFINE Goal == thread'[of'[q]] = "busy" \/ q \in stale' \cup late'
<1>1. RowsOK /\ HistoryOK BY TypeParts DEF TypeInv
<1>2. ASSUME NEW t \in AllThreads, Prepare(q, t) PROVE Goal
  BY <1>1, <1>2 DEF Prepare, RowsOK
<1>3. CASE phase[q] \in Unsettled
  <2>1. status[q] # "absent" /\ of'[q] = of[q]
    BY <1>3, CreatedStays DEF TypeInv, Places, Begun, Unsettled, Executing
  <2>2. Row(q) BY <2>1, GoneStays DEF Row
  <2>3. thread[of[q]] = "busy" \/ q \in stale \cup late BY <1>3, <2>2 DEF Shown
  <2>4. q \in stale \cup late => Goal BY HistoryGrows
  <2>5. of[q] \in AllThreads BY <1>1, <2>1 DEF RowsOK
  <2>6. CASE thread[of[q]] = "busy"
    <3>1. thread'[of[q]] = "busy" => Goal BY <2>1
    <3>2. CASE UNCHANGED thread BY <2>6, <3>1, <3>2
    <3>3. ASSUME NEW r \in Runs, NEW t \in AllThreads, Prepare(r, t) PROVE Goal
      BY <1>1, <2>5, <2>6, <3>1, <3>3 DEF Prepare, RowsOK
    <3>4. ASSUME NEW r \in Runs, r # q, WriteOutcome(r, phase[r]), phase[r] \in Finalizing,
                 UNCHANGED of
          PROVE  Goal
      <4>1. status[r] # "absent" BY <3>4 DEF TypeInv, Places, Begun, Finalizing
      <4>2. CASE of[r] # of[q] BY <1>1, <2>5, <2>6, <3>1, <3>4, <4>1, <4>2, OutcomeEffect
      <4>3. CASE of[r] = of[q]
        <5>1. q \in OnThread(of[r]) \ {r} BY <3>4, <4>3 DEF OnThread
        <5>2. phase[q] \in Alive \cup {"prepared"} BY <1>3 DEF Unsettled, Executing, Alive
        <5> QED BY <3>4, <5>1, <5>2 DEF WriteOutcome
      <4> QED BY <4>2, <4>3
    <3>5. ASSUME NEW r \in Runs, Finalize(r) \/ Cancelled(r) \/ CancelledTwice(r) PROVE Goal
      <4>1. r # q BY <3>5, OutcomeSettles
      <4>2. /\ UNCHANGED of
            /\ \/ UNCHANGED thread
               \/ phase[r] \in Finalizing /\ WriteOutcome(r, phase[r])
        BY <3>5 DEF Finalize, Cancelled, CancelledTwice, Finalizing
      <4> QED BY <3>2, <3>4, <4>1, <4>2
    <3>6. ASSUME NEW r \in Runs, Start(r) \/ PersistCancel(r) \/ DeleteRow(r)
          PROVE  UNCHANGED thread
      BY <3>6 DEF Start, PersistCancel, DeleteRow
    <3>7. ASSUME NEW t \in AllThreads, DropThread(t) PROVE Goal
      <4>1. of[q] # t BY <1>1, <3>7 DEF DropThread, RowsOK
      <4> QED BY <1>1, <2>5, <2>6, <3>1, <3>7, <4>1 DEF DropThread, RowsOK
    <3>8. ASSUME NEW t \in AllThreads, CreateThread(t) PROVE Goal
      BY <1>1, <2>5, <2>6, <3>1, <3>8 DEF CreateThread, RowsOK
    <3>9. CASE UNCHANGED rowVars BY <3>2, <3>9 DEF rowVars
    <3> QED BY <3>2, <3>3, <3>5, <3>6, <3>7, <3>8, <3>9, RowCases
  <2> QED BY <2>3, <2>4, <2>6
<1> QED BY <1>2, <1>3, UnsettledStep

\* The thread of a run that executes shows busy, unless a run that shares it
\* ended meanwhile or the deletion of the thread raced with the creation of the
\* run.
THEOREM ExecutingAlwaysBusy == Spec => []ExecutingMeansBusy
<1>1. Init => Shown BY DEF Init, Shown, Unsettled, Executing
<1>2. Shown => ExecutingMeansBusy BY DEF Shown, ExecutingMeansBusy, Unsettled, Executing
<1> QED BY <1>1, <1>2, ShownStep, TypeInvAlways, PTL DEF Spec

-----------------------------------------------------------------------------
(* Deletion reaches the tasks *)

Excused(r) == r \in late \cup overruled

\* The task of a run that executes is registered or cancelled; the row of a run
\* that is not settled says so, unless it is cancelled; a deletion of its thread
\* has it before it or has cancelled it.
Registry == \A r \in Runs : phase[r] \in Executing => r \in active \/ cancel[r]
Accounted ==
    \A r \in Runs : phase[r] \in Unsettled => status[r] \in Active \/ cancel[r] \/ Excused(r)
Hunted ==
    \A t \in AllThreads : \A r \in Runs :
        of[r] = t /\ deleting[t].step # "none" /\ phase[r] \in Unsettled =>
            r \in deleting[t].todo \/ cancel[r] \/ Excused(r)

DeletionInv == Registry /\ Accounted /\ Hunted

LEMMA ExcuseStays ==
    ASSUME [Next]_vars, NEW q, Excused(q) PROVE q \in late' \cup overruled'
BY HistoryGrows DEF Excused

LEMMA PrepareEffect ==
    ASSUME TypeInv, NEW q \in Runs, NEW t \in AllThreads, Prepare(q, t)
    PROVE  /\ phase'[q] = "prepared" /\ status'[q] = "pending" /\ of'[q] = t
           /\ UNCHANGED deleting /\ (deleting[t].step # "none" => q \in late')
BY TypeParts DEF TypeInv, RowsOK, TasksOK, Phase, Prepare, reqVars

LEMMA RegistryStep == TypeInv /\ Registry /\ [Next]_vars => Registry'
<1> SUFFICES ASSUME TypeInv, Registry, [Next]_vars, NEW q \in Runs, phase'[q] \in Executing
             PROVE  q \in active' \/ cancel'[q]
  BY DEF Registry
<1>1. phase'[q] \in Unsettled BY DEF Unsettled
<1>2. ~\E t \in AllThreads : Prepare(q, t) BY PrepareEffect DEF Executing
<1> QED BY <1>1, <1>2, UnsettledStep DEF Registry

\* Whom a registered task's cancellation reaches.
LEMMA RegisteredWaits ==
    ASSUME Registry, NEW q \in Runs, phase[q] \in Executing, ~cancel[q]
    PROVE  q \in active /\ phase[q] \in Alive /\ Waits(q)
BY DEF Registry, Waits, Executing, Alive

LEMMA AccountedStep == TypeInv /\ DeletionInv /\ [Next]_vars => Accounted'
<1> SUFFICES ASSUME TypeInv, DeletionInv, [Next]_vars, NEW q \in Runs, phase'[q] \in Unsettled
             PROVE  status'[q] \in Active \/ cancel'[q] \/ q \in late' \cup overruled'
  BY DEF Accounted, Excused
<1> DEFINE Goal == status'[q] \in Active \/ cancel'[q] \/ q \in late' \cup overruled'
<1>1. RowsOK /\ HistoryOK /\ TasksOK BY TypeParts DEF TypeInv
<1>2. ASSUME NEW t \in AllThreads, Prepare(q, t) PROVE Goal
  BY <1>2, PrepareEffect DEF Active
<1>3. CASE phase[q] \in Unsettled /\ (cancel[q] => cancel'[q])
  <2>1. status[q] # "absent"
    BY <1>3 DEF TypeInv, Places, Begun, Unsettled, Executing
  <2>2. cancel[q] \/ Excused(q) => Goal BY <1>3, ExcuseStays
  <2>3. CASE status[q] \in Active /\ ~cancel[q] /\ ~Excused(q)
    <3>1. CASE UNCHANGED rowVars BY <2>3, <3>1 DEF rowVars
    <3>2. ASSUME NEW r \in Runs, NEW t \in AllThreads, Prepare(r, t) PROVE Goal
      BY <1>1, <2>3, <3>2 DEF Prepare, RowsOK, Active
    <3>3. ASSUME NEW r \in Runs, Start(r) PROVE Goal
      BY <1>1, <2>3, <3>3 DEF Start, WriteRunning, RowsOK, Active
    <3>4. ASSUME NEW r \in Runs, Finalize(r) \/ Cancelled(r) \/ CancelledTwice(r) PROVE Goal
      <4>1. r # q BY <3>4, OutcomeSettles
      <4>2. status'[q] = status[q]
        BY <1>1, <3>4, <4>1 DEF Finalize, Cancelled, CancelledTwice, WriteRunning, WriteOutcome,
               RowsOK
      <4> QED BY <2>3, <4>2
    <3>5. ASSUME NEW r \in Runs, PersistCancel(r) PROVE Goal
      <4>1. CASE r = q
        <5>1. phase[q] # "undo" BY <1>3 DEF Unsettled, Executing
        <5> QED BY <2>3, <3>5, <4>1, <5>1 DEF PersistCancel
      <4>2. CASE r # q BY <1>1, <2>3, <3>5, <4>2 DEF PersistCancel, RowsOK
      <4> QED BY <4>1, <4>2
    <3>6. ASSUME NEW r \in Runs, DeleteRow(r) PROVE Goal
      <4>1. CASE r = q
        <5>1. CASE phase[q] \in Executing
          <6>1. Waits(q) BY <2>3, <5>1, RegisteredWaits DEF DeletionInv
          <6> QED BY <1>1, <3>6, <4>1, <6>1 DEF DeleteRow, TasksOK
        <5>2. CASE phase[q] = "prepared" BY <3>6, <4>1, <5>2 DEF DeleteRow
        <5> QED BY <1>3, <5>1, <5>2 DEF Unsettled
      <4>2. CASE r # q BY <1>1, <2>3, <3>6, <4>2 DEF DeleteRow, RowsOK
      <4> QED BY <4>1, <4>2
    <3>7. ASSUME NEW t \in AllThreads, DropThread(t) PROVE Goal
      <4>1. CASE of[q] = t
        <5>1. deleting[t].step # "none" /\ q \notin deleting[t].todo BY <3>7 DEF DropThread
        <5> QED BY <1>3, <2>3, <4>1, <5>1 DEF DeletionInv, Hunted
      <4>2. CASE of[q] # t BY <1>1, <2>3, <3>7, <4>2 DEF DropThread, RowsOK
      <4> QED BY <4>1, <4>2
    <3>8. ASSUME NEW t \in AllThreads, CreateThread(t) PROVE Goal
      BY <2>3, <3>8 DEF CreateThread
    <3> QED BY <3>1, <3>2, <3>3, <3>4, <3>5, <3>6, <3>7, <3>8, RowCases
  <2> QED BY <1>3, <2>2, <2>3 DEF DeletionInv, Accounted
<1> QED BY <1>2, <1>3, UnsettledStep

LEMMA HuntedStep == TypeInv /\ DeletionInv /\ [Next]_vars => Hunted'
<1> SUFFICES ASSUME TypeInv, DeletionInv, [Next]_vars, NEW t \in AllThreads, NEW q \in Runs,
                    of'[q] = t, deleting'[t].step # "none", phase'[q] \in Unsettled
             PROVE  q \in deleting'[t].todo \/ cancel'[q] \/ q \in late' \cup overruled'
  BY DEF Hunted, Excused
<1> DEFINE Goal == q \in deleting'[t].todo \/ cancel'[q] \/ q \in late' \cup overruled'
<1>1. /\ RowsOK /\ TasksOK /\ BrokersOK /\ deleting \in [AllThreads -> Deletions]
      /\ Threads \subseteq AllThreads
  BY TypeParts DEF TypeInv, RequestsOK, AllThreads
<1>2. ASSUME NEW p \in AllThreads, Prepare(q, p) PROVE Goal
  BY <1>2, PrepareEffect
<1>3. CASE phase[q] \in Unsettled /\ (cancel[q] => cancel'[q])
  <2>1. status[q] # "absent" /\ of[q] = t
    BY <1>3, CreatedStays DEF TypeInv, Places, Begun, Unsettled, Executing
  <2>2. cancel[q] \/ Excused(q) => Goal BY <1>3, ExcuseStays
  <2>3. CASE ~cancel[q] /\ ~Excused(q)
    <3>1. status[q] \in Active BY <1>3, <2>3 DEF DeletionInv, Accounted
    <3>2. deleting[t].step # "none" => q \in deleting[t].todo
      BY <1>3, <2>1, <2>3 DEF DeletionInv, Hunted
    <3>3. CASE UNCHANGED deleting BY <3>2, <3>3
    <3>4. ASSUME NEW p \in AllThreads, BeginDelete(p) PROVE Goal
      BY <1>1, <2>1, <3>1, <3>2, <3>4 DEF BeginDelete, OnThread
    <3>5. ASSUME NEW r \in Runs, CleanUp(r) PROVE Goal
      <4>1. status[r] # "absent" BY <3>5 DEF CleanUp, TypeInv, Places, Begun
      <4>2. of[r] \in AllThreads /\ BeginDelete(of[r]) BY <1>1, <3>5, <4>1 DEF RowsOK, CleanUp
      <4> QED BY <3>4, <4>2
    <3>6. ASSUME NEW p \in AllThreads, NEW r \in Runs, CancelNext(p, r) PROVE Goal
      <4>1. CASE p = t /\ r = q
        <5>1. CASE phase[q] \in Executing
          <6>1. q \in active /\ phase[q] \in Alive
            BY <2>3, <5>1, RegisteredWaits DEF DeletionInv
          <6>2. RequestCancel(q) BY <3>6, <4>1 DEF CancelNext
          <6> QED BY <1>1, <6>1, <6>2, CancelEffect
        <5>2. CASE phase[q] = "prepared" BY <3>6, <4>1, <5>2 DEF CancelNext
        <5> QED BY <1>3, <5>1, <5>2 DEF Unsettled
      <4>2. CASE p = t /\ r # q
        <5>1. deleting[t].step # "none" BY <3>6, <4>2 DEF CancelNext
        <5>2. deleting'[t].todo = deleting[t].todo \ {r} BY <1>1, <3>6, <4>2 DEF CancelNext
        <5> QED BY <3>2, <4>2, <5>1, <5>2
      <4>3. CASE p # t
        <5>1. deleting'[t] = deleting[t] BY <1>1, <3>6, <4>3 DEF CancelNext
        <5> QED BY <3>2, <5>1
      <4> QED BY <4>1, <4>2, <4>3
    <3>7. ASSUME NEW p \in AllThreads, AwaitCancelled(p) PROVE Goal
      <4>1. /\ deleting'[t].todo = deleting[t].todo
            /\ deleting[t].step # "none"
        BY <1>1, <3>7 DEF AwaitCancelled, Deletions
      <4> QED BY <3>2, <4>1
    <3>8. ASSUME NEW p \in AllThreads, DropThread(p) \/ DropFails(p) PROVE Goal
      BY <1>1, <3>2, <3>8 DEF DropThread, DropFails, NotDeleting
    <3>9. ASSUME NEW p \in Threads, DeleteThread(p) PROVE Goal
      BY <1>1, <3>4, <3>9 DEF DeleteThread
    <3>10. CASE Crash BY <1>1, <3>10 DEF Crash, NotDeleting
    <3> QED BY <3>3, <3>5, <3>6, <3>7, <3>8, <3>9, <3>10, DeletionCases
  <2> QED BY <2>2, <2>3
<1> QED BY <1>2, <1>3, UnsettledStep

LEMMA DeletionInvAlways == Spec => []DeletionInv
<1>1. Init => DeletionInv
  BY DEF Init, DeletionInv, Registry, Accounted, Hunted, Unsettled, Executing
<1>2. TypeInv /\ DeletionInv /\ [Next]_vars => DeletionInv'
  BY RegistryStep, AccountedStep, HuntedStep DEF DeletionInv
<1> QED BY <1>1, <1>2, TypeInvAlways, PTL DEF Spec

\* No task goes on for a run that was deleted, alone or with its thread, whoever
\* cancels, deletes, disconnects or times out in between, but for the two races
\* with the start of the run that the property names.
THEOREM DeletedRunsAlwaysStop == Spec => []DeletedRunsStop
<1>1. DeletionInv => DeletedRunsStop
  BY DEF DeletionInv, Accounted, DeletedRunsStop, Unsettled, Executing, Row, Excused, Active
<1> QED BY <1>1, DeletionInvAlways, PTL

-----------------------------------------------------------------------------
(* The end event and the status *)

\* The broker of a run and its task: a broker with an end event is finished; one
\* that is finished before its run writes an outcome was finished by a
\* cancellation, and the run is bound to notice.
Ending ==
    \A r \in Runs :
        /\ broker[r].end # "none" => broker[r].finished
        /\ broker[r].finished => broker[r].here
        /\ broker[r].finished /\ phase[r] \notin {"undo", "done"} => cancel[r]
        /\ phase[r] # "done" => broker[r].end \in {"none", "interrupted"}
        /\ phase[r] = "done" /\ Row(r) /\ broker[r].end # "none" =>
              status[r] = broker[r].end \/ r \in cut \cup overruled

\* The actions that a step can be, by what they do to brokers.
LEMMA BrokerCases ==
    ASSUME [Next]_vars
    PROVE  \/ UNCHANGED broker
           \/ \E r \in Runs : \/ Emit(r) \/ Finalize(r) \/ CancelledTwice(r) \/ FinalizeFails(r)
                              \/ SweepBroker(r) \/ CancelRun(r) \/ DeleteRun(r)
           \/ \E k \in Streams : Replay(k) \/ Take(k) \/ Disconnect(k)
           \/ \E t \in AllThreads, r \in Runs : CancelNext(t, r)
           \/ Crash
<1>1. ASSUME NEW r \in Runs,
             \/ (\E how \in {"none", "task", "stream", "client"} : Submit(r, how))
             \/ Begin(r) \/ Start(r) \/ (\E how \in Finalizing : GraphEnds(r, how))
             \/ Cancelled(r) \/ Request(r) \/ ClientGoes(r)
      PROVE  UNCHANGED broker
  BY <1>1 DEF Submit, Begin, Start, GraphEnds, Cancelled, Request, PersistCancel, AwaitTask,
         DeleteRow, CleanUp, ClientGoes
<1>2. ASSUME NEW k \in Streams,
             Drained(k) \/ \E r \in Runs, last \in 0 .. MaxEvents : Open(k, r, last)
      PROVE  UNCHANGED broker
  BY <1>2 DEF Drained, Open
<1>3. ASSUME NEW t \in AllThreads,
             \/ AwaitCancelled(t) \/ DropThread(t) \/ DropFails(t) \/ CreateThread(t)
             \/ DeleteThread(t) \/ \E r \in Runs : CreateRun(r, t)
      PROVE  UNCHANGED broker
  BY <1>3 DEF AwaitCancelled, DropThread, DropFails, CreateThread, DeleteThread, CreateRun, Prepare
<1>4. CASE Stop \/ UNCHANGED vars BY <1>4 DEF Stop, vars
<1>5. Threads \subseteq AllThreads BY DEF AllThreads
<1> QED BY <1>1, <1>2, <1>3, <1>4, <1>5 DEF Next, Task, Stream, Deletion

LEMMA EndingStep == TypeInv /\ Ending /\ [Next]_vars => Ending'
<1> SUFFICES ASSUME TypeInv, Ending, [Next]_vars, NEW q \in Runs
             PROVE  /\ broker'[q].end # "none" => broker'[q].finished
                    /\ broker'[q].finished => broker'[q].here
                    /\ broker'[q].finished /\ phase'[q] \notin {"undo", "done"} => cancel'[q]
                    /\ phase'[q] # "done" => broker'[q].end \in {"none", "interrupted"}
                    /\ phase'[q] = "done" /\ status'[q] \notin {"absent", "gone"}
                       /\ broker'[q].end # "none" =>
                          status'[q] = broker'[q].end \/ q \in cut' \cup overruled'
  BY DEF Ending, Row
<1> DEFINE Goal ==
        /\ broker'[q].end # "none" => broker'[q].finished
        /\ broker'[q].finished => broker'[q].here
        /\ broker'[q].finished /\ phase'[q] \notin {"undo", "done"} => cancel'[q]
        /\ phase'[q] # "done" => broker'[q].end \in {"none", "interrupted"}
        /\ phase'[q] = "done" /\ status'[q] \notin {"absent", "gone"} /\ broker'[q].end # "none" =>
              status'[q] = broker'[q].end \/ q \in cut' \cup overruled'
<1>1. /\ RowsOK /\ HistoryOK /\ TasksOK /\ BrokersOK
      /\ broker[q] \in Brokers /\ broker[q].taken <= broker[q].put
  BY TypeParts DEF TypeInv, BrokersOK
<1>2. cancel[q] => phase[q] \in Alive BY DEF TypeInv, Places, Begun
<1>3. /\ broker[q].end # "none" => broker[q].finished
      /\ broker[q].finished => broker[q].here
      /\ broker[q].finished /\ phase[q] \notin {"undo", "done"} => cancel[q]
      /\ phase[q] # "done" => broker[q].end \in {"none", "interrupted"}
      /\ phase[q] = "done" /\ status[q] \notin {"absent", "gone"} /\ broker[q].end # "none" =>
            status[q] = broker[q].end \/ q \in cut \cup overruled
  BY DEF Ending, Row
<1>4. cut \subseteq cut' /\ overruled \subseteq overruled' BY HistoryGrows
<1>5. "done" \notin Alive /\ "none" \notin Alive /\ "prepared" \notin Alive
  BY DEF Alive, Finalizing
\* Nothing happened to the broker of the run, nor to its task but that it may
\* have been cancelled.
<1>6. ASSUME broker'[q].end = broker[q].end, broker'[q].finished = broker[q].finished,
             broker[q].here => broker'[q].here, phase'[q] = phase[q], cancel[q] => cancel'[q],
             status'[q] \in {status[q], "gone"}
      PROVE  Goal
  BY <1>3, <1>4, <1>6
<1>7. ASSUME NEW r \in Runs, RequestCancel(r), UNCHANGED <<phase, status>> PROVE Goal
  <2>1. CASE r # q \/ broker'[q] = broker[q]
    <3>1. broker'[q] = broker[q] /\ (cancel[q] => cancel'[q])
      BY <1>1, <1>7, <2>1, CancelEffect
    <3> QED BY <1>6, <1>7, <3>1
  <2>2. CASE r = q /\ broker'[q] # broker[q]
    <3>1. /\ cancel'[q] /\ broker'[q] = Put(broker[q], 1, "interrupted")
          /\ ~(q \in active /\ phase[q] \in Alive) => cancel'[q] = cancel[q]
      BY <1>1, <1>7, <2>2, CancelEffect
    <3>2. phase[q] \in Alive BY <1>2, <3>1
    <3>3. 1 \in Nat /\ "interrupted" \in {"none"} \cup Terminal BY DEF Terminal
    <3>4. /\ broker[q].finished => broker'[q] = broker[q]
          /\ ~broker[q].finished =>
                broker'[q].end = "interrupted" /\ broker'[q].here /\ broker'[q].finished
      BY <1>1, <3>1, <3>3, PutType
    <3> QED BY <1>3, <1>5, <1>7, <3>1, <3>2, <3>4
  <2> QED BY <2>1, <2>2
<1> USE DEF TasksOK, Phase
<1>8. ASSUME NEW r \in Runs, NEW t \in AllThreads, Prepare(r, t) PROVE Goal
  <2>1. UNCHANGED <<broker, cancel>> BY <1>8 DEF Prepare
  <2>2. CASE r = q
    <3>1. status[q] = "absent" BY <1>8, <2>2 DEF Prepare
    <3>2. phase[q] = "none" BY <3>1 DEF TypeInv, Places, Begun
    <3>3. phase'[q] = "prepared" BY <1>8, <2>2, PrepareEffect
    <3> QED BY <1>2, <1>3, <1>5, <2>1, <3>2, <3>3
  <2>3. CASE r # q
    <3>1. phase'[q] = phase[q] /\ status'[q] = status[q]
      BY <1>1, <1>8, <2>3 DEF Prepare, RowsOK
    <3> QED BY <1>6, <2>1, <3>1
  <2> QED BY <2>2, <2>3
<1>9. ASSUME NEW r \in Runs, r # q, \/ Finalize(r) \/ Cancelled(r) \/ CancelledTwice(r)
                                    \/ FinalizeFails(r) \/ Begin(r) \/ Start(r)
                                    \/ \E how \in Finalizing : GraphEnds(r, how)
                                    \/ \E how \in {"none", "task", "stream", "client"} : Submit(r, how)
      PROVE  Goal
  <2>1. /\ phase'[q] = phase[q] /\ cancel'[q] = cancel[q]
        /\ broker'[q] = broker[q] /\ status'[q] = status[q]
    BY <1>1, <1>9 DEF Finalize, Cancelled, CancelledTwice, FinalizeFails, Begin, Start, GraphEnds,
           Submit, LeaveWith, Over, Become, WriteOutcome, WriteRunning, RowsOK, BrokersOK,
           rowVars, taskVars
  <2> QED BY <1>6, <2>1
<1>10. ASSUME NEW how \in {"none", "task", "stream", "client"}, Submit(q, how) PROVE Goal
  <2>1. phase[q] = "prepared" /\ phase'[q] = "new" /\ UNCHANGED <<cancel, broker>>
    BY <1>1, <1>10 DEF Submit
  <2> QED BY <1>3, <2>1
<1>11. ASSUME Begin(q) PROVE Goal
  <2>1. /\ UNCHANGED broker /\ phase[q] = "new"
        /\ \/ phase'[q] = "done" /\ q \in cut'
           \/ phase'[q] = "start" /\ UNCHANGED cancel
    BY <1>1, <1>11 DEF Begin, Over, Become
  <2> QED BY <1>3, <2>1
<1>12. ASSUME Start(q) \/ \E how \in Finalizing : GraphEnds(q, how) PROVE Goal
  <2>1. /\ UNCHANGED <<broker, cancel>> /\ phase[q] \in {"start", "stream"}
        /\ phase'[q] # "done" /\ ~cancel[q]
    BY <1>1, <1>12 DEF Start, GraphEnds, Become, Finalizing
  <2> QED BY <1>3, <2>1
<1>13. ASSUME Finalize(q) PROVE Goal
  <2> DEFINE b == Signal(broker[q], phase[q])
  <2>1. /\ phase[q] \in Finalizing /\ ~cancel[q] /\ WriteOutcome(q, phase[q]) /\ UNCHANGED of
        /\ LeaveWith(q, b)
    BY <1>13 DEF Finalize
  <2>2. /\ b \in Brokers /\ b.taken = broker[q].taken /\ broker[q].put <= b.put
        /\ broker[q].finished => b = broker[q]
        /\ ~broker[q].finished => b = broker[q] \/ (b.end = RunOutcome(phase[q]) /\ b.here)
    BY <1>1, <2>1, SignalType
  <2>3. status'[q] = IF Row(q) THEN RunOutcome(phase[q]) ELSE status[q]
    BY <1>1, <2>1 DEF WriteOutcome, RowsOK
  <2>4. phase'[q] = "done" /\ broker'[q] = Finish(b)
    BY <1>1, <2>1 DEF LeaveWith, Over, Become, BrokersOK
  <2>5. broker'[q].end = b.end /\ broker'[q].here = b.here /\ broker'[q].finished = b.here
    BY <2>2, <2>4, FinishType
  <2> HIDE DEF b
  <2>6. CASE broker[q].finished
    <3>1. phase[q] = "undo" /\ broker[q].end \in {"none", "interrupted"}
      BY <1>3, <2>1, <2>6 DEF Finalizing
    <3>2. RunOutcome(phase[q]) = "interrupted" BY <3>1 DEF RunOutcome
    <3> QED BY <1>3, <2>2, <2>3, <2>4, <2>5, <2>6, <3>1, <3>2 DEF Row
  <2>7. CASE ~broker[q].finished
    <3>1. b.end # "none" => b.end = RunOutcome(phase[q]) /\ b.here BY <1>3, <2>2, <2>7
    <3> QED BY <2>3, <2>4, <2>5, <3>1 DEF Row
  <2> QED BY <2>6, <2>7
<1>14. ASSUME Cancelled(q) PROVE Goal
  <2>1. phase'[q] = "undo" /\ phase[q] # "done" /\ UNCHANGED broker
    BY <1>1, <1>14 DEF Cancelled, Become
  <2> QED BY <1>3, <2>1
<1>15. ASSUME CancelledTwice(q) \/ FinalizeFails(q), LeaveWith(q, broker[q]), q \in cut'
       PROVE  Goal
  <2>1. phase'[q] = "done" /\ broker'[q] = Finish(broker[q])
    BY <1>1, <1>15 DEF LeaveWith, Over, Become, BrokersOK
  <2> QED BY <1>1, <1>3, <1>15, <2>1, FinishType
<1>16. ASSUME CancelledTwice(q) \/ FinalizeFails(q) PROVE Goal
  <2>1. CASE Become(q, "fail") /\ FinalizeFails(q) /\ phase[q] \in {"success", "pause"}
             /\ UNCHANGED <<cancel, broker>>
    <3>1. phase'[q] = "fail" BY <1>1, <2>1 DEF Become
    <3> QED BY <1>3, <2>1, <3>1
  <2> QED BY <1>15, <1>16, <2>1 DEF CancelledTwice, FinalizeFails
<1>17. ASSUME NEW r \in Runs, Emit(r) PROVE Goal
  <2>1. UNCHANGED <<phase, cancel, status>> BY <1>17 DEF Emit, taskVars, rowVars
  <2>2. CASE r = q
    <3>1. phase[q] = "stream" /\ ~cancel[q] /\ broker'[q] = Put(broker[q], 1, "none")
      BY <1>1, <1>17, <2>2 DEF Emit, BrokersOK
    <3>2. ~broker[q].finished BY <1>3, <3>1
    <3>3. 1 \in Nat /\ "none" \in {"none"} \cup Terminal OBVIOUS
    <3>4. broker'[q].end = "none" /\ ~broker'[q].finished BY <1>1, <3>1, <3>2, <3>3, PutType
    <3> QED BY <1>3, <2>1, <3>1, <3>4
  <2>3. CASE r # q
    <3>1. broker'[q] = broker[q] BY <1>1, <1>17, <2>3 DEF Emit, BrokersOK
    <3> QED BY <1>6, <2>1, <3>1
  <2> QED BY <2>2, <2>3
<1>18. ASSUME NEW r \in Runs, SweepBroker(r) PROVE Goal
  <2>1. UNCHANGED <<phase, cancel, status>> BY <1>18 DEF SweepBroker, taskVars, rowVars
  <2> DEFINE none == NoBroker(TRUE)
  <2>2. broker'[q] = broker[q] \/ broker'[q] = none
    <3>1. broker' = [broker EXCEPT ![r] = none] BY <1>18 DEF SweepBroker
    <3> HIDE DEF none
    <3> QED BY <1>1, <3>1 DEF BrokersOK
  <2>3. CASE broker'[q] = none BY <2>1, <2>3 DEF NoBroker
  <2>4. CASE broker'[q] = broker[q] BY <1>6, <2>1, <2>4
  <2> QED BY <2>2, <2>3, <2>4
<1>19. ASSUME NEW r \in Runs, CancelRun(r) \/ DeleteRun(r) PROVE Goal
  <2>1. UNCHANGED <<phase, status>> BY <1>19 DEF CancelRun, DeleteRun, rowVars
  <2>2. CASE UNCHANGED <<cancel, broker>> BY <1>6, <2>1, <2>2
  <2> QED BY <1>7, <1>19, <2>1, <2>2 DEF CancelRun, DeleteRun
<1>20. ASSUME NEW k \in Streams, Disconnect(k) PROVE Goal
  <2>1. UNCHANGED <<phase, status>> BY <1>20 DEF Disconnect, rowVars
  <2>2. CASE UNCHANGED <<cancel, broker>> BY <1>6, <2>1, <2>2
  <2>3. stream[k].run \in Runs BY <1>20 DEF Disconnect, TypeInv, Places, Followed
  <2> QED BY <1>7, <1>20, <2>1, <2>2, <2>3 DEF Disconnect
<1>21. ASSUME NEW k \in Streams, Replay(k) \/ Take(k) PROVE Goal
  <2>1. UNCHANGED <<phase, cancel, status>> BY <1>21 DEF Replay, Take, taskVars, rowVars
  <2>2. /\ broker'[q].end = broker[q].end /\ broker'[q].finished = broker[q].finished
        /\ broker[q].here => broker'[q].here
    <3>1. CASE Replay(k) BY <1>1, <3>1 DEF Replay, BrokersOK, Brokers
    <3>2. CASE Take(k) BY <1>1, <3>2 DEF Take, BrokersOK, Brokers
    <3> QED BY <1>21, <3>1, <3>2
  <2> QED BY <1>6, <2>1, <2>2
<1>22. ASSUME NEW t \in AllThreads, NEW r \in Runs, CancelNext(t, r) PROVE Goal
  BY <1>7, <1>22 DEF CancelNext, rowVars
<1>23. ASSUME NEW r \in Runs, PersistCancel(r) PROVE Goal
  <2>1. UNCHANGED <<phase, cancel, broker>> BY <1>23 DEF PersistCancel, taskVars
  <2>2. CASE r = q /\ phase[q] = "done"
    <3>1. q \in overruled' BY <1>2, <1>5, <1>23, <2>2 DEF PersistCancel
    <3> QED BY <1>3, <2>1, <2>2, <3>1
  <2>3. CASE r = q /\ phase[q] # "done" BY <1>3, <2>1, <2>3
  <2>4. CASE r # q
    <3>1. status'[q] = status[q] BY <1>1, <1>23, <2>4 DEF PersistCancel, RowsOK
    <3> QED BY <1>6, <2>1, <3>1
  <2> QED BY <2>2, <2>3, <2>4
<1>24. ASSUME NEW r \in Runs, DeleteRow(r) PROVE Goal
  <2>1. UNCHANGED <<phase, broker>> /\ (cancel[q] => cancel'[q]) /\ status'[q] \in {status[q], "gone"}
    BY <1>1, <1>24 DEF DeleteRow, RowsOK
  <2> QED BY <1>6, <2>1
<1>25. ASSUME NEW r \in Runs, AwaitTask(r) \/ CleanUp(r) \/ ClientGoes(r) PROVE Goal
  BY <1>6, <1>25 DEF AwaitTask, CleanUp, ClientGoes, rowVars, taskVars
<1>26. CASE Stop BY <1>6, <1>1, <1>26 DEF Stop, rowVars
<1>27. CASE Crash
  <2>1. broker'[q] = NoBroker(broker[q].here \/ broker[q].dropped)
    BY <1>27 DEF Crash
  <2> QED BY <2>1 DEF NoBroker
<1>28. ASSUME TasksRest,
              UNCHANGED broker,
              \/ UNCHANGED rowVars \/ \E t \in AllThreads : DropThread(t) \/ CreateThread(t)
       PROVE  Goal
  <2>1. status'[q] \in {status[q], "gone"}
    <3>1. CASE UNCHANGED rowVars BY <3>1 DEF rowVars
    <3>2. ASSUME NEW t \in AllThreads, DropThread(t) PROVE status'[q] \in {status[q], "gone"}
      BY <3>2 DEF DropThread
    <3>3. ASSUME NEW t \in AllThreads, CreateThread(t) PROVE UNCHANGED status
      BY <3>3 DEF CreateThread
    <3> QED BY <1>28, <3>1, <3>2, <3>3
  <2> QED BY <1>6, <1>28, <2>1 DEF TasksRest
<1>29. CASE /\ TasksRest /\ UNCHANGED broker
            /\ ~(\/ UNCHANGED rowVars \/ \E t \in AllThreads : DropThread(t) \/ CreateThread(t))
  <2>1. \/ \E r \in Runs, t \in AllThreads : Prepare(r, t)
        \/ \E r \in Runs : \/ Start(r) \/ Finalize(r) \/ Cancelled(r) \/ CancelledTwice(r)
                           \/ PersistCancel(r) \/ DeleteRow(r)
    BY <1>29, RowCases
  <2> QED BY <2>1, <1>8, <1>9, <1>12, <1>13, <1>14, <1>16, <1>23, <1>24
<1>30. CASE TasksRest /\ ~UNCHANGED broker
  BY <1>30, <1>9, <1>13, <1>16, <1>17, <1>18, <1>19, <1>20, <1>21, <1>22, <1>27, BrokerCases
<1>31. CASE ~TasksRest
  BY <1>31, <1>8, <1>9, <1>10, <1>11, <1>12, <1>13, <1>14, <1>16, <1>19, <1>20, <1>22, <1>23,
     <1>24, <1>25, <1>26, <1>27, TaskCases
<1> QED BY <1>28, <1>29, <1>30, <1>31

LEMMA EndingAlways == Spec => []Ending
<1>1. Init => Ending BY DEF Init, Ending, NoBroker
<1> QED BY <1>1, EndingStep, TypeInvAlways, PTL DEF Spec

\* The end event that a run's streams read tells the status it ended with,
\* however cancellations, failing writes and disconnections interleave with its
\* end.
THEOREM EndAlwaysTellsStatus == Spec => []EndTellsStatus
<1>1. Ending => EndTellsStatus BY DEF Ending, EndTellsStatus
<1> QED BY <1>1, EndingAlways, PTL

-----------------------------------------------------------------------------
(* The clean-up of stateless runs *)

\* An ephemeral thread has one run; while the clean-up waits for the stream of
\* its creator the run is followed or cancelled; a run that the clean-up means
\* to cancel is over or cancelled, or the wait for it expired.
OneRun == \A q, r \in Runs : of[q] = of[r] /\ of[q] \in Ephemeral => q = r
Watched ==
    \A r \in Runs :
        clean[r] = "stream" /\ phase[r] \in Executing /\ ~cancel[r] =>
            \E k \in Streams : stream[k].run = r /\ stream[k].own /\ Attached(k)
Doomed ==
    \A t \in Ephemeral : \A r \in deleting[t].todo :
        phase[r] \in Unsettled => cancel[r] \/ r \in expired

CleanInv == OneRun /\ Watched /\ Doomed

LEMMA OneRunStep == TypeInv /\ OneRun /\ [Next]_vars => OneRun'
<1> SUFFICES ASSUME TypeInv, OneRun, [Next]_vars PROVE OneRun' OBVIOUS
<1> USE DEF OneRun
<1>1. RowsOK BY TypeParts DEF TypeInv
<1>2. ASSUME NEW r \in Runs, NEW t \in AllThreads, Prepare(r, t) PROVE OneRun'
  <2>1. of' = [of EXCEPT ![r] = t] BY <1>2 DEF Prepare
  <2>2. t \in Ephemeral => \A q \in Runs : of[q] # t BY <1>2 DEF Prepare, Fresh, OnThread
  <2> QED BY <1>1, <2>1, <2>2 DEF RowsOK
<1>3. ASSUME NEW r \in Runs, \/ Start(r) \/ Finalize(r) \/ Cancelled(r) \/ CancelledTwice(r)
                             \/ PersistCancel(r) \/ DeleteRow(r)
      PROVE  UNCHANGED of
  BY <1>3 DEF Start, Finalize, Cancelled, CancelledTwice, PersistCancel, DeleteRow
<1>4. ASSUME NEW t \in AllThreads, DropThread(t) \/ CreateThread(t) PROVE UNCHANGED of
  BY <1>4 DEF DropThread, CreateThread
<1>5. CASE UNCHANGED rowVars BY <1>5 DEF rowVars
<1> QED BY <1>2, <1>3, <1>4, <1>5, RowCases

\* A clean-up that waits for a stream was arranged when the run was submitted.
LEMMA StreamCleanUp ==
    ASSUME TypeInv, [Next]_vars, NEW q \in Runs, clean'[q] = "stream", clean[q] # "stream"
    PROVE  Submit(q, "stream")
<1>1. RequestsOK BY TypeParts DEF TypeInv
<1>2. ASSUME NEW r \in Runs, NEW how \in {"none", "task", "stream", "client"}, Submit(r, how)
      PROVE  Submit(q, "stream")
  <2>1. clean' = [clean EXCEPT ![r] = how] BY <1>2 DEF Submit
  <2>2. r = q /\ how = "stream" BY <1>1, <2>1 DEF RequestsOK
  <2> QED BY <1>2, <2>2
<1> USE DEF RequestsOK, reqVars
<1>3. CASE TasksRest BY <1>3 DEF TasksRest
<1>4. ASSUME NEW r \in Runs, NEW t \in AllThreads, Prepare(r, t) PROVE FALSE
  BY <1>4 DEF Prepare
<1>5. ASSUME NEW r \in Runs, \/ Begin(r) \/ Start(r) \/ Finalize(r) \/ Cancelled(r)
                             \/ CancelledTwice(r) \/ FinalizeFails(r)
                             \/ \E how \in Finalizing : GraphEnds(r, how)
      PROVE  FALSE
  BY <1>5 DEF Begin, Start, Finalize, Cancelled, CancelledTwice, FinalizeFails, GraphEnds
<1>6. ASSUME NEW r \in Runs, \/ CancelRun(r) \/ DeleteRun(r) \/ PersistCancel(r) \/ AwaitTask(r)
                             \/ DeleteRow(r) \/ CleanUp(r) \/ ClientGoes(r)
      PROVE  FALSE
  BY <1>1, <1>6 DEF CancelRun, DeleteRun, PersistCancel, AwaitTask, DeleteRow, CleanUp, ClientGoes
<1>7. ASSUME NEW k \in Streams, Disconnect(k) PROVE FALSE
  BY <1>1, <1>7 DEF Disconnect
<1>8. ASSUME NEW r \in Runs, NEW t \in AllThreads, CancelNext(t, r) PROVE FALSE
  BY <1>8 DEF CancelNext
<1>9. CASE Stop \/ Crash BY <1>1, <1>9 DEF Stop, Crash
<1> QED BY <1>2, <1>3, <1>4, <1>5, <1>6, <1>7, <1>8, <1>9, TaskCases

LEMMA WatchedStep == TypeInv /\ Ending /\ Watched /\ [Next]_vars => Watched'
<1> SUFFICES ASSUME TypeInv, Ending, Watched, [Next]_vars, NEW q \in Runs,
                    clean'[q] = "stream", phase'[q] \in Executing, ~cancel'[q]
             PROVE  \E k \in Streams : /\ stream'[k].run = q /\ stream'[k].own
                                       /\ stream'[k].step \in {"opened", "live"}
  BY DEF Watched, Attached
<1> DEFINE Goal == \E k \in Streams : /\ stream'[k].run = q /\ stream'[k].own
                                      /\ stream'[k].step \in {"opened", "live"}
<1>1. stream \in [Streams -> Connections] /\ RequestsOK
  BY TypeParts DEF TypeInv, StreamsOK
<1>2. ~broker'[q].finished
  <2>1. phase'[q] \notin {"undo", "done"} BY DEF Executing
  <2> QED BY <2>1, EndingStep DEF Ending
<1>3. /\ phase[q] \in Unsettled /\ ~cancel[q]
      /\ phase[q] = "prepared" => clean[q] = "none"
  <2>1. phase'[q] \in Unsettled BY DEF Unsettled
  <2>2. ~\E t \in AllThreads : Prepare(q, t) BY PrepareEffect DEF Executing
  <2> QED BY <2>1, <2>2, UnsettledStep DEF TypeInv, Places, Begun
<1>4. CASE clean[q] # "stream"
  <2>1. Submit(q, "stream") BY <1>4, StreamCleanUp
  <2>2. PICK k \in Streams : stream' = [stream EXCEPT ![k] =
           [run |-> q, own |-> TRUE, step |-> "opened", last |-> 0, got |-> {}]]
    BY <2>1 DEF Submit, OwnStream
  <2> QED BY <1>1, <2>2
<1>5. CASE clean[q] = "stream"
  <2>1. phase[q] \in Executing BY <1>3, <1>5 DEF Unsettled
  <2>2. PICK k \in Streams : stream[k].run = q /\ stream[k].own /\ Attached(k)
    BY <1>3, <1>5, <2>1 DEF Watched
  <2>3. stream[k].step \in {"opened", "live"} BY <2>2 DEF Attached
  <2>4. stream'[k] = stream[k] => Goal BY <2>2, <2>3
  <2>5. ~broker[q].finished /\ broker[q].end = "none"
    <3>1. phase[q] \notin {"undo", "done"} BY <2>1 DEF Executing
    <3> QED BY <1>3, <3>1 DEF Ending
  <2>6. CASE UNCHANGED stream BY <2>4, <2>6
  <2>7. ~Crash BY <1>1 DEF Crash, RequestsOK
  <2>8. ASSUME NEW r \in Runs, OwnStream(r) PROVE Goal
    BY <1>1, <2>3, <2>4, <2>8 DEF OwnStream
  <2>9. ASSUME NEW j \in Streams, NEW r \in Runs, NEW last \in 0 .. MaxEvents, Open(j, r, last)
        PROVE  Goal
    BY <1>1, <2>3, <2>4, <2>9 DEF Open
  <2>10. ASSUME NEW j \in Streams, j # k, Stream(j) \/ Disconnect(j) PROVE Goal
    BY <1>1, <2>4, <2>10 DEF Stream, Replay, Take, Drained, Disconnect
  <2>11. CASE Replay(k)
    BY <1>1, <2>2, <2>11 DEF Replay, Connections
  <2>12. CASE Take(k)
    <3>1. /\ stream'[k].step = IF /\ broker[stream[k].run].taken + 1 = broker[stream[k].run].put
                                  /\ broker[stream[k].run].end # "none"
                               THEN "ended" ELSE "live"
          /\ stream'[k].run = stream[k].run /\ stream'[k].own = stream[k].own
      BY <1>1, <2>12 DEF Take, Connections
    <3> QED BY <2>2, <2>5, <3>1
  <2>13. ~Drained(k) BY <2>2, <2>5 DEF Drained
  <2>14. ~Disconnect(k)
    <3>1. ASSUME Disconnect(k) PROVE clean'[q] = "kept"
      <4>1. clean' = [clean EXCEPT ![q] = "kept"] BY <1>2, <1>5, <2>2, <3>1 DEF Disconnect
      <4> QED BY <1>1, <4>1 DEF RequestsOK
    <3> QED BY <3>1
  <2>15. ASSUME NEW r \in Runs, SweepBroker(r) PROVE Goal
    <3>1. r # q BY <2>5, <2>15 DEF SweepBroker
    <3>2. stream'[k] = stream[k] BY <1>1, <2>2, <2>15, <3>1 DEF SweepBroker
    <3> QED BY <2>4, <3>2
  <2> QED
    BY <2>6, <2>7, <2>8, <2>9, <2>10, <2>11, <2>12, <2>13, <2>14, <2>15, StreamCases DEF Stream
<1> QED BY <1>4, <1>5

LEMMA DoomedStep == TypeInv /\ Registry /\ CleanInv /\ [Next]_vars => Doomed'
<1> SUFFICES ASSUME TypeInv, Registry, CleanInv, [Next]_vars, NEW t \in Ephemeral,
                    NEW q \in deleting'[t].todo, phase'[q] \in Unsettled
             PROVE  cancel'[q] \/ q \in expired'
  BY DEF Doomed
<1>1. /\ RowsOK /\ deleting \in [AllThreads -> Deletions] /\ t \in AllThreads /\ t # None
      /\ t \notin Threads
  BY TypeParts DEF TypeInv, RequestsOK, AllThreads
<1>2. q \in Runs
  <2>1. deleting'[t] \in Deletions
    BY <1>1, TypeStep, TypeParts DEF TypeInv, RequestsOK
  <2> QED BY <2>1 DEF Deletions
<1>3. ~\E p \in AllThreads : Prepare(q, p)
  <2>1. ASSUME NEW p \in AllThreads, Prepare(q, p) PROVE FALSE
    <3>1. UNCHANGED deleting BY <1>2, <2>1, PrepareEffect
    <3>2. of[q] = t BY <1>1, <3>1 DEF TypeInv, Places, Chosen
    <3>3. status[q] = "absent" BY <2>1 DEF Prepare
    <3> QED BY <1>1, <1>2, <3>2, <3>3 DEF RowsOK
  <2> QED BY <2>1
<1>4. phase[q] \in Unsettled /\ (cancel[q] => cancel'[q]) BY <1>2, <1>3, UnsettledStep
<1>5. CASE q \in deleting[t].todo
  <2>1. cancel[q] \/ q \in expired BY <1>4, <1>5 DEF CleanInv, Doomed
  <2> QED BY <1>4, <2>1, HistoryGrows
<1>6. CASE q \notin deleting[t].todo
  <2>1. ASSUME NEW p \in AllThreads, BeginDelete(p) PROVE p = t /\ of[q] = t
    BY <1>1, <1>6, <2>1 DEF BeginDelete, OnThread
  <2>2. ASSUME NEW r \in Runs, CleanUp(r) PROVE cancel'[q] \/ q \in expired'
    <3>1. status[r] # "absent" /\ BeginDelete(of[r])
      BY <2>2 DEF CleanUp, TypeInv, Places, Begun
    <3>2. of[r] \in AllThreads BY <1>1, <3>1 DEF RowsOK
    <3>3. of[r] = t /\ of[q] = t BY <2>1, <3>1, <3>2
    <3>4. r = q BY <1>2, <3>3 DEF CleanInv, OneRun
    <3>5. phase[q] \in Executing
      <4>1. clean[q] # "none" BY <2>2, <3>4 DEF CleanUp
      <4>2. phase[q] # "prepared" BY <1>2, <4>1 DEF TypeInv, Places, Begun
      <4> QED BY <1>4, <4>2 DEF Unsettled
    <3>6. CASE ~cancel[q]
      <4>1. Waits(q) BY <1>2, <3>5, <3>6, RegisteredWaits
      <4>2. clean[q] # "stream"
        <5>1. clean[q] = "stream" =>
                 \E k \in Streams : stream[k].run = q /\ stream[k].step \in {"opened", "live"}
          BY <1>2, <3>5, <3>6 DEF CleanInv, Watched, Attached
        <5>2. clean[q] = "stream" =>
                 \A k \in Streams : stream[k].run = q => stream[k].step \notin {"opened", "live"}
          BY <2>2, <3>4 DEF CleanUp
        <5> QED BY <5>1, <5>2
      <4> QED BY <2>2, <3>4, <4>1, <4>2 DEF CleanUp
    <3> QED BY <1>4, <3>6
  <2>3. ~\E p \in AllThreads, r \in Runs : CancelNext(p, r)
    BY <1>1, <1>6 DEF CancelNext
  <2>4. ~\E p \in AllThreads : AwaitCancelled(p) \/ DropThread(p) \/ DropFails(p)
    BY <1>1, <1>6 DEF AwaitCancelled, DropThread, DropFails, NotDeleting, Deletions
  <2>5. ~\E p \in Threads : DeleteThread(p)
    <3>1. ASSUME NEW p \in Threads, DeleteThread(p) PROVE FALSE
      <4>1. p \in AllThreads /\ BeginDelete(p) BY <3>1 DEF DeleteThread, AllThreads
      <4> QED BY <1>1, <2>1, <4>1
    <3> QED BY <3>1
  <2>6. ~Crash BY <1>1 DEF Crash, NotDeleting
  <2>7. ~UNCHANGED deleting BY <1>6
  <2> QED BY <2>2, <2>3, <2>4, <2>5, <2>6, <2>7, DeletionCases
<1> QED BY <1>5, <1>6

LEMMA CleanInvAlways == Spec => []CleanInv
<1>1. Init => CleanInv
  BY DEF Init, CleanInv, OneRun, Watched, Doomed, NotDeleting, Executing, AllThreads
<1>2. TypeInv /\ Registry /\ Ending /\ CleanInv /\ [Next]_vars => CleanInv'
  BY OneRunStep, WatchedStep, DoomedStep DEF CleanInv
<1>3. DeletionInv => Registry BY DEF DeletionInv
<1> QED BY <1>1, <1>2, <1>3, TypeInvAlways, DeletionInvAlways, EndingAlways, PTL DEF Spec

\* The clean-up of a stateless run deletes the thread when the run is over: it
\* never cancels a run that executes, unless the wait for the run timed out.
THEOREM CleanUpsAlwaysWait == Spec => CleanUpWaits
<1>1. ASSUME TypeInv, CleanInv, [Next]_vars, NEW q \in Runs, of[q] \in Ephemeral,
             deleting' # deleting, phase[q] \in Executing, ~cancel[q], cancel'[q]
      PROVE  q \in expired
  <2>1. TasksOK /\ BrokersOK BY <1>1, TypeParts DEF TypeInv
  <2>2. ~\E r \in Runs : CleanUp(r) BY <1>1 DEF CleanUp, taskVars
  <2>3. ~\E t \in AllThreads : AwaitCancelled(t) \/ DropThread(t) \/ DropFails(t)
    BY <1>1 DEF AwaitCancelled, DropThread, DropFails, taskVars
  <2>4. ~\E t \in Threads : DeleteThread(t) BY <1>1 DEF DeleteThread, taskVars
  <2>5. ~Crash BY <1>1 DEF Crash
  <2>6. PICK t \in AllThreads, r \in Runs : CancelNext(t, r)
    BY <1>1, <2>2, <2>3, <2>4, <2>5, DeletionCases
  <2>7. r = q /\ q \in deleting[t].todo
    BY <1>1, <2>1, <2>6, CancelEffect DEF CancelNext
  <2>8. t \in Ephemeral BY <1>1, <2>7 DEF TypeInv, Places, Chosen
  <2> QED BY <1>1, <2>7, <2>8 DEF CleanInv, Doomed, Unsettled
<1>2. TypeInv /\ CleanInv /\ [Next]_vars =>
         [\A r \in Runs :
             of[r] \in Ephemeral /\ deleting' # deleting /\ phase[r] \in {"new", "start", "stream"}
             /\ ~cancel[r] /\ cancel'[r] => r \in expired]_vars
  BY <1>1 DEF Executing
<1> QED BY <1>2, TypeInvAlways, CleanInvAlways, PTL DEF Spec, CleanUpWaits

-----------------------------------------------------------------------------
(* A stream that has the queue of its run for itself *)

Sole(k) == \A j \in Streams \ {k} : stream[j].run # stream[k].run

\* As long as the run keeps its broker, such a stream has every event up to the
\* last it sent, which is in the buffer, and nothing was taken off the queue
\* beyond it.
Complete ==
    \A k \in Streams : Attached(k) /\ Sole(k) /\ ~broker[stream[k].run].dropped =>
        /\ stream[k].got = 1 .. stream[k].last
        /\ stream[k].last <= broker[stream[k].run].put
        /\ stream[k].step = "live" => broker[stream[k].run].taken <= stream[k].last

\* While a run is followed its broker stays, and only streams take events.
LEMMA BrokerGrows ==
    ASSUME TypeInv, [Next]_vars, NEW q \in Runs
    PROVE  \/ /\ broker[q].put <= broker'[q].put /\ broker'[q].taken = broker[q].taken
              /\ broker'[q].dropped = broker[q].dropped
           \/ SweepBroker(q) \/ Crash
           \/ \E k \in Streams : Take(k) /\ stream[k].run = q
<1> DEFINE Grows == /\ broker[q].put <= broker'[q].put /\ broker'[q].taken = broker[q].taken
                    /\ broker'[q].dropped = broker[q].dropped
<1>1. /\ TasksOK /\ BrokersOK /\ broker[q] \in Brokers /\ broker[q].taken <= broker[q].put
      /\ broker[q].put \in Nat
  BY TypeParts DEF TypeInv, BrokersOK, Brokers
<1>2. ASSUME broker'[q] = broker[q] PROVE Grows BY <1>1, <1>2
<1>3. ASSUME NEW r \in Runs, Emit(r) PROVE Grows
  <2>1. broker'[q] \in {broker[q], Put(broker[q], 1, "none")}
    BY <1>1, <1>3 DEF Emit, BrokersOK
  <2>2. 1 \in Nat /\ "none" \in {"none"} \cup Terminal OBVIOUS
  <2> QED BY <1>1, <1>2, <2>1, <2>2, PutType
<1>4. ASSUME NEW r \in Runs, NEW b, b = Signal(broker[r], phase[r]) \/ b = broker[r],
             phase[r] \in Finalizing, LeaveWith(r, b)
      PROVE  Grows
  <2>1. broker' = [broker EXCEPT ![r] = Finish(b)] BY <1>4 DEF LeaveWith
  <2>2. CASE r = q
    <3>1. /\ b \in Brokers /\ b.taken = broker[q].taken /\ broker[q].put <= b.put
          /\ b.dropped = broker[q].dropped
      BY <1>1, <1>4, <2>2, SignalType
    <3>2. broker'[q] = Finish(b) BY <1>1, <2>1, <2>2 DEF BrokersOK
    <3> QED BY <3>1, <3>2, FinishType
  <2>3. CASE r # q BY <1>1, <1>2, <2>1, <2>3 DEF BrokersOK
  <2> QED BY <2>2, <2>3
<1>5. ASSUME NEW r \in Runs, Finalize(r) \/ CancelledTwice(r) \/ FinalizeFails(r) PROVE Grows
  <2>1. CASE UNCHANGED broker BY <1>2, <2>1
  <2>2. phase[r] \in Finalizing
    BY <1>5 DEF Finalize, CancelledTwice, FinalizeFails, Finalizing
  <2> QED BY <1>4, <1>5, <2>1, <2>2 DEF Finalize, CancelledTwice, FinalizeFails
<1>6. ASSUME NEW r \in Runs, RequestCancel(r) PROVE Grows
  <2>1. broker'[q] \in {broker[q], Put(broker[q], 1, "interrupted")}
    BY <1>1, <1>6, CancelEffect
  <2>2. 1 \in Nat /\ "interrupted" \in {"none"} \cup Terminal BY DEF Terminal
  <2>3. ASSUME NEW m \in Nat, NEW e \in {"none"} \cup Terminal,
               broker'[q] = Put(broker[q], m, e)
        PROVE  Grows
    BY <1>1, <2>3, PutType
  <2> QED BY <1>2, <2>1, <2>2, <2>3
<1>7. ASSUME NEW r \in Runs, CancelRun(r) \/ DeleteRun(r) PROVE Grows
  BY <1>2, <1>6, <1>7 DEF CancelRun, DeleteRun
<1>8. ASSUME NEW k \in Streams, Disconnect(k) PROVE Grows
  <2>1. stream[k].run \in Runs BY <1>8 DEF Disconnect, TypeInv, Places, Followed
  <2> QED BY <1>2, <1>6, <1>8, <2>1 DEF Disconnect
<1>9. ASSUME NEW r \in Runs, NEW t \in AllThreads, CancelNext(t, r) PROVE Grows
  BY <1>6, <1>9 DEF CancelNext
<1>10. ASSUME NEW k \in Streams, Replay(k) PROVE Grows
  <2>1. /\ broker'[q].put = broker[q].put /\ broker'[q].taken = broker[q].taken
        /\ broker'[q].dropped = broker[q].dropped
    BY <1>1, <1>10 DEF Replay, BrokersOK, Brokers
  <2> QED BY <1>1, <2>1
<1>11. ASSUME NEW k \in Streams, Take(k), stream[k].run # q PROVE Grows
  <2>1. broker'[q] = broker[q] BY <1>1, <1>11 DEF Take, BrokersOK
  <2> QED BY <1>2, <2>1
<1>12. ASSUME NEW r \in Runs, SweepBroker(r), r # q PROVE Grows
  <2>1. broker'[q] = broker[q] BY <1>1, <1>12 DEF SweepBroker, BrokersOK
  <2> QED BY <1>2, <2>1
<1>13. ASSUME UNCHANGED broker PROVE Grows BY <1>2, <1>13
<1> QED
  BY <1>13, <1>3, <1>5, <1>7, <1>8, <1>9, <1>10, <1>11, <1>12, BrokerCases

LEMMA CompleteStep == TypeInv /\ Complete /\ [Next]_vars => Complete'
<1> SUFFICES ASSUME TypeInv, Complete, [Next]_vars, NEW k \in Streams,
                    stream'[k].step \in {"opened", "live"},
                    \A j \in Streams \ {k} : stream'[j].run # stream'[k].run,
                    ~broker'[stream'[k].run].dropped
             PROVE  /\ stream'[k].got = 1 .. stream'[k].last
                    /\ stream'[k].last <= broker'[stream'[k].run].put
                    /\ stream'[k].step = "live" =>
                          broker'[stream'[k].run].taken <= stream'[k].last
  BY DEF Complete, Attached, Sole
<1> DEFINE q == stream[k].run
           Goal == /\ stream'[k].got = 1 .. stream'[k].last
                   /\ stream'[k].last <= broker'[stream'[k].run].put
                   /\ stream'[k].step = "live" =>
                         broker'[stream'[k].run].taken <= stream'[k].last
<1>1. /\ stream \in [Streams -> Connections] /\ stream[k] \in Connections
      /\ BrokersOK /\ Followed
  BY TypeParts DEF TypeInv, StreamsOK, Places
<1>2. ~Crash BY <1>1 DEF Crash, Connections
<1>3. broker' \in [Runs -> Brokers] BY TypeStep, TypeParts DEF BrokersOK
<1>4. stream[k].step # "idle" => q \in Runs BY <1>1 DEF Followed
\* Before the step, when the stream was there and does the step alone.
<1>5. ASSUME q \in Runs, Attached(k), stream'[k].run = q,
             \A j \in Streams \ {k} : stream[j].run = q => stream'[j].run = q,
             ~broker[q].dropped
      PROVE  /\ stream[k].got = 1 .. stream[k].last /\ stream[k].last <= broker[q].put
             /\ stream[k].step = "live" => broker[q].taken <= stream[k].last
             /\ stream[k].last \in Nat /\ broker[q].put \in Nat /\ broker'[q].put \in Nat
             /\ broker[q].taken \in Nat /\ broker[q].taken <= broker[q].put
  <2>1. Sole(k) BY <1>5 DEF Sole
  <2>2. /\ stream[k].got = 1 .. stream[k].last /\ stream[k].last <= broker[q].put
        /\ stream[k].step = "live" => broker[q].taken <= stream[k].last
    BY <1>5, <2>1 DEF Complete
  <2>3. stream[k].last \in Nat /\ broker[q].put \in Nat /\ broker'[q].put \in Nat
        /\ broker[q].taken \in Nat /\ broker[q].taken <= broker[q].put
    BY <1>1, <1>3, <1>5 DEF Connections, BrokersOK, Brokers
  <2> QED BY <2>2, <2>3
\* A broker is not swept under a stream that goes on with it.
<1>10. ASSUME NEW r \in Runs, SweepBroker(r) PROVE stream'[k].run # r /\ r \in Runs
  <2>1. broker'[r].dropped
    <3> DEFINE none == NoBroker(TRUE)
    <3>1. broker' = [broker EXCEPT ![r] = none] /\ none.dropped BY <1>10 DEF SweepBroker, NoBroker
    <3> HIDE DEF none
    <3> QED BY <1>1, <1>10, <3>1 DEF BrokersOK
  <2> QED BY <1>10, <2>1
\* The stream itself does nothing.
<1>6. ASSUME stream'[k] = stream[k],
             \A j \in Streams \ {k} : stream[j].run = q => stream'[j].run = q,
             \/ broker'[q] = broker[q]
             \/ ~\E j \in Streams : Take(j)
      PROVE  Goal
  <2>1. Attached(k) /\ q \in Runs BY <1>4, <1>6 DEF Attached
  <2>2. ~SweepBroker(q) BY <1>6, <1>10, <2>1
  <2>3. /\ broker[q].put <= broker'[q].put /\ broker'[q].taken = broker[q].taken
        /\ broker'[q].dropped = broker[q].dropped
    <3>1. broker[q].put \in Nat BY <1>1, <2>1 DEF BrokersOK, Brokers
    <3>2. CASE broker'[q] = broker[q] BY <3>1, <3>2
    <3>3. CASE ~\E j \in Streams : Take(j) BY <1>2, <2>1, <2>2, <3>3, BrokerGrows
    <3> QED BY <1>6, <3>2, <3>3
  <2>5. /\ stream[k].got = 1 .. stream[k].last /\ stream[k].last <= broker[q].put
        /\ stream[k].step = "live" => broker[q].taken <= stream[k].last
        /\ stream[k].last \in Nat /\ broker[q].put \in Nat /\ broker'[q].put \in Nat
    BY <1>5, <1>6, <2>1, <2>3
  <2>4. stream[k].last <= broker'[q].put BY <2>3, <2>5
  <2> QED BY <1>6, <2>3, <2>4, <2>5
<1>7. ASSUME NEW j \in Streams, j # k, Take(j) PROVE Goal
  <2>1. /\ stream'[k] = stream[k] /\ stream'[j].run = stream[j].run
        /\ \A i \in Streams \ {j} : stream'[i] = stream[i]
    BY <1>1, <1>7 DEF Take, Connections
  <2>2. stream[j].run # q BY <1>7, <2>1
  <2>3. broker'[q] = broker[q]
    <3>1. q \in Runs BY <1>4, <2>1
    <3> QED BY <1>1, <1>7, <2>2, <3>1 DEF Take, BrokersOK
  <2> QED BY <1>6, <2>1, <2>3
<1>8. CASE Take(k)
  <2> DEFINE n == broker[q].taken + 1
  <2>1. stream[k].step = "live" /\ q \in Runs /\ n <= broker[q].put
    BY <1>4, <1>8 DEF Take
  <2>2. /\ stream'[k].run = q /\ \A i \in Streams \ {k} : stream'[i] = stream[i]
        /\ stream'[k].got = IF IsNew(k, n) THEN stream[k].got \cup {n} ELSE stream[k].got
        /\ stream'[k].last = IF IsNew(k, n) THEN n ELSE stream[k].last
    BY <1>1, <1>8 DEF Take, Connections
  <2>3. /\ broker'[q].taken = n /\ broker'[q].put = broker[q].put
        /\ broker'[q].dropped = broker[q].dropped
    <3>1. broker' = [broker EXCEPT ![q].taken = n] BY <1>8 DEF Take
    <3> HIDE DEF n, q
    <3> QED BY <1>1, <2>1, <3>1 DEF BrokersOK, Brokers
  <2>4. /\ stream[k].got = 1 .. stream[k].last /\ stream[k].last <= broker[q].put
        /\ broker[q].taken <= stream[k].last
        /\ stream[k].last \in Nat /\ broker[q].put \in Nat /\ broker[q].taken \in Nat
    BY <1>5, <2>1, <2>2, <2>3 DEF Attached
  <2>5. CASE IsNew(k, n)
    <3>1. n = stream[k].last + 1 BY <2>4, <2>5 DEF IsNew
    <3>2. stream[k].got \cup {n} = 1 .. n BY <2>4, <3>1
    <3> QED BY <2>1, <2>2, <2>3, <2>4, <2>5, <3>2
  <2>6. CASE ~IsNew(k, n)
    <3>1. n <= stream[k].last BY <2>4, <2>6 DEF IsNew
    <3> QED BY <2>1, <2>2, <2>3, <2>4, <2>6, <3>1
  <2> QED BY <2>5, <2>6
<1>9. CASE ~\E j \in Streams : Take(j)
  <2>1. CASE UNCHANGED stream BY <1>6, <1>9, <2>1
  <2>2. ASSUME NEW j \in Streams, j # k, Replay(j) \/ Drained(j) \/ Disconnect(j) PROVE Goal
    <3>1. /\ stream'[j].run = stream[j].run
          /\ \A i \in Streams \ {j} : stream'[i] = stream[i]
      BY <1>1, <2>2 DEF Replay, Drained, Disconnect, Connections
    <3> QED BY <1>6, <1>9, <2>2, <3>1
  <2>3. ASSUME NEW j \in Streams, j # k, stream[j].step = "idle",
               \A i \in Streams \ {j} : stream'[i] = stream[i]
        PROVE  Goal
    <3>1. stream'[k] = stream[k] /\ stream[k].step # "idle" BY <2>3
    <3>2. stream[j].run # q BY <1>1, <1>4, <2>3, <3>1 DEF Followed
    <3> QED BY <1>6, <1>9, <2>3, <3>1, <3>2
  <2>4. ASSUME NEW r \in Runs, NEW last \in 0 .. MaxEvents, Open(k, r, last) PROVE Goal
    <3>1. /\ stream'[k].run = r /\ stream'[k].last = last /\ stream'[k].got = 1 .. last
          /\ stream'[k].step = "opened" /\ UNCHANGED broker
          /\ last <= broker[r].put \/ broker[r].dropped
      BY <1>1, <2>4 DEF Open
    <3> QED BY <3>1
  <2>5. ASSUME NEW r \in Runs, NEW how \in {"stream", "none"}, Submit(r, how),
               stream'[k] = [run |-> r, own |-> TRUE, step |-> "opened", last |-> 0, got |-> {}]
        PROVE  Goal
    <3>1. UNCHANGED broker BY <2>5 DEF Submit
    <3>2. 0 <= broker[r].put BY <1>1 DEF BrokersOK, Brokers
    <3>3. 1 .. 0 = {} OBVIOUS
    <3> QED BY <2>5, <3>1, <3>2, <3>3
  <2>6. CASE Replay(k)
    <3> DEFINE n == broker[q].put
    <3>1. stream[k].step = "opened" /\ q \in Runs BY <1>4, <2>6 DEF Replay
    <3>2. /\ stream'[k].run = q /\ \A i \in Streams \ {k} : stream'[i] = stream[i]
          /\ stream'[k].got = stream[k].got \cup (1 .. n)
          /\ stream'[k].last = IF n > stream[k].last THEN n ELSE stream[k].last
      BY <1>1, <2>6 DEF Replay, Connections
    <3>3. /\ broker'[q].put = n /\ broker'[q].taken = broker[q].taken
          /\ broker'[q].dropped = broker[q].dropped
      BY <1>1, <3>1, <2>6 DEF Replay, BrokersOK, Brokers
    <3>4. /\ stream[k].got = 1 .. stream[k].last /\ stream[k].last <= n
          /\ stream[k].last \in Nat /\ n \in Nat
          /\ broker[q].taken \in Nat /\ broker[q].taken <= n
      BY <1>5, <3>1, <3>2, <3>3 DEF Attached
    <3> HIDE DEF n
    <3>5. stream'[k].last = n BY <3>2, <3>4
    <3>6. stream[k].got \cup (1 .. n) = 1 .. n BY <3>4
    <3> QED BY <3>2, <3>3, <3>4, <3>5, <3>6
  <2>7. CASE Drained(k) BY <1>1, <2>7 DEF Drained, Connections
  <2>8. CASE Disconnect(k) BY <1>1, <2>8 DEF Disconnect, Connections
  <2>9. ASSUME NEW r \in Runs, NEW how \in {"stream", "none"}, Submit(r, how), OwnStream(r)
        PROVE  Goal
    <3>1. PICK j \in Streams :
             /\ stream[j].step = "idle"
             /\ stream' = [stream EXCEPT ![j] =
                  [run |-> r, own |-> TRUE, step |-> "opened", last |-> 0, got |-> {}]]
      BY <2>9 DEF OwnStream
    <3>2. CASE j = k BY <1>1, <2>5, <2>9, <3>1, <3>2
    <3>3. CASE j # k BY <1>1, <2>3, <3>1, <3>3
    <3> QED BY <3>2, <3>3
  <2>10. ASSUME NEW j \in Streams, j # k, NEW r \in Runs, NEW last \in 0 .. MaxEvents,
                Open(j, r, last)
         PROVE  Goal
    <3>1. stream[j].step = "idle" /\ \A i \in Streams \ {j} : stream'[i] = stream[i]
      BY <1>1, <2>10 DEF Open
    <3>2. stream'[k] = stream[k] BY <2>10, <3>1
    <3> QED BY <2>3, <2>10, <3>1, <3>2
  <2>11. ASSUME NEW r \in Runs, SweepBroker(r) PROVE Goal
    <3>1. stream'[k].run # r BY <1>10, <2>11
    <3>2. stream'[k] = stream[k] /\ \A j \in Streams : stream'[j].run = stream[j].run
      BY <1>1, <2>11, <3>1, SMTT(30) DEF SweepBroker, Connections
    <3> QED BY <1>6, <1>9, <3>2
  <2> QED
    BY <1>2, <1>9, <2>1, <2>2, <2>4, <2>6, <2>7, <2>8, <2>9, <2>10, <2>11, StreamCases DEF Stream
<1> QED BY <1>7, <1>8, <1>9

LEMMA CompleteAlways == Spec => []Complete
<1>1. Init => Complete BY DEF Init, Complete, Attached
<1> QED BY <1>1, CompleteStep, TypeInvAlways, PTL DEF Spec

\* A stream that ends without its client going has seen every event in the
\* buffer of its run, when no other stream ever took events off the run's queue
\* and the run has had no other broker:
\* between replay and queue nothing is missed, and nothing is waited for in vain.
THEOREM SoleStreamAlwaysSeesAll == Spec => SoleStreamSeesAll
<1>1. ASSUME TypeInv, Complete, [Next]_vars, NEW k \in Streams,
             stream[k].step = "live", stream'[k].step = "ended", Sole(k),
             ~broker[stream[k].run].dropped
      PROVE  stream'[k].got = 1 .. broker[stream[k].run].put
  <2> DEFINE q == stream[k].run
  <2>1. /\ stream \in [Streams -> Connections] /\ BrokersOK /\ Followed
        /\ stream[k].last \in Nat
    BY <1>1, TypeParts DEF TypeInv, StreamsOK, Places, Connections
  <2>2. q \in Runs BY <1>1, <2>1 DEF Followed
  <2>3. /\ stream[k].got = 1 .. stream[k].last /\ stream[k].last <= broker[q].put
        /\ broker[q].taken <= stream[k].last
    BY <1>1 DEF Complete, Attached
  <2>4. broker[q].put \in Nat /\ broker[q].taken \in Nat BY <2>1, <2>2 DEF BrokersOK, Brokers
  <2>5. CASE Drained(k)
    <3>1. broker[q].taken = broker[q].put /\ stream'[k].got = stream[k].got
      BY <2>1, <2>5 DEF Drained, Connections
    <3>2. stream[k].last = broker[q].put BY <2>1, <2>3, <2>4, <3>1
    <3> QED BY <2>3, <3>1, <3>2
  <2>6. CASE Take(k)
    <3>1. /\ broker[q].taken + 1 = broker[q].put
          /\ stream'[k].got = IF IsNew(k, broker[q].put) THEN stream[k].got \cup {broker[q].put}
                                                         ELSE stream[k].got
      <4> DEFINE n == broker[q].taken + 1
      <4>1. /\ stream'[k].step = IF n = broker[q].put /\ broker[q].end # "none" THEN "ended"
                                                                               ELSE "live"
            /\ stream'[k].got = IF IsNew(k, n) THEN stream[k].got \cup {n} ELSE stream[k].got
        BY <2>1, <2>6 DEF Take, Connections
      <4> HIDE DEF n
      <4>2. n = broker[q].put BY <1>1, <4>1
      <4> QED BY <4>1, <4>2 DEF n
    <3>2. CASE IsNew(k, broker[q].put)
      <4>1. stream[k].last + 1 = broker[q].put BY <2>1, <2>3, <2>4, <3>1, <3>2 DEF IsNew
      <4>2. (1 .. stream[k].last) \cup {broker[q].put} = 1 .. broker[q].put
        BY <2>1, <2>4, <4>1
      <4> QED BY <2>3, <3>1, <3>2, <4>2
    <3>3. CASE ~IsNew(k, broker[q].put)
      <4>1. stream[k].last = broker[q].put BY <2>1, <2>3, <2>4, <3>3 DEF IsNew
      <4> QED BY <2>3, <3>1, <3>3, <4>1
    <3> QED BY <3>2, <3>3
  <2>7. ASSUME NEW r \in Runs, SweepBroker(r)
        PROVE  stream'[k].got = 1 .. broker[stream[k].run].put
    <3>1. r = q BY <1>1, <2>7 DEF SweepBroker
    <3>2. broker[q].taken = broker[q].put BY <2>7, <3>1 DEF SweepBroker
    <3>3. stream'[k].got = stream[k].got BY <1>1, <2>1, <2>7, <3>1 DEF SweepBroker, Connections
    <3>4. stream[k].last = broker[q].put BY <2>1, <2>3, <2>4, <3>2
    <3> QED BY <2>3, <3>3, <3>4
  <2>8. Drained(k) \/ Take(k) \/ \E r \in Runs : SweepBroker(r)
    <3>1. ASSUME NEW j \in Streams, j # k, Stream(j) \/ Disconnect(j)
          PROVE  stream'[k] = stream[k]
      BY <2>1, <3>1 DEF Stream, Replay, Take, Drained, Disconnect
    <3>2. ASSUME NEW j \in Streams, NEW r \in Runs, NEW last \in 0 .. MaxEvents, Open(j, r, last)
          PROVE  stream'[k].step # "ended"
      BY <1>1, <2>1, <3>2 DEF Open
    <3>3. ASSUME NEW r \in Runs, OwnStream(r) PROVE stream'[k].step # "ended"
      BY <1>1, <2>1, <3>3 DEF OwnStream
    <3>4. ~Replay(k) /\ ~Disconnect(k) BY <1>1, <2>1 DEF Replay, Disconnect, Connections
    <3>5. ~Crash BY <1>1, <2>1 DEF Crash, Connections
    <3> QED BY <1>1, <3>1, <3>2, <3>3, <3>4, <3>5, StreamCases DEF Stream
  <2> QED BY <2>5, <2>6, <2>7, <2>8
<1>2. TypeInv /\ Complete /\ [Next]_vars =>
         [\A k \in Streams :
             stream[k].step = "live" /\ stream'[k].step = "ended" =>
                 \/ stream'[k].got = 1 .. broker[stream[k].run].put
                 \/ broker[stream[k].run].dropped
                 \/ \E j \in Streams \ {k} : stream[j].run = stream[k].run]_vars
  BY <1>1 DEF Sole
<1> QED BY <1>2, TypeInvAlways, CompleteAlways, PTL DEF Spec, SoleStreamSeesAll
=============================================================================
