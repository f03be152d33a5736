-------------------------- MODULE RunLease_proofs --------------------------
(***************************************************************************)
(* Safety of the lease protocol of RunLease, for every number of runs,     *)
(* slots, worker loops and processes and every budget of disturbances.     *)
(*                                                                         *)
(* PendingIsClaimable ties the three columns of a row together; it is      *)
(* inductive with the types.  HealthyLeaseExcludes is inductive with both: *)
(* a slot is admitted only by the acquiring UPDATE, which needs a pending  *)
(* row, and a row becomes pending again only when its lease has expired,   *)
(* which, without stalls, it does only when nobody holds it.  With stalls  *)
(* the same argument counts: CrewBound gives every holder but one a stall  *)
(* that let it outlive its lease.                                          *)
(*                                                                         *)
(* What a cancelled run and a crashed run go through is proved from the    *)
(* steps that write a row's status (NeverStarted) and from the reapers'    *)
(* work in progress (RetryInv: whoever was reset is charged, or owed to a  *)
(* disturbance).  The last section takes crashes and outages alone and     *)
(* shows that all parts together then keep the promise of RunLifecycle.    *)
(***************************************************************************)
EXTENDS RunLease, TLAPS, SequenceTheorems, FiniteSetTheorems

USE SlotsAssumption, NoneAssumption, BoundsAssumption DEF Faults

\* A group of variables that a step leaves alone keeps its types.
LEMMA GroupsKept ==
    /\ RowsOK /\ UNCHANGED rowVars => RowsOK'
    /\ RedisOK /\ UNCHANGED redisVars => RedisOK'
    /\ SlotsOK /\ UNCHANGED slotVars => SlotsOK'
    /\ ProcsOK /\ UNCHANGED procVars => ProcsOK'
    /\ ReapersOK /\ UNCHANGED reaperVars => ReapersOK'
    /\ ClientsOK /\ UNCHANGED clientVars => ClientsOK'
    /\ HistOK /\ UNCHANGED histVars => HistOK'
BY DEF RowsOK, RedisOK, SlotsOK, ProcsOK, ReapersOK, ClientsOK, HistOK,
       rowVars, redisVars, slotVars, procVars, reaperVars, clientVars, histVars

\* A disturbance of a known kind is counted.
LEMMA SpendType ==
    ASSUME HistOK, NEW f \in Faults, Spend(f) PROVE spent' \in [Faults -> Nat]
BY DEF HistOK, Spend

\* Wherever CancelledError leads, it is a phase, and one with a run unless it
\* is idle.
LEMMA AfterCancelType ==
    ASSUME SlotsOK, NEW s \in Slots
    PROVE  /\ AfterCancel(s) \in Phases \ {"polling"}
           /\ AfterCancel(s) # "idle" => job[s] \in Runs
BY DEF AfterCancel, SlotsOK, Phases, Holding, JobPhases, LoadPhases

\* A slot with a run goes on to another phase of its job.
LEMMA GotoType ==
    ASSUME SlotsOK, NEW s \in Slots, NEW ph \in Phases \ {"idle", "polling"},
           job[s] # None, Goto(s, ph), UNCHANGED job,
           mark' \in [Slots -> {"none", "cancelled", "expired"}], beating' \subseteq Slots
    PROVE  SlotsOK'
BY DEF SlotsOK, Goto

\* A slot without a run waits in one of two ways.
LEMMA WaitType ==
    ASSUME SlotsOK, NEW s \in Slots, NEW ph \in {"idle", "polling"},
           job[s] = None, Goto(s, ph), UNCHANGED <<job, mark, beating>>
    PROVE  SlotsOK'
BY DEF SlotsOK, Goto, Phases

LEMMA VacateType ==
    ASSUME SlotsOK, ProcsOK, NEW S \in SUBSET Slots, Vacate(S)
    PROVE  /\ job' \in [Slots -> Runs \cup {None}]
           /\ beating' \subseteq Slots
           /\ activeRuns' \in [Procs -> [Runs -> Slots \cup {None}]]
           /\ drain' \subseteq Slots
BY DEF SlotsOK, ProcsOK, Vacate

LEMMA ExitType ==
    ASSUME SlotsOK, ProcsOK, NEW s \in Slots, Exit(s), UNCHANGED <<up, lossSet, late>>
    PROVE  SlotsOK' /\ ProcsOK'
<1>1. Vacate({s}) BY DEF Exit
<1>2. ProcsOK' BY <1>1, VacateType DEF ProcsOK
<1>3. SlotsOK'
  <2>1. job' \in [Slots -> Runs \cup {None}] /\ beating' \subseteq Slots
    BY <1>1, VacateType
  <2>2. \A t \in Slots : job'[t] = None <=> pc'[t] \in {"idle", "polling"}
    BY DEF Exit, Vacate, SlotsOK
  <2> QED BY <2>1, <2>2 DEF Exit, SlotsOK, Phases
<1> QED BY <1>2, <1>3

LEMMA CancelTasksType ==
    ASSUME SlotsOK, ProcsOK, NEW S \in SUBSET Slots, CancelTasks(S)
    PROVE  /\ SlotsOK'
           /\ activeRuns' \in [Procs -> [Runs -> Slots \cup {None}]]
           /\ drain' \subseteq Slots
<1> DEFINE gone == {s \in S : AfterCancel(s) = "idle"}
<1>1. Vacate(gone) BY DEF CancelTasks
<1>2. /\ job' \in [Slots -> Runs \cup {None}]
      /\ beating' \subseteq Slots
      /\ activeRuns' \in [Procs -> [Runs -> Slots \cup {None}]]
      /\ drain' \subseteq Slots
  BY <1>1, VacateType
<1>3. /\ pc' = [s \in Slots |-> IF s \in S THEN AfterCancel(s) ELSE pc[s]]
      /\ mark' \in [Slots -> {"none", "cancelled", "expired"}]
  BY DEF CancelTasks, SlotsOK
<1>4. pc' \in [Slots -> Phases] BY <1>3, AfterCancelType DEF SlotsOK
<1>5. \A s \in Slots : job'[s] = None <=> pc'[s] \in {"idle", "polling"}
  <2> TAKE s \in Slots
  <2>1. CASE s \in S
    BY <2>1, <1>1, <1>3, AfterCancelType DEF Vacate, SlotsOK
  <2>2. CASE s \notin S
    BY <2>2, <1>1, <1>3 DEF Vacate, SlotsOK
  <2> QED BY <2>1, <2>2
<1> QED BY <1>2, <1>3, <1>4, <1>5 DEF SlotsOK

LEMMA RegisterType ==
    ASSUME SlotsOK, ProcsOK, NEW s \in Slots, NEW r \in Runs, Register(s, r)
    PROVE  SlotsOK' /\ ProcsOK'
<1>1. SlotsOK' BY DEF Register, Goto, SlotsOK, Phases
<1>2. activeRuns' \in [Procs -> [Runs -> Slots \cup {None}]]
  BY DEF Register, ProcsOK
<1>3. late' \subseteq Workers BY DEF Register, LoopTurns, ProcsOK
<1> QED BY <1>1, <1>2, <1>3 DEF Register, ProcsOK

LEMMA PopActiveType ==
    ASSUME ProcsOK, NEW s \in Slots, PopActive(s)
    PROVE  activeRuns' \in [Procs -> [Runs -> Slots \cup {None}]]
BY DEF ProcsOK, PopActive

LEMMA AbandonTickType ==
    ASSUME ReapersOK, HistOK, NEW p \in Procs, AbandonTick(p)
    PROVE  ReapersOK' /\ uncharged' \in [Runs -> Nat]
BY DEF ReapersOK, HistOK, AbandonTick, ReaperGoto

LEMMA ProcessEndsType ==
    ASSUME TypeOK, NEW p \in Procs, ProcessEnds(p)
    PROVE  /\ RowsOK' /\ RedisOK' /\ SlotsOK' /\ ProcsOK' /\ ReapersOK' /\ ClientsOK'
           /\ attempts' = attempts /\ uncharged' \in [Runs -> Nat]
<1> USE DEF TypeOK
<1>1. AbandonTick(p) BY DEF ProcessEnds
<1>2. ReapersOK' /\ uncharged' \in [Runs -> Nat] BY <1>1, AbandonTickType
<1>3. SlotsOK' BY DEF ProcessEnds, SlotsOK, SlotsOf, Phases
<1>4. ProcsOK' BY DEF ProcessEnds, ProcsOK, SlotsOf
<1>5. RedisOK' BY DEF ProcessEnds, RedisOK
<1>6. RowsOK' /\ ClientsOK' BY GroupsKept DEF ProcessEnds
<1> QED BY <1>2, <1>3, <1>4, <1>5, <1>6 DEF ProcessEnds

LEMMA ReturnRowsType ==
    ASSUME RowsOK, NEW R \in SUBSET Runs, NEW st \in {"pending", "error"},
           ReturnRows(R, st), UNCHANGED <<retryCount, params, thread>>
    PROVE  RowsOK'
BY DEF RowsOK, ReturnRows, TerminalStates

LEMMA ReleaseClaimType ==
    ASSUME RowsOK, NEW s \in Slots, NEW r \in Runs, ReleaseClaim(s, r)
    PROVE  /\ claimedBy' \in [Runs -> Workers \cup {None}]
           /\ lease' \in [Runs -> {"none", "live", "expired"}]
BY DEF RowsOK, ReleaseClaim

\* What is written to a row by a slot's job is a status.
LEMMA WriteStatusType ==
    ASSUME TypeOK, NEW s \in Slots, job[s] # None,
           NEW st \in {"running"} \cup TerminalStates, NEW ph \in Phases \ {"idle", "polling"},
           WriteStatus(s, st, ph), thread' \in [Runs -> {"busy", "idle", "interrupted", "error"}]
    PROVE  TypeOK'
<1>1. RowsOK' BY DEF WriteStatus, TypeOK, RowsOK
<1>2. SlotsOK' BY GotoType DEF WriteStatus, TypeOK, SlotsOK
<1> QED BY <1>1, <1>2, GroupsKept DEF WriteStatus, TypeOK

LEMMA FinalizeRunType ==
    ASSUME TypeOK, NEW s \in Slots, job[s] # None, NEW st \in TerminalStates,
           NEW th \in {"idle", "interrupted", "error"}, FinalizeRun(s, st, th, "signal")
    PROVE  TypeOK'
<1>1. thread' \in [Runs -> {"busy", "idle", "interrupted", "error"}]
  BY DEF FinalizeRun, TypeOK, RowsOK, SlotsOK
<1>2. "signal" \in Phases \ {"idle", "polling"} BY DEF Phases, Holding, JobPhases
<1> QED BY <1>1, <1>2, WriteStatusType DEF FinalizeRun

\* Every action preserves the types; the groups it does not name in its proof
\* are those it leaves unchanged.
LEMMA TypeStep == TypeOK /\ [Next]_vars => TypeOK'
<1> SUFFICES ASSUME TypeOK, [Next]_vars PROVE TypeOK' OBVIOUS
<1> USE DEF TypeOK
<1>1. ASSUME NEW r \in Runs, Prepare(r) PROVE TypeOK'
  <2>1. RowsOK' BY <1>1 DEF Prepare, RowsOK
  <2>2. ClientsOK' BY <1>1 DEF Prepare, ClientsOK
  <2> QED BY <2>1, <2>2, <1>1, GroupsKept DEF Prepare
<1>2. ASSUME NEW r \in Runs, Submit(r) PROVE TypeOK'
  <2>1. RedisOK' BY <1>2 DEF Submit, RedisOK
  <2>2. ClientsOK' BY <1>2 DEF Submit, ClientsOK
  <2> QED BY <2>1, <2>2, <1>2, GroupsKept DEF Submit
<1>3. ASSUME NEW r \in Runs, SubmitFails(r) PROVE TypeOK'
  <2>1. ClientsOK' BY <1>3 DEF SubmitFails, ClientsOK
  <2>2. HistOK' BY <1>3, SpendType DEF SubmitFails, HistOK
  <2> QED BY <2>1, <2>2, <1>3, GroupsKept DEF SubmitFails
<1>4. ASSUME NEW r \in Runs, Age(r) PROVE TypeOK'
  <2>1. ClientsOK' BY <1>4 DEF Age, ClientsOK
  <2> QED BY <2>1, <1>4, GroupsKept DEF Age
<1>5. ASSUME NEW r \in Runs, PublishCancel(r) PROVE TypeOK'
  <2>1. RedisOK' BY <1>5 DEF PublishCancel, RedisOK
  <2>2. ClientsOK' BY <1>5 DEF PublishCancel, ClientsOK
  <2>3. HistOK' BY <1>5, SpendType DEF PublishCancel, HistOK
  <2> QED BY <2>1, <2>2, <2>3, <1>5, GroupsKept DEF PublishCancel
<1>6. ASSUME NEW r \in Runs, PersistCancel(r) PROVE TypeOK'
  <2>1. RowsOK' BY <1>6 DEF PersistCancel, RowsOK, TerminalStates
  <2>2. ClientsOK' BY <1>6 DEF PersistCancel, ClientsOK
  <2> QED BY <2>1, <2>2, <1>6, GroupsKept DEF PersistCancel
<1>7. ASSUME NEW r \in Runs, Expire(r) PROVE TypeOK'
  <2>1. RowsOK' BY <1>7 DEF Expire, RowsOK
  <2>2. HistOK' BY <1>7, SpendType DEF Expire, HistOK
  <2> QED BY <2>1, <2>2, <1>7, GroupsKept DEF Expire
<1>8. ASSUME NEW p \in Procs, NEW r \in Runs, CancelLocally(p, r) PROVE TypeOK'
  <2>1. SlotsOK' /\ ProcsOK'
    <3>1. CancelTasks({activeRuns[p][r]} \ {None}) BY <1>8 DEF CancelLocally
    <3>2. {activeRuns[p][r]} \ {None} \subseteq Slots BY DEF ProcsOK
    <3> QED BY <3>1, <3>2, <1>8, CancelTasksType DEF CancelLocally, ProcsOK
  <2>2. ClientsOK' BY <1>8 DEF CancelLocally, ClientsOK
  <2>3. HistOK' BY <1>8, SpendType DEF CancelLocally, HistOK
  <2> QED BY <2>1, <2>2, <2>3, <1>8, GroupsKept DEF CancelLocally
<1>9. ASSUME NEW p \in Procs, NEW r \in Runs, DeliverCancel(p, r) PROVE TypeOK'
  <2>1. SlotsOK' /\ ProcsOK'
    <3>1. CancelTasks({activeRuns[p][r]} \ {None}) BY <1>9 DEF DeliverCancel
    <3>2. {activeRuns[p][r]} \ {None} \subseteq Slots BY DEF ProcsOK
    <3> QED BY <3>1, <3>2, <1>9, CancelTasksType DEF DeliverCancel, ProcsOK
  <2>2. RedisOK' BY <1>9 DEF DeliverCancel, RedisOK
  <2> QED BY <2>1, <2>2, <1>9, GroupsKept DEF DeliverCancel
<1>10. ASSUME NEW p \in Procs, NEW r \in Runs, LoseCancel(p, r) PROVE TypeOK'
  <2>1. RedisOK' BY <1>10 DEF LoseCancel, RedisOK
  <2> QED BY <2>1, <1>10, GroupsKept DEF LoseCancel
<1>11. CASE RedisDown
  <2>1. RedisOK' BY <1>11 DEF RedisDown, RedisOK
  <2>2. HistOK' BY <1>11, SpendType DEF RedisDown, HistOK
  <2> QED BY <2>1, <2>2, <1>11, GroupsKept DEF RedisDown
<1>12. CASE RedisRecovers
  <2>1. RedisOK' BY <1>12 DEF RedisRecovers, RedisOK
  <2> QED BY <2>1, <1>12, GroupsKept DEF RedisRecovers
<1>13. ASSUME NEW s \in Slots, Dequeue(s) PROVE TypeOK'
  <2>1. Head(queue) \in Runs /\ Tail(queue) \in Seq(Runs)
    BY <1>13, HeadTailProperties DEF Dequeue, RedisOK
  <2>2. SlotsOK' /\ ProcsOK' BY <1>13, <2>1, RegisterType DEF Dequeue
  <2>3. RedisOK' BY <1>13, <2>1 DEF Dequeue, RedisOK
  <2> QED BY <2>1, <2>2, <2>3, <1>13, GroupsKept DEF Dequeue
<1>14. ASSUME NEW s \in Slots, DequeueFails(s) PROVE TypeOK'
  <2>1. SlotsOK' BY <1>14, WaitType DEF DequeueFails, SlotsOK
  <2> QED BY <2>1, <1>14, GroupsKept DEF DequeueFails
<1>15. ASSUME NEW s \in Slots, PollPostgres(s) PROVE TypeOK'
  <2>1. SlotsOK' /\ ProcsOK'
    <3>1. CASE \E r \in Runs : Register(s, r)
      BY <3>1, RegisterType
    <3>2. CASE Goto(s, "idle") /\ LoopTurns(s)
               /\ UNCHANGED <<job, mark, beating, up, activeRuns, lossSet, drain>>
      BY <3>2, <1>15, WaitType DEF PollPostgres, LoopTurns, SlotsOK, ProcsOK
    <3> QED BY <3>1, <3>2, <1>15 DEF PollPostgres
  <2> QED BY <2>1, <1>15, GroupsKept DEF PollPostgres
<1>16. ASSUME NEW s \in Slots, Acquire(s) PROVE TypeOK'
  <2>1. job[s] \in Runs BY <1>16 DEF Acquire, SlotsOK
  <2>2. RowsOK' BY <1>16, <2>1 DEF Acquire, RowsOK
  <2>3. SlotsOK' /\ ProcsOK'
    <3>1. CASE Exit(s)
      BY <3>1, <1>16, ExitType DEF Acquire
    <3>2. CASE Goto(s, LoadPhase(params[job[s]])) /\ UNCHANGED <<job, mark, beating, activeRuns, drain>>
      <4>1. LoadPhase(params[job[s]]) \in Phases \ {"idle", "polling"}
        BY DEF LoadPhase, Phases, Holding, LoadPhases
      <4> QED BY <2>1, <3>2, <4>1, <1>16, GotoType DEF Acquire, SlotsOK, ProcsOK
    <3> QED BY <3>1, <3>2, <1>16 DEF Acquire
  <2>4. HistOK' BY <1>16, <2>1 DEF Acquire, HistOK
  <2> QED BY <2>1, <2>2, <2>3, <2>4, <1>16, GroupsKept DEF Acquire
<1>17. ASSUME NEW s \in Slots, Load(s) PROVE TypeOK'
  <2>1. job[s] \in Runs BY <1>17 DEF Load, SlotsOK
  <2>2. RowsOK' BY <1>17, <2>1, ReleaseClaimType DEF Load, RowsOK, TerminalStates
  <2>3. SlotsOK' /\ ProcsOK'
    <3>1. CASE Exit(s)
      BY <3>1, <1>17, ExitType DEF Load
    <3>2. CASE Goto(s, "start") /\ beating' = beating \cup {s}
               /\ UNCHANGED <<job, mark, activeRuns, drain>>
      BY <2>1, <3>2, <1>17, GotoType
              DEF Load, SlotsOK, ProcsOK, Phases, Holding, JobPhases
    <3> QED BY <3>1, <3>2, <1>17 DEF Load
  <2> QED BY <2>1, <2>2, <2>3, <1>17, GroupsKept DEF Load
<1>18. ASSUME NEW s \in Slots, Start(s) PROVE TypeOK'
  BY <1>18, WriteStatusType
          DEF Start, RowsOK, SlotsOK, TerminalStates, Phases, Holding, JobPhases
<1>19. ASSUME NEW s \in Slots, Stream(s) PROVE TypeOK'
  <2>1. SlotsOK' BY <1>19, GotoType DEF Stream, SlotsOK, Phases, Holding, JobPhases
  <2> QED BY <2>1, <1>19, GroupsKept DEF Stream
<1>20. ASSUME NEW s \in Slots, Finalize(s) PROVE TypeOK'
  <2>1. job[s] # None BY <1>20 DEF Finalize, SlotsOK
  <2> QED BY <2>1, <1>20, FinalizeRunType DEF Finalize, TerminalStates
<1>21. ASSUME NEW s \in Slots, FinalizeError(s) PROVE TypeOK'
  <2>1. job[s] # None BY <1>21 DEF FinalizeError, SlotsOK
  <2> QED BY <2>1, <1>21, FinalizeRunType DEF FinalizeError, TerminalStates
<1>22. ASSUME NEW s \in Slots, HandleCancel(s) PROVE TypeOK'
  <2>1. SlotsOK' BY <1>22, GotoType
          DEF HandleCancel, SlotsOK, Phases, Holding, JobPhases
  <2>2. activeRuns' \in [Procs -> [Runs -> Slots \cup {None}]]
    BY <1>22, PopActiveType DEF HandleCancel, ProcsOK
  <2>3. lossSet' \in [Procs -> SUBSET Runs]
    <3>1. CASE lossSet' = [lossSet EXCEPT ![ProcOf[s]] = @ \ {job[s]}]
      BY <3>1, SlotsAssumption DEF ProcsOK
    <3>2. CASE UNCHANGED lossSet BY <3>2 DEF ProcsOK
    <3> QED BY <3>1, <3>2, <1>22 DEF HandleCancel
  <2>4. ProcsOK' BY <1>22, <2>2, <2>3 DEF HandleCancel, ProcsOK
  <2> QED BY <2>1, <2>4, <1>22, GroupsKept DEF HandleCancel
<1>23. ASSUME NEW s \in Slots, FinalizeInterrupted(s) PROVE TypeOK'
  <2>1. job[s] # None BY <1>23 DEF FinalizeInterrupted, SlotsOK
  <2> QED BY <2>1, <1>23, FinalizeRunType DEF FinalizeInterrupted, TerminalStates
<1>24. ASSUME NEW s \in Slots, Signal(s) PROVE TypeOK'
  <2>1. SlotsOK' BY <1>24, GotoType DEF Signal, SlotsOK, Phases, Holding, JobPhases
  <2>2. ProcsOK' BY <1>24, PopActiveType DEF Signal, ProcsOK
  <2> QED BY <2>1, <2>2, <1>24, GroupsKept DEF Signal
<1>25. ASSUME NEW s \in Slots, SetDoneKey(s) PROVE TypeOK'
  <2>1. RedisOK' BY <1>25 DEF SetDoneKey, RedisOK, SlotsOK
  <2>2. SlotsOK' BY <1>25, GotoType DEF SetDoneKey, SlotsOK, Phases, Holding, JobPhases
  <2> QED BY <2>1, <2>2, <1>25, GroupsKept DEF SetDoneKey
<1>26. ASSUME NEW s \in Slots, ReleaseLease(s) PROVE TypeOK'
  <2>1. job[s] \in Runs BY <1>26 DEF ReleaseLease, SlotsOK
  <2>2. RowsOK' BY <1>26, <2>1, ReleaseClaimType DEF ReleaseLease, RowsOK
  <2>3. SlotsOK' /\ ProcsOK' BY <1>26, ExitType DEF ReleaseLease
  <2> QED BY <2>1, <2>2, <2>3, <1>26, GroupsKept DEF ReleaseLease
<1>27. ASSUME NEW s \in Slots, JobTimeout(s) PROVE TypeOK'
  <2>1. SlotsOK' /\ ProcsOK'
    <3>1. CASE pc[s] \in JobPhases /\ Goto(s, AfterCancel(s)) /\ UNCHANGED <<job, beating, activeRuns, drain>>
      <4>1. job[s] # None BY <3>1 DEF SlotsOK, JobPhases
      <4>2. AfterCancel(s) \in Phases \ {"idle", "polling"}
        BY <3>1 DEF AfterCancel, JobPhases, Phases, Holding
      <4>3. mark' \in [Slots -> {"none", "cancelled", "expired"}]
        BY <3>1, <1>27 DEF JobTimeout, Exit, JobPhases, LoadPhases, SlotsOK
      <4> QED BY <3>1, <4>1, <4>2, <4>3, <1>27, GotoType
              DEF JobTimeout, SlotsOK, ProcsOK
    <3>2. CASE pc[s] \in LoadPhases \cup {"acquire", "release"} /\ Goto(s, "timedOut")
               /\ mark' = [mark EXCEPT ![s] = "expired"]
               /\ UNCHANGED <<job, beating, activeRuns, drain>>
      <4>1. job[s] # None BY <3>2 DEF SlotsOK, LoadPhases
      <4> QED BY <3>2, <4>1, <1>27, GotoType DEF JobTimeout, SlotsOK, ProcsOK, Phases
    <3>3. CASE Exit(s)
      BY <3>3, <1>27, ExitType DEF JobTimeout
    <3> QED BY <3>1, <3>2, <3>3, <1>27 DEF JobTimeout
  <2>2. HistOK' BY <1>27, SpendType DEF JobTimeout, HistOK
  <2> QED BY <2>1, <2>2, <1>27, GroupsKept DEF JobTimeout
<1>28. ASSUME NEW s \in Slots, FinalizeTimeout(s) PROVE TypeOK'
  BY <1>28, WriteStatusType
          DEF FinalizeTimeout, FinalizeRun, RowsOK, SlotsOK, TerminalStates, Phases,
              Holding, JobPhases
<1>29. ASSUME NEW s \in Slots, Heartbeat(s) PROVE TypeOK'
  <2>1. job[s] \in Runs BY <1>29 DEF Heartbeat, SlotsOK, JobPhases
  <2>2. RowsOK' BY <1>29, <2>1 DEF Heartbeat, RowsOK
  <2>3. SlotsOK'
    <3>1. CASE UNCHANGED <<pc, job, mark, beating>>
      BY <3>1 DEF SlotsOK
    <3>2. CASE Goto(s, AfterCancel(s)) /\ beating' = beating \ {s} /\ UNCHANGED <<job, mark>>
      <4>1. AfterCancel(s) \in Phases \ {"idle", "polling"}
        BY <1>29 DEF Heartbeat, AfterCancel, JobPhases, Phases, Holding
      <4> QED BY <2>1, <3>2, <4>1, GotoType DEF SlotsOK
    <3> QED BY <3>1, <3>2, <1>29 DEF Heartbeat
  <2>4. ProcsOK' BY <1>29, <2>1 DEF Heartbeat, ProcsOK
  <2> QED BY <2>1, <2>2, <2>3, <2>4, <1>29, GroupsKept DEF Heartbeat
<1>30. ASSUME NEW s \in Slots, DbFailure(s) PROVE TypeOK'
  <2>1. SlotsOK' /\ ProcsOK'
    <3>1. CASE \E ph \in {"finError", "signal"} :
                  Goto(s, ph) /\ UNCHANGED <<job, mark, beating, activeRuns, drain>>
      <4>1. job[s] # None BY <1>30 DEF DbFailure, SlotsOK
      <4> QED BY <3>1, <4>1, <1>30, GotoType
              DEF DbFailure, SlotsOK, ProcsOK, Phases, Holding, JobPhases
    <3>2. CASE Exit(s)
      BY <3>2, <1>30, ExitType DEF DbFailure
    <3> QED BY <3>1, <3>2, <1>30 DEF DbFailure
  <2>2. HistOK' BY <1>30, SpendType DEF DbFailure, HistOK
  <2> QED BY <2>1, <2>2, <1>30, GroupsKept DEF DbFailure
<1>31. ASSUME NEW p \in Procs, FindCrashed(p) PROVE TypeOK'
  <2>1. ReapersOK' BY <1>31 DEF FindCrashed, Crashed, ReaperGoto, ReapersOK
  <2> QED BY <2>1, <1>31, GroupsKept DEF FindCrashed
<1>32. ASSUME NEW p \in Procs, FindStuck(p) PROVE TypeOK'
  <2>1. ReapersOK' BY <1>32 DEF FindStuck, StuckPending, ReaperGoto, ReapersOK
  <2> QED BY <2>1, <1>32, GroupsKept DEF FindStuck
<1>33. ASSUME NEW p \in Procs, ResetToPending(p) PROVE TypeOK'
  <2>1. RowsOK' BY <1>33, ReturnRowsType DEF ResetToPending, Crashed
  <2>2. ReapersOK' BY <1>33 DEF ResetToPending, Crashed, ReaperGoto, ReapersOK
  <2> QED BY <2>1, <2>2, <1>33, GroupsKept DEF ResetToPending
<1>34. ASSUME NEW p \in Procs, CheckRetryLimits(p) PROVE TypeOK'
  <2>1. RowsOK' BY <1>34 DEF CheckRetryLimits, RowsOK
  <2>2. ReapersOK' BY <1>34 DEF CheckRetryLimits, ReaperGoto, ReapersOK
  <2> QED BY <2>1, <2>2, <1>34, GroupsKept DEF CheckRetryLimits
<1>35. ASSUME NEW p \in Procs, MarkPermanentlyFailed(p) PROVE TypeOK'
  <2>1. RowsOK' BY <1>35, ReturnRowsType DEF MarkPermanentlyFailed, ReapersOK
  <2>2. ReapersOK' BY <1>35 DEF MarkPermanentlyFailed, ReaperGoto, ReapersOK
  <2> QED BY <2>1, <2>2, <1>35, GroupsKept DEF MarkPermanentlyFailed
<1>36. ASSUME NEW p \in Procs, Reenqueue(p) PROVE TypeOK'
  <2>1. RedisOK'
    <3>1. CASE UNCHANGED queue
      BY <3>1, <1>36 DEF Reenqueue, RedisOK
    <3>2. CASE \E r \in found[p] : queue' = Append(queue, r)
      BY <3>2, <1>36 DEF Reenqueue, RedisOK, ReapersOK
    <3> QED BY <3>1, <3>2, <1>36 DEF Reenqueue
  <2>2. ReapersOK' BY <1>36 DEF Reenqueue, ReaperGoto, ReapersOK
  <2> QED BY <2>1, <2>2, <1>36, GroupsKept DEF Reenqueue
<1>37. ASSUME NEW p \in Procs, ReaperDbFailure(p) PROVE TypeOK'
  <2>1. ReapersOK' /\ uncharged' \in [Runs -> Nat]
    BY <1>37, AbandonTickType DEF ReaperDbFailure
  <2>2. HistOK' BY <1>37, <2>1, SpendType DEF ReaperDbFailure, HistOK
  <2> QED BY <2>1, <2>2, <1>37, GroupsKept DEF ReaperDbFailure
<1>38. ASSUME NEW p \in Procs, Crash(p) PROVE TypeOK'
  <2>1. HistOK' BY <1>38, SpendType, ProcessEndsType DEF Crash, HistOK
  <2> QED BY <2>1, <1>38, ProcessEndsType DEF Crash
<1>39. ASSUME NEW p \in Procs, Restart(p) PROVE TypeOK'
  <2>1. ProcsOK' BY <1>39 DEF Restart, ProcsOK
  <2> QED BY <2>1, <1>39, GroupsKept DEF Restart
<1>40. ASSUME NEW p \in Procs, BeginStop(p) PROVE TypeOK'
  <2>1. ProcsOK' BY <1>40 DEF BeginStop, SlotsOf, ProcsOK
  <2>2. ReapersOK' /\ uncharged' \in [Runs -> Nat] BY <1>40, AbandonTickType
          DEF BeginStop
  <2>3. HistOK' BY <1>40, <2>2, SpendType DEF BeginStop, HistOK
  <2> QED BY <2>1, <2>2, <2>3, <1>40, GroupsKept DEF BeginStop
<1>41. ASSUME NEW p \in Procs, DrainTimeout(p) PROVE TypeOK'
  <2>1. SlotsOK' /\ ProcsOK' BY <1>41, CancelTasksType
          DEF DrainTimeout, SlotsOf, ProcsOK
  <2> QED BY <2>1, <1>41, GroupsKept DEF DrainTimeout
<1>42. ASSUME NEW p \in Procs, EndStop(p) PROVE TypeOK'
  <2>1. HistOK' BY <1>42, ProcessEndsType DEF EndStop, HistOK
  <2> QED BY <2>1, <1>42, ProcessEndsType DEF EndStop
<1>43. CASE UNCHANGED vars BY <1>43, GroupsKept DEF vars
<1> QED BY <1>1, <1>2, <1>3, <1>4, <1>5, <1>6, <1>7, <1>8, <1>9, <1>10, <1>11, <1>12,
        <1>13, <1>14, <1>15, <1>16, <1>17, <1>18, <1>19, <1>20, <1>21, <1>22, <1>23,
                <1>24, <1>25, <1>26, <1>27, <1>28, <1>29, <1>30, <1>31, <1>32, <1>33,
                        <1>34, <1>35, <1>36, <1>37, <1>38, <1>39, <1>40, <1>41, <1>42,
                                <1>43
        DEF Next, ClientStep, Take, SlotStep, ReaperStep, ProcessStep

\* Every variable keeps its type: in particular a slot has a run exactly while
\* its task exists, whatever is cancelled, times out, fails or crashes.
THEOREM TypeCorrect == Spec => []TypeOK
<1>1. Init => TypeOK
  BY DEF Init, TypeOK, RowsOK, RedisOK, SlotsOK, ProcsOK, ReapersOK, ClientsOK, HistOK,
         TerminalStates, Phases
<1> QED BY <1>1, TypeStep, PTL DEF Spec
-----------------------------------------------------------------------------
(* The columns of a row *)


\* The columns of a row after the UPDATE that gives up a claim, and after the
\* reaper's UPDATE.
LEMMA ReleaseClaimColumns ==
    ASSUME RowsOK, PendingIsClaimable, NEW s \in Slots, NEW r \in Runs, ReleaseClaim(s, r)
    PROVE  \A q \in Runs :
              /\ claimedBy'[q] = None <=> lease'[q] = "none"
              /\ claimedBy[q] = None => claimedBy'[q] = None
<1>1. WorkerOf[s] # None BY SlotsAssumption, NoneAssumption
<1>2. CASE Owns(s, r) BY <1>1, <1>2 DEF RowsOK, PendingIsClaimable, ReleaseClaim, Owns
<1>3. CASE ~Owns(s, r) BY <1>3 DEF RowsOK, PendingIsClaimable, ReleaseClaim
<1> QED BY <1>2, <1>3

\* No step breaks the columns: every action that writes one of them.
LEMMA PendingIsClaimableStep ==
    TypeOK /\ PendingIsClaimable /\ [Next]_vars => PendingIsClaimable'
<1> SUFFICES ASSUME TypeOK, PendingIsClaimable, [Next]_vars PROVE PendingIsClaimable' OBVIOUS
<1> USE DEF TypeOK
<1>0. CASE UNCHANGED rowVars
  BY <1>0 DEF PendingIsClaimable, rowVars
<1>1. ASSUME NEW r \in Runs, Prepare(r) PROVE PendingIsClaimable'
  BY <1>1 DEF Prepare, PendingIsClaimable, RowsOK
<1>2. ASSUME NEW r \in Runs, PersistCancel(r) PROVE PendingIsClaimable'
  BY <1>2 DEF PersistCancel, PendingIsClaimable, RowsOK
<1>3. ASSUME NEW s \in Slots, Acquire(s) PROVE PendingIsClaimable'
  <2>1. job[s] \in Runs BY <1>3 DEF Acquire, SlotsOK
  <2>2. WorkerOf[s] \in Workers /\ WorkerOf[s] # None
    BY SlotsAssumption, NoneAssumption
  <2> QED BY <1>3, <2>1, <2>2 DEF Acquire, Acquirable, PendingIsClaimable, RowsOK
<1>4. ASSUME NEW s \in Slots, Load(s) PROVE PendingIsClaimable'
  <2>1. job[s] \in Runs BY <1>4 DEF Load, SlotsOK
  <2>2. CASE UNCHANGED <<status, claimedBy, lease>>
    BY <2>2 DEF PendingIsClaimable
  <2>3. CASE ReleaseClaim(s, job[s])
             /\ status' = IF Owns(s, job[s]) THEN [status EXCEPT ![job[s]] = "error"] ELSE status
    <3>1. \A q \in Runs : status'[q] \in {"absent", "pending"} => status[q] = status'[q]
      BY <2>3 DEF RowsOK
    <3>2. ReleaseClaim(s, job[s]) BY <2>3
    <3>3. \A q \in Runs :
              /\ claimedBy'[q] = None <=> lease'[q] = "none"
              /\ claimedBy[q] = None => claimedBy'[q] = None
      BY <2>1, <3>2, ReleaseClaimColumns
    <3> QED BY <3>1, <3>3 DEF PendingIsClaimable
  <2> QED BY <1>4, <2>2, <2>3 DEF Load
<1>5. ASSUME NEW s \in Slots, NEW st \in {"running"} \cup TerminalStates, NEW ph \in Phases,
             WriteStatus(s, st, ph)
      PROVE  PendingIsClaimable'
  BY <1>5 DEF WriteStatus, PendingIsClaimable, RowsOK, TerminalStates
<1>6. ASSUME NEW s \in Slots, ReleaseLease(s) PROVE PendingIsClaimable'
  <2>1. job[s] \in Runs BY <1>6 DEF ReleaseLease, SlotsOK
  <2>2. ReleaseClaim(s, job[s]) /\ status' = status BY <1>6 DEF ReleaseLease
  <2>3. \A q \in Runs :
            /\ claimedBy'[q] = None <=> lease'[q] = "none"
            /\ claimedBy[q] = None => claimedBy'[q] = None
    BY <2>1, <2>2, ReleaseClaimColumns
  <2> QED BY <2>2, <2>3 DEF PendingIsClaimable
<1>7. ASSUME NEW s \in Slots, Heartbeat(s) PROVE PendingIsClaimable'
  <2>1. job[s] \in Runs BY <1>7 DEF Heartbeat, SlotsOK, JobPhases
  <2>2. claimedBy' = claimedBy /\ status' = status BY <1>7 DEF Heartbeat
  <2>3. CASE Owns(s, job[s])
    <3>1. claimedBy[job[s]] # None
      BY <2>3, SlotsAssumption, NoneAssumption DEF Owns
    <3>2. lease' = [lease EXCEPT ![job[s]] = "live"] BY <1>7, <2>3 DEF Heartbeat
    <3> QED BY <2>1, <2>2, <3>1, <3>2 DEF PendingIsClaimable, RowsOK
  <2>4. CASE lease' = lease BY <2>2, <2>4 DEF PendingIsClaimable
  <2> QED BY <1>7, <2>3, <2>4 DEF Heartbeat
<1>8. ASSUME NEW r \in Runs, Expire(r) PROVE PendingIsClaimable'
  BY <1>8 DEF Expire, PendingIsClaimable, RowsOK
<1>9. ASSUME NEW p \in Procs, ResetToPending(p) PROVE PendingIsClaimable'
  BY <1>9 DEF ResetToPending, ReturnRows, PendingIsClaimable, RowsOK
<1>10. ASSUME NEW p \in Procs, MarkPermanentlyFailed(p) PROVE PendingIsClaimable'
  BY <1>10 DEF MarkPermanentlyFailed, ReturnRows, PendingIsClaimable, RowsOK
<1>11. ASSUME NEW p \in Procs, CheckRetryLimits(p) PROVE PendingIsClaimable'
  BY <1>11 DEF CheckRetryLimits, PendingIsClaimable
<1>12. ASSUME NEW s \in Slots,
             Start(s) \/ Finalize(s) \/ FinalizeError(s) \/ FinalizeInterrupted(s)
                 \/ FinalizeTimeout(s)
      PROVE  PendingIsClaimable'
  BY <1>5, <1>12 DEF Start, Finalize, FinalizeError, FinalizeInterrupted, FinalizeTimeout,
        FinalizeRun, TerminalStates, Phases, Holding, JobPhases
<1>13. ASSUME NEW r \in Runs, ClientStep(r) PROVE PendingIsClaimable'
  BY <1>0, <1>1, <1>2, <1>13
  DEF ClientStep, Submit, SubmitFails, Age, PublishCancel, CancelLocally, DeliverCancel, LoseCancel
<1>14. ASSUME NEW s \in Slots, Take(s) \/ JobTimeout(s) \/ DbFailure(s)
       PROVE  PendingIsClaimable'
  BY <1>0, <1>14 DEF Take, Dequeue, DequeueFails, PollPostgres, JobTimeout, DbFailure
<1>15. ASSUME NEW s \in Slots, SlotStep(s) PROVE PendingIsClaimable'
  BY <1>0, <1>3, <1>4, <1>6, <1>12, <1>15 DEF SlotStep, Stream, HandleCancel, Signal, SetDoneKey
<1>16. ASSUME NEW p \in Procs, ReaperStep(p) \/ ReaperDbFailure(p) PROVE PendingIsClaimable'
  BY <1>0, <1>9, <1>10, <1>11, <1>16
  DEF ReaperStep, FindCrashed, FindStuck, Reenqueue, ReaperDbFailure
<1>17. ASSUME NEW p \in Procs, ProcessStep(p) PROVE PendingIsClaimable'
  BY <1>0, <1>17
  DEF ProcessStep, Crash, Restart, BeginStop, DrainTimeout, EndStop, ProcessEnds
<1>18. CASE RedisDown \/ RedisRecovers \/ UNCHANGED vars
  BY <1>0, <1>18 DEF RedisDown, RedisRecovers, vars
<1> QED BY <1>7, <1>8, <1>13, <1>14, <1>15, <1>16, <1>17, <1>18 DEF Next

\* A pending row is unclaimed, and a row has a lease exactly when it is
\* claimed, so no row ever escapes both the workers and the reaper's queries.
THEOREM PendingAlwaysClaimable == Spec => []PendingIsClaimable
<1>1. Init => PendingIsClaimable BY DEF Init, PendingIsClaimable
<1> QED BY <1>1, PendingIsClaimableStep, TypeCorrect, PTL DEF Spec
-----------------------------------------------------------------------------
(* Who holds a run after a step *)

HoldersShrink == \A r \in Runs : HoldersOf(r)' \subseteq HoldersOf(r)

LEMMA SameSlotsShrink ==
    ASSUME UNCHANGED <<pc, job>> PROVE HoldersShrink
BY DEF HoldersShrink, HoldersOf

\* A phase from which the slot held its run already, or in which it does not.
LEMMA GotoShrinks ==
    ASSUME SlotsOK, NEW s \in Slots, NEW ph, Goto(s, ph), UNCHANGED job,
           pc[s] \in Holding \/ ph \notin Holding
    PROVE  HoldersShrink
BY DEF HoldersShrink, HoldersOf, Goto, SlotsOK

LEMMA ExitShrinks ==
    ASSUME SlotsOK, NEW s \in Slots, Exit(s)
    PROVE  HoldersShrink
BY NoneAssumption DEF HoldersShrink, HoldersOf, Exit, Vacate, SlotsOK

LEMMA CancelTasksShrinks ==
    ASSUME SlotsOK, NEW S \in SUBSET Slots, CancelTasks(S)
    PROVE  HoldersShrink
<1>1. \A s \in Slots : AfterCancel(s) \in Holding => pc[s] \in Holding
  BY DEF AfterCancel, Holding, JobPhases, LoadPhases
<1>2. \A s \in Slots : job'[s] \in Runs => job'[s] = job[s]
  BY NoneAssumption DEF CancelTasks, Vacate
<1>3. \A s \in Slots : pc'[s] \in Holding => pc[s] \in Holding
  BY <1>1 DEF CancelTasks
<1> QED BY <1>2, <1>3 DEF HoldersShrink, HoldersOf

LEMMA RegisterShrinks ==
    ASSUME SlotsOK, NEW s \in Slots, NEW r \in Runs, Register(s, r)
    PROVE  HoldersShrink
BY DEF HoldersShrink, HoldersOf, Register, Goto, SlotsOK, Holding, JobPhases, LoadPhases

LEMMA ProcessEndsShrinks ==
    ASSUME SlotsOK, NEW p \in Procs, ProcessEnds(p)
    PROVE  HoldersShrink
BY NoneAssumption DEF HoldersShrink, HoldersOf, ProcessEnds, SlotsOK

\* A row that may be acquired, or taken back by the reaper.
UpForGrabs(r) == status[r] \in {"absent", "pending"} \/ lease[r] = "expired"

\* A step that admits no holder, gives no row to another loop, puts no row up
\* for grabs and takes back no stall.
QuietStep ==
    /\ HoldersShrink
    /\ \A r \in Runs : claimedBy'[r] \in {claimedBy[r], None}
    /\ \A r \in Runs : UpForGrabs(r)' => UpForGrabs(r)
    /\ spent["stall"] <= spent'["stall"]

LEMMA QuietFrame ==
    ASSUME TypeOK, HoldersShrink,
           UNCHANGED spent \/ spent["stall"] <= spent'["stall"],
           \A r \in Runs : claimedBy'[r] \in {claimedBy[r], None},
           \A r \in Runs : UpForGrabs(r)' => UpForGrabs(r)
    PROVE  QuietStep
BY DEF QuietStep, TypeOK, HistOK

LEMMA SpendStall ==
    ASSUME HistOK, NEW f \in Faults, Spend(f)
    PROVE  spent["stall"] <= spent'["stall"]
BY DEF HistOK, Spend, Faults

\* Steps that leave the rows alone.
LEMMA SlotsOnlyFrame ==
    ASSUME TypeOK, HoldersShrink, UNCHANGED <<status, claimedBy, lease>>,
           UNCHANGED spent \/ spent["stall"] <= spent'["stall"]
    PROVE  QuietStep
BY QuietFrame DEF UpForGrabs

\* The exclusion survives quiet steps.
LEMMA QuietStepExcludes ==
    ASSUME TypeOK, HealthyLeaseExcludes, QuietStep, HistOK'
    PROVE  HealthyLeaseExcludes'
<1>1. spent'["stall"] = 0 => spent["stall"] = 0 BY DEF QuietStep, TypeOK, HistOK, Faults
<1> QED BY <1>1 DEF HealthyLeaseExcludes, HoldersShrink, UpForGrabs, QuietStep

\* The one step that admits a holder.
Admits(s) == Acquire(s) /\ Acquirable(job[s])

LEMMA AdmitsEffect ==
    ASSUME TypeOK, NEW s \in Slots, Admits(s)
    PROVE  /\ job[s] \in Runs /\ job' = job /\ spent' = spent
           /\ claimedBy' = [claimedBy EXCEPT ![job[s]] = WorkerOf[s]]
           /\ lease' = [lease EXCEPT ![job[s]] = "live"]
           /\ status' = [status EXCEPT ![job[s]] = "running"]
           /\ status[job[s]] = "pending" /\ claimedBy[job[s]] = None
           /\ \A r \in Runs : s \notin HoldersOf(r)
           /\ \A r \in Runs : HoldersOf(r)' = IF r = job[s] THEN HoldersOf(r) \cup {s}
                                             ELSE HoldersOf(r)
<1>1. job[s] \in Runs BY DEF Admits, Acquire, SlotsOK, TypeOK
<1>2. /\ spent' = spent
      /\ job' = job
      /\ claimedBy' = [claimedBy EXCEPT ![job[s]] = WorkerOf[s]]
      /\ lease' = [lease EXCEPT ![job[s]] = "live"]
      /\ status' = [status EXCEPT ![job[s]] = "running"]
      /\ status[job[s]] = "pending" /\ claimedBy[job[s]] = None
  BY DEF Admits, Acquire, Acquirable
<1>3. pc[s] = "acquire" /\ pc' = [pc EXCEPT ![s] = LoadPhase(params[job[s]])]
  BY DEF Admits, Acquire, Goto
<1>4. LoadPhase(params[job[s]]) \in Holding BY DEF LoadPhase, Holding, LoadPhases
<1>5. "acquire" \notin Holding BY DEF Holding, JobPhases, LoadPhases
<1> QED BY <1>1, <1>2, <1>3, <1>4, <1>5 DEF HoldersOf, TypeOK, SlotsOK

LEMMA AdmitsExcludes ==
    ASSUME TypeOK, HealthyLeaseExcludes, NEW s \in Slots, Admits(s)
    PROVE  HealthyLeaseExcludes'
<1> SUFFICES ASSUME spent["stall"] = 0, NEW r \in Runs
             PROVE  /\ \A u, v \in HoldersOf(r)' : u = v
                    /\ \A u \in HoldersOf(r)' : claimedBy'[r] \in {None, WorkerOf[u]}
                    /\ status'[r] \in {"absent", "pending"} \/ lease'[r] = "expired"
                            => HoldersOf(r)' = {}
  BY AdmitsEffect DEF HealthyLeaseExcludes
<1>1. CASE r = job[s]
  <2>1. HoldersOf(r) = {} BY <1>1, AdmitsEffect DEF HealthyLeaseExcludes
  <2>2. HoldersOf(r)' = {s} BY <1>1, <2>1, AdmitsEffect
  <2>3. claimedBy'[r] = WorkerOf[s] /\ lease'[r] = "live" /\ status'[r] = "running"
    BY <1>1, AdmitsEffect DEF TypeOK, RowsOK
  <2> HIDE DEF HoldersOf
  <2> QED BY <2>2, <2>3
<1>2. CASE r # job[s]
  BY <1>2, AdmitsEffect DEF HealthyLeaseExcludes, TypeOK, RowsOK
<1> QED BY <1>1, <1>2

\* A lease that runs out without a stall is that of a run nobody holds: a
\* holder would own the row, which a live lease shows to be claimed.
LEMMA ExpireExcludes ==
    ASSUME TypeOK, PendingIsClaimable, HealthyLeaseExcludes, NEW r \in Runs, Expire(r)
    PROVE  HealthyLeaseExcludes'
<1>1. /\ UNCHANGED <<pc, job, status, claimedBy>>
      /\ lease[r] = "live"
      /\ lease' = [lease EXCEPT ![r] = "expired"]
  BY DEF Expire, slotVars
<1> SUFFICES ASSUME spent'["stall"] = 0 PROVE HealthyLeaseExcludes'
  BY DEF HealthyLeaseExcludes
<1>2. spent' = spent /\ \A s \in Slots : ~HoldsLease(s, r)
  BY DEF Expire, Spend, TypeOK, HistOK, Faults
<1>3. claimedBy[r] # None BY <1>1 DEF PendingIsClaimable
<1>4. HoldersOf(r) = {}
  <2>1. \A s \in HoldersOf(r) : claimedBy[r] = WorkerOf[s]
    BY <1>2, <1>3 DEF HealthyLeaseExcludes
  <2> QED BY <1>2, <2>1 DEF HoldersOf, HoldsLease, Owns
<1>5. \A q \in Runs : HoldersOf(q)' = HoldersOf(q) BY <1>1 DEF HoldersOf
<1> QED BY <1>1, <1>2, <1>4, <1>5 DEF HealthyLeaseExcludes, TypeOK, RowsOK
LEMMA WriteStatusQuiet ==
    ASSUME TypeOK, NEW s \in Slots, NEW ph,
           NEW st \in {"running"} \cup TerminalStates, WriteStatus(s, st, ph),
           pc[s] \in Holding \/ ph \notin Holding
    PROVE  QuietStep
<1>1. HoldersShrink BY GotoShrinks DEF WriteStatus, TypeOK
<1>2. \A r \in Runs : UpForGrabs(r)' => UpForGrabs(r)
  BY DEF WriteStatus, UpForGrabs, TypeOK, RowsOK, TerminalStates
<1>3. UNCHANGED <<claimedBy, spent>> BY DEF WriteStatus, histVars
<1> QED BY <1>1, <1>2, <1>3, QuietFrame

LEMMA SlotStepQuiet ==
    ASSUME TypeOK, NEW s \in Slots, SlotStep(s), ~Admits(s)
    PROVE  QuietStep
<1> USE DEF TypeOK
<1>1. CASE Acquire(s)
  <2>1. Exit(s) /\ UNCHANGED <<status, claimedBy, lease, spent>> BY <1>1 DEF Acquire, Admits
  <2> QED BY <2>1, ExitShrinks, SlotsOnlyFrame
<1>2. CASE Load(s)
  <2>1. UNCHANGED spent BY <1>2 DEF Load, histVars
  <2>2. CASE Goto(s, "start") /\ pc[s] = "claimed" /\ UNCHANGED <<status, claimedBy, lease, job>>
    <3>1. HoldersShrink BY <2>2, GotoShrinks DEF Holding, LoadPhases
    <3> QED BY <2>1, <2>2, <3>1, SlotsOnlyFrame
  <2>3. CASE /\ ReleaseClaim(s, job[s])
             /\ status' = IF Owns(s, job[s]) THEN [status EXCEPT ![job[s]] = "error"] ELSE status
             /\ Exit(s)
    <3>1. HoldersShrink BY <2>3, ExitShrinks
    <3>2. \A r \in Runs : UpForGrabs(r)' => UpForGrabs(r)
      BY <2>3 DEF ReleaseClaim, UpForGrabs, RowsOK
    <3>3. \A r \in Runs : claimedBy'[r] \in {claimedBy[r], None}
      BY <2>3 DEF ReleaseClaim, RowsOK
    <3> QED BY <2>1, <3>1, <3>2, <3>3, QuietFrame
  <2>4. CASE Exit(s) /\ UNCHANGED <<status, claimedBy, lease>>
    BY <2>1, <2>4, ExitShrinks, SlotsOnlyFrame
  <2> QED BY <1>2, <2>2, <2>3, <2>4 DEF Load
<1>3. ASSUME NEW st \in {"running"} \cup TerminalStates, NEW ph, WriteStatus(s, st, ph),
             pc[s] \in Holding \/ ph \notin Holding
      PROVE  QuietStep
  BY <1>3, WriteStatusQuiet
<1>4. CASE Start(s) \/ Finalize(s) \/ FinalizeError(s) \/ FinalizeInterrupted(s)
               \/ FinalizeTimeout(s)
  BY <1>3, <1>4 DEF Start, Finalize, FinalizeError, FinalizeInterrupted, FinalizeTimeout,
        FinalizeRun, TerminalStates, Holding, JobPhases, LoadPhases
<1>5. ASSUME NEW ph, Goto(s, ph), pc[s] \in JobPhases,
             UNCHANGED <<job, status, claimedBy, lease, spent>>
      PROVE  QuietStep
  <2>1. HoldersShrink BY <1>5, GotoShrinks DEF Holding
  <2> QED BY <1>5, <2>1, SlotsOnlyFrame
<1>6. CASE Stream(s) \/ HandleCancel(s) \/ Signal(s) \/ SetDoneKey(s)
  BY <1>5, <1>6 DEF Stream, HandleCancel, Signal, SetDoneKey, JobPhases, rowVars, histVars
<1>7. CASE ReleaseLease(s)
  <2>1. HoldersShrink BY <1>7, ExitShrinks DEF ReleaseLease
  <2>2. \A r \in Runs : UpForGrabs(r)' => UpForGrabs(r)
    BY <1>7 DEF ReleaseLease, ReleaseClaim, UpForGrabs, RowsOK
  <2>3. \A r \in Runs : claimedBy'[r] \in {claimedBy[r], None}
    BY <1>7 DEF ReleaseLease, ReleaseClaim, RowsOK
  <2>4. UNCHANGED spent BY <1>7 DEF ReleaseLease, histVars
  <2> QED BY <2>1, <2>2, <2>3, <2>4, QuietFrame
<1> QED BY <1>1, <1>2, <1>4, <1>6, <1>7 DEF SlotStep

LEMMA OtherSlotStepQuiet ==
    ASSUME TypeOK, NEW s \in Slots,
           Take(s) \/ Heartbeat(s) \/ JobTimeout(s) \/ DbFailure(s)
    PROVE  QuietStep
<1> USE DEF TypeOK
<1>1. CASE Take(s)
  <2>1. UNCHANGED <<status, claimedBy, lease, spent>>
    BY <1>1 DEF Take, Dequeue, DequeueFails, PollPostgres, rowVars, histVars
  <2>2. CASE Dequeue(s)
    <3>1. Head(queue) \in Runs BY <2>2 DEF Dequeue, RedisOK
    <3> QED BY <2>1, <2>2, <3>1, RegisterShrinks, SlotsOnlyFrame DEF Dequeue
  <2>3. ASSUME NEW ph \in {"polling", "idle"}, Goto(s, ph), UNCHANGED job
        PROVE  QuietStep
    <3>1. HoldersShrink BY <2>3, GotoShrinks DEF Holding, JobPhases, LoadPhases
    <3> QED BY <2>1, <3>1, SlotsOnlyFrame
  <2>4. CASE PollPostgres(s)
    <3>1. ASSUME NEW r \in Runs, Register(s, r) PROVE QuietStep
      BY <2>1, <3>1, RegisterShrinks, SlotsOnlyFrame
    <3> QED BY <2>3, <2>4, <3>1 DEF PollPostgres
  <2> QED BY <1>1, <2>2, <2>3, <2>4 DEF Take, DequeueFails
<1>2. CASE Heartbeat(s)
  <2>1. job[s] \in Runs BY <1>2 DEF Heartbeat, SlotsOK, JobPhases
  <2>2. HoldersShrink
    <3>1. UNCHANGED job BY <1>2 DEF Heartbeat
    <3>2. pc[s] \in Holding BY <1>2 DEF Heartbeat, Holding
    <3>3. pc' = pc \/ \E ph \in {AfterCancel(s)} : Goto(s, ph) BY <1>2 DEF Heartbeat
    <3> QED BY <3>1, <3>2, <3>3, SameSlotsShrink, GotoShrinks
  <2>3. \A r \in Runs : UpForGrabs(r)' => UpForGrabs(r)
    BY <1>2, <2>1 DEF Heartbeat, UpForGrabs, RowsOK
  <2>4. UNCHANGED <<claimedBy, spent>> BY <1>2 DEF Heartbeat, histVars
  <2> QED BY <2>2, <2>3, <2>4, QuietFrame
<1>3. CASE JobTimeout(s) \/ DbFailure(s)
  <2>1. UNCHANGED <<status, claimedBy, lease>> BY <1>3 DEF JobTimeout, DbFailure, rowVars
  <2>2. UNCHANGED spent \/ spent["stall"] <= spent'["stall"]
    BY <1>3, SpendStall DEF JobTimeout, DbFailure, Faults
  <2>3. ASSUME NEW ph, Goto(s, ph), UNCHANGED job, pc[s] \in Holding \/ ph \notin Holding
        PROVE  QuietStep
    BY <2>1, <2>2, <2>3, GotoShrinks, SlotsOnlyFrame
  <2>4. CASE Exit(s) BY <2>1, <2>2, <2>4, ExitShrinks, SlotsOnlyFrame
  <2>5. CASE JobTimeout(s)
    BY <2>3, <2>4, <2>5 DEF JobTimeout, Holding, JobPhases, LoadPhases
  <2>6. CASE DbFailure(s)
    BY <2>3, <2>4, <2>6 DEF DbFailure, Holding, JobPhases, LoadPhases
  <2> QED BY <1>3, <2>5, <2>6
<1> QED BY <1>1, <1>2, <1>3
\* Every step is quiet, admits a holder or ends a lease.
LEMMA StepKinds ==
    ASSUME TypeOK, [Next]_vars, \A s \in Slots : ~Admits(s), \A r \in Runs : ~Expire(r)
    PROVE  QuietStep
<1> USE DEF TypeOK
<1>1. CASE UNCHANGED <<status, claimedBy, lease, pc, job, spent>>
  BY <1>1, SameSlotsShrink, SlotsOnlyFrame
<1>2. ASSUME NEW f \in Faults, Spend(f), UNCHANGED <<status, claimedBy, lease, pc, job>>
      PROVE  QuietStep
  BY <1>2, SpendStall, SameSlotsShrink, SlotsOnlyFrame
<1>3. ASSUME NEW r \in Runs, Prepare(r) \/ PersistCancel(r)
      PROVE  QuietStep
  <2>1. UNCHANGED <<pc, job, claimedBy, lease, spent>>
    BY <1>3 DEF Prepare, PersistCancel, slotVars, histVars
  <2>2. \A q \in Runs : UpForGrabs(q)' => UpForGrabs(q)
    BY <1>3 DEF Prepare, PersistCancel, UpForGrabs, RowsOK
  <2> QED BY <2>1, <2>2, SameSlotsShrink, QuietFrame
<1>4. ASSUME NEW S \in SUBSET Slots, CancelTasks(S), UNCHANGED <<status, claimedBy, lease>>,
             UNCHANGED spent \/ spent["stall"] <= spent'["stall"]
      PROVE  QuietStep
  BY <1>4, CancelTasksShrinks, SlotsOnlyFrame
<1>5. ASSUME NEW p \in Procs, NEW r \in Runs, CancelLocally(p, r) \/ DeliverCancel(p, r)
      PROVE  QuietStep
  <2>1. {activeRuns[p][r]} \ {None} \in SUBSET Slots BY DEF ProcsOK
  <2>2. CancelTasks({activeRuns[p][r]} \ {None}) BY <1>5 DEF CancelLocally, DeliverCancel
  <2>3. UNCHANGED <<status, claimedBy, lease>>
    BY <1>5 DEF CancelLocally, DeliverCancel, rowVars
  <2>4. UNCHANGED spent \/ spent["stall"] <= spent'["stall"]
    BY <1>5, SpendStall DEF CancelLocally, DeliverCancel, histVars, Faults
  <2> QED BY <1>4, <2>1, <2>2, <2>3, <2>4
<1>6. ASSUME NEW p \in Procs, DrainTimeout(p) PROVE QuietStep
  BY <1>4, <1>6 DEF DrainTimeout, SlotsOf, rowVars, histVars
<1>7. ASSUME NEW s \in Slots, SlotStep(s) PROVE QuietStep
  BY <1>7, SlotStepQuiet
<1>8. ASSUME NEW s \in Slots, Take(s) \/ Heartbeat(s) \/ JobTimeout(s) \/ DbFailure(s)
      PROVE  QuietStep
  BY <1>8, OtherSlotStepQuiet
<1>10. ASSUME NEW p \in Procs, ResetToPending(p) \/ MarkPermanentlyFailed(p)
       PROVE  QuietStep
  <2>1. UNCHANGED <<pc, job, spent>>
    BY <1>10 DEF ResetToPending, MarkPermanentlyFailed, slotVars, histVars
  <2>2. \A q \in Runs : claimedBy'[q] \in {claimedBy[q], None}
    BY <1>10 DEF ResetToPending, MarkPermanentlyFailed, ReturnRows
  <2>3. \A q \in Runs : UpForGrabs(q)' => UpForGrabs(q)
    BY <1>10 DEF ResetToPending, MarkPermanentlyFailed, ReturnRows, Crashed, UpForGrabs
  <2> QED BY <2>1, <2>2, <2>3, SameSlotsShrink, QuietFrame
<1>11. ASSUME NEW p \in Procs, Crash(p) \/ EndStop(p) PROVE QuietStep
  <2>1. ProcessEnds(p) BY <1>11 DEF Crash, EndStop
  <2>2. UNCHANGED <<status, claimedBy, lease>> BY <2>1 DEF ProcessEnds, rowVars
  <2>3. UNCHANGED spent \/ spent["stall"] <= spent'["stall"]
    BY <1>11, SpendStall DEF Crash, EndStop, Faults
  <2> QED BY <2>1, <2>2, <2>3, ProcessEndsShrinks, SlotsOnlyFrame
<1>12. ASSUME NEW r \in Runs, ClientStep(r) PROVE QuietStep
  BY <1>1, <1>2, <1>3, <1>5, <1>12
  DEF ClientStep, Submit, SubmitFails, Age, PublishCancel, LoseCancel, rowVars, slotVars,
      histVars, Faults
<1>13. ASSUME NEW p \in Procs, ReaperStep(p) \/ ReaperDbFailure(p)
       PROVE  QuietStep
  BY <1>1, <1>2, <1>10, <1>13
  DEF ReaperStep, ReaperDbFailure, FindCrashed, FindStuck, CheckRetryLimits, Reenqueue,
      rowVars, slotVars, histVars, Faults
<1>14. ASSUME NEW p \in Procs, ProcessStep(p) PROVE QuietStep
  BY <1>1, <1>2, <1>6, <1>11, <1>14
  DEF ProcessStep, Restart, BeginStop, rowVars, slotVars, histVars, Faults
<1>15. CASE RedisDown \/ RedisRecovers
  BY <1>1, <1>2, <1>15 DEF RedisDown, RedisRecovers, rowVars, slotVars, histVars, Faults
<1>16. CASE UNCHANGED vars BY <1>1, <1>16 DEF vars, rowVars, slotVars, histVars
<1> QED BY <1>7, <1>8, <1>12, <1>13, <1>14, <1>15, <1>16 DEF Next

LEMMA HealthyLeaseExcludesStep ==
    TypeOK /\ PendingIsClaimable /\ HealthyLeaseExcludes /\ [Next]_vars
        => HealthyLeaseExcludes'
<1>1. TypeOK /\ [Next]_vars => HistOK' BY TypeStep DEF TypeOK
<1> QED BY <1>1, StepKinds, QuietStepExcludes, AdmitsExcludes, ExpireExcludes

\* As long as no lease expires under a working owner, at most one slot of the
\* whole cluster is at work on a run, and no run that another loop could
\* acquire is still being worked on.
THEOREM HealthyLeaseAlwaysExcludes == Spec => []HealthyLeaseExcludes
<1>1. Init => HealthyLeaseExcludes
  BY NoneAssumption DEF Init, HealthyLeaseExcludes, HoldersOf
<1> QED
  BY <1>1, HealthyLeaseExcludesStep, TypeCorrect, PendingAlwaysClaimable, PTL DEF Spec
-----------------------------------------------------------------------------
(* Who may take a claim away *)

\* One step of ClaimEndsByOwnerOrExpiry.
ClaimStep ==
    \A r \in Runs : claimedBy[r] # None /\ claimedBy'[r] # claimedBy[r]
        => \/ lease[r] = "expired"
           \/ \E s \in Slots : job[s] = r /\ Owns(s, r) /\ job'[s] # r
           \/ \E p \in Procs : rpc[p] = "fail" /\ r \in exhausted[p]

\* Claims are ended by a loop's own release, in the exit of the slot, and by
\* the reaper's two UPDATEs; every other action leaves claimed_by alone.
LEMMA ClaimStepHolds == TypeOK /\ [Next]_vars => ClaimStep
<1> SUFFICES ASSUME TypeOK, [Next]_vars PROVE ClaimStep OBVIOUS
<1> USE DEF TypeOK
<1>1. CASE UNCHANGED claimedBy BY <1>1 DEF ClaimStep
<1>2. ASSUME NEW s \in Slots, ReleaseClaim(s, job[s]), Exit(s), job[s] \in Runs
      PROVE  ClaimStep
  <2>1. job'[s] = None BY <1>2 DEF Exit, Vacate
  <2>2. \A r \in Runs : claimedBy'[r] # claimedBy[r] => r = job[s] /\ Owns(s, r)
    BY <1>2 DEF ReleaseClaim, RowsOK
  <2> QED BY <1>2, <2>1, <2>2, NoneAssumption DEF ClaimStep
<1>3. ASSUME NEW s \in Slots, Acquire(s) PROVE ClaimStep
  <2>1. job[s] \in Runs BY <1>3 DEF Acquire, SlotsOK
  <2> QED BY <1>3, <2>1 DEF Acquire, Acquirable, ClaimStep, RowsOK
<1>4. ASSUME NEW s \in Slots, Load(s) PROVE ClaimStep
  <2>1. job[s] \in Runs BY <1>4 DEF Load, SlotsOK
  <2> QED BY <1>1, <1>2, <1>4, <2>1 DEF Load
<1>5. ASSUME NEW s \in Slots, ReleaseLease(s) PROVE ClaimStep
  <2>1. job[s] \in Runs BY <1>5 DEF ReleaseLease, SlotsOK
  <2> QED BY <1>2, <1>5, <2>1 DEF ReleaseLease
<1>6. ASSUME NEW p \in Procs, ResetToPending(p) PROVE ClaimStep
  BY <1>6 DEF ResetToPending, ReturnRows, Crashed, ClaimStep
<1>7. ASSUME NEW p \in Procs, MarkPermanentlyFailed(p) PROVE ClaimStep
  BY <1>7 DEF MarkPermanentlyFailed, ReturnRows, ClaimStep
<1>8. ASSUME NEW r \in Runs, ClientStep(r) \/ Expire(r) PROVE ClaimStep
  BY <1>1, <1>8 DEF ClientStep, Prepare, Submit, SubmitFails, Age, PublishCancel, CancelLocally,
        PersistCancel, DeliverCancel, LoseCancel, Expire, rowVars
<1>9. ASSUME NEW s \in Slots, SlotStep(s) PROVE ClaimStep
  BY <1>1, <1>3, <1>4, <1>5, <1>9
  DEF SlotStep, Start, Stream, Finalize, FinalizeError, HandleCancel, FinalizeInterrupted,
      Signal, SetDoneKey, FinalizeTimeout, FinalizeRun, WriteStatus, rowVars
<1>10. ASSUME NEW s \in Slots, Take(s) \/ Heartbeat(s) \/ JobTimeout(s) \/ DbFailure(s)
       PROVE  ClaimStep
  BY <1>1, <1>10
  DEF Take, Dequeue, DequeueFails, PollPostgres, Heartbeat, JobTimeout, DbFailure, rowVars
<1>11. ASSUME NEW p \in Procs, ReaperStep(p) \/ ReaperDbFailure(p) PROVE ClaimStep
  BY <1>1, <1>6, <1>7, <1>11
  DEF ReaperStep, ReaperDbFailure, FindCrashed, FindStuck, CheckRetryLimits, Reenqueue, rowVars
<1>12. ASSUME NEW p \in Procs, ProcessStep(p) PROVE ClaimStep
  BY <1>1, <1>12
  DEF ProcessStep, Crash, Restart, BeginStop, DrainTimeout, EndStop, ProcessEnds, rowVars
<1>13. CASE RedisDown \/ RedisRecovers \/ UNCHANGED vars
  BY <1>1, <1>13 DEF RedisDown, RedisRecovers, vars, rowVars
<1> QED BY <1>8, <1>9, <1>10, <1>11, <1>12, <1>13 DEF Next

\* A worker's claim is only ended by its own loop, after its lease expired, or
\* by a reaper that gives the run up.
THEOREM ClaimsAreSafe == Spec => ClaimEndsByOwnerOrExpiry
<1>1. TypeOK /\ [Next]_vars => [ClaimStep]_vars BY ClaimStepHolds
<1>2. ClaimStep <=>
        (\A r \in Runs : claimedBy[r] # None /\ claimedBy'[r] # claimedBy[r]
            => \/ lease[r] = "expired"
               \/ \E s \in Slots : job[s] = r /\ Owns(s, r) /\ job'[s] # r
               \/ \E p \in Procs : rpc[p] = "fail" /\ r \in exhausted[p])
  BY DEF ClaimStep
<1> QED BY <1>1, <1>2, TypeCorrect, PTL DEF Spec, ClaimEndsByOwnerOrExpiry
-----------------------------------------------------------------------------
(* What active_runs names *)

\* Ending tasks drops the entries of their runs, so that none of the entries
\* left names a task that ended.
LEMMA VacateKeepsNames ==
    ASSUME SlotsOK, ProcsOK, EntriesNameTheirRun, NEW S \in SUBSET Slots, Vacate(S)
    PROVE  EntriesNameTheirRun'
<1> SUFFICES ASSUME NEW p \in Procs, NEW r \in Runs, activeRuns'[p][r] # None
             PROVE  ProcOf[activeRuns'[p][r]] = p /\ job'[activeRuns'[p][r]] = r
  BY DEF EntriesNameTheirRun
<1> DEFINE s == activeRuns[p][r]
<1>1. activeRuns'[p][r] = s /\ ~ \E u \in S : ProcOf[u] = p /\ job[u] = r
  BY DEF Vacate
<1>2. ProcOf[s] = p /\ job[s] = r BY <1>1 DEF EntriesNameTheirRun
<1>3. s \in Slots \ S BY <1>1, <1>2 DEF ProcsOK
<1> QED BY <1>1, <1>2, <1>3 DEF Vacate
LEMMA ExitKeepsNames ==
    ASSUME TypeOK, EntriesNameTheirRun, NEW s \in Slots, Exit(s)
    PROVE  EntriesNameTheirRun'
BY VacateKeepsNames DEF Exit, TypeOK

LEMMA CancelTasksKeepsNames ==
    ASSUME TypeOK, EntriesNameTheirRun, NEW S \in SUBSET Slots, CancelTasks(S)
    PROVE  EntriesNameTheirRun'
<1>1. \E gone \in SUBSET Slots : Vacate(gone) BY DEF CancelTasks
<1> QED BY <1>1, VacateKeepsNames DEF TypeOK

\* An idle slot is in no entry, hence nothing else is named by its new job.
LEMMA RegisterKeepsNames ==
    ASSUME TypeOK, EntriesNameTheirRun, NEW s \in Slots, NEW r \in Runs,
           job[s] = None, Register(s, r)
    PROVE  EntriesNameTheirRun'
<1> SUFFICES ASSUME NEW p \in Procs, NEW q \in Runs, activeRuns'[p][q] # None
             PROVE  ProcOf[activeRuns'[p][q]] = p /\ job'[activeRuns'[p][q]] = q
  BY DEF EntriesNameTheirRun
<1>1. /\ activeRuns' = [activeRuns EXCEPT ![ProcOf[s]][r] = s]
      /\ job' = [job EXCEPT ![s] = r]
  BY DEF Register
<1>2. CASE p = ProcOf[s] /\ q = r
  BY <1>1, <1>2, SlotsAssumption DEF TypeOK, ProcsOK, SlotsOK
<1>3. CASE ~(p = ProcOf[s] /\ q = r)
  <2>1. activeRuns'[p][q] = activeRuns[p][q]
    BY <1>1, <1>3, SlotsAssumption DEF TypeOK, ProcsOK
  <2>2. ProcOf[activeRuns[p][q]] = p /\ job[activeRuns[p][q]] = q
    BY <2>1 DEF EntriesNameTheirRun
  <2>3. activeRuns[p][q] \in Slots /\ activeRuns[p][q] # s
    BY <2>1, <2>2, NoneAssumption DEF TypeOK, ProcsOK
  <2> QED BY <1>1, <2>1, <2>2, <2>3 DEF TypeOK, SlotsOK
<1> QED BY <1>2, <1>3

LEMMA PopActiveKeepsNames ==
    ASSUME TypeOK, EntriesNameTheirRun, NEW s \in Slots, job[s] \in Runs,
           PopActive(s), UNCHANGED job
    PROVE  EntriesNameTheirRun'
BY SlotsAssumption DEF EntriesNameTheirRun, PopActive, TypeOK, ProcsOK

LEMMA ProcessEndsKeepsNames ==
    ASSUME TypeOK, EntriesNameTheirRun, NEW p \in Procs, ProcessEnds(p)
    PROVE  EntriesNameTheirRun'
<1> SUFFICES ASSUME NEW q \in Procs, NEW r \in Runs, activeRuns'[q][r] # None
             PROVE  ProcOf[activeRuns'[q][r]] = q /\ job'[activeRuns'[q][r]] = r
  BY DEF EntriesNameTheirRun
<1>1. q # p /\ activeRuns'[q][r] = activeRuns[q][r] BY DEF ProcessEnds, TypeOK, ProcsOK
<1>2. ProcOf[activeRuns[q][r]] = q /\ job[activeRuns[q][r]] = r
  BY <1>1 DEF EntriesNameTheirRun
<1>3. activeRuns[q][r] \in Slots BY <1>1 DEF TypeOK, ProcsOK
<1> QED BY <1>1, <1>2, <1>3 DEF ProcessEnds

LEMMA EntriesNameTheirRunStep ==
    TypeOK /\ EntriesNameTheirRun /\ [Next]_vars => EntriesNameTheirRun'
<1> SUFFICES ASSUME TypeOK, EntriesNameTheirRun, [Next]_vars PROVE EntriesNameTheirRun'
  OBVIOUS
<1>1. CASE UNCHANGED <<job, activeRuns>> BY <1>1 DEF EntriesNameTheirRun
<1>2. ASSUME NEW s \in Slots, HandleCancel(s) \/ Signal(s) PROVE EntriesNameTheirRun'
  <2>1. job[s] \in Runs /\ UNCHANGED job BY <1>2 DEF HandleCancel, Signal, TypeOK, SlotsOK
  <2> QED BY <1>1, <1>2, <2>1, PopActiveKeepsNames DEF HandleCancel, Signal
<1>3. ASSUME NEW s \in Slots, SlotStep(s) PROVE EntriesNameTheirRun'
  BY <1>1, <1>2, <1>3, ExitKeepsNames
  DEF SlotStep, Acquire, Load, Start, Stream, Finalize, FinalizeError, FinalizeInterrupted,
      SetDoneKey, ReleaseLease, FinalizeTimeout, FinalizeRun, WriteStatus, procVars
<1>4. ASSUME NEW s \in Slots, Take(s) PROVE EntriesNameTheirRun'
  <2>1. job[s] = None BY <1>4 DEF Take, Dequeue, DequeueFails, PollPostgres, TypeOK, SlotsOK
  <2>2. CASE Dequeue(s)
    <3>1. Head(queue) \in Runs BY <2>2 DEF Dequeue, TypeOK, RedisOK
    <3> QED BY <2>1, <2>2, <3>1, RegisterKeepsNames DEF Dequeue
  <2>3. CASE DequeueFails(s) BY <1>1, <2>3 DEF DequeueFails, procVars
  <2>4. CASE PollPostgres(s) BY <1>1, <2>1, <2>4, RegisterKeepsNames DEF PollPostgres
  <2> QED BY <1>4, <2>2, <2>3, <2>4 DEF Take
<1>5. ASSUME NEW s \in Slots, Heartbeat(s) \/ JobTimeout(s) \/ DbFailure(s)
      PROVE  EntriesNameTheirRun'
  BY <1>1, <1>5, ExitKeepsNames DEF Heartbeat, JobTimeout, DbFailure
<1>6. ASSUME NEW p \in Procs, NEW r \in Runs, CancelLocally(p, r) \/ DeliverCancel(p, r)
      PROVE  EntriesNameTheirRun'
  <2>1. {activeRuns[p][r]} \ {None} \in SUBSET Slots BY DEF TypeOK, ProcsOK
  <2> QED BY <1>6, <2>1, CancelTasksKeepsNames DEF CancelLocally, DeliverCancel
<1>7. ASSUME NEW r \in Runs, ClientStep(r) \/ Expire(r) PROVE EntriesNameTheirRun'
  BY <1>1, <1>6, <1>7
  DEF ClientStep, Prepare, Submit, SubmitFails, Age, PublishCancel, PersistCancel, LoseCancel,
      Expire, slotVars, procVars
<1>8. ASSUME NEW p \in Procs, ReaperStep(p) \/ ReaperDbFailure(p) PROVE EntriesNameTheirRun'
  BY <1>1, <1>8
  DEF ReaperStep, ReaperDbFailure, FindCrashed, FindStuck, ResetToPending, CheckRetryLimits,
      MarkPermanentlyFailed, Reenqueue, slotVars, procVars
<1>9. ASSUME NEW p \in Procs, DrainTimeout(p) PROVE EntriesNameTheirRun'
  BY <1>9, CancelTasksKeepsNames DEF DrainTimeout, SlotsOf
<1>10. ASSUME NEW p \in Procs, ProcessStep(p) PROVE EntriesNameTheirRun'
  BY <1>1, <1>9, <1>10, ProcessEndsKeepsNames
  DEF ProcessStep, Crash, Restart, BeginStop, EndStop, slotVars
<1>11. CASE RedisDown \/ RedisRecovers \/ UNCHANGED vars
  BY <1>1, <1>11 DEF RedisDown, RedisRecovers, vars, slotVars, procVars
<1> QED BY <1>3, <1>4, <1>5, <1>7, <1>8, <1>10, <1>11 DEF Next

\* Cancelling a run can only ever hit a task of that run: active_runs names
\* no task that has ended and none that runs another run.
THEOREM EntriesAlwaysNameTheirRun == Spec => []EntriesNameTheirRun
<1>1. Init => EntriesNameTheirRun BY DEF Init, EntriesNameTheirRun
<1> QED BY <1>1, EntriesNameTheirRunStep, TypeCorrect, PTL DEF Spec
-----------------------------------------------------------------------------
(* How many hold a run after stalls *)

\* A subset is no larger, and smaller unless it is the whole set.
LEMMA PartIsSmaller ==
    ASSUME NEW S, NEW T, IsFiniteSet(S), T \subseteq S
    PROVE  /\ IsFiniteSet(T) /\ Cardinality(T) \in Nat /\ Cardinality(S) \in Nat
           /\ Cardinality(T) <= Cardinality(S)
           /\ T # S => Cardinality(T) + 1 <= Cardinality(S)
<1>1. IsFiniteSet(T) /\ Cardinality(T) <= Cardinality(S) BY FS_Subset
<1>2. Cardinality(T) \in Nat /\ Cardinality(S) \in Nat BY <1>1, FS_CardinalityType
<1>3. T # S => Cardinality(T) # Cardinality(S) BY FS_Subset
<1> QED BY <1>1, <1>2, <1>3

\* One holder more than stalls; no more than stalls when the run is up for
\* grabs, or when it is claimed and none of its holders owns the claim.
CrewBound ==
    \A r \in Runs :
        /\ IsFiniteSet(HoldersOf(r))
        /\ Cardinality(HoldersOf(r)) <= 1 + spent["stall"]
        /\ UpForGrabs(r) => Cardinality(HoldersOf(r)) <= spent["stall"]
        /\ claimedBy[r] # None /\ (\A s \in HoldersOf(r) : ~Owns(s, r))
               => Cardinality(HoldersOf(r)) <= spent["stall"]

LEMMA QuietStepKeepsCrew ==
    ASSUME TypeOK, CrewBound, QuietStep, HistOK'
    PROVE  CrewBound'
<1> SUFFICES ASSUME NEW r \in Runs
             PROVE  /\ IsFiniteSet(HoldersOf(r)')
                    /\ Cardinality(HoldersOf(r)') <= 1 + spent'["stall"]
                    /\ UpForGrabs(r)' => Cardinality(HoldersOf(r)') <= spent'["stall"]
                    /\ claimedBy'[r] # None /\ (\A s \in HoldersOf(r)' : ~Owns(s, r)')
                           => Cardinality(HoldersOf(r)') <= spent'["stall"]
  BY DEF CrewBound
<1> DEFINE H == HoldersOf(r)
           N == HoldersOf(r)'
           before == spent["stall"]
           after == spent'["stall"]
<1>1. /\ IsFiniteSet(H) /\ Cardinality(H) <= 1 + before
      /\ UpForGrabs(r) => Cardinality(H) <= before
      /\ claimedBy[r] # None /\ (\A s \in H : ~Owns(s, r)) => Cardinality(H) <= before
  BY DEF CrewBound
<1>2. N \subseteq H /\ before <= after /\ (UpForGrabs(r)' => UpForGrabs(r))
  BY DEF QuietStep, HoldersShrink
<1>3. before \in Nat /\ after \in Nat BY DEF TypeOK, HistOK, Faults
<1>4. claimedBy'[r] # None /\ (\A s \in N : ~Owns(s, r)') /\ N = H
        => claimedBy[r] # None /\ (\A s \in H : ~Owns(s, r))
  BY DEF QuietStep, Owns
<1>5. claimedBy'[r] # None /\ (\A s \in N : ~Owns(s, r)') /\ N = H => Cardinality(H) <= before
  BY <1>1, <1>4
<1> HIDE DEF H, N, before, after
<1>6. /\ IsFiniteSet(N) /\ Cardinality(N) \in Nat /\ Cardinality(H) \in Nat
      /\ Cardinality(N) <= Cardinality(H) /\ (N # H => Cardinality(N) + 1 <= Cardinality(H))
  BY <1>1, <1>2, PartIsSmaller
<1>7. Cardinality(N) <= 1 + after /\ (UpForGrabs(r)' => Cardinality(N) <= after)
  BY <1>1, <1>2, <1>3, <1>6
<1>8. claimedBy'[r] # None /\ (\A s \in N : ~Owns(s, r)') => Cardinality(N) <= after
  BY <1>1, <1>2, <1>3, <1>5, <1>6
<1> QED BY <1>6, <1>7, <1>8 DEF N, after

LEMMA AdmitsKeepsCrew ==
    ASSUME TypeOK, CrewBound, NEW s \in Slots, Admits(s)
    PROVE  CrewBound'
<1>0. PICK r \in Runs : r = job[s] BY AdmitsEffect
<1> DEFINE stalls == spent["stall"]
<1>1. stalls \in Nat /\ spent' = spent BY AdmitsEffect DEF TypeOK, HistOK, Faults
<1>2. \A q \in Runs \ {r} : HoldersOf(q)' = HoldersOf(q) /\ (UpForGrabs(q)' <=> UpForGrabs(q))
                           /\ claimedBy'[q] = claimedBy[q]
  BY <1>0, AdmitsEffect DEF TypeOK, RowsOK, UpForGrabs
<1>3. UpForGrabs(r) /\ ~UpForGrabs(r)' /\ claimedBy'[r] = WorkerOf[s]
  BY <1>0, AdmitsEffect DEF TypeOK, RowsOK, UpForGrabs
<1>4. IsFiniteSet(HoldersOf(r)) /\ Cardinality(HoldersOf(r)) <= stalls
  BY <1>3 DEF CrewBound
<1>5. HoldersOf(r)' = HoldersOf(r) \cup {s} /\ s \notin HoldersOf(r) BY <1>0, AdmitsEffect
<1>6. /\ IsFiniteSet(HoldersOf(r) \cup {s})
      /\ Cardinality(HoldersOf(r) \cup {s}) = Cardinality(HoldersOf(r)) + 1
      /\ Cardinality(HoldersOf(r)) \in Nat
  BY <1>4, <1>5, FS_AddElement, FS_CardinalityType
<1>7. IsFiniteSet(HoldersOf(r)') /\ Cardinality(HoldersOf(r)') <= 1 + stalls
  BY <1>1, <1>4, <1>5, <1>6
<1>8. s \in HoldersOf(r)' /\ claimedBy'[r] = WorkerOf[s] BY <1>3, <1>5
<1> SUFFICES ASSUME NEW q \in Runs
             PROVE  /\ IsFiniteSet(HoldersOf(q)')
                    /\ Cardinality(HoldersOf(q)') <= 1 + spent'["stall"]
                    /\ UpForGrabs(q)' => Cardinality(HoldersOf(q)') <= spent'["stall"]
                    /\ claimedBy'[q] # None /\ (\A t \in HoldersOf(q)' : ~Owns(t, q)')
                           => Cardinality(HoldersOf(q)') <= spent'["stall"]
  BY DEF CrewBound
<1>9. CASE q = r BY <1>1, <1>3, <1>7, <1>8, <1>9 DEF Owns
<1>10. CASE q # r BY <1>1, <1>2, <1>10 DEF CrewBound, Owns
<1> QED BY <1>9, <1>10

LEMMA ExpireKeepsCrew ==
    ASSUME TypeOK, TypeOK', PendingIsClaimable, CrewBound, NEW r \in Runs, Expire(r)
    PROVE  CrewBound'
<1>1. /\ UNCHANGED <<pc, job, status, claimedBy>>
      /\ lease[r] = "live" /\ lease' = [lease EXCEPT ![r] = "expired"]
  BY DEF Expire, slotVars
<1>2. \A q \in Runs : HoldersOf(q)' = HoldersOf(q) BY <1>1 DEF HoldersOf
<1>3. spent["stall"] \in Nat /\ spent'["stall"] \in Nat BY DEF TypeOK, HistOK, Faults
<1>4. \A q \in Runs : Cardinality(HoldersOf(q)) \in Nat BY FS_CardinalityType DEF CrewBound
<1>5. CASE UNCHANGED spent /\ \A s \in Slots : ~HoldsLease(s, r)
  <2>1. \A s \in HoldersOf(r) : ~Owns(s, r) BY <1>5 DEF HoldsLease, HoldersOf
  <2>2. claimedBy[r] # None BY <1>1 DEF PendingIsClaimable
  <2>3. Cardinality(HoldersOf(r)) <= spent["stall"] BY <2>1, <2>2 DEF CrewBound
  <2>4. \A q \in Runs \ {r} : UpForGrabs(q)' <=> UpForGrabs(q)
    BY <1>1 DEF UpForGrabs, TypeOK, RowsOK
  <2> QED BY <1>1, <1>2, <1>5, <2>3, <2>4 DEF CrewBound, Owns
<1>6. CASE Spend("stall")
  <2>1. spent'["stall"] = spent["stall"] + 1 BY <1>6 DEF Spend, TypeOK, HistOK, Faults
  <2>2. \A q \in Runs : /\ IsFiniteSet(HoldersOf(q)')
                         /\ Cardinality(HoldersOf(q)') <= spent'["stall"]
    BY <1>2, <1>3, <1>4, <2>1 DEF CrewBound
  <2>3. \A q \in Runs : Cardinality(HoldersOf(q)') <= 1 + spent'["stall"]
    BY <1>2, <1>3, <1>4, <2>2
  <2> QED BY <2>2, <2>3 DEF CrewBound
<1> QED BY <1>5, <1>6 DEF Expire

LEMMA CrewBoundStep == TypeOK /\ PendingIsClaimable /\ CrewBound /\ [Next]_vars => CrewBound'
<1>1. TypeOK /\ [Next]_vars => TypeOK' /\ HistOK' BY TypeStep DEF TypeOK
<1> QED BY <1>1, StepKinds, QuietStepKeepsCrew, AdmitsKeepsCrew, ExpireKeepsCrew

\* However many lease losses, releases, crashes and recoveries come together: a
\* run is executed by one slot, and by one more for each stall there has been.
THEOREM StallsAlwaysBoundExecutors == Spec => []StallsBoundExecutors
<1>1. Init => CrewBound
  <2>1. IsFiniteSet({}) /\ Cardinality({}) = 0 BY FS_EmptySet
  <2>2. Init => spent["stall"] = 0 /\ \A r \in Runs : HoldersOf(r) = {}
    BY NoneAssumption DEF Init, HoldersOf, Faults
  <2>3. Init => \A r \in Runs : IsFiniteSet(HoldersOf(r)) /\ Cardinality(HoldersOf(r)) = 0
    BY <2>1, <2>2
  <2> QED BY <2>2, <2>3 DEF CrewBound
<1>2. TypeOK /\ CrewBound => StallsBoundExecutors
  <2> SUFFICES ASSUME TypeOK, CrewBound, NEW r \in Runs
               PROVE  Cardinality({s \in Slots : job[s] = r /\ pc[s] \in Executing})
                        <= 1 + spent["stall"]
    BY DEF StallsBoundExecutors
  <2> DEFINE E == {s \in Slots : job[s] = r /\ pc[s] \in Executing}
  <2>1. E \subseteq HoldersOf(r) BY DEF HoldersOf, Executing, Holding
  <2>2. IsFiniteSet(HoldersOf(r)) /\ Cardinality(HoldersOf(r)) <= 1 + spent["stall"]
    BY DEF CrewBound
  <2>3. spent["stall"] \in Nat BY DEF TypeOK, HistOK, Faults
  <2> HIDE DEF E
  <2>4. Cardinality(E) <= Cardinality(HoldersOf(r)) /\ Cardinality(E) \in Nat
          /\ Cardinality(HoldersOf(r)) \in Nat
    BY <2>1, <2>2, PartIsSmaller
  <2>5. Cardinality(E) <= 1 + spent["stall"] BY <2>2, <2>3, <2>4
  <2> QED BY <2>5 DEF E
<1> QED BY <1>1, <1>2, CrewBoundStep, TypeCorrect, PendingAlwaysClaimable, PTL DEF Spec
-----------------------------------------------------------------------------
(* Who writes the status of a run *)

\* Unless a slot acquires it, a run is created, goes back to pending after its
\* lease expired, gets a final status from whoever, or is set to running by a
\* slot that holds it (execute_run's first write).
RowStep ==
    \A r \in Runs :
        \/ status'[r] = status[r]
        \/ status[r] = "absent" /\ status'[r] = "pending"
        \/ r \in Crashed /\ status'[r] = "pending" /\ \E p \in Procs : ResetToPending(p)
        \/ status'[r] \in TerminalStates
        \/ status'[r] = "running" /\ HoldersOf(r) # {}

LEMMA StepWritesRow ==
    ASSUME TypeOK, [Next]_vars, \A s \in Slots : ~Admits(s)
    PROVE  /\ RowStep /\ attempts' = attempts
           /\ \A r \in Runs : cancelReq'[r] = "done"
                 => cancelReq[r] = "done" \/ status'[r] = "interrupted"
<1> DEFINE Cancels == \A r \in Runs : cancelReq'[r] = "done"
                         => cancelReq[r] = "done" \/ status'[r] = "interrupted"
           Goal == RowStep /\ attempts' = attempts /\ Cancels
<1> SUFFICES Goal OBVIOUS
<1> USE DEF TypeOK
<1>1. CASE UNCHANGED <<status, cancelReq, attempts>> BY <1>1 DEF RowStep
<1>2. ASSUME NEW r \in Runs, ClientStep(r) PROVE Goal
  <2>1. CASE Prepare(r)
    <3>1. UNCHANGED <<cancelReq, attempts>> BY <2>1 DEF Prepare, histVars
    <3>2. RowStep BY <2>1 DEF Prepare, RowStep, RowsOK
    <3> QED BY <3>1, <3>2
  <2>2. CASE PersistCancel(r)
    <3>1. RowStep BY <2>2 DEF PersistCancel, RowStep, RowsOK, TerminalStates
    <3>2. Cancels BY <2>2 DEF PersistCancel, RowsOK, ClientsOK
    <3> QED BY <2>2, <3>1, <3>2 DEF PersistCancel, histVars
  <2>3. ASSUME UNCHANGED <<status, attempts>>,
               cancelReq' = [cancelReq EXCEPT ![r] = "published"]
        PROVE  Goal
    BY <2>3 DEF RowStep, ClientsOK
  <2>4. CASE PublishCancel(r) BY <2>3, <2>4 DEF PublishCancel, rowVars
  <2>5. ASSUME NEW p \in Procs, CancelLocally(p, r) PROVE Goal
    BY <2>3, <2>5 DEF CancelLocally, rowVars
  <2> QED BY <1>1, <1>2, <2>1, <2>2, <2>4, <2>5
          DEF ClientStep, Submit, SubmitFails, Age, DeliverCancel, LoseCancel, rowVars, clientVars, histVars
<1>3. ASSUME NEW s \in Slots, NEW st \in TerminalStates, NEW ph, WriteStatus(s, st, ph), job[s] \in Runs
      PROVE  Goal
  BY <1>3 DEF WriteStatus, RowStep, RowsOK, clientVars, histVars
<1>4. ASSUME NEW s \in Slots, SlotStep(s) PROVE Goal
  <2>1. CASE Acquire(s) BY <1>1, <1>4, <2>1 DEF Acquire, Admits, clientVars
  <2>2. CASE Load(s)
    <3>1. UNCHANGED <<cancelReq, attempts>> BY <2>2 DEF Load, clientVars, histVars
    <3>2. RowStep BY <2>2 DEF Load, RowStep, RowsOK, TerminalStates
    <3> QED BY <3>1, <3>2
  <2>3. CASE Start(s)
    <3>1. job[s] \in Runs /\ pc[s] = "start" BY <2>3 DEF Start, SlotsOK
    <3>2. s \in HoldersOf(job[s]) BY <3>1 DEF HoldersOf, Holding, JobPhases
    <3>3. RowStep BY <2>3, <3>1, <3>2 DEF Start, WriteStatus, RowStep, RowsOK
    <3> QED BY <2>3, <3>3 DEF Start, WriteStatus, clientVars, histVars
  <2>4. CASE Finalize(s)
    <3>1. job[s] \in Runs BY <2>4 DEF Finalize, SlotsOK
    <3> QED BY <1>3, <2>4, <3>1 DEF Finalize, FinalizeRun, TerminalStates
  <2>5. CASE FinalizeError(s) \/ FinalizeInterrupted(s) \/ FinalizeTimeout(s)
    <3>1. job[s] \in Runs BY <2>5 DEF FinalizeError, FinalizeInterrupted, FinalizeTimeout, SlotsOK
    <3> QED BY <1>3, <2>5, <3>1
            DEF FinalizeError, FinalizeInterrupted, FinalizeTimeout, FinalizeRun, TerminalStates
  <2>6. CASE Stream(s) \/ HandleCancel(s) \/ Signal(s) \/ SetDoneKey(s) \/ ReleaseLease(s)
    BY <1>1, <2>6 DEF Stream, HandleCancel, Signal, SetDoneKey, ReleaseLease, rowVars, clientVars, histVars
  <2> QED BY <1>4, <2>1, <2>2, <2>3, <2>4, <2>5, <2>6 DEF SlotStep
<1>5. ASSUME NEW s \in Slots, Take(s) \/ Heartbeat(s) \/ JobTimeout(s) \/ DbFailure(s) PROVE Goal
  BY <1>1, <1>5
  DEF Take, Dequeue, DequeueFails, PollPostgres, Heartbeat, JobTimeout, DbFailure, rowVars,
      clientVars, histVars
<1>6. ASSUME NEW r \in Runs, Expire(r) PROVE Goal
  BY <1>1, <1>6 DEF Expire, clientVars
<1>7. ASSUME NEW p \in Procs, ResetToPending(p) PROVE Goal
  BY <1>7 DEF ResetToPending, ReturnRows, RowStep, clientVars, histVars
<1>8. ASSUME NEW p \in Procs, MarkPermanentlyFailed(p) PROVE Goal
  BY <1>8 DEF MarkPermanentlyFailed, ReturnRows, RowStep, TerminalStates, clientVars, histVars
<1>9. ASSUME NEW p \in Procs, ReaperStep(p) \/ ReaperDbFailure(p) PROVE Goal
  BY <1>1, <1>7, <1>8, <1>9
  DEF ReaperStep, ReaperDbFailure, FindCrashed, FindStuck, CheckRetryLimits, Reenqueue, rowVars,
      clientVars, histVars
<1>10. ASSUME NEW p \in Procs, ProcessStep(p) PROVE Goal
  BY <1>1, <1>10
  DEF ProcessStep, Crash, Restart, BeginStop, DrainTimeout, EndStop, ProcessEnds, rowVars,
      clientVars, histVars
<1>11. CASE RedisDown \/ RedisRecovers \/ UNCHANGED vars
  BY <1>1, <1>11 DEF RedisDown, RedisRecovers, vars, rowVars, clientVars, histVars
<1> QED BY <1>2, <1>4, <1>5, <1>6, <1>9, <1>10, <1>11 DEF Next
-----------------------------------------------------------------------------
(* A run that is cancelled in the queue *)

\* A run without an attempt is not running and nobody holds it; once its
\* cancellation is persisted it is not in line for one, either.
NeverStarted ==
    \A r \in Runs : attempts[r] = 0 =>
        /\ status[r] # "running" /\ HoldersOf(r) = {}
        /\ cancelReq[r] = "done" => status[r] \notin {"absent", "pending"}

LEMMA NeverStartedStep == TypeOK /\ PendingIsClaimable /\ NeverStarted /\ [Next]_vars => NeverStarted'
<1> SUFFICES ASSUME TypeOK, PendingIsClaimable, NeverStarted, [Next]_vars PROVE NeverStarted' OBVIOUS
<1>1. CASE \A s \in Slots : ~Admits(s)
  <2>1. RowStep /\ attempts' = attempts BY <1>1, StepWritesRow
  <2>2. \A r \in Runs : cancelReq'[r] = "done" => cancelReq[r] = "done" \/ status'[r] = "interrupted"
    BY <1>1, StepWritesRow
  <2>3. HoldersShrink
    <3>1. CASE \E r \in Runs : Expire(r) BY <3>1, SameSlotsShrink DEF Expire, slotVars
    <3>2. CASE \A r \in Runs : ~Expire(r) BY <1>1, <3>2, StepKinds DEF QuietStep
    <3> QED BY <3>1, <3>2
  <2> QED BY <2>1, <2>2, <2>3
          DEF NeverStarted, RowStep, HoldersShrink, Crashed, TerminalStates
<1>2. ASSUME NEW s \in Slots, Admits(s) PROVE NeverStarted'
  <2>1. PICK r \in Runs : r = job[s] BY <1>2, AdmitsEffect
  <2>2. attempts' = [attempts EXCEPT ![r] = @ + 1] /\ cancelReq' = cancelReq
    BY <1>2, <2>1 DEF Admits, Acquire, clientVars
  <2>3. attempts'[r] # 0 BY <2>2 DEF TypeOK, HistOK
  <2>4. \A q \in Runs \ {r} : /\ attempts'[q] = attempts[q] /\ status'[q] = status[q]
                             /\ HoldersOf(q)' = HoldersOf(q)
    BY <1>2, <2>1, <2>2, AdmitsEffect DEF TypeOK, HistOK, RowsOK
  <2> QED BY <2>2, <2>3, <2>4 DEF NeverStarted
<1> QED BY <1>1, <1>2

LEMMA NeverStartedInvariant == Spec => []NeverStarted
<1>1. Init => NeverStarted BY NoneAssumption DEF Init, NeverStarted, HoldersOf
<1> QED BY <1>1, NeverStartedStep, TypeCorrect, PendingAlwaysClaimable, PTL DEF Spec

\* A cancellation that was persisted while the run was still in the queue holds:
\* no queue entry, poll or recovery hands that run to a worker afterwards.
THEOREM CancelledRunsStayUnstarted == Spec => CancelledInQueueNeverRuns
<1>1. TypeOK /\ NeverStarted /\ [Next]_vars
        => [\A r \in Runs : cancelReq[r] = "done" /\ attempts[r] = 0 => attempts'[r] = 0]_vars
  <2> SUFFICES ASSUME TypeOK, NeverStarted, [Next]_vars, NEW r \in Runs,
                      cancelReq[r] = "done", attempts[r] = 0
               PROVE  attempts'[r] = 0
    OBVIOUS
  <2>1. CASE \A s \in Slots : ~Admits(s) BY <2>1, StepWritesRow
  <2>2. ASSUME NEW s \in Slots, Admits(s) PROVE attempts'[r] = 0
    <3>1. status[job[s]] = "pending" /\ job[s] \in Runs BY <2>2, AdmitsEffect
    <3>2. job[s] # r BY <3>1 DEF NeverStarted
    <3>3. attempts' = [attempts EXCEPT ![job[s]] = @ + 1] BY <2>2 DEF Admits, Acquire
    <3> QED BY <3>2, <3>3 DEF TypeOK, HistOK
  <2> QED BY <2>1, <2>2
<1> QED BY <1>1, TypeCorrect, NeverStartedInvariant, PTL DEF Spec, CancelledInQueueNeverRuns
-----------------------------------------------------------------------------
(* How often a run is tried *)

\* The reapers that have reset r, or found it exhausted, and have neither
\* charged it a retry nor failed it yet.
Recovering(r) ==
    {p \in Procs : (rpc[p] = "retries" /\ r \in found[p]) \/ r \in exhausted[p]}

\* The retries r was charged, those that were forgotten and those to come.
Charge(r) == retryCount[r] + uncharged[r] + Cardinality(Recovering(r))

Waits(r) == status[r] \in {"absent", "pending"}
Alive(r) == claimedBy[r] # None \/ Waits(r)

\* Only the modelled reapers work, and one has exhausted runs in hand only
\* until it has failed them.
ReapersAwake ==
    \A p \in Procs : /\ rpc[p] # "sleep" => p \in Reapers
                     /\ exhausted[p] # {} => rpc[p] = "fail"

\* Each attempt but the current one was paid for.  A run that is neither
\* waiting nor claimed gets no further attempt; it keeps the bound it had.
AttemptsPaid(r) ==
    /\ retryCount[r] <= MaxRetries
    /\ attempts[r] <= MaxRetries + 1 + uncharged[r] + Cardinality(Reapers)
    /\ Alive(r) => attempts[r] <= Charge(r) + 1
    /\ Waits(r) => attempts[r] <= Charge(r)

LEMMA RecoveringReapers ==
    ASSUME ReapersAwake, ReapersAwake', NEW r
    PROVE  /\ IsFiniteSet(Recovering(r)) /\ IsFiniteSet(Recovering(r)')
           /\ Cardinality(Reapers) \in Nat
           /\ Cardinality(Recovering(r)) \in Nat /\ Cardinality(Recovering(r)') \in Nat
           /\ Cardinality(Recovering(r)) <= Cardinality(Reapers)
           /\ Cardinality(Recovering(r)') <= Cardinality(Reapers)
<1>1. Recovering(r) \subseteq Reapers /\ Recovering(r)' \subseteq Reapers
  BY DEF Recovering, ReapersAwake
<1> QED BY <1>1, PartIsSmaller

LEMMA AttemptsStayPaid ==
    ASSUME HistOK, HistOK', RowsOK, RowsOK', ReapersAwake, ReapersAwake',
           NEW r \in Runs, AttemptsPaid(r), attempts'[r] = attempts[r],
           uncharged[r] <= uncharged'[r], retryCount'[r] <= MaxRetries,
           Alive(r)' => Alive(r) /\ Charge(r) <= Charge(r)',
           Waits(r)' => Waits(r) \/ Charge(r) + 1 <= Charge(r)'
    PROVE  AttemptsPaid(r)'
<1> DEFINE a == attempts[r]
           u == uncharged[r]
           v == uncharged'[r]
           c == retryCount[r]
           d == retryCount'[r]
           n == Cardinality(Reapers)
           k == Cardinality(Recovering(r))
           l == Cardinality(Recovering(r)')
<1>1. a \in Nat /\ u \in Nat /\ v \in Nat /\ c \in Nat /\ d \in Nat BY DEF HistOK, RowsOK
<1>2. n \in Nat /\ k \in Nat /\ l \in Nat BY RecoveringReapers
<1>3. Charge(r) = c + u + k /\ Charge(r)' = d + v + l BY DEF Charge
<1>4. /\ a <= MaxRetries + 1 + u + n
      /\ Alive(r) => a <= (c + u + k) + 1
      /\ Waits(r) => a <= c + u + k
  BY <1>3 DEF AttemptsPaid
<1>5. /\ u <= v /\ d <= MaxRetries
      /\ Alive(r)' => Alive(r) /\ c + u + k <= d + v + l
      /\ Waits(r)' => Waits(r) \/ (c + u + k) + 1 <= d + v + l
      /\ Waits(r)' => Alive(r)'
  BY <1>3 DEF Alive
<1>6. attempts'[r] = a OBVIOUS
<1>7. Waits(r) => Alive(r) BY DEF Alive
<1> HIDE DEF a, u, v, c, d, n, k, l
<1>8. /\ d <= MaxRetries /\ a <= MaxRetries + 1 + v + n
      /\ Alive(r)' => a <= (d + v + l) + 1
      /\ Waits(r)' => a <= d + v + l
  BY <1>1, <1>2, <1>4, <1>5, <1>7
<1> QED BY <1>3, <1>6, <1>8 DEF AttemptsPaid, d, v, n

LEMMA ReapersAwakeStep == TypeOK /\ ReapersAwake /\ [Next]_vars => ReapersAwake'
<1> SUFFICES ASSUME TypeOK, ReapersAwake, [Next]_vars PROVE ReapersAwake' OBVIOUS
<1> USE DEF TypeOK, ReapersOK
<1>1. CASE UNCHANGED <<rpc, exhausted>> BY <1>1 DEF ReapersAwake
<1>2. ASSUME NEW p \in Procs, AbandonTick(p) PROVE ReapersAwake'
  BY <1>2 DEF AbandonTick, ReaperGoto, ReapersAwake
<1>3. ASSUME NEW p \in Procs, ReaperStep(p) PROVE ReapersAwake'
  BY <1>3 DEF ReaperStep, FindCrashed, FindStuck, ResetToPending, CheckRetryLimits,
              MarkPermanentlyFailed, Reenqueue, ReaperGoto, ReapersAwake
<1>4. ASSUME NEW p \in Procs, ReaperDbFailure(p) \/ ProcessStep(p) PROVE ReapersAwake'
  BY <1>1, <1>2, <1>4
  DEF ReaperDbFailure, ProcessStep, Crash, Restart, BeginStop, DrainTimeout, EndStop,
      ProcessEnds, reaperVars
<1>5. ASSUME NEW r \in Runs, ClientStep(r) \/ Expire(r) PROVE ReapersAwake'
  BY <1>1, <1>5
  DEF ClientStep, Prepare, Submit, SubmitFails, Age, PublishCancel, CancelLocally, PersistCancel,
      DeliverCancel, LoseCancel, Expire, reaperVars
<1>6. ASSUME NEW s \in Slots, SlotStep(s) PROVE ReapersAwake'
  BY <1>1, <1>6
  DEF SlotStep, Acquire, Load, Start, Stream, Finalize, FinalizeError, HandleCancel,
      FinalizeInterrupted, Signal, SetDoneKey, ReleaseLease, FinalizeTimeout, FinalizeRun,
      WriteStatus, reaperVars
<1>7. ASSUME NEW s \in Slots, Take(s) \/ Heartbeat(s) \/ JobTimeout(s) \/ DbFailure(s)
      PROVE  ReapersAwake'
  BY <1>1, <1>7
  DEF Take, Dequeue, DequeueFails, PollPostgres, Heartbeat, JobTimeout, DbFailure, reaperVars
<1>8. CASE RedisDown \/ RedisRecovers \/ UNCHANGED vars
  BY <1>1, <1>8 DEF RedisDown, RedisRecovers, vars, reaperVars
<1> QED BY <1>3, <1>4, <1>5, <1>6, <1>7, <1>8 DEF Next

\* A reaper that forgets its tick: what it forgot is counted.
LEMMA AbandonTickPays ==
    ASSUME TypeOK, TypeOK', ReapersAwake, ReapersAwake', NEW p \in Procs, AbandonTick(p),
           UNCHANGED retryCount, NEW r \in Runs
    PROVE  Charge(r)' = Charge(r) /\ uncharged[r] <= uncharged'[r]
<1> USE DEF TypeOK, ReapersOK, HistOK, RowsOK
<1>1. Recovering(r)' = Recovering(r) \ {p}
  BY DEF AbandonTick, ReaperGoto, Recovering
<1>2. p \in Recovering(r) <=> r \in exhausted[p] \cup IF rpc[p] = "retries" THEN found[p] ELSE {}
  BY DEF Recovering
<1>3. uncharged'[r] = IF p \in Recovering(r) THEN uncharged[r] + 1 ELSE uncharged[r]
  BY <1>2 DEF AbandonTick
<1>4. /\ IsFiniteSet(Recovering(r)) /\ IsFiniteSet(Recovering(r)')
      /\ Cardinality(Recovering(r)) \in Nat /\ Cardinality(Recovering(r)') \in Nat
  BY RecoveringReapers
<1>5. Recovering(r) \ {p} = Recovering(r)' \ {p} /\ p \notin Recovering(r)' BY <1>1
<1>6. CASE p \in Recovering(r)
  <2>1. Cardinality(Recovering(r)) = Cardinality(Recovering(r)') + 1
    <3> DEFINE S == Recovering(r)
               T == Recovering(r)'
    <3>1. IsFiniteSet(T) /\ p \notin T /\ S = T \cup {p}
      BY <1>4, <1>5, <1>6
    <3> HIDE DEF S, T
    <3>2. Cardinality(S) = Cardinality(T) + 1 BY <3>1, FS_AddElement
    <3> QED BY <3>2 DEF S, T
  <2>2. uncharged'[r] = uncharged[r] + 1 /\ uncharged[r] \in Nat /\ retryCount[r] \in Nat
    BY <1>3, <1>6
  <2> HIDE DEF Recovering, TypeOK, RowsOK, HistOK
  <2> QED BY <1>4, <2>1, <2>2 DEF Charge
<1>7. CASE p \notin Recovering(r)
  <2>1. Recovering(r)' = Recovering(r) BY <1>1, <1>7
  <2>2. uncharged'[r] = uncharged[r] /\ uncharged[r] \in Nat BY <1>3, <1>7
  <2> HIDE DEF Recovering, TypeOK, RowsOK, HistOK
  <2> QED BY <1>4, <2>1, <2>2 DEF Charge
<1> QED BY <1>6, <1>7

\* The reaper's searches and its RPUSHes leave what is due alone.
LEMMA LookingRecovers ==
    ASSUME TypeOK, ReapersAwake, NEW p \in Procs, NEW r \in Runs,
           FindCrashed(p) \/ FindStuck(p) \/ Reenqueue(p)
    PROVE  /\ Recovering(r)' = Recovering(r)
           /\ UNCHANGED <<status, claimedBy, retryCount, params, doneKeys, exhausted>>
<1> USE DEF TypeOK, ReapersOK
<1>1. UNCHANGED <<status, claimedBy, retryCount, params, doneKeys, exhausted>>
  BY DEF FindCrashed, FindStuck, Reenqueue, rowVars, redisVars
<1>2. CASE FindCrashed(p)
  <2>1. rpc[p] = "sleep" /\ rpc' = [rpc EXCEPT ![p] = "findStuck"]
        /\ found' = [found EXCEPT ![p] = Crashed]
    BY <1>2 DEF FindCrashed, ReaperGoto
  <2> QED BY <1>1, <2>1 DEF Recovering
<1>3. CASE FindStuck(p)
  <2>1. PICK ph \in {"reset", "requeue", "sleep"} : rpc' = [rpc EXCEPT ![p] = ph]
    BY <1>3 DEF FindStuck, ReaperGoto
  <2>2. rpc[p] = "findStuck" /\ found' = found BY <1>3 DEF FindStuck
  <2> QED BY <1>1, <2>1, <2>2 DEF Recovering
<1>4. CASE Reenqueue(p)
  <2>1. /\ rpc[p] = "requeue"
        /\ rpc' = rpc \/ \E ph \in {"requeue", "sleep"} : rpc' = [rpc EXCEPT ![p] = ph]
        /\ \E F \in SUBSET Runs : found' = [found EXCEPT ![p] = F]
    <3>1. stuck[p] \in SUBSET Runs /\ found[p] \in SUBSET Runs OBVIOUS
    <3>2. CASE found' = [found EXCEPT ![p] = stuck[p]] /\ rpc[p] = "requeue"
               /\ ReaperGoto(p, IF stuck[p] = {} THEN "sleep" ELSE "requeue")
      BY <3>1, <3>2 DEF ReaperGoto
    <3>3. ASSUME NEW q \in Runs, found' = [found EXCEPT ![p] = @ \ {q}], rpc' = rpc,
                 rpc[p] = "requeue"
          PROVE  \E F \in SUBSET Runs : found' = [found EXCEPT ![p] = F]
      BY <3>1, <3>3
    <3>4. CASE found' = [found EXCEPT ![p] = {}] /\ rpc' = rpc /\ rpc[p] = "requeue"
      BY <3>4
    <3> QED BY <1>4, <3>1, <3>2, <3>3, <3>4 DEF Reenqueue
  <2>2. rpc'[p] # "retries" /\ \A q \in Procs \ {p} : rpc'[q] = rpc[q] BY <2>1
  <2>3. rpc[p] # "retries" /\ \A q \in Procs \ {p} : found'[q] = found[q] BY <2>1
  <2> QED BY <1>1, <2>2, <2>3 DEF Recovering
<1> QED BY <1>1, <1>2, <1>3, <1>4

\* A run that is reset is one more that a reaper has to charge or fail.
LEMMA ResetRecovers ==
    ASSUME TypeOK, ReapersAwake, ReapersAwake', NEW p \in Procs, NEW r \in Runs, ResetToPending(p)
    PROVE  /\ r \in found[p] \cap Crashed
                 => Cardinality(Recovering(r)') = Cardinality(Recovering(r)) + 1
           /\ r \notin found[p] \cap Crashed => Recovering(r)' = Recovering(r)
<1> USE DEF TypeOK, ReapersOK
<1>1. exhausted' = exhausted /\ rpc[p] = "reset" /\ exhausted[p] = {}
  BY DEF ResetToPending, ReapersAwake
<1>2. CASE r \in found[p] \cap Crashed
  <2> DEFINE S == Recovering(r)
             T == Recovering(r)'
  <2>1. p \notin S BY <1>1 DEF Recovering
  <2>2. T \ {p} = S \ {p} BY DEF ResetToPending, ReaperGoto, Recovering
  <2>3. p \in T BY <1>2 DEF ResetToPending, ReaperGoto, Recovering
  <2>4. IsFiniteSet(S) BY RecoveringReapers
  <2> HIDE DEF S, T
  <2>5. T = S \cup {p} BY <2>1, <2>2, <2>3
  <2>6. Cardinality(T) = Cardinality(S) + 1 BY <2>1, <2>4, <2>5, FS_AddElement
  <2> QED BY <1>2, <2>6 DEF S, T
<1>3. CASE r \notin found[p] \cap Crashed
  <2>1. Recovering(r)' = Recovering(r) BY <1>1, <1>3 DEF ResetToPending, ReaperGoto, Recovering
  <2> QED BY <1>3, <2>1
<1> QED BY <1>2, <1>3

\* A run is charged, and done with, or remains to be failed.
LEMMA CheckRecovers ==
    ASSUME TypeOK, ReapersAwake, ReapersAwake', NEW p \in Procs, NEW r \in Runs, CheckRetryLimits(p)
    PROVE  /\ r \in found[p] /\ ~IsExhausted(r)
                 => /\ Cardinality(Recovering(r)) = Cardinality(Recovering(r)') + 1
                    /\ retryCount'[r] = retryCount[r] + 1
           /\ ~(r \in found[p] /\ ~IsExhausted(r))
                 => Recovering(r)' = Recovering(r) /\ retryCount'[r] = retryCount[r]
           /\ r \in found[p] => p \in Recovering(r)
<1> USE DEF TypeOK, ReapersOK
<1>1. rpc[p] = "retries" /\ exhausted[p] = {} BY DEF CheckRetryLimits, ReapersAwake
<1>2. p \in Recovering(r) <=> r \in found[p] BY <1>1 DEF Recovering
<1>3. retryCount'[r] = IF r \in found[p] /\ ~IsExhausted(r) THEN retryCount[r] + 1
                       ELSE retryCount[r]
  BY DEF CheckRetryLimits
<1>4. CASE r \in found[p] /\ ~IsExhausted(r)
  <2> DEFINE S == Recovering(r)
             T == Recovering(r)'
  <2>1. p \in S BY <1>2, <1>4
  <2>2. T \ {p} = S \ {p} BY DEF CheckRetryLimits, ReaperGoto, Recovering
  <2>3. p \notin T BY <1>4 DEF CheckRetryLimits, ReaperGoto, Recovering
  <2>4. IsFiniteSet(T) BY RecoveringReapers
  <2> HIDE DEF S, T
  <2>5. S = T \cup {p} BY <2>1, <2>2, <2>3
  <2>6. Cardinality(S) = Cardinality(T) + 1 BY <2>3, <2>4, <2>5, FS_AddElement
  <2> QED BY <1>2, <1>3, <1>4, <2>6 DEF S, T
<1>5. CASE ~(r \in found[p] /\ ~IsExhausted(r))
  <2>1. Recovering(r)' = Recovering(r)
    BY <1>1, <1>5 DEF CheckRetryLimits, ReaperGoto, Recovering
  <2> QED BY <1>2, <1>3, <1>5, <2>1
<1> QED BY <1>4, <1>5

LEMMA FailRecovers ==
    ASSUME TypeOK, NEW p \in Procs, NEW r \in Runs, MarkPermanentlyFailed(p), r \notin exhausted[p]
    PROVE  Recovering(r)' = Recovering(r)
BY DEF TypeOK, ReapersOK, MarkPermanentlyFailed, ReaperGoto, Recovering

LEMMA ReaperStepPays ==
    ASSUME TypeOK, TypeOK', PendingIsClaimable, ReapersAwake, ReapersAwake',
           NEW p \in Procs, ReaperStep(p), NEW r \in Runs, AttemptsPaid(r)
    PROVE  /\ retryCount'[r] <= MaxRetries
           /\ Alive(r)' => Alive(r) /\ Charge(r) <= Charge(r)'
           /\ Waits(r)' => Waits(r) \/ Charge(r) + 1 <= Charge(r)'
           /\ UNCHANGED <<attempts, uncharged>>
<1> USE DEF TypeOK, ReapersOK, HistOK, RowsOK
<1>0. UNCHANGED <<attempts, uncharged>>
  BY DEF ReaperStep, FindCrashed, FindStuck, ResetToPending, CheckRetryLimits,
         MarkPermanentlyFailed, Reenqueue, histVars
<1>1. Cardinality(Recovering(r)) \in Nat /\ Cardinality(Recovering(r)') \in Nat
  BY RecoveringReapers
<1>2. retryCount[r] <= MaxRetries /\ (Waits(r) => Alive(r)) BY DEF AttemptsPaid, Alive
<1>3. CASE FindCrashed(p) \/ FindStuck(p) \/ Reenqueue(p)
  <2>1. UNCHANGED <<status, claimedBy, retryCount>> /\ Recovering(r)' = Recovering(r)
    BY <1>3, LookingRecovers
  <2> HIDE DEF Recovering
  <2> QED BY <1>0, <1>1, <1>2, <2>1 DEF Charge, Alive, Waits
<1>4. CASE ResetToPending(p)
  <2>1. UNCHANGED retryCount BY <1>4 DEF ResetToPending
  <2>2. CASE r \in found[p] \cap Crashed
    <3>1. Cardinality(Recovering(r)') = Cardinality(Recovering(r)) + 1
      BY <1>4, <2>2, ResetRecovers
    <3>2. Alive(r) BY <2>2 DEF Crashed, PendingIsClaimable, Alive
    <3> HIDE DEF Recovering
    <3> QED BY <1>0, <1>1, <1>2, <2>1, <3>1, <3>2 DEF Charge
  <2>3. CASE r \notin found[p] \cap Crashed
    <3>1. Recovering(r)' = Recovering(r) BY <1>4, <2>3, ResetRecovers
    <3>2. Alive(r)' = Alive(r) /\ Waits(r)' = Waits(r)
      BY <1>4, <2>3 DEF ResetToPending, ReturnRows, Alive, Waits
    <3> HIDE DEF Recovering
    <3> QED BY <1>0, <1>1, <1>2, <2>1, <3>1, <3>2 DEF Charge
  <2> QED BY <2>2, <2>3
<1>5. CASE CheckRetryLimits(p)
  <2>1. Alive(r)' = Alive(r) /\ Waits(r)' = Waits(r) BY <1>5 DEF CheckRetryLimits, Alive, Waits
  <2>2. CASE r \in found[p] /\ ~IsExhausted(r)
    <3>1. /\ Cardinality(Recovering(r)) = Cardinality(Recovering(r)') + 1
          /\ retryCount'[r] = retryCount[r] + 1
      BY <1>5, <2>2, CheckRecovers
    <3>2. retryCount[r] + 1 <= MaxRetries BY <2>2 DEF IsExhausted
    <3> HIDE DEF Recovering
    <3> QED BY <1>0, <1>1, <1>2, <2>1, <3>1, <3>2 DEF Charge
  <2>3. CASE ~(r \in found[p] /\ ~IsExhausted(r))
    <3>1. Recovering(r)' = Recovering(r) /\ retryCount'[r] = retryCount[r]
      BY <1>5, <2>3, CheckRecovers
    <3> HIDE DEF Recovering
    <3> QED BY <1>0, <1>1, <1>2, <2>1, <3>1 DEF Charge
  <2> QED BY <2>2, <2>3
<1>6. CASE MarkPermanentlyFailed(p)
  <2>1. UNCHANGED retryCount BY <1>6 DEF MarkPermanentlyFailed
  <2>2. CASE r \in exhausted[p]
    <3>1. ~Alive(r)' BY <1>6, <2>2 DEF MarkPermanentlyFailed, ReturnRows, Alive, Waits
    <3> QED BY <1>0, <1>2, <2>1, <3>1 DEF Alive
  <2>3. CASE r \notin exhausted[p]
    <3>1. Alive(r)' = Alive(r) /\ Waits(r)' = Waits(r)
      BY <1>6, <2>3 DEF MarkPermanentlyFailed, ReturnRows, Alive, Waits
    <3>2. Recovering(r)' = Recovering(r) BY <1>6, <2>3, FailRecovers
    <3> HIDE DEF Recovering
    <3> QED BY <1>0, <1>1, <1>2, <2>1, <3>1, <3>2 DEF Charge
  <2> QED BY <2>2, <2>3
<1> QED BY <1>3, <1>4, <1>5, <1>6 DEF ReaperStep

RetryInv == ReapersAwake /\ \A r \in Runs : AttemptsPaid(r)

LEMMA RetryInvStep == TypeOK /\ PendingIsClaimable /\ RetryInv /\ [Next]_vars => RetryInv'
<1> SUFFICES ASSUME TypeOK, PendingIsClaimable, RetryInv, [Next]_vars PROVE RetryInv' OBVIOUS
<1>1. /\ TypeOK' /\ ReapersAwake /\ ReapersAwake'
      /\ HistOK /\ HistOK' /\ RowsOK /\ RowsOK'
  BY TypeStep, ReapersAwakeStep DEF RetryInv, TypeOK
<1> SUFFICES ASSUME NEW r \in Runs, AttemptsPaid(r) PROVE AttemptsPaid(r)'
  BY <1>1 DEF RetryInv
<1>2. /\ Charge(r) \in Nat /\ Charge(r)' \in Nat
      /\ uncharged[r] \in Nat /\ retryCount[r] <= MaxRetries
  <2>1. Cardinality(Recovering(r)) \in Nat /\ Cardinality(Recovering(r)') \in Nat
    BY <1>1, RecoveringReapers
  <2>2. /\ retryCount[r] \in Nat /\ retryCount'[r] \in Nat
        /\ uncharged[r] \in Nat /\ uncharged'[r] \in Nat
    BY <1>1 DEF RowsOK, HistOK
  <2> HIDE DEF Recovering
  <2> QED BY <2>1, <2>2 DEF Charge, AttemptsPaid
<1>3. ASSUME NEW s \in Slots, Admits(s) PROVE AttemptsPaid(r)'
  <2>1. PICK q \in Runs :
            /\ q = job[s] /\ status[q] = "pending"
            /\ status' = [status EXCEPT ![q] = "running"]
            /\ claimedBy' = [claimedBy EXCEPT ![q] = WorkerOf[s]]
    BY <1>3, AdmitsEffect
  <2>2. /\ attempts' = [attempts EXCEPT ![q] = @ + 1]
        /\ UNCHANGED <<retryCount, uncharged, reaperVars>>
    BY <1>3, <2>1 DEF Admits, Acquire
  <2>3. Recovering(r)' = Recovering(r) BY <2>2 DEF Recovering, reaperVars
  <2>4. Charge(r)' = Charge(r)
    <3> HIDE DEF Recovering
    <3> QED BY <2>2, <2>3 DEF Charge
  <2>5. CASE q = r
    <3>1. Waits(r) /\ ~Waits(r)' BY <1>1, <2>1, <2>5 DEF Waits, RowsOK
    <3>2. attempts[r] <= Charge(r) BY <3>1 DEF AttemptsPaid
    <3>3. attempts'[r] = attempts[r] + 1 /\ attempts[r] \in Nat BY <1>1, <2>2, <2>5 DEF HistOK
    <3>4. Charge(r) <= MaxRetries + uncharged[r] + Cardinality(Reapers)
            /\ Cardinality(Reapers) \in Nat
      <4>1. /\ Cardinality(Recovering(r)) \in Nat /\ Cardinality(Reapers) \in Nat
            /\ Cardinality(Recovering(r)) <= Cardinality(Reapers)
        BY <1>1, RecoveringReapers
      <4>2. retryCount[r] \in Nat BY <1>1 DEF RowsOK
      <4> HIDE DEF Recovering
      <4> QED BY <1>2, <4>1, <4>2 DEF Charge
    <3>5. attempts'[r] <= Charge(r)' + 1 BY <1>2, <2>4, <3>2, <3>3
    <3>6. attempts'[r] <= MaxRetries + 1 + uncharged'[r] + Cardinality(Reapers)
      BY <1>2, <2>2, <3>2, <3>3, <3>4
    <3>7. retryCount'[r] <= MaxRetries BY <1>2, <2>2
    <3> QED BY <3>1, <3>5, <3>6, <3>7 DEF AttemptsPaid
  <2>6. CASE q # r
    <3>1. /\ attempts'[r] = attempts[r] /\ status'[r] = status[r]
          /\ claimedBy'[r] = claimedBy[r]
      BY <1>1, <2>1, <2>2, <2>6 DEF HistOK, RowsOK
    <3>2. (Alive(r)' => Alive(r)) /\ (Waits(r)' => Waits(r)) BY <3>1 DEF Alive, Waits
    <3>3. uncharged[r] <= uncharged'[r] /\ retryCount'[r] <= MaxRetries BY <1>2, <2>2
    <3> QED BY <1>1, <1>2, <2>4, <3>1, <3>2, <3>3, AttemptsStayPaid
  <2> QED BY <2>5, <2>6
<1>4. ASSUME NEW p \in Procs, ReaperStep(p) PROVE AttemptsPaid(r)'
  <2>1. /\ retryCount'[r] <= MaxRetries
        /\ Alive(r)' => Alive(r) /\ Charge(r) <= Charge(r)'
        /\ Waits(r)' => Waits(r) \/ Charge(r) + 1 <= Charge(r)'
        /\ UNCHANGED <<attempts, uncharged>>
    BY <1>1, <1>4, ReaperStepPays
  <2> QED BY <1>1, <1>2, <2>1, AttemptsStayPaid
<1>5. ASSUME UNCHANGED <<status, claimedBy, retryCount, attempts>>,
             Charge(r)' = Charge(r), uncharged[r] <= uncharged'[r]
      PROVE  AttemptsPaid(r)'
  <2>1. Alive(r)' = Alive(r) /\ Waits(r)' = Waits(r) BY <1>5 DEF Alive, Waits
  <2> QED BY <1>1, <1>2, <1>5, <2>1, AttemptsStayPaid
<1>6. ASSUME NEW p \in Procs,
             ReaperDbFailure(p) \/ Crash(p) \/ BeginStop(p) \/ EndStop(p)
      PROVE  AttemptsPaid(r)'
  <2>1. AbandonTick(p) /\ UNCHANGED <<status, claimedBy, retryCount, attempts>>
    BY <1>6 DEF ReaperDbFailure, Crash, BeginStop, EndStop, ProcessEnds, rowVars
  <2> QED BY <1>1, <1>5, <2>1, AbandonTickPays
<1>7. ASSUME UNCHANGED <<reaperVars, retryCount, uncharged>>, \A s \in Slots : ~Admits(s),
             \A p \in Procs : ~ResetToPending(p)
      PROVE  AttemptsPaid(r)'
  <2>1. Recovering(r)' = Recovering(r) BY <1>7 DEF Recovering, reaperVars
  <2>2. Charge(r)' = Charge(r)
    <3> HIDE DEF Recovering
    <3> QED BY <1>7, <2>1 DEF Charge
  <2>3. RowStep /\ attempts' = attempts BY <1>7, StepWritesRow
  <2>4. claimedBy'[r] \in {claimedBy[r], None}
    <3>1. CASE \E q \in Runs : Expire(q) BY <3>1 DEF Expire
    <3>2. CASE \A q \in Runs : ~Expire(q) BY <1>7, <3>2, StepKinds DEF QuietStep
    <3> QED BY <3>1, <3>2
  <2>5. Waits(r)' => Waits(r) BY <1>7, <2>3 DEF RowStep, Waits, TerminalStates
  <2>6. Alive(r)' => Alive(r) BY <2>4, <2>5 DEF Alive
  <2>7. uncharged[r] <= uncharged'[r] /\ retryCount'[r] <= MaxRetries BY <1>2, <1>7
  <2> QED BY <1>1, <1>2, <2>2, <2>3, <2>5, <2>6, <2>7, AttemptsStayPaid
<1>8. ASSUME \A s \in Slots : ~Admits(s), \A p \in Procs : ~ResetToPending(p),
             \A p \in Procs : ~ReaperStep(p),
             \A p \in Procs : ~(ReaperDbFailure(p) \/ Crash(p) \/ BeginStop(p) \/ EndStop(p))
      PROVE  UNCHANGED <<reaperVars, retryCount, uncharged>>
  <2>1. ASSUME NEW q \in Runs, ClientStep(q) \/ Expire(q)
        PROVE  UNCHANGED <<reaperVars, retryCount, uncharged>>
    BY <2>1
    DEF ClientStep, Prepare, Submit, SubmitFails, Age, PublishCancel, CancelLocally, PersistCancel,
        DeliverCancel, LoseCancel, Expire, rowVars, histVars
  <2>2. ASSUME NEW s \in Slots, SlotStep(s)
        PROVE  UNCHANGED <<reaperVars, retryCount, uncharged>>
    BY <2>2
    DEF SlotStep, Acquire, Load, Start, Stream, Finalize, FinalizeError, HandleCancel,
        FinalizeInterrupted, Signal, SetDoneKey, ReleaseLease, FinalizeTimeout, FinalizeRun,
        WriteStatus, rowVars, histVars
  <2>3. ASSUME NEW s \in Slots, Take(s) \/ Heartbeat(s) \/ JobTimeout(s) \/ DbFailure(s)
        PROVE  UNCHANGED <<reaperVars, retryCount, uncharged>>
    BY <2>3
    DEF Take, Dequeue, DequeueFails, PollPostgres, Heartbeat, JobTimeout, DbFailure, rowVars,
        histVars
  <2>4. CASE RedisDown \/ RedisRecovers \/ UNCHANGED vars
    BY <2>4 DEF RedisDown, RedisRecovers, vars, rowVars, histVars
  <2>5. ASSUME NEW p \in Procs, Restart(p) \/ DrainTimeout(p)
        PROVE  UNCHANGED <<reaperVars, retryCount, uncharged>>
    BY <2>5 DEF Restart, DrainTimeout, rowVars, histVars
  <2> QED BY <1>8, <2>1, <2>2, <2>3, <2>4, <2>5 DEF Next, ProcessStep
<1>9. ASSUME NEW p \in Procs, ResetToPending(p) PROVE AttemptsPaid(r)'
  BY <1>4, <1>9 DEF ReaperStep
<1> QED BY <1>3, <1>4, <1>6, <1>7, <1>8, <1>9

\* BG_JOB_MAX_RETRIES bounds the attempts of every run: at most one more than
\* the retries, plus what crashed or failing reapers forgot to charge, plus one
\* for each reaper that is about to fail the run.
THEOREM RetriesAlwaysBoundAttempts == Spec => []RetriesBoundAttempts
<1>1. Init => RetryInv
  <2> SUFFICES ASSUME Init PROVE RetryInv OBVIOUS
  <2>1. ReapersAwake BY DEF Init, ReapersAwake
  <2>2. \A r \in Runs : attempts[r] = 0 /\ retryCount[r] = 0 /\ uncharged[r] = 0 BY DEF Init
  <2>3. \A r \in Runs : Recovering(r) = {} BY DEF Init, Recovering
  <2>4. Cardinality({}) = 0 BY FS_EmptySet
  <2>5. Cardinality(Reapers) \in Nat BY FS_CardinalityType
  <2>6. \A r \in Runs : Cardinality(Recovering(r)) = 0 BY <2>3, <2>4
  <2>7. \A r \in Runs : Charge(r) = 0
    <3> HIDE DEF Recovering
    <3> QED BY <2>2, <2>6 DEF Charge
  <2> HIDE DEF Charge
  <2> QED BY <2>1, <2>2, <2>5, <2>7 DEF RetryInv, AttemptsPaid
<1>2. RetryInv => RetriesBoundAttempts BY DEF RetryInv, AttemptsPaid, RetriesBoundAttempts
<1> QED BY <1>1, <1>2, RetryInvStep, TypeCorrect, PendingAlwaysClaimable, PTL DEF Spec
-----------------------------------------------------------------------------
(* Crashes and outages alone: the promise of RunLifecycle *)

\* No stall, database failure, shutdown, timeout or cancellation, and no more
\* crashes than a run has retries.
QuietBudgets ==
    \A budget \in Budgets :
        /\ \A f \in Faults \ {"crash", "outage"} : budget[f] = 0
        /\ budget["crash"] <= MaxRetries

NoDisturbance ==
    /\ \A f \in Faults \ {"crash", "outage"} : spent[f] = 0
    /\ spent["crash"] <= MaxRetries
    /\ \A r \in Runs : cancelReq[r] = "none"
    /\ cancelMsgs = {}
    /\ \A p \in Procs : up[p] \in {"running", "down"}

\* The steps that are left.
CalmStep ==
    \/ \E r \in Runs : \/ Prepare(r) \/ Submit(r) \/ SubmitFails(r) \/ Age(r)
                       \/ Expire(r) /\ UNCHANGED spent
    \/ \E s \in Slots : Take(s) \/ SlotStep(s) \/ Heartbeat(s)
    \/ \E p \in Procs : ReaperStep(p) \/ Crash(p) \/ Restart(p)
    \/ RedisDown \/ RedisRecovers \/ UNCHANGED vars

LEMMA SpendWithinBudget ==
    ASSUME QuietBudgets, HistOK, NoDisturbance, NEW f \in Faults, Spend(f)
    PROVE  /\ f \in {"crash", "outage"}
           /\ \A g \in Faults \ {"crash", "outage"} : spent'[g] = 0
           /\ spent'["crash"] <= MaxRetries
<1>1. PICK budget \in Budgets : \A g \in Faults : spent'[g] <= budget[g] BY DEF Spend
<1>2. /\ spent' = [spent EXCEPT ![f] = @ + 1]
      /\ budget \in [Faults -> Nat] /\ spent \in [Faults -> Nat]
  BY DEF Spend, HistOK
<1>3. \A g \in Faults : spent'[g] \in Nat /\ budget[g] \in Nat BY <1>2
<1>4. \A g \in Faults \ {"crash", "outage"} : spent'[g] = 0 BY <1>1, <1>3 DEF QuietBudgets
<1>5. spent'["crash"] <= MaxRetries
  <2>1. budget["crash"] <= MaxRetries /\ spent'["crash"] <= budget["crash"]
    BY <1>1 DEF QuietBudgets, Faults
  <2>2. budget["crash"] \in Nat /\ spent'["crash"] \in Nat BY <1>3 DEF Faults
  <2> QED BY <2>1, <2>2
<1>6. spent'[f] = spent[f] + 1 /\ spent[f] \in Nat BY <1>2
<1>7. f \in {"crash", "outage"} BY <1>4, <1>6
<1> QED BY <1>4, <1>5, <1>7

LEMMA CalmSteps ==
    ASSUME QuietBudgets, TypeOK, NoDisturbance, [Next]_vars
    PROVE  CalmStep
<1> USE DEF TypeOK
<1>1. ASSUME NEW f \in Faults \ {"crash", "outage"}, Spend(f) PROVE FALSE
  BY <1>1, SpendWithinBudget
<1>2. ASSUME NEW r \in Runs, ClientStep(r) PROVE CalmStep
  <2>1. ~PublishCancel(r) BY <1>1 DEF PublishCancel, Faults
  <2>2. \A p \in Procs : ~CancelLocally(p, r) BY <1>1 DEF CancelLocally, Faults
  <2>3. ~PersistCancel(r) /\ \A p \in Procs : ~DeliverCancel(p, r) /\ ~LoseCancel(p, r)
    BY DEF PersistCancel, DeliverCancel, LoseCancel, NoDisturbance
  <2> QED BY <1>2, <2>1, <2>2, <2>3 DEF ClientStep, CalmStep
<1>3. ASSUME NEW r \in Runs, Expire(r) PROVE CalmStep
  BY <1>1, <1>3 DEF Expire, Faults, CalmStep
<1>4. ASSUME NEW s \in Slots, Take(s) \/ SlotStep(s) \/ Heartbeat(s) \/ JobTimeout(s) \/ DbFailure(s)
      PROVE  CalmStep
  <2>1. ~JobTimeout(s) /\ ~DbFailure(s) BY <1>1 DEF JobTimeout, DbFailure, Faults
  <2> QED BY <1>4, <2>1 DEF CalmStep
<1>5. ASSUME NEW p \in Procs, ReaperStep(p) \/ ReaperDbFailure(p) \/ ProcessStep(p) PROVE CalmStep
  <2>1. ~ReaperDbFailure(p) /\ ~BeginStop(p) BY <1>1 DEF ReaperDbFailure, BeginStop, Faults
  <2>2. ~DrainTimeout(p) /\ ~EndStop(p) BY DEF DrainTimeout, EndStop, NoDisturbance
  <2> QED BY <1>5, <2>1, <2>2 DEF ProcessStep, CalmStep
<1>6. CASE RedisDown \/ RedisRecovers \/ UNCHANGED vars BY <1>6 DEF CalmStep
<1> QED BY <1>2, <1>3, <1>4, <1>5, <1>6 DEF Next

LEMMA NoDisturbanceStep ==
    ASSUME QuietBudgets, TypeOK, NoDisturbance, [Next]_vars
    PROVE  NoDisturbance' /\ spent["crash"] <= spent'["crash"]
<1> USE DEF TypeOK
<1>1. CalmStep BY CalmSteps
<1>2. UNCHANGED spent \/ \E f \in Faults : Spend(f)
  <2>1. ASSUME NEW r \in Runs,
               Prepare(r) \/ Submit(r) \/ SubmitFails(r) \/ Age(r) \/ (Expire(r) /\ UNCHANGED spent)
        PROVE  UNCHANGED spent \/ \E f \in Faults : Spend(f)
    BY <2>1 DEF Prepare, Submit, SubmitFails, Age, histVars, Faults
  <2>2. ASSUME NEW s \in Slots, Take(s) \/ SlotStep(s) \/ Heartbeat(s) PROVE UNCHANGED spent
    BY <2>2
    DEF Take, Dequeue, DequeueFails, PollPostgres, Heartbeat, SlotStep, Acquire, Load, Start,
        Stream, Finalize, FinalizeError, HandleCancel, FinalizeInterrupted, Signal, SetDoneKey,
        ReleaseLease, FinalizeTimeout, FinalizeRun, WriteStatus, histVars
  <2>3. ASSUME NEW p \in Procs, ReaperStep(p) \/ Restart(p) PROVE UNCHANGED spent
    BY <2>3
    DEF ReaperStep, FindCrashed, FindStuck, ResetToPending, CheckRetryLimits,
        MarkPermanentlyFailed, Reenqueue, Restart, histVars
  <2>4. ASSUME NEW p \in Procs, Crash(p) PROVE \E f \in Faults : Spend(f)
    BY <2>4 DEF Crash, Faults
  <2>5. CASE RedisDown \/ RedisRecovers \/ UNCHANGED vars
    BY <2>5 DEF RedisDown, RedisRecovers, vars, histVars, Faults
  <2> QED BY <1>1, <2>1, <2>2, <2>3, <2>4, <2>5 DEF CalmStep
<1>3. /\ \A f \in Faults \ {"crash", "outage"} : spent'[f] = 0
      /\ spent'["crash"] <= MaxRetries /\ spent["crash"] <= spent'["crash"]
  <2>1. CASE UNCHANGED spent BY <2>1 DEF NoDisturbance, HistOK, Faults
  <2>2. ASSUME NEW f \in Faults, Spend(f)
        PROVE  /\ \A g \in Faults \ {"crash", "outage"} : spent'[g] = 0
               /\ spent'["crash"] <= MaxRetries /\ spent["crash"] <= spent'["crash"]
    <3>1. spent["crash"] <= spent'["crash"] BY <2>2 DEF Spend, HistOK, Faults
    <3> QED BY <2>2, <3>1, SpendWithinBudget
  <2> QED BY <1>2, <2>1, <2>2
<1>4. UNCHANGED cancelReq /\ cancelMsgs' \subseteq cancelMsgs
        /\ \A p \in Procs : up'[p] \in {up[p], "running", "down"}
  <2> DEFINE Goal == UNCHANGED cancelReq /\ cancelMsgs' \subseteq cancelMsgs
                       /\ \A p \in Procs : up'[p] \in {up[p], "running", "down"}
  <2>0. CASE UNCHANGED <<cancelReq, cancelMsgs, up>> BY <2>0
  <2>1. ASSUME NEW r \in Runs,
               Prepare(r) \/ Submit(r) \/ SubmitFails(r) \/ Age(r) \/ (Expire(r) /\ UNCHANGED spent)
        PROVE  Goal
    BY <2>0, <2>1 DEF Prepare, Submit, SubmitFails, Age, Expire, redisVars, procVars, clientVars
  <2>2. ASSUME NEW s \in Slots, Take(s) \/ SlotStep(s) \/ Heartbeat(s) PROVE Goal
    BY <2>0, <2>2
    DEF Take, Dequeue, DequeueFails, PollPostgres, Register, Heartbeat, SlotStep, Acquire, Load, Start,
        Stream, Finalize, FinalizeError, HandleCancel, FinalizeInterrupted, Signal, SetDoneKey,
        ReleaseLease, FinalizeTimeout, FinalizeRun, WriteStatus, redisVars, procVars, clientVars
  <2>3. ASSUME NEW p \in Procs, ReaperStep(p) PROVE Goal
    BY <2>0, <2>3
    DEF ReaperStep, FindCrashed, FindStuck, ResetToPending, CheckRetryLimits,
        MarkPermanentlyFailed, Reenqueue, redisVars, procVars, clientVars
  <2>4. ASSUME NEW p \in Procs, Crash(p) \/ Restart(p) PROVE Goal
    BY <2>4 DEF Crash, ProcessEnds, Restart, redisVars, clientVars, ProcsOK
  <2>5. CASE RedisDown \/ RedisRecovers \/ UNCHANGED vars
    BY <2>0, <2>5 DEF RedisDown, RedisRecovers, vars, redisVars, procVars, clientVars
  <2> QED BY <1>1, <2>1, <2>2, <2>3, <2>4, <2>5 DEF CalmStep
<1> QED BY <1>3, <1>4 DEF NoDisturbance

\* The phases before the job's final status is stored.
Working == LoadPhases \cup {"start", "stream", "success", "interrupted", "finError"}

\* A holder of a run with parameters owns its row, one of a run without is
\* about to give it up; the row is running until the result is stored, final
\* afterwards; and no handler of a cancellation or a timeout is ever entered.
SlotCalm(s) ==
    /\ pc[s] \notin {"cancelled", "finCancel", "timedOut", "timedOutRelease"}
    /\ pc[s] \in Holding =>
         /\ params[job[s]] = "full" => Owns(s, job[s]) /\ pc[s] \notin {"incomplete", "corrupt"}
         /\ params[job[s]] # "full" => pc[s] \in {"incomplete", "corrupt"}
         /\ Owns(s, job[s]) /\ pc[s] \in Working => status[job[s]] = "running"
         /\ pc[s] \notin Working => status[job[s]] \in TerminalStates

\* A claim whose owner is gone; a retry that is due.
Orphan(r) == claimedBy[r] # None /\ HoldersOf(r) = {}
Due(r) == retryCount[r] + Cardinality(Recovering(r)) + IF Orphan(r) THEN 1 ELSE 0

\* A run with parameters is charged for crashes only, and never exhausted.
RowCalm(r) ==
    /\ params[r] # "full" => status[r] \notin {"success", "interrupted"}
    /\ r \in doneKeys => status[r] \in TerminalStates
    /\ \A p \in Procs : r \in found[p] \cup stuck[p] \cup exhausted[p] => status[r] # "absent"
    /\ params[r] = "full" => (\A p \in Procs : r \notin exhausted[p]) /\ Due(r) <= spent["crash"]

Calm == (\A s \in Slots : SlotCalm(s)) /\ \A r \in Runs : RowCalm(r)

\* A slot that keeps its run and its phase, and whose row keeps what matters.
LEMMA SlotCalmKept ==
    ASSUME NEW t \in Slots, SlotCalm(t), pc'[t] = pc[t], job'[t] = job[t],
           pc[t] \in Holding =>
               /\ status'[job[t]] = status[job[t]] /\ claimedBy'[job[t]] = claimedBy[job[t]]
               /\ (params'[job[t]] = "full") <=> (params[job[t]] = "full")
    PROVE  SlotCalm(t)'
BY DEF SlotCalm, Owns

\* A step of slot s that writes to the row of its run only: nobody else holds it.
LEMMA OwnRowStep ==
    ASSUME TypeOK, Calm, HealthyLeaseExcludes, spent["stall"] = 0,
           NEW s \in Slots, job[s] \in Runs,
           pc[s] \in Holding \/ HoldersOf(job[s]) = {},
           \A r \in Runs \ {job[s]} : status'[r] = status[r] /\ claimedBy'[r] = claimedBy[r],
           UNCHANGED params,
           \A t \in Slots \ {s} : pc'[t] = pc[t] /\ job'[t] = job[t],
           SlotCalm(s)'
    PROVE  \A t \in Slots : SlotCalm(t)'
<1> SUFFICES ASSUME NEW t \in Slots \ {s} PROVE SlotCalm(t)' OBVIOUS
<1>1. pc[t] \in Holding => job[t] \in Runs
  BY DEF TypeOK, SlotsOK, Holding, JobPhases, LoadPhases
<1>2. pc[t] \in Holding => job[t] # job[s] BY <1>1 DEF HealthyLeaseExcludes, HoldersOf
<1> QED BY <1>1, <1>2, SlotCalmKept DEF Calm

\* A row after a step that is none of the reaper's.
LEMMA RowCalmKept ==
    ASSUME HistOK, HistOK', RowsOK, RowsOK', ReapersAwake, ReapersAwake', NEW r \in Runs, RowCalm(r),
           UNCHANGED <<reaperVars, retryCount, params>>,
           \/ status'[r] = status[r]
           \/ status[r] \notin TerminalStates /\ status'[r] \in {"pending", "running"}
           \/ status'[r] = "error"
           \/ status'[r] \in TerminalStates /\ params[r] = "full",
           r \in doneKeys' => r \in doneKeys \/ status'[r] \in TerminalStates,
           params[r] = "full" /\ Orphan(r)' => Orphan(r),
           spent["crash"] <= spent'["crash"]
    PROVE  RowCalm(r)'
<1>1. Recovering(r)' = Recovering(r) BY DEF Recovering, reaperVars
<1>2. Cardinality(Recovering(r)) \in Nat BY RecoveringReapers
<1>3. retryCount[r] \in Nat /\ spent["crash"] \in Nat /\ spent'["crash"] \in Nat
  BY DEF RowsOK, HistOK, Faults
<1>4. params[r] = "full" => Due(r)' <= spent'["crash"]
  <2> SUFFICES ASSUME params[r] = "full" PROVE Due(r)' <= spent'["crash"] OBVIOUS
  <2>1. Due(r) <= spent["crash"] BY DEF RowCalm
  <2>2. Orphan(r)' => Orphan(r) OBVIOUS
  <2> DEFINE k == Cardinality(Recovering(r))
  <2>3. /\ Due(r) = retryCount[r] + k + IF Orphan(r) THEN 1 ELSE 0
        /\ Due(r)' = retryCount[r] + k + IF Orphan(r)' THEN 1 ELSE 0
    BY <1>1 DEF Due
  <2>4. k \in Nat BY <1>2
  <2> HIDE DEF k, Orphan, Recovering
  <2> QED BY <1>3, <2>1, <2>2, <2>3, <2>4
<1>5. /\ params'[r] # "full" => status'[r] \notin {"success", "interrupted"}
      /\ r \in doneKeys' => status'[r] \in TerminalStates
  BY DEF RowCalm, TerminalStates
<1>6. /\ \A p \in Procs : r \in found'[p] \cup stuck'[p] \cup exhausted'[p] => status'[r] # "absent"
      /\ params'[r] = "full" => \A p \in Procs : r \notin exhausted'[p]
  BY DEF RowCalm, reaperVars, TerminalStates
<1> QED BY <1>4, <1>5, <1>6 DEF RowCalm

\* What is known before, and of the types after, a step of a calm system.
CalmContext ==
    /\ TypeOK /\ TypeOK' /\ PendingIsClaimable /\ ReapersAwake /\ ReapersAwake'
    /\ HealthyLeaseExcludes /\ NoDisturbance /\ spent["crash"] <= spent'["crash"] /\ Calm

\* A step of slot s on the run it has: what it must do to its own phase and row.
LEMMA OwnStepCalm ==
    ASSUME CalmContext, NEW s \in Slots, NEW r \in Runs, job[s] = r,
           pc[s] \in Holding \/ HoldersOf(r) = {},
           UNCHANGED <<reaperVars, retryCount, params>>,
           \A t \in Slots \ {s} : pc'[t] = pc[t] /\ job'[t] = job[t],
           job'[s] \in {r, None}, SlotCalm(s)',
           \A q \in Runs \ {r} : /\ status'[q] = status[q] /\ claimedBy'[q] = claimedBy[q]
                                 /\ q \in doneKeys' => q \in doneKeys,
           \/ status'[r] = status[r]
           \/ status[r] \notin TerminalStates /\ status'[r] \in {"pending", "running"}
           \/ status'[r] = "error"
           \/ status'[r] \in TerminalStates /\ params[r] = "full",
           r \in doneKeys' => r \in doneKeys \/ status'[r] \in TerminalStates,
           \/ params[r] # "full"
           \/ claimedBy'[r] = None
           \/ pc'[s] \in Holding /\ job'[s] = r
           \/ claimedBy'[r] = claimedBy[r] /\ pc[s] \notin Holding
    PROVE  Calm'
<1> USE DEF CalmContext
<1>1. \A t \in Slots : SlotCalm(t)'
  <2>1. spent["stall"] = 0 BY DEF NoDisturbance, Faults
  <2>2. \A q \in Runs \ {job[s]} : status'[q] = status[q] /\ claimedBy'[q] = claimedBy[q] OBVIOUS
  <2>3. UNCHANGED params /\ job[s] \in Runs OBVIOUS
  <2> QED BY <2>1, <2>2, <2>3, OwnRowStep
<1>2. HistOK /\ HistOK' /\ RowsOK /\ RowsOK' BY DEF TypeOK
<1>3. RowCalm(r)'
  <2>1. params[r] = "full" /\ Orphan(r)' => Orphan(r)
    <3> SUFFICES ASSUME params[r] = "full", Orphan(r)' PROVE Orphan(r) OBVIOUS
    <3>1. claimedBy'[r] # None BY DEF Orphan
    <3>2. ~(pc'[s] \in Holding /\ job'[s] = r)
      <4>1. HoldersOf(r)' = {} BY DEF Orphan
      <4> QED BY <4>1 DEF HoldersOf
    <3>3. claimedBy'[r] = claimedBy[r] /\ pc[s] \notin Holding BY <3>1, <3>2
    <3>4. HoldersOf(r) = {} BY <3>3
    <3> QED BY <3>1, <3>3, <3>4 DEF Orphan
  <2>2. RowCalm(r) BY DEF Calm
  <2> QED BY <1>2, <2>1, <2>2, RowCalmKept
<1>4. ASSUME NEW q \in Runs \ {r} PROVE RowCalm(q)'
  <2>1. HoldersOf(q)' = HoldersOf(q)
    BY <1>4, NoneAssumption DEF HoldersOf
  <2>2. Orphan(q)' => Orphan(q) BY <1>4, <2>1 DEF Orphan
  <2>3. RowCalm(q) BY DEF Calm
  <2> QED BY <1>2, <1>4, <2>2, <2>3, RowCalmKept
<1> HIDE DEF CalmContext
<1>5. \A q \in Runs : RowCalm(q)' BY <1>3, <1>4
<1> QED BY <1>1, <1>5 DEF Calm

LEMMA ExitEffect ==
    ASSUME SlotsOK, NEW s \in Slots, Exit(s)
    PROVE  /\ pc'[s] = "idle" /\ job'[s] = None /\ SlotCalm(s)'
           /\ \A t \in Slots \ {s} : pc'[t] = pc[t] /\ job'[t] = job[t]
<1>1. pc'[s] = "idle" /\ job'[s] = None /\ \A t \in Slots \ {s} : pc'[t] = pc[t] /\ job'[t] = job[t]
  BY DEF Exit, Vacate, SlotsOK
<1> QED BY <1>1 DEF SlotCalm, Holding, JobPhases, LoadPhases

LEMMA GotoEffect ==
    ASSUME SlotsOK, NEW s \in Slots, NEW ph, Goto(s, ph), UNCHANGED job
    PROVE  /\ pc'[s] = ph /\ job'[s] = job[s]
           /\ \A t \in Slots \ {s} : pc'[t] = pc[t] /\ job'[t] = job[t]
BY DEF Goto, SlotsOK

\* A step of the abstract specification, or none.
Moved == UNCHANGED status \/ Lifecycle!Next

LEMMA OneRowMoves ==
    ASSUME RowsOK, NEW r \in Runs, NEW st, status' = [status EXCEPT ![r] = st],
           \/ status[r] = st
           \/ status[r] = "absent" /\ st = "pending"
           \/ status[r] = "pending" /\ st = "running"
           \/ status[r] = "running" /\ st \in TerminalStates
    PROVE  Moved
<1>1. status' = [q \in Runs |-> IF q \in {r} THEN st ELSE status[q]] BY DEF RowsOK
<1>2. CASE status[r] = st BY <1>2 DEF RowsOK, Moved
<1>3. CASE status[r] = "absent" /\ st = "pending"
  <2>1. Lifecycle!Move({r}, {"absent"}, st) BY ONLY <1>1, <1>3 DEF Lifecycle!Move
  <2>2. Lifecycle!Create(r) BY <1>3, <2>1 DEF Lifecycle!Create
  <2> QED BY <2>2 DEF Moved, Lifecycle!Next
<1>4. CASE status[r] = "pending" /\ st = "running"
  <2>1. Lifecycle!Begin(r) BY <1>1, <1>4 DEF Lifecycle!Begin, Lifecycle!Move
  <2> QED BY <2>1 DEF Moved, Lifecycle!Next
<1>5. CASE status[r] = "running" /\ st \in TerminalStates
  <2>1. Lifecycle!End(r)
    BY <1>1, <1>5 DEF Lifecycle!End, Lifecycle!Move, Lifecycle!Final, TerminalStates
  <2> QED BY <2>1 DEF Moved, Lifecycle!Next
<1> QED BY <1>2, <1>3, <1>4, <1>5

\* What execute_run stores at the end of a run, and then signals.
LEMMA FinalizeCalm ==
    ASSUME CalmContext, NEW s \in Slots, pc[s] \in {"success", "interrupted", "finError"},
           NEW st \in TerminalStates, NEW th, FinalizeRun(s, st, th, "signal")
    PROVE  Calm' /\ Moved
<1> USE DEF CalmContext
<1>1. PICK r \in Runs : r = job[s] BY DEF TypeOK, SlotsOK
<1>2. pc[s] \in Holding /\ pc[s] \in Working /\ pc[s] \notin {"incomplete", "corrupt"}
  BY DEF Holding, JobPhases, Working
<1>3. params[r] = "full" /\ Owns(s, r) /\ status[r] = "running"
  BY <1>1, <1>2 DEF Calm, SlotCalm
<1>4. /\ status' = [status EXCEPT ![r] = st] /\ Goto(s, "signal") /\ UNCHANGED job
      /\ UNCHANGED <<claimedBy, retryCount, params, doneKeys, reaperVars>>
  BY <1>1 DEF FinalizeRun, WriteStatus, redisVars
<1>5. /\ pc'[s] = "signal" /\ job'[s] = r
      /\ \A t \in Slots \ {s} : pc'[t] = pc[t] /\ job'[t] = job[t]
  BY <1>1, <1>4, GotoEffect DEF TypeOK
<1>6. /\ status'[r] = st /\ claimedBy' = claimedBy /\ doneKeys' = doneKeys
      /\ \A q \in Runs \ {r} : status'[q] = status[q]
  BY <1>4 DEF TypeOK, RowsOK
<1>7. "signal" \in Holding \ Working
  BY DEF Holding, JobPhases, Working, LoadPhases
<1>8. SlotCalm(s)' BY <1>3, <1>4, <1>5, <1>6, <1>7 DEF SlotCalm, Owns
<1>9. Calm'
  <2> HIDE DEF CalmContext
  <2> QED BY <1>1, <1>2, <1>3, <1>4, <1>5, <1>6, <1>7, <1>8, OwnStepCalm
<1>10. Moved BY <1>3, <1>4, OneRowMoves DEF TypeOK
<1> QED BY <1>9, <1>10

\* A holder that exits gives its claim back, unless the run has no parameters.
LEMMA ReleaseCalm ==
    ASSUME CalmContext, NEW s \in Slots, pc[s] \in Holding, ReleaseClaim(s, job[s]), Exit(s),
           \/ UNCHANGED status
           \/ pc[s] = "incomplete"
              /\ status' = IF Owns(s, job[s]) THEN [status EXCEPT ![job[s]] = "error"] ELSE status,
           UNCHANGED <<retryCount, params, doneKeys, reaperVars>>
    PROVE  Calm' /\ Moved
<1> USE DEF CalmContext
<1>1. PICK r \in Runs : r = job[s]
  BY DEF TypeOK, SlotsOK, Holding, JobPhases, LoadPhases
<1>2. /\ job'[s] = None /\ SlotCalm(s)'
      /\ \A t \in Slots \ {s} : pc'[t] = pc[t] /\ job'[t] = job[t]
  BY ExitEffect DEF TypeOK
<1>3. \A q \in Runs \ {r} : status'[q] = status[q] /\ claimedBy'[q] = claimedBy[q]
  BY <1>1 DEF ReleaseClaim, TypeOK, RowsOK
<1>4. params[r] # "full" \/ claimedBy'[r] = None
  BY <1>1 DEF Calm, SlotCalm, ReleaseClaim, TypeOK, RowsOK
<1>5. status' = status \/ (status' = [status EXCEPT ![r] = "error"] /\ status[r] = "running")
  <2>1. pc[s] = "incomplete" /\ Owns(s, r) => status[r] = "running"
    BY <1>1 DEF Calm, SlotCalm, Working, LoadPhases
  <2>2. CASE pc[s] = "incomplete" /\ Owns(s, job[s]) BY <1>1, <2>1, <2>2
  <2>3. CASE ~(pc[s] = "incomplete" /\ Owns(s, job[s])) BY <2>3
  <2> QED BY <2>2, <2>3
<1>6. status'[r] = status[r] \/ status'[r] = "error" BY <1>5 DEF TypeOK, RowsOK
<1>7. Calm'
  <2> HIDE DEF CalmContext
  <2> QED BY <1>1, <1>2, <1>3, <1>4, <1>6, OwnStepCalm
<1>8. Moved
  <2>1. CASE status' = status BY <2>1 DEF Moved
  <2>2. CASE status' = [status EXCEPT ![r] = "error"] /\ status[r] = "running"
    BY <2>2, OneRowMoves DEF TypeOK, TerminalStates
  <2> QED BY <1>5, <2>1, <2>2
<1> QED BY <1>7, <1>8

\* A slot that goes on with its job without a write to the rows.
LEMMA GoOnCalm ==
    ASSUME CalmContext, NEW s \in Slots, NEW ph, Goto(s, ph), UNCHANGED job,
           UNCHANGED <<status, claimedBy, retryCount, params, reaperVars>>,
           pc[s] \in Holding, ph \in Holding,
           \/ pc[s] \in Working /\ ph \in Working
              /\ (pc[s] \in {"incomplete", "corrupt"} <=> ph \in {"incomplete", "corrupt"})
           \/ pc[s] \notin Working /\ ph \notin Working,
           ph \notin {"cancelled", "finCancel", "timedOut", "timedOutRelease"},
           doneKeys' = doneKeys \/ (pc[s] \notin Working /\ doneKeys' = doneKeys \cup {job[s]})
    PROVE  Calm' /\ Moved
<1> USE DEF CalmContext
<1>1. PICK r \in Runs : r = job[s]
  BY DEF TypeOK, SlotsOK, Holding, JobPhases, LoadPhases
<1>2. /\ pc'[s] = ph /\ job'[s] = r
      /\ \A t \in Slots \ {s} : pc'[t] = pc[t] /\ job'[t] = job[t]
  BY <1>1, GotoEffect DEF TypeOK
<1>3. SlotCalm(s)
  BY DEF Calm
<1>4. {"incomplete", "corrupt"} \subseteq Working BY DEF Working, LoadPhases
<1>5. SlotCalm(s)' BY <1>1, <1>2, <1>3, <1>4 DEF SlotCalm, Owns
<1>6. r \in doneKeys' => r \in doneKeys \/ status'[r] \in TerminalStates
  BY <1>1, <1>3 DEF SlotCalm
<1>7. \A q \in Runs \ {r} : q \in doneKeys' => q \in doneKeys BY <1>1
<1>8. Calm'
  <2> HIDE DEF CalmContext
  <2> QED BY <1>1, <1>2, <1>5, <1>6, <1>7, OwnStepCalm
<1> QED BY <1>8 DEF Moved

LEMMA AcquireCalm ==
    ASSUME CalmContext, NEW s \in Slots, Acquire(s)
    PROVE  Calm' /\ Moved
<1> USE DEF CalmContext
<1>1. PICK r \in Runs : r = job[s] BY DEF Acquire, TypeOK, SlotsOK
<1>2. pc[s] = "acquire" /\ UNCHANGED <<retryCount, params, doneKeys, reaperVars>>
  BY DEF Acquire, redisVars
<1>3. "acquire" \notin Holding BY DEF Holding, JobPhases, LoadPhases
<1>4. CASE Admits(s)
  <2>1. /\ status' = [status EXCEPT ![r] = "running"] /\ status[r] = "pending"
        /\ claimedBy' = [claimedBy EXCEPT ![r] = WorkerOf[s]] /\ job' = job
    BY <1>1, <1>4, AdmitsEffect
  <2>2. Goto(s, LoadPhase(params[r])) BY <1>1, <1>4 DEF Admits, Acquire, Acquirable
  <2>3. /\ pc'[s] = LoadPhase(params[r]) /\ job'[s] = r
        /\ \A t \in Slots \ {s} : pc'[t] = pc[t] /\ job'[t] = job[t]
    BY <1>1, <2>1, <2>2, GotoEffect DEF TypeOK
  <2>4. HoldersOf(r) = {}
    <3>1. spent["stall"] = 0 BY DEF NoDisturbance, Faults
    <3> QED BY <2>1, <3>1 DEF HealthyLeaseExcludes
  <2>5. /\ status'[r] = "running" /\ claimedBy'[r] = WorkerOf[s] /\ params' = params
        /\ \A q \in Runs \ {r} : status'[q] = status[q] /\ claimedBy'[q] = claimedBy[q]
    BY <1>2, <2>1 DEF TypeOK, RowsOK
  <2>6. pc'[s] \in LoadPhases /\ (params[r] = "full" <=> pc'[s] = "claimed")
    BY <2>3 DEF LoadPhase, LoadPhases
  <2>7. SlotCalm(s)'
    BY <2>3, <2>5, <2>6 DEF SlotCalm, Owns, LoadPhases, Holding, Working
  <2>8. pc'[s] \in Holding /\ status[r] \notin TerminalStates
    BY <2>1, <2>6 DEF Holding, TerminalStates
  <2>9. Calm'
    <3> HIDE DEF CalmContext
    <3> QED BY <1>1, <1>2, <2>3, <2>4, <2>5, <2>7, <2>8, OwnStepCalm
  <2>10. Moved BY <2>1, OneRowMoves DEF TypeOK
  <2> QED BY <2>9, <2>10
<1>5. CASE ~Admits(s)
  <2>1. Exit(s) /\ UNCHANGED <<status, claimedBy>> BY <1>5 DEF Admits, Acquire
  <2>2. /\ pc'[s] = "idle" /\ job'[s] = None /\ SlotCalm(s)'
        /\ \A t \in Slots \ {s} : pc'[t] = pc[t] /\ job'[t] = job[t]
    BY <2>1, ExitEffect DEF TypeOK
  <2>3. \A t \in Slots : SlotCalm(t)'
    <3> SUFFICES ASSUME NEW t \in Slots \ {s} PROVE SlotCalm(t)' BY <2>2
    <3>1. SlotCalm(t) BY DEF Calm
    <3> QED BY <1>2, <2>1, <2>2, <3>1, SlotCalmKept
  <2>4. \A q \in Runs : HoldersOf(q)' = HoldersOf(q)
    BY <1>2, <1>3, <2>2, NoneAssumption DEF HoldersOf
  <2>5. \A q \in Runs : RowCalm(q)'
    <3> SUFFICES ASSUME NEW q \in Runs PROVE RowCalm(q)' OBVIOUS
    <3>1. RowCalm(q) BY DEF Calm
    <3>2. Orphan(q)' => Orphan(q) BY <2>1, <2>4 DEF Orphan
    <3> QED BY <1>2, <2>1, <3>1, <3>2, RowCalmKept DEF TypeOK
  <2> QED BY <2>1, <2>3, <2>5 DEF Calm, Moved
<1> QED BY <1>4, <1>5

LEMMA SlotStepCalm ==
    ASSUME CalmContext, NEW s \in Slots, SlotStep(s)
    PROVE  Calm' /\ Moved
<1>0. pc[s] \notin {"cancelled", "finCancel", "timedOut", "timedOutRelease"}
  BY DEF CalmContext, Calm, SlotCalm
<1>1. CASE Acquire(s) BY <1>1, AcquireCalm
<1>2. CASE Load(s)
  <2>1. UNCHANGED <<retryCount, params, doneKeys, reaperVars>> BY <1>2 DEF Load, redisVars
  <2>2. CASE /\ pc[s] = "claimed" /\ Goto(s, "start") /\ UNCHANGED <<status, claimedBy, job>>
    BY <2>1, <2>2, GoOnCalm DEF Working, Holding, JobPhases, LoadPhases
  <2>3. CASE /\ pc[s] = "incomplete" /\ ReleaseClaim(s, job[s]) /\ Exit(s)
             /\ status' = IF Owns(s, job[s]) THEN [status EXCEPT ![job[s]] = "error"] ELSE status
    BY <2>1, <2>3, ReleaseCalm DEF Holding, LoadPhases
  <2>4. CASE /\ pc[s] = "corrupt" /\ Exit(s) /\ UNCHANGED <<status, claimedBy>>
    <3>1. PICK r \in Runs : r = job[s] BY <2>4 DEF CalmContext, TypeOK, SlotsOK
    <3>2. pc[s] \in Holding BY <2>4 DEF Holding, LoadPhases
    <3>3. params[r] # "full" BY <2>4, <3>1, <3>2 DEF CalmContext, Calm, SlotCalm
    <3>4. /\ job'[s] = None /\ SlotCalm(s)'
          /\ \A t \in Slots \ {s} : pc'[t] = pc[t] /\ job'[t] = job[t]
      BY <2>4, ExitEffect DEF CalmContext, TypeOK
    <3>5. Calm' BY <2>1, <2>4, <3>1, <3>2, <3>3, <3>4, OwnStepCalm
    <3> QED BY <2>4, <3>5 DEF Moved
  <2> QED BY <1>2, <2>2, <2>3, <2>4 DEF Load
<1>3. CASE Start(s)
  <2>1. PICK r \in Runs : r = job[s] BY <1>3 DEF Start, CalmContext, TypeOK, SlotsOK
  <2>2. /\ pc[s] = "start" /\ status' = [status EXCEPT ![r] = "running"] /\ Goto(s, "stream")
        /\ UNCHANGED <<job, claimedBy, retryCount, params, doneKeys, reaperVars>>
    BY <1>3, <2>1 DEF Start, WriteStatus, redisVars
  <2>3. status[r] = "running"
    BY <2>1, <2>2 DEF CalmContext, Calm, SlotCalm, Working, Holding, JobPhases
  <2>4. status' = status BY <2>2, <2>3 DEF CalmContext, TypeOK, RowsOK
  <2> QED BY <2>2, <2>4, GoOnCalm DEF Working, Holding, JobPhases, LoadPhases
<1>4. CASE Stream(s)
  <2>1. /\ pc[s] = "stream" /\ \E ph \in {"success", "interrupted", "finError"} : Goto(s, ph)
        /\ UNCHANGED <<job, status, claimedBy, retryCount, params, doneKeys, reaperVars>>
    BY <1>4 DEF Stream, rowVars, redisVars
  <2> QED BY <2>1, GoOnCalm DEF Working, Holding, JobPhases, LoadPhases
<1>5. CASE Finalize(s) \/ FinalizeError(s)
  BY <1>5, FinalizeCalm DEF Finalize, FinalizeError, TerminalStates
<1>6. CASE Signal(s)
  <2>1. /\ pc[s] = "signal" /\ Goto(s, "donekey")
        /\ UNCHANGED <<job, status, claimedBy, retryCount, params, doneKeys, reaperVars>>
    BY <1>6 DEF Signal, rowVars, redisVars
  <2> QED BY <2>1, GoOnCalm DEF Working, Holding, JobPhases, LoadPhases
<1>7. CASE SetDoneKey(s)
  <2>1. /\ pc[s] = "donekey" /\ Goto(s, "release")
        /\ UNCHANGED <<job, status, claimedBy, retryCount, params, reaperVars>>
        /\ doneKeys' = doneKeys \/ doneKeys' = doneKeys \cup {job[s]}
    BY <1>7 DEF SetDoneKey, rowVars
  <2> QED BY <2>1, GoOnCalm DEF Working, Holding, JobPhases, LoadPhases
<1>8. CASE ReleaseLease(s)
  <2>1. /\ pc[s] = "release" /\ ReleaseClaim(s, job[s]) /\ Exit(s)
        /\ UNCHANGED <<status, retryCount, params, doneKeys, reaperVars>>
    BY <1>0, <1>8 DEF ReleaseLease, redisVars
  <2> QED BY <2>1, ReleaseCalm DEF Holding
<1> QED
  BY <1>0, <1>1, <1>2, <1>3, <1>4, <1>5, <1>6, <1>7, <1>8
  DEF SlotStep, HandleCancel, FinalizeInterrupted, FinalizeTimeout

\* Steps that change nobody's hold on a run and take no row further than
\* pending.
LEMMA AsideCalm ==
    ASSUME CalmContext,
           UNCHANGED <<claimedBy, retryCount, params, doneKeys, reaperVars>>,
           \A t \in Slots : \/ pc'[t] = pc[t] /\ job'[t] = job[t]
                            \/ /\ pc[t] \notin Holding
                               /\ pc'[t] \in {"idle", "polling", "acquire"},
           \A r \in Runs : status'[r] = status[r] \/ (status[r] = "absent" /\ status'[r] = "pending")
    PROVE  Calm'
<1> USE DEF CalmContext
<1>1. {"idle", "polling", "acquire"} \cap Holding = {}
  BY DEF Holding, JobPhases, LoadPhases
<1>2. \A t \in Slots : SlotCalm(t)'
  <2> SUFFICES ASSUME NEW t \in Slots PROVE SlotCalm(t)' OBVIOUS
  <2>1. CASE pc'[t] \in {"idle", "polling", "acquire"} BY <1>1, <2>1 DEF SlotCalm
  <2>2. CASE pc'[t] = pc[t] /\ job'[t] = job[t]
    <3>1. SlotCalm(t) BY DEF Calm
    <3>2. pc[t] \in Holding => status'[job[t]] = status[job[t]]
      <4> SUFFICES ASSUME pc[t] \in Holding PROVE status'[job[t]] = status[job[t]] OBVIOUS
      <4>1. PICK r \in Runs : r = job[t]
        BY DEF TypeOK, SlotsOK, Holding, JobPhases, LoadPhases
      <4>2. status[r] # "absent"
        <5>1. t \in HoldersOf(r) BY <4>1 DEF HoldersOf
        <5>2. spent["stall"] = 0 BY DEF NoDisturbance, Faults
        <5> QED BY <5>1, <5>2 DEF HealthyLeaseExcludes
      <4> QED BY <4>1, <4>2
    <3> QED BY <2>2, <3>1, <3>2, SlotCalmKept
  <2> QED BY <2>1, <2>2
<1>3. \A r \in Runs : HoldersOf(r)' = HoldersOf(r) BY <1>1 DEF HoldersOf
<1>4. \A r \in Runs : RowCalm(r)'
  <2> SUFFICES ASSUME NEW r \in Runs PROVE RowCalm(r)' OBVIOUS
  <2>1. RowCalm(r) BY DEF Calm
  <2>2. Orphan(r)' => Orphan(r) BY <1>3 DEF Orphan
  <2>3. \/ status'[r] = status[r]
        \/ status[r] \notin TerminalStates /\ status'[r] \in {"pending", "running"}
    BY DEF TerminalStates
  <2> QED BY <2>1, <2>2, <2>3, RowCalmKept DEF TypeOK
<1> QED BY <1>2, <1>4 DEF Calm

LEMMA TakeCalm ==
    ASSUME CalmContext, NEW s \in Slots, Take(s)
    PROVE  Calm' /\ Moved
<1> USE DEF CalmContext, TypeOK
<1>1. UNCHANGED <<status, claimedBy, retryCount, params, doneKeys, reaperVars>>
  BY DEF Take, Dequeue, DequeueFails, PollPostgres, rowVars, redisVars
<1>2. pc[s] \notin Holding
  BY DEF Take, Dequeue, DequeueFails, PollPostgres, Holding, JobPhases, LoadPhases
<1>3. ASSUME NEW ph \in {"idle", "polling", "acquire"}, Goto(s, ph), NEW j,
             UNCHANGED job \/ job' = [job EXCEPT ![s] = j]
      PROVE  Calm'
  <2>1. \A t \in Slots : \/ pc'[t] = pc[t] /\ job'[t] = job[t]
                         \/ pc[t] \notin Holding /\ pc'[t] \in {"idle", "polling", "acquire"}
    BY <1>2, <1>3 DEF Goto, SlotsOK
  <2> HIDE DEF CalmContext, TypeOK
  <2> QED BY <1>1, <2>1, AsideCalm
<1>4. ASSUME NEW r, Register(s, r) PROVE Calm' BY <1>3, <1>4 DEF Register
<1>5. Calm' BY <1>3, <1>4 DEF Take, Dequeue, DequeueFails, PollPostgres
<1> QED BY <1>1, <1>5 DEF Moved

\* Without stalls a heartbeat always finds its row.
LEMMA HeartbeatCalm ==
    ASSUME CalmContext, NEW s \in Slots, Heartbeat(s)
    PROVE  Calm' /\ Moved
<1> USE DEF CalmContext
<1>1. pc[s] \in Holding /\ pc[s] \notin {"incomplete", "corrupt"}
  BY DEF Heartbeat, Holding, JobPhases
<1>2. Owns(s, job[s]) BY <1>1 DEF Calm, SlotCalm
<1>3. UNCHANGED <<pc, job, status, claimedBy, retryCount, params, doneKeys, reaperVars>>
  BY <1>2 DEF Heartbeat, redisVars
<1> HIDE DEF CalmContext
<1> QED BY <1>3, AsideCalm DEF Moved

LEMMA OutsideCalm ==
    ASSUME CalmContext,
           \/ \E r \in Runs : \/ Prepare(r) \/ Submit(r) \/ SubmitFails(r) \/ Age(r)
                              \/ Expire(r) /\ UNCHANGED spent
           \/ \E p \in Procs : Restart(p)
           \/ RedisDown \/ RedisRecovers \/ UNCHANGED vars
    PROVE  Calm' /\ Moved
<1>1. UNCHANGED <<pc, job, claimedBy, retryCount, params, doneKeys, reaperVars>>
  BY DEF Prepare, Submit, SubmitFails, Age, Expire, Restart, RedisDown, RedisRecovers, vars,
         rowVars, slotVars, redisVars
<1>2. UNCHANGED status
      \/ \E r \in Runs : status[r] = "absent" /\ status' = [status EXCEPT ![r] = "pending"]
  BY DEF Prepare, Submit, SubmitFails, Age, Expire, Restart, RedisDown, RedisRecovers, vars, rowVars
<1>3. Moved
  <2>1. CASE UNCHANGED status BY <2>1 DEF Moved
  <2>2. ASSUME NEW r \in Runs, status[r] = "absent", status' = [status EXCEPT ![r] = "pending"]
        PROVE  Moved
    BY <2>2, OneRowMoves DEF CalmContext, TypeOK
  <2> QED BY <1>2, <2>1, <2>2
<1>4. \A r \in Runs : status'[r] = status[r] \/ (status[r] = "absent" /\ status'[r] = "pending")
  BY <1>2 DEF CalmContext, TypeOK, RowsOK
<1> QED BY <1>1, <1>3, <1>4, AsideCalm

\* A crash leaves at most one more claim without an owner.
LEMMA CrashCalm ==
    ASSUME CalmContext, NEW p \in Procs, Crash(p)
    PROVE  Calm' /\ Moved
<1> USE DEF CalmContext, TypeOK, ProcsOK, ReapersOK, SlotsOK, RowsOK, HistOK
<1>1. /\ UNCHANGED <<status, claimedBy, retryCount, params, doneKeys>>
      /\ AbandonTick(p) /\ Spend("crash") /\ ProcessEnds(p)
  BY DEF Crash, ProcessEnds, rowVars
<1>2. \A t \in Slots : SlotCalm(t)'
  <2> SUFFICES ASSUME NEW t \in Slots PROVE SlotCalm(t)' OBVIOUS
  <2>1. CASE ProcOf[t] = p
    <3>1. pc'[t] = "idle" BY <1>1, <2>1 DEF ProcessEnds
    <3> QED BY <3>1 DEF SlotCalm, Holding, JobPhases, LoadPhases
  <2>2. CASE ProcOf[t] # p
    <3>1. pc'[t] = pc[t] /\ job'[t] = job[t] BY <1>1, <2>2 DEF ProcessEnds
    <3>2. SlotCalm(t) BY DEF Calm
    <3> QED BY <1>1, <3>1, <3>2, SlotCalmKept
  <2> QED BY <2>1, <2>2
<1>3. /\ \A q \in Procs : /\ found'[q] \subseteq found[q] /\ stuck'[q] \subseteq stuck[q]
                          /\ exhausted'[q] \subseteq exhausted[q]
      /\ \A r \in Runs : Recovering(r)' \subseteq Recovering(r)
  BY <1>1 DEF AbandonTick, ReaperGoto, Recovering
<1>4. spent'["crash"] = spent["crash"] + 1 /\ spent["crash"] \in Nat
  BY <1>1 DEF Spend, Faults
<1>5. ASSUME NEW r \in Runs PROVE RowCalm(r)'
  <2>1. RowCalm(r) BY DEF Calm
  <2> DEFINE k == Cardinality(Recovering(r))
             l == Cardinality(Recovering(r)')
  <2>2. k \in Nat /\ l \in Nat /\ l <= k
    <3>1. IsFiniteSet(Recovering(r)) BY RecoveringReapers
    <3> QED BY <1>3, <3>1, PartIsSmaller
  <2>3. /\ Due(r) = retryCount[r] + k + IF Orphan(r) THEN 1 ELSE 0
        /\ Due(r)' = retryCount[r] + l + IF Orphan(r)' THEN 1 ELSE 0
    BY <1>1 DEF Due
  <2>4. params[r] = "full" => Due(r) <= spent["crash"] BY <2>1 DEF RowCalm
  <2>5. retryCount[r] \in Nat OBVIOUS
  <2>6. params[r] = "full" => Due(r)' <= spent'["crash"]
    <3> HIDE DEF k, l, Orphan, Recovering, Due, CalmContext, TypeOK
    <3> QED BY <1>4, <2>2, <2>3, <2>4, <2>5
  <2>7. params' = params /\ status' = status /\ doneKeys' = doneKeys BY <1>1
  <2> HIDE DEF CalmContext, TypeOK
  <2> QED BY <1>3, <2>1, <2>6, <2>7 DEF RowCalm
<1> QED BY <1>1, <1>2, <1>5 DEF Calm, Moved

\* The reaper's UPDATEs meet no slot at work.
LEMMA ReaperSlotsCalm ==
    ASSUME CalmContext, NEW p \in Procs, ReaperStep(p)
    PROVE  \A t \in Slots : SlotCalm(t)'
<1>0. ASSUME NEW t \in Slots, pc[t] \in Holding PROVE \E r \in Runs : r = job[t]
  BY <1>0 DEF CalmContext, TypeOK, SlotsOK, Holding, JobPhases, LoadPhases
<1> USE DEF CalmContext, TypeOK, RowsOK, ReapersOK
<1> SUFFICES ASSUME NEW t \in Slots PROVE SlotCalm(t)' OBVIOUS
<1>1. SlotCalm(t) BY DEF Calm
<1>2. pc' = pc /\ job' = job
  BY DEF ReaperStep, FindCrashed, FindStuck, ResetToPending, CheckRetryLimits,
         MarkPermanentlyFailed, Reenqueue, slotVars
<1>3. CASE pc[t] \notin Holding BY <1>1, <1>2, <1>3, SlotCalmKept
<1>4. CASE pc[t] \in Holding
  <2>1. PICK r \in Runs : r = job[t] BY <1>0, <1>4
  <2>2. lease[r] # "expired"
    <3>1. t \in HoldersOf(r) BY <1>4, <2>1 DEF HoldersOf
    <3>2. spent["stall"] = 0 BY DEF NoDisturbance, Faults
    <3> QED BY <3>1, <3>2 DEF HealthyLeaseExcludes
  <2>3. ASSUME status'[r] = status[r], claimedBy'[r] = claimedBy[r],
               (params'[r] = "full") <=> (params[r] = "full")
        PROVE  SlotCalm(t)'
    BY <1>1, <1>2, <2>1, <2>3, SlotCalmKept
  <2>4. CASE FindCrashed(p) \/ FindStuck(p) \/ Reenqueue(p)
    BY <2>3, <2>4 DEF FindCrashed, FindStuck, Reenqueue, rowVars
  <2>5. CASE ResetToPending(p)
    <3>1. r \notin found[p] \cap Crashed BY <2>2 DEF Crashed
    <3> QED BY <2>3, <2>5, <3>1 DEF ResetToPending, ReturnRows
  <2>6. CASE CheckRetryLimits(p) BY <2>3, <2>6 DEF CheckRetryLimits
  <2>7. CASE MarkPermanentlyFailed(p)
    <3>1. CASE r \notin exhausted[p] BY <2>3, <2>7, <3>1 DEF MarkPermanentlyFailed, ReturnRows
    <3>2. CASE r \in exhausted[p]
      <4>1. params[r] # "full" BY <3>2 DEF Calm, RowCalm
      <4>2. claimedBy'[r] = None /\ params' = params
        BY <2>7, <3>2 DEF MarkPermanentlyFailed, ReturnRows
      <4>3. None # WorkerOf[t] BY NoneAssumption, SlotsAssumption
      <4>4. {"incomplete", "corrupt"} \subseteq Working BY DEF Working, LoadPhases
      <4> QED BY <1>1, <1>2, <1>4, <2>1, <4>1, <4>2, <4>3, <4>4 DEF SlotCalm, Owns
    <3> QED BY <3>1, <3>2
  <2> QED BY <2>4, <2>5, <2>6, <2>7 DEF ReaperStep
<1> QED BY <1>3, <1>4

LEMMA ReaperRowsCalm ==
    ASSUME CalmContext, NEW p \in Procs, ReaperStep(p), NEW r \in Runs
    PROVE  RowCalm(r)'
<1> USE DEF CalmContext, TypeOK, RowsOK, ReapersOK
<1>1. RowCalm(r) BY DEF Calm
<1>2. /\ pc' = pc /\ job' = job /\ spent' = spent /\ doneKeys' = doneKeys
      /\ HoldersOf(r)' = HoldersOf(r)
  BY DEF ReaperStep, FindCrashed, FindStuck, ResetToPending, CheckRetryLimits,
         MarkPermanentlyFailed, Reenqueue, slotVars, histVars, redisVars, HoldersOf
<1>3. Cardinality(Recovering(r)) \in Nat /\ Cardinality(Recovering(r)') \in Nat
  BY RecoveringReapers
<1>4. /\ retryCount[r] \in Nat /\ retryCount'[r] \in Nat
      /\ spent["crash"] \in Nat /\ spent["crash"] <= MaxRetries
  BY DEF HistOK, NoDisturbance, Faults
<1>5. CASE FindCrashed(p) \/ FindStuck(p) \/ Reenqueue(p)
  <2>1. /\ Recovering(r)' = Recovering(r)
        /\ UNCHANGED <<status, claimedBy, retryCount, params, exhausted>>
    BY <1>5, LookingRecovers
  <2>2. \A q \in Procs : /\ r \in found'[q] => r \in found[q] \cup stuck[q] \cup Crashed
                         /\ r \in stuck'[q] => r \in stuck[q] \cup StuckPending
    <3>1. found[p] \subseteq Runs /\ stuck[p] \subseteq Runs OBVIOUS
    <3>2. CASE FindCrashed(p)
      <4>1. found' = [found EXCEPT ![p] = Crashed] /\ stuck' = stuck BY <3>2 DEF FindCrashed
      <4> HIDE DEF Crashed, StuckPending
      <4> QED BY <4>1
    <3>3. CASE FindStuck(p)
      <4>1. found' = found /\ stuck' = [stuck EXCEPT ![p] = StuckPending] BY <3>3 DEF FindStuck
      <4> HIDE DEF Crashed, StuckPending
      <4> QED BY <4>1
    <3>4. CASE Reenqueue(p)
      <4>1. \/ /\ found' = [found EXCEPT ![p] = stuck[p]] /\ stuck' = [stuck EXCEPT ![p] = {}]
            \/ \E q \in Runs : found' = [found EXCEPT ![p] = @ \ {q}] /\ stuck' = stuck
            \/ found' = [found EXCEPT ![p] = {}] /\ stuck' = stuck
        <5>1. \A q \in found[p] : q \in Runs BY <3>1
        <5> HIDE DEF TypeOK, CalmContext
        <5> QED BY <3>4, <5>1 DEF Reenqueue
      <4>2. CASE found' = [found EXCEPT ![p] = stuck[p]] /\ stuck' = [stuck EXCEPT ![p] = {}]
        BY <4>2
      <4>3. ASSUME NEW q \in Runs, found' = [found EXCEPT ![p] = @ \ {q}], stuck' = stuck
            PROVE  \A o \in Procs : found'[o] \subseteq found[o] /\ stuck'[o] = stuck[o]
        BY <4>3
      <4>4. CASE found' = [found EXCEPT ![p] = {}] /\ stuck' = stuck
        BY <4>4
      <4> QED BY <4>1, <4>2, <4>3, <4>4
    <3> QED BY <1>5, <3>2, <3>3, <3>4
  <2>3. r \in Crashed \cup StuckPending => status[r] # "absent" BY DEF Crashed, StuckPending
  <2>4. Due(r)' = Due(r)
    <3>1. Orphan(r)' <=> Orphan(r) BY <1>2, <2>1 DEF Orphan
    <3> HIDE DEF Orphan, Recovering
    <3> QED BY <2>1, <3>1 DEF Due
  <2> HIDE DEF CalmContext, TypeOK, Due
  <2> QED BY <1>1, <1>2, <2>1, <2>2, <2>3, <2>4 DEF RowCalm
<1>6. CASE ResetToPending(p)
  <2>1. /\ UNCHANGED <<retryCount, params, stuck, exhausted>>
        /\ \A q \in Procs : found'[q] \subseteq found[q]
    BY <1>6 DEF ResetToPending
  <2>2. CASE r \in found[p] \cap Crashed
    <3>1. status[r] = "running" /\ status'[r] = "pending" /\ claimedBy'[r] = None
      BY <1>6, <2>2 DEF Crashed, ResetToPending, ReturnRows
    <3>2. Orphan(r)
      <4>1. claimedBy[r] # None BY <2>2 DEF Crashed, PendingIsClaimable
      <4>2. spent["stall"] = 0 BY DEF NoDisturbance, Faults
      <4> QED BY <2>2, <4>1, <4>2 DEF Crashed, HealthyLeaseExcludes, Orphan
    <3>3. ~Orphan(r)' BY <3>1 DEF Orphan
    <3>4. Cardinality(Recovering(r)') = Cardinality(Recovering(r)) + 1
      BY <1>6, <2>2, ResetRecovers
    <3>5. Due(r)' = Due(r)
      <4> HIDE DEF Orphan, Recovering
      <4> QED BY <1>3, <1>4, <2>1, <3>2, <3>3, <3>4 DEF Due
    <3> HIDE DEF CalmContext, TypeOK, Due
    <3> QED BY <1>1, <1>2, <2>1, <3>1, <3>5 DEF RowCalm, TerminalStates
  <2>3. CASE r \notin found[p] \cap Crashed
    <3>1. status'[r] = status[r] /\ claimedBy'[r] = claimedBy[r]
      BY <1>6, <2>3 DEF ResetToPending, ReturnRows
    <3>2. Recovering(r)' = Recovering(r) BY <1>6, <2>3, ResetRecovers
    <3>3. Due(r)' = Due(r)
      <4>1. Orphan(r)' <=> Orphan(r) BY <1>2, <3>1 DEF Orphan
      <4> HIDE DEF Orphan, Recovering
      <4> QED BY <2>1, <3>2, <4>1 DEF Due
    <3> HIDE DEF CalmContext, TypeOK, Due
    <3> QED BY <1>1, <1>2, <2>1, <3>1, <3>3 DEF RowCalm
  <2> QED BY <2>2, <2>3
<1>7. CASE CheckRetryLimits(p)
  <2>1. /\ UNCHANGED <<status, claimedBy, stuck>> /\ (params'[r] = "full" <=> params[r] = "full")
        /\ \A q \in Procs : found'[q] \subseteq found[q]
        /\ \A q \in Procs : exhausted'[q] \subseteq exhausted[q] \cup found[q]
        /\ \A q \in Procs : r \in exhausted'[q] /\ r \notin exhausted[q]
                               => q = p /\ r \in found[p] /\ IsExhausted(r)
    BY <1>7 DEF CheckRetryLimits
  <2>2. Orphan(r)' <=> Orphan(r) BY <1>2, <2>1 DEF Orphan
  <2>3. Due(r)' = Due(r)
    <3>1. CASE r \in found[p] /\ ~IsExhausted(r)
      <4>1. /\ Cardinality(Recovering(r)) = Cardinality(Recovering(r)') + 1
            /\ retryCount'[r] = retryCount[r] + 1
        BY <1>7, <3>1, CheckRecovers
      <4> HIDE DEF Orphan, Recovering
      <4> QED BY <1>3, <1>4, <2>2, <4>1 DEF Due
    <3>2. CASE ~(r \in found[p] /\ ~IsExhausted(r))
      <4>1. Recovering(r)' = Recovering(r) /\ retryCount'[r] = retryCount[r]
        BY <1>7, <3>2, CheckRecovers
      <4> HIDE DEF Orphan, Recovering
      <4> QED BY <2>2, <4>1 DEF Due
    <3> QED BY <3>1, <3>2
  <2>4. params[r] = "full" /\ r \in found[p] => ~IsExhausted(r)
    <3> SUFFICES ASSUME params[r] = "full", r \in found[p] PROVE ~IsExhausted(r) OBVIOUS
    <3>1. Due(r) <= spent["crash"] BY <1>1 DEF RowCalm
    <3>2. p \in Recovering(r) /\ IsFiniteSet(Recovering(r))
      BY <1>7, CheckRecovers, RecoveringReapers
    <3>3. Cardinality(Recovering(r)) # 0 BY <3>2, FS_EmptySet
    <3>4. retryCount[r] + 1 <= MaxRetries
      <4> DEFINE k == Cardinality(Recovering(r))
      <4>1. k \in Nat /\ k # 0 BY <1>3, <3>3
      <4>2. retryCount[r] + k + (IF Orphan(r) THEN 1 ELSE 0) <= spent["crash"] BY <3>1 DEF Due
      <4>3. MaxRetries \in Nat BY BoundsAssumption
      <4> HIDE DEF k, Orphan, Recovering, TypeOK, CalmContext
      <4> QED BY <1>4, <4>1, <4>2, <4>3
    <3> QED BY <1>4, <3>4 DEF IsExhausted
  <2> HIDE DEF CalmContext, TypeOK, Due
  <2> QED BY <1>1, <1>2, <2>1, <2>3, <2>4 DEF RowCalm
<1>8. CASE MarkPermanentlyFailed(p)
  <2>1. /\ UNCHANGED <<retryCount, params, found, stuck>>
        /\ \A q \in Procs : exhausted'[q] \subseteq exhausted[q]
    BY <1>8 DEF MarkPermanentlyFailed
  <2>2. CASE r \in exhausted[p]
    <3>1. params[r] # "full" BY <1>1, <2>2 DEF RowCalm
    <3>2. status'[r] = "error" BY <1>8, <2>2 DEF MarkPermanentlyFailed, ReturnRows
    <3> HIDE DEF CalmContext, TypeOK
    <3> QED BY <2>1, <3>1, <3>2 DEF RowCalm, TerminalStates
  <2>3. CASE r \notin exhausted[p]
    <3>1. status'[r] = status[r] /\ claimedBy'[r] = claimedBy[r]
      BY <1>8, <2>3 DEF MarkPermanentlyFailed, ReturnRows
    <3>2. Recovering(r)' = Recovering(r) BY <1>8, <2>3, FailRecovers
    <3>3. Due(r)' = Due(r)
      <4>1. Orphan(r)' <=> Orphan(r) BY <1>2, <3>1 DEF Orphan
      <4> HIDE DEF Orphan, Recovering
      <4> QED BY <2>1, <3>2, <4>1 DEF Due
    <3> HIDE DEF CalmContext, TypeOK, Due
    <3> QED BY <1>1, <1>2, <2>1, <3>1, <3>3 DEF RowCalm
  <2> QED BY <2>2, <2>3
<1> QED BY <1>5, <1>6, <1>7, <1>8 DEF ReaperStep

\* Recoveries move running rows, and only rows that are not final are failed.
LEMMA ReaperMoves ==
    ASSUME CalmContext, NEW p \in Procs, ReaperStep(p)
    PROVE  Moved
<1> USE DEF CalmContext, TypeOK, RowsOK, ReapersOK
<1>1. CASE UNCHANGED status BY <1>1 DEF Moved
<1>2. CASE ResetToPending(p)
  <2>1. Lifecycle!Recover(found[p] \cap Crashed)
    BY <1>2 DEF ResetToPending, ReturnRows, Crashed, Lifecycle!Recover, Lifecycle!Move
  <2>2. found[p] \cap Crashed \in SUBSET Runs BY DEF Crashed
  <2> QED BY <2>1, <2>2 DEF Moved, Lifecycle!Next
<1>3. CASE MarkPermanentlyFailed(p)
  <2> DEFINE R == {r \in exhausted[p] : status[r] # "error"}
  <2>1. \A r \in R : status[r] \in {"pending", "running"}
    <3> SUFFICES ASSUME NEW r \in R PROVE status[r] \in {"pending", "running"} OBVIOUS
    <3>1. r \in Runs /\ r \in exhausted[p] /\ status[r] # "error" OBVIOUS
    <3>2. RowCalm(r) BY <3>1 DEF Calm
    <3>3. status[r] \in {"absent", "pending", "running"} \cup TerminalStates BY <3>1
    <3>4. status[r] # "absent" BY <3>1, <3>2 DEF RowCalm
    <3>5. status[r] \notin {"success", "interrupted"} BY <3>1, <3>2 DEF RowCalm
    <3> QED BY <3>1, <3>3, <3>4, <3>5 DEF TerminalStates
  <2>2. status' = [r \in Runs |-> IF r \in R THEN "error" ELSE status[r]]
    BY <1>3 DEF MarkPermanentlyFailed, ReturnRows
  <2>3. R \in SUBSET Runs OBVIOUS
  <2> HIDE DEF R
  <2>4. Lifecycle!GiveUp(R) BY <2>1, <2>2 DEF Lifecycle!GiveUp, Lifecycle!Move
  <2> QED BY <2>3, <2>4 DEF Moved, Lifecycle!Next
<1> QED
  BY <1>1, <1>2, <1>3
  DEF ReaperStep, FindCrashed, FindStuck, CheckRetryLimits, Reenqueue, rowVars

CalmInv == ReapersAwake /\ HealthyLeaseExcludes /\ NoDisturbance /\ Calm

LEMMA CalmInvStep ==
    QuietBudgets => (TypeOK /\ PendingIsClaimable /\ CalmInv /\ [Next]_vars => CalmInv' /\ Moved)
<1> SUFFICES ASSUME QuietBudgets, TypeOK, PendingIsClaimable, CalmInv, [Next]_vars
             PROVE  CalmInv' /\ Moved
  OBVIOUS
<1>1. /\ TypeOK' /\ ReapersAwake' /\ HealthyLeaseExcludes'
      /\ NoDisturbance' /\ spent["crash"] <= spent'["crash"]
  BY TypeStep, ReapersAwakeStep, HealthyLeaseExcludesStep, NoDisturbanceStep DEF CalmInv
<1>2. CalmContext BY <1>1 DEF CalmContext, CalmInv
<1>3. CalmStep BY CalmSteps DEF CalmInv
<1>4. Calm' /\ Moved
  <2>1. ASSUME NEW p \in Procs, ReaperStep(p) PROVE Calm' /\ Moved
    BY <1>2, <2>1, ReaperSlotsCalm, ReaperRowsCalm, ReaperMoves DEF Calm
  <2> QED BY <1>2, <1>3, <2>1, TakeCalm, SlotStepCalm, HeartbeatCalm, CrashCalm, OutsideCalm
          DEF CalmStep
<1> QED BY <1>1, <1>4 DEF CalmInv

LEMMA CalmInvInit == Init => CalmInv
<1> SUFFICES ASSUME Init PROVE CalmInv OBVIOUS
<1>1. ReapersAwake /\ NoDisturbance BY DEF Init, ReapersAwake, NoDisturbance, Faults
<1>2. \A s \in Slots : pc[s] = "idle" /\ job[s] = None BY DEF Init
<1>3. HealthyLeaseExcludes
  BY NoneAssumption DEF Init, HealthyLeaseExcludes, HoldersOf
<1>4. \A s \in Slots : SlotCalm(s)
  BY <1>2 DEF SlotCalm, Holding, JobPhases, LoadPhases
<1>5. ASSUME NEW r \in Runs PROVE RowCalm(r)
  <2>1. Recovering(r) = {} BY DEF Init, Recovering
  <2>2. Cardinality({}) = 0 BY FS_EmptySet
  <2>3. ~Orphan(r) /\ retryCount[r] = 0 /\ spent["crash"] = 0 BY DEF Init, Orphan, Faults
  <2>4. Cardinality(Recovering(r)) = 0 BY <2>1, <2>2
  <2>5. Due(r) = 0
    <3> HIDE DEF Orphan, Recovering
    <3> QED BY <2>3, <2>4 DEF Due
  <2>6. status[r] \in {"absent", "pending"} /\ r \notin doneKeys
        /\ \A p \in Procs : found[p] = {} /\ stuck[p] = {} /\ exhausted[p] = {}
    BY DEF Init
  <2> HIDE DEF Due
  <2> QED BY <2>3, <2>5, <2>6 DEF RowCalm
<1> QED BY <1>1, <1>3, <1>4, <1>5 DEF CalmInv, Calm

\* While nothing but crashes and outages disturbs the system, and no run can use
\* up its retries, a done key tells the truth: whoever it wakes reads a final
\* status.
THEOREM DoneKeysTellTheEnd == QuietBudgets => (Spec => []DoneMeansTerminal)
<1> SUFFICES ASSUME QuietBudgets PROVE Spec => []DoneMeansTerminal OBVIOUS
<1>1. TypeOK /\ PendingIsClaimable /\ CalmInv /\ [Next]_vars => CalmInv' BY CalmInvStep
<1>2. TypeOK /\ CalmInv => DoneMeansTerminal
  BY DEF CalmInv, Calm, RowCalm, DoneMeansTerminal, TypeOK, RedisOK
<1> QED BY <1>1, <1>2, CalmInvInit, TypeCorrect, PendingAlwaysClaimable, PTL DEF Spec

\* Under the same disturbances leases, queue, reaper and slots together do to
\* the status of every run what RunLifecycle promises: a final status is final.
THEOREM LifecycleImplemented == QuietBudgets => (Spec => LifecycleSpec)
<1> SUFFICES ASSUME QuietBudgets PROVE Spec => LifecycleSpec OBVIOUS
<1>1. TypeOK /\ PendingIsClaimable /\ CalmInv /\ [Next]_vars => CalmInv' BY CalmInvStep
<1>2. TypeOK /\ PendingIsClaimable /\ CalmInv /\ [Next]_vars => [Lifecycle!Next]_status
  BY CalmInvStep DEF Moved
<1>3. Init => Lifecycle!Init BY DEF Init, Lifecycle!Init
<1> QED
  BY <1>1, <1>2, <1>3, CalmInvInit, TypeCorrect, PendingAlwaysClaimable, PTL
  DEF Spec, LifecycleSpec, Lifecycle!Spec
=============================================================================
