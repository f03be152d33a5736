------------------------- MODULE EventStream_proofs -------------------------
(***************************************************************************)
(* Proofs about EventStream, for every number of processes, clients and    *)
(* events, every size of the replay list and every budget of disturbances: *)
(* types, endings, and, in the last section, the order of the events that  *)
(* clients read.                                                           *)
(***************************************************************************)
EXTENDS EventStream, TLAPS, SequenceTheorems

USE ConstantsAssumption

LEMMA SetsFacts ==
    /\ Emitters = {"run", "listener"}
    /\ \A k \in Kinds : [seq |-> 0, kind |-> k] \in Events
BY DEF Emitters, Kinds, Events

LEMMA GroupsKept ==
    /\ RowOK /\ UNCHANGED <<status, cancelVars>> => RowOK'
    /\ RedisOK /\ UNCHANGED redisVars => RedisOK'
    /\ BrokersOK /\ UNCHANGED <<broker, orphaned>> => BrokersOK'
    /\ HoldersOK /\ UNCHANGED <<broker, orphaned, stage>> => HoldersOK'
    /\ RunOK /\ UNCHANGED runVars => RunOK'
    /\ ReadersOK /\ UNCHANGED readerVars => ReadersOK'
    /\ HistOK /\ UNCHANGED <<stamps, spent>> => HistOK'
BY DEF RowOK, RedisOK, BrokersOK, HoldersOK, RunOK, ReadersOK, HistOK, cancelVars,
       redisVars, runVars, readerVars, Iterating, Subscribed

\* An event that has been allocated an id is an event.
LEMMA BeginType ==
    ASSUME RunOK, NEW e \in Emitters, NEW k \in Kinds, Begin(e, k)
    PROVE  /\ at' \in [Emitters -> {"waiting", "graph", "finalize", "alloc", "push",
                            "publish", "over", "idle"}]
           /\ ev' \in [Emitters -> Events]
BY DEF RunOK, Begin, Kinds, Events

LEMMA CleanupType ==
    ASSUME RunOK, ReadersOK, BrokersOK, HoldersOK, Cleanup, UNCHANGED stage
    PROVE  BrokersOK' /\ HoldersOK'
<1>1. BrokersOK' BY DEF BrokersOK, Cleanup
<1>2. HoldersOK' BY DEF HoldersOK, BrokersOK, Cleanup, RunOK, Iterating, Subscribed
<1> QED BY <1>1, <1>2

LEMMA FinishType ==
    ASSUME BrokersOK, HoldersOK, NEW x, NEW p \in Procs, broker' = Finish(x, p),
           UNCHANGED <<orphaned, stage>>
    PROVE  BrokersOK' /\ HoldersOK'
BY DEF BrokersOK, HoldersOK, Finish, Iterating, Subscribed

LEMMA AfterPutType ==
    ASSUME RunOK, ReadersOK, BrokersOK, HoldersOK, NEW e \in Emitters, AfterPut(e),
           UNCHANGED <<home, outcome, emitted, stage>>
    PROVE  RunOK' /\ BrokersOK' /\ HoldersOK'
<1>1. CASE e = "listener"
  <2>1. RunOK' BY <1>1 DEF AfterPut, RunOK, Emitters
  <2>2. broker' = Finish(e, home) /\ UNCHANGED orphaned BY <1>1 DEF AfterPut
  <2> QED BY <2>1, <2>2, FinishType DEF RunOK
<1>2. CASE e = "run" /\ ev[e].kind = "data"
  <2>1. RunOK' BY <1>2 DEF AfterPut, RunOK, Emitters, IsEnd
  <2>2. UNCHANGED <<broker, orphaned>> BY <1>2 DEF AfterPut, IsEnd
  <2> QED BY <2>1, <2>2, GroupsKept
<1>3. CASE e = "run" /\ ev[e].kind = "error"
  <2>1. Begin(e, "end") /\ UNCHANGED <<broker, orphaned>>
    BY <1>3 DEF AfterPut, IsEnd
  <2>2. RunOK' BY <2>1, BeginType DEF RunOK, Kinds
  <2> QED BY <2>1, <2>2, GroupsKept
<1>4. CASE e = "run" /\ ev[e].kind = "end"
  <2>1. Cleanup /\ at' = [at EXCEPT ![e] = "over"] /\ UNCHANGED ev
    BY <1>4 DEF AfterPut, IsEnd
  <2>2. RunOK' BY <2>1 DEF RunOK
  <2> QED BY <2>1, <2>2, CleanupType
<1> QED BY <1>1, <1>2, <1>3, <1>4 DEF RunOK, Events, Kinds, Emitters

LEMMA ReplayType ==
    ASSUME RedisOK, NEW id \in Nat
    PROVE  ReplayAfter(id) \in Seq(Events)
<1>1. CASE \E i \in 1..Len(buffer) : buffer[i].seq = id
  <2> DEFINE i == CHOOSE i \in 1..Len(buffer) : buffer[i].seq = id
  <2>1. i \in 1..Len(buffer) BY <1>1
  <2>2. ReplayAfter(id) = SubSeq(buffer, i + 1, Len(buffer)) BY <1>1 DEF ReplayAfter
  <2> HIDE DEF i
  <2> QED BY <2>1, <2>2, SubSeqProperties DEF RedisOK
<1>2. CASE ~\E i \in 1..Len(buffer) : buffer[i].seq = id
  BY <1>2 DEF ReplayAfter, RedisOK
<1> QED BY <1>1, <1>2

LEMMA TrimmedType ==
    ASSUME NEW s \in Seq(Events) PROVE Trimmed(s) \in Seq(Events)
BY SubSeqProperties DEF Trimmed

LEMMA LastIdType ==
    ASSUME ReadersOK, NEW r \in Readers PROVE LastId(r) \in Nat
<1>1. got[r] \in Seq(Events) BY DEF ReadersOK
<1>2. CASE got[r] = <<>> BY <1>2 DEF LastId
<1>3. CASE got[r] # <<>>
  <2>1. got[r][Len(got[r])] \in Events BY <1>1, <1>3
  <2> QED BY <2>1, <1>3 DEF LastId, Events
<1> QED BY <1>2, <1>3

LEMMA DisturbType ==
    ASSUME HistOK, NEW f \in Faults, Disturb(f) PROVE spent' \in [Faults -> Nat]
BY DEF HistOK, Disturb

\* Every action keeps the types, and that who iterates has a broker.
LEMMA TypeStep == TypeOK /\ [Next]_vars => TypeOK'
<1> SUFFICES ASSUME TypeOK, [Next]_vars PROVE TypeOK'
  OBVIOUS
<1> USE DEF TypeOK
<1>1. ASSUME NEW p \in Procs, StartExecution(p) PROVE TypeOK'
  <2>1. RunOK' BY <1>1 DEF StartExecution, RunOK, Emitters
  <2> QED BY <2>1, <1>1, GroupsKept DEF StartExecution, readerVars
<1>2. ASSUME GraphEmits PROVE TypeOK'
  <2>1. RunOK' BY <1>2, BeginType, SetsFacts DEF GraphEmits, RunOK, Kinds
  <2> QED BY <2>1, <1>2, GroupsKept DEF GraphEmits, readerVars
<1>3. ASSUME NEW result \in {"success", "error"}, GraphEnds(result) PROVE TypeOK'
  <2>1. RunOK' BY <1>3 DEF GraphEnds, RunOK
  <2> QED BY <2>1, <1>3, GroupsKept DEF GraphEnds, readerVars
<1>4. ASSUME Finalize PROVE TypeOK'
  <2>1. RowOK' BY <1>4 DEF Finalize, RowOver, RowOK, cancelVars
  <2>2. RunOK' /\ BrokersOK' /\ HoldersOK'
    <3>1. CASE broker[home] = "finished" \/ (outcome = "success" /\ broker[home] = "none")
      <4>1. RunOK' BY <3>1, <1>4 DEF Finalize, RunOK
      <4>2. Cleanup /\ UNCHANGED stage BY <3>1, <1>4 DEF Finalize, readerVars
      <4> QED BY <4>1, <4>2, CleanupType
    <3>2. CASE ~(broker[home] = "finished" \/ (outcome = "success" /\ broker[home] = "none"))
      <4>1. Begin("run", IF outcome = "error" THEN "error" ELSE "end") BY <3>2, <1>4 DEF Finalize
      <4>2. RunOK' BY <4>1, <1>4, BeginType, SetsFacts DEF Finalize, RunOK, Kinds
      <4>3. BrokersOK' BY <3>2, <1>4 DEF Finalize, BrokersOK
      <4>4. HoldersOK' BY <3>2, <1>4 DEF Finalize, BrokersOK, HoldersOK, readerVars, Iterating, Subscribed
      <4> QED BY <4>2, <4>3, <4>4
    <3> QED BY <3>1, <3>2
  <2> QED BY <2>1, <2>2, <1>4, GroupsKept DEF Finalize
<1>5. ASSUME NEW e \in Emitters, Allocate(e) PROVE TypeOK'
  <2>1. RedisOK' /\ HistOK' BY <1>5 DEF Allocate, RedisOK, HistOK
  <2>2. RunOK' /\ BrokersOK' /\ HoldersOK'
    <3>1. CASE Finished(e)
      BY <3>1, <1>5, AfterPutType DEF Allocate, readerVars
    <3>2. CASE ~Finished(e)
      <4>1. NextSeq \in Nat BY DEF NextSeq, RedisOK, HistOK
      <4>2. RunOK' BY <3>2, <4>1, <1>5 DEF Allocate, RunOK, Events
      <4>3. BrokersOK' BY <3>2, <1>5 DEF Allocate, BrokersOK, Created
      <4>4. HoldersOK' BY <3>2, <1>5 DEF Allocate, BrokersOK, HoldersOK, Created, readerVars, Iterating, Subscribed
      <4> QED BY <4>2, <4>3, <4>4
    <3> QED BY <3>1, <3>2
  <2> QED BY <2>1, <2>2, <1>5, GroupsKept DEF Allocate
<1>6. ASSUME NEW e \in Emitters, Push(e) PROVE TypeOK'
  <2>1. RedisOK'
    <3>1. Append(buffer, ev[e]) \in Seq(Events) BY DEF RedisOK, RunOK
    <3>2. Trimmed(Append(buffer, ev[e])) \in Seq(Events) BY <3>1, TrimmedType
    <3>3. CASE redisUp BY <3>2, <3>3, <1>6 DEF Push, RedisOK
    <3>4. CASE ~redisUp BY <3>4, <1>6 DEF Push, RedisOK
    <3> QED BY <3>3, <3>4
  <2>2. RunOK' /\ BrokersOK' /\ HoldersOK'
    <3>1. CASE redisUp
      <4>1. RunOK' BY <3>1, <1>6 DEF Push, RunOK
      <4> QED BY <4>1, <3>1, <1>6, GroupsKept DEF Push, readerVars
    <3>2. CASE ~redisUp
      BY <3>2, <1>6, AfterPutType DEF Push, readerVars
    <3> QED BY <3>1, <3>2
  <2> QED BY <2>1, <2>2, <1>6, GroupsKept DEF Push
<1>7. ASSUME NEW e \in Emitters, Publish(e) PROVE TypeOK'
  <2>1. RunOK' /\ BrokersOK' /\ HoldersOK' BY <1>7, AfterPutType DEF Publish
  <2>2. \A r \in Readers : Append(inbox[r], ev[e]) \in Seq(Events) BY DEF ReadersOK, RunOK
  <2>3. ReadersOK' BY <2>2, <1>7 DEF Publish, ReadersOK
  <2> QED BY <2>1, <2>3, <1>7, GroupsKept DEF Publish
<1>8. ASSUME Interrupt PROVE TypeOK'
  <2>1. HistOK' BY <1>8, DisturbType DEF Interrupt, HistOK, Faults
  <2>2. RunOK' BY <1>8 DEF Interrupt, RunOK, Struck
  <2>3. BrokersOK' /\ HoldersOK'
    <3>1. CASE Interruptible BY <3>1, <1>8, GroupsKept DEF Interrupt, readerVars
    <3>2. CASE ~Interruptible BY <3>2, <1>8, CleanupType DEF Interrupt, readerVars
    <3> QED BY <3>1, <3>2
  <2> QED BY <2>1, <2>2, <2>3, <1>8, GroupsKept DEF Interrupt
<1>9. ASSUME RequestCancel PROVE TypeOK'
  <2>1. RowOK' BY <1>9 DEF RequestCancel, RowOK
  <2>2. HistOK' BY <1>9, DisturbType DEF RequestCancel, HistOK, Faults
  <2> QED BY <2>1, <2>2, <1>9, GroupsKept DEF RequestCancel, readerVars
<1>10. ASSUME PersistCancel PROVE TypeOK'
  <2>1. RowOK' BY <1>10 DEF PersistCancel, RowOver, RowOK
  <2> QED BY <2>1, <1>10, GroupsKept DEF PersistCancel, readerVars
<1>11. ASSUME HandleCancel PROVE TypeOK'
  <2>1. RowOK' BY <1>11 DEF HandleCancel, RowOK
  <2>2. RunOK' BY <1>11 DEF HandleCancel, RunOK, Struck, Emitters, Events, Kinds
  <2>3. BrokersOK' BY <1>11 DEF HandleCancel, BrokersOK, Created
  <2>4. HoldersOK' BY <1>11 DEF HandleCancel, HoldersOK, BrokersOK, RunOK, Created,
                           readerVars, Iterating, Subscribed, Emitters
  <2> QED BY <2>1, <2>2, <2>3, <2>4, <1>11, GroupsKept DEF HandleCancel
<1>12. ASSUME Outage PROVE TypeOK'
  <2>1. RowOK' BY <1>12 DEF Outage, RowOK
  <2>2. RedisOK' BY <1>12 DEF Outage, RedisOK
  <2>3. HistOK' BY <1>12, DisturbType DEF Outage, HistOK, Faults
  <2>4. ReadersOK' BY <1>12 DEF Outage, ReadersOK, Stages
  <2>5. HoldersOK' BY <1>12 DEF Outage, HoldersOK, Iterating, ReadersOK
  <2> QED BY <2>1, <2>2, <2>3, <2>4, <2>5, <1>12, GroupsKept DEF Outage
<1>13. ASSUME Recover PROVE TypeOK'
  <2>1. RedisOK' BY <1>13 DEF Recover, RedisOK
  <2> QED BY <2>1, <1>13, GroupsKept DEF Recover, readerVars
<1>14. ASSUME Crash PROVE TypeOK'
  <2>1. HistOK' /\ RowOK' BY <1>14, DisturbType DEF Crash, HistOK, RowOK, Faults
  <2>2. ReadersOK' BY <1>14 DEF Crash, ReadersOK, Stages
  <2>3. RunOK' BY <1>14 DEF Crash, RunOK
  <2>4. BrokersOK' BY <1>14 DEF Crash, BrokersOK
  <2>5. HoldersOK'
    <3> SUFFICES ASSUME NEW r \in Readers, stage'[r] \in Iterating
                 PROVE  broker'[ProcOf[r]] # "none" \/ r \in orphaned'
      BY DEF HoldersOK, Iterating, Subscribed
    <3>1. ProcOf[r] # home
      BY <1>14 DEF Crash, ReadersOK, Iterating, Subscribed, Connected
    <3>2. stage'[r] = stage[r] BY <3>1, <1>14 DEF Crash, ReadersOK
    <3>3. broker[ProcOf[r]] # "none" \/ r \in orphaned BY <3>2 DEF HoldersOK
    <3>4. r # "listener" BY DEF Emitters
    <3> QED BY <3>1, <3>3, <3>4, <1>14 DEF Crash, BrokersOK
  <2> QED BY <2>1, <2>2, <2>3, <2>4, <2>5, <1>14, GroupsKept DEF Crash
<1>15. ASSUME GiveUp PROVE TypeOK'
  <2>1. RowOK' BY <1>15 DEF GiveUp, RowOK, cancelVars
  <2>2. RunOK' BY <1>15 DEF GiveUp, RunOK
  <2> QED BY <2>1, <2>2, <1>15, GroupsKept DEF GiveUp, readerVars
<1>16. ASSUME Expire PROVE TypeOK'
  <2>1. RedisOK' BY <1>16 DEF Expire, RedisOK
  <2>2. HistOK' BY <1>16, DisturbType DEF Expire, HistOK, Faults
  <2> QED BY <2>1, <2>2, <1>16, GroupsKept DEF Expire, readerVars
<1>17. ASSUME NEW r \in Readers, Connect(r) PROVE TypeOK'
  <2>1. LastId(r) \in Nat BY LastIdType
  <2>2. <<[seq |-> 0, kind |-> "end"]>> \in Seq(Events) BY DEF Events, Kinds
  <2>3. ReadersOK'
    <3>1. got' \in [Readers -> Seq(Events)] BY <2>2, <1>17 DEF Connect, ReadersOK
    <3>2. stage' \in [Readers -> Stages] BY <1>17 DEF Connect, ReadersOK, Stages
    <3>3. lastSent' \in [Readers -> Nat] BY <2>1, <1>17 DEF Connect, ReadersOK
    <3> QED BY <3>1, <3>2, <3>3, <1>17 DEF Connect, ReadersOK, RowOK
  <2>4. HoldersOK' BY <1>17 DEF Connect, HoldersOK, Iterating, Subscribed, ReadersOK
  <2> QED BY <2>3, <2>4, <1>17, GroupsKept DEF Connect
<1>18. ASSUME NEW r \in Readers, Replay(r) PROVE TypeOK'
  <2>1. LastId(r) \in Nat BY LastIdType
  <2>2. ReplayAfter(LastId(r)) \in Seq(Events) BY <2>1, ReplayType
  <2>3. ReadersOK' BY <2>2, <1>18 DEF Replay, ReadersOK, Stages
  <2>4. BrokersOK' BY <1>18 DEF Replay, BrokersOK, Created
  <2>5. HoldersOK' BY <1>18 DEF Replay, HoldersOK, BrokersOK, Created, Iterating, Subscribed, ReadersOK
  <2> QED BY <2>3, <2>4, <2>5, <1>18, GroupsKept DEF Replay
<1>19. ASSUME NEW r \in Readers, SendReplayed(r) PROVE TypeOK'
  <2>1. inbox[r] \in Seq(Events) /\ inbox[r] # <<>> BY <1>19 DEF SendReplayed, ReadersOK
  <2>2. Head(inbox[r]) \in Events /\ Tail(inbox[r]) \in Seq(Events) BY <2>1
  <2>3. Head(inbox[r]).seq \in Nat BY <2>2 DEF Events
  <2>4. Append(got[r], Head(inbox[r])) \in Seq(Events) BY <2>2 DEF ReadersOK
  <2>5. ReadersOK' BY <2>2, <2>3, <2>4, <1>19 DEF SendReplayed, ReadersOK
  <2> QED BY <2>5, <1>19, GroupsKept DEF SendReplayed
<1>20. ASSUME NEW r \in Readers, StartLive(r) PROVE TypeOK'
  <2>1. ReadersOK' BY <1>20 DEF StartLive, ReadersOK, Stages
  <2>2. BrokersOK' BY <1>20 DEF StartLive, BrokersOK, Created
  <2>3. HoldersOK' BY <1>20 DEF StartLive, HoldersOK, BrokersOK, Created, Iterating, Subscribed, ReadersOK
  <2> QED BY <2>1, <2>2, <2>3, <1>20, GroupsKept DEF StartLive
<1>21. ASSUME NEW r \in Readers, Subscribe(r) PROVE TypeOK'
  <2>1. ReadersOK' BY <1>21 DEF Subscribe, ReadersOK, Stages
  <2>2. HoldersOK' BY <1>21 DEF Subscribe, HoldersOK, Iterating, Subscribed, ReadersOK
  <2> QED BY <2>1, <2>2, <1>21, GroupsKept DEF Subscribe
<1>22. ASSUME NEW r \in Readers, CheckEnd(r) PROVE TypeOK'
  <2>1. ReadersOK' BY <1>22 DEF CheckEnd, ReadersOK, Stages, EndInBuffer, IsEnd
  <2>2. BrokersOK' BY <1>22 DEF CheckEnd, BrokersOK, Finish
  <2>3. HoldersOK' BY <1>22 DEF CheckEnd, HoldersOK, BrokersOK, Finish, Iterating, Subscribed, ReadersOK
  <2> QED BY <2>1, <2>2, <2>3, <1>22, GroupsKept DEF CheckEnd
<1>23. ASSUME NEW r \in Readers, Receive(r) PROVE TypeOK'
  <2>1. inbox[r] \in Seq(Events) /\ inbox[r] # <<>> BY <1>23 DEF Receive, ReadersOK
  <2>2. Head(inbox[r]) \in Events /\ Tail(inbox[r]) \in Seq(Events) BY <2>1
  <2>3. Head(inbox[r]).seq \in Nat BY <2>2 DEF Events
  <2>4. Append(got[r], Head(inbox[r])) \in Seq(Events) BY <2>2 DEF ReadersOK
  <2>5. ReadersOK'
    <3>1. got' \in [Readers -> Seq(Events)]
      <4>1. got' \in {got, [got EXCEPT ![r] = Append(got[r], Head(inbox[r]))]}
        BY <1>23 DEF Receive
      <4>2. got \in [Readers -> Seq(Events)] BY DEF ReadersOK
      <4> QED BY ONLY <4>1, <4>2, <2>4, r \in Readers
    <3>2. lastSent' \in [Readers -> Nat] BY <2>3, <1>23 DEF Receive, ReadersOK
    <3>3. inbox' \in [Readers -> Seq(Events)]
      <4>1. <<>> \in Seq(Events) OBVIOUS
      <4> QED BY <2>2, <4>1, <1>23 DEF Receive, ReadersOK
    <3>4. stage' \in [Readers -> Stages]
      <4>1. CASE IsEnd(Head(inbox[r]))
        <5>1. stage' = [stage EXCEPT ![r] = "closed"] BY <4>1, <1>23 DEF Receive
        <5> QED BY <5>1 DEF ReadersOK, Stages
      <4>2. CASE ~IsEnd(Head(inbox[r])) BY <4>2, <1>23 DEF Receive, ReadersOK
      <4> QED BY <4>1, <4>2
    <3> QED BY <3>1, <3>2, <3>3, <3>4, <1>23 DEF Receive, ReadersOK
  <2>6. BrokersOK' BY <1>23 DEF Receive, BrokersOK, Finish
  <2>7. HoldersOK'
    <3>1. CASE IsEnd(Head(inbox[r]))
      <4>1. stage' = [stage EXCEPT ![r] = "closed"] /\ broker' = Finish(r, ProcOf[r])
        BY <3>1, <1>23 DEF Receive
      <4>2. orphaned' = orphaned BY <1>23 DEF Receive
      <4> QED BY <4>1, <4>2 DEF HoldersOK, BrokersOK, Finish, Iterating, Subscribed, ReadersOK
    <3>2. CASE ~IsEnd(Head(inbox[r]))
      <4>1. UNCHANGED <<broker, orphaned, stage>> BY <3>2, <1>23 DEF Receive
      <4> QED BY <4>1, GroupsKept
    <3> QED BY <3>1, <3>2
  <2> QED BY <2>5, <2>6, <2>7, <1>23, GroupsKept DEF Receive
<1>24. ASSUME NEW r \in Readers, LeaveQuiet(r) PROVE TypeOK'
  <2>1. ReadersOK' BY <1>24 DEF LeaveQuiet, ReadersOK, Stages
  <2>2. HoldersOK' BY <1>24 DEF LeaveQuiet, HoldersOK, Iterating, Subscribed, ReadersOK
  <2> QED BY <2>1, <2>2, <1>24, GroupsKept DEF LeaveQuiet
<1>25. ASSUME NEW r \in Readers, Retry(r) PROVE TypeOK'
  <2>1. ReadersOK' BY <1>25 DEF Retry, ReadersOK, Stages
  <2>2. HoldersOK' BY <1>25 DEF Retry, HoldersOK, Iterating, Subscribed, ReadersOK
  <2> QED BY <2>1, <2>2, <1>25, GroupsKept DEF Retry
<1>26. ASSUME NEW r \in Readers, Disconnect(r) PROVE TypeOK'
  <2>1. ReadersOK' BY <1>26 DEF Disconnect, ReadersOK, Stages
  <2>2. HoldersOK' BY <1>26 DEF Disconnect, HoldersOK, Iterating, Subscribed, ReadersOK
  <2> QED BY <2>1, <2>2, <1>26, GroupsKept DEF Disconnect
<1>27. CASE UNCHANGED vars BY <1>27, GroupsKept DEF vars, readerVars
<1> QED BY <1>1, <1>2, <1>3, <1>4, <1>5, <1>6, <1>7, <1>8, <1>9, <1>10, <1>11,
         <1>12, <1>13, <1>14, <1>15, <1>16, <1>17, <1>18, <1>19, <1>20, <1>21,
         <1>22, <1>23, <1>24, <1>25, <1>26, <1>27
     DEF Next, Emit, Read

LEMMA TypeInit == Init => TypeOK
<1> SUFFICES ASSUME Init PROVE TypeOK
  OBVIOUS
<1>1. RowOK /\ BrokersOK /\ HistOK BY DEF Init, RowOK, BrokersOK, HistOK
<1>2. NoEvent \in Events BY DEF NoEvent, Events, Kinds
<1>3. RunOK BY <1>2 DEF Init, RunOK, Emitters
<1>4. <<>> \in Seq(Events) OBVIOUS
<1>5. ReadersOK /\ RedisOK BY <1>4 DEF Init, ReadersOK, RedisOK, Stages
<1>6. HoldersOK BY DEF Init, HoldersOK, Iterating, Subscribed
<1> QED BY <1>1, <1>3, <1>5, <1>6 DEF TypeOK

\* Every variable keeps its type, and a generator that iterates over a broker
\* has one that is registered in its process or finished: nobody waits on an
\* object that was dropped unfinished from _brokers.
THEOREM TypeCorrect == Spec => []TypeOK
BY TypeInit, TypeStep, PTL DEF Spec
-----------------------------------------------------------------------------
(* The end of an uncancelled run.  Nobody but the execution can send an end *)
(* mark then, and it does so after the commit that makes the row final; so  *)
(* while the row is active there is no end mark anywhere on its way.        *)

NoEnds(s) == \A i \in 1..Len(s) : ~IsEnd(s[i])

ListenerQuiet == cancelReq = "none" => ~cancelMsg /\ at["listener"] = "idle"

NoEndYet ==
    cancelReq = "none" /\ status = "active" =>
        /\ Emitting("run") => ev["run"].kind = "data"
        /\ NoEnds(buffer)
        /\ \A r \in Readers : NoEnds(inbox[r]) /\ NoEnds(got[r])

EndInv == TypeOK /\ ListenerQuiet /\ NoEndYet

LEMMA NoEndsAppend ==
    ASSUME NEW s \in Seq(Events), NEW e \in Events, NoEnds(s), ~IsEnd(e)
    PROVE  NoEnds(Append(s, e))
BY DEF NoEnds

LEMMA NoEndsSub ==
    ASSUME NEW s \in Seq(Events), NoEnds(s), NEW m \in 1..Len(s)+1
    PROVE  NoEnds(SubSeq(s, m, Len(s)))
<1> DEFINE t == SubSeq(s, m, Len(s))
<1>1. /\ Len(t) = Len(s) - m + 1
      /\ \A i \in 1..Len(s) - m + 1 : t[i] = s[m + i - 1]
  BY SubSeqProperties
<1> HIDE DEF t
<1>2. NoEnds(t) BY <1>1 DEF NoEnds
<1> QED BY <1>2 DEF t

LEMMA NoEndsTail ==
    ASSUME NEW s \in Seq(Events), NoEnds(s), s # <<>>
    PROVE  NoEnds(Tail(s)) /\ ~IsEnd(Head(s))
BY DEF NoEnds

LEMMA NoEndsTrimmed ==
    ASSUME NEW s \in Seq(Events), NoEnds(s) PROVE NoEnds(Trimmed(s))
BY NoEndsSub DEF Trimmed

LEMMA NoEndsReplay ==
    ASSUME RedisOK, NoEnds(buffer), NEW id \in Nat PROVE NoEnds(ReplayAfter(id))
<1>1. CASE \E i \in 1..Len(buffer) : buffer[i].seq = id
  <2> DEFINE i == CHOOSE i \in 1..Len(buffer) : buffer[i].seq = id
  <2>1. i \in 1..Len(buffer) BY <1>1
  <2>2. ReplayAfter(id) = SubSeq(buffer, i + 1, Len(buffer)) BY <1>1 DEF ReplayAfter
  <2> HIDE DEF i
  <2>3. buffer \in Seq(Events) /\ i + 1 \in 1..Len(buffer) + 1 BY <2>1 DEF RedisOK
  <2> QED BY <2>2, <2>3, NoEndsSub
<1>2. CASE ~\E i \in 1..Len(buffer) : buffer[i].seq = id
  BY <1>2 DEF ReplayAfter
<1> QED BY <1>1, <1>2

\* A request for cancellation is never taken back and a final row never
\* becomes active again, so what was not the case before was not either.
LEMMA StatusKept ==
    ASSUME TypeOK, [Next]_vars
    PROVE  /\ cancelReq' = "none" => cancelReq = "none"
           /\ status' = "active" => status = "active"
BY DEF Next, Emit, Read, vars, cancelVars, StartExecution, GraphEmits, GraphEnds,
       Finalize, RowOver, Allocate, Push, Publish, Interrupt, RequestCancel,
       PersistCancel, HandleCancel, Outage, Recover, Crash, GiveUp, Expire, Connect,
       Replay, SendReplayed, StartLive, Subscribe, CheckEnd, Receive, LeaveQuiet, Retry,
       Disconnect

\* Without a request there is no message, and without a message the listener
\* stays idle.
LEMMA QuietStep ==
    ASSUME TypeOK, ListenerQuiet, [Next]_vars PROVE ListenerQuiet'
<1> SUFFICES ASSUME cancelReq' = "none" PROVE ~cancelMsg' /\ at'["listener"] = "idle"
  BY DEF ListenerQuiet
<1>1. cancelReq = "none" /\ ~cancelMsg /\ at["listener"] = "idle"
  BY StatusKept DEF ListenerQuiet
<1>2. DOMAIN at = Emitters /\ "listener" \in Emitters /\ "run" \in Emitters
  BY DEF TypeOK, RunOK, Emitters
<1>3. ASSUME NEW e \in Emitters, Allocate(e) \/ Push(e) \/ Publish(e)
      PROVE  ~cancelMsg' /\ at'["listener"] = "idle"
  <2>1. e = "run" BY <1>1, <1>3 DEF Allocate, Push, Publish, Emitters
  <2> QED BY <2>1, <1>1, <1>2, <1>3 DEF Allocate, Push, Publish, AfterPut, Begin, cancelVars
<1>4. ASSUME RequestCancel \/ PersistCancel \/ HandleCancel
      PROVE  ~cancelMsg' /\ at'["listener"] = "idle"
  BY <1>1, <1>4 DEF RequestCancel, PersistCancel, HandleCancel
<1>5. ASSUME \/ \E p \in Procs : StartExecution(p)
             \/ GraphEmits \/ Finalize \/ Interrupt \/ Outage \/ Recover \/ GiveUp \/ Expire
             \/ \E result \in {"success", "error"} : GraphEnds(result)
      PROVE  ~cancelMsg' /\ at'["listener"] = "idle"
  BY <1>1, <1>2, <1>5 DEF StartExecution, GraphEmits, Finalize, Interrupt, Outage, Recover,
         GiveUp, Expire, GraphEnds, Begin, cancelVars, runVars
<1>6. ASSUME NEW r \in Readers, Connect(r) \/ Read(r) \/ Disconnect(r)
      PROVE  ~cancelMsg' /\ at'["listener"] = "idle"
  BY <1>1, <1>6 DEF Connect, Read, Disconnect, Replay, SendReplayed, StartLive, Subscribe,
         CheckEnd, Receive, LeaveQuiet, Retry, cancelVars, runVars
<1>7. ASSUME Crash PROVE ~cancelMsg' /\ at'["listener"] = "idle"
  <2>1. cancelMsg' \in {FALSE, cancelMsg} /\ at'["listener"] = "idle"
    BY <1>2, <1>7 DEF Crash
  <2>2. cancelMsg = FALSE BY <1>1 DEF TypeOK, RowOK
  <2>3. cancelMsg' = FALSE BY <2>1, <2>2
  <2> QED BY <2>1, <2>3
<1>8. CASE UNCHANGED vars BY <1>1, <1>8 DEF vars, cancelVars, runVars
<1> QED BY <1>3, <1>4, <1>5, <1>6, <1>7, <1>8 DEF Next, Emit

\* While the row is active, no step produces an end mark or forwards one.
LEMMA NoEndStep ==
    ASSUME EndInv, [Next]_vars PROVE NoEndYet'
<1> DEFINE Goal == /\ Emitting("run")' => ev'["run"].kind = "data"
                   /\ NoEnds(buffer')
                   /\ \A r \in Readers : NoEnds(inbox'[r]) /\ NoEnds(got'[r])
<1> SUFFICES ASSUME cancelReq' = "none", status' = "active" PROVE Goal
  BY DEF NoEndYet, NoEnds, IsEnd
<1>1. cancelReq = "none" /\ status = "active" BY StatusKept DEF EndInv
<1>2. /\ Emitting("run") => ev["run"].kind = "data"
      /\ NoEnds(buffer)
      /\ \A r \in Readers : NoEnds(inbox[r]) /\ NoEnds(got[r])
      /\ ~cancelMsg /\ at["listener"] = "idle"
  BY <1>1 DEF EndInv, NoEndYet, ListenerQuiet
<1>3. RowOK /\ RedisOK /\ RunOK /\ ReadersOK BY DEF EndInv, TypeOK
<1>4. "run" \in Emitters /\ "listener" \in Emitters BY DEF Emitters
<1>5. ASSUME UNCHANGED <<redisVars, readerVars, at, ev>> PROVE Goal
  BY <1>2, <1>5 DEF redisVars, readerVars, Emitting
<1>6. ASSUME NEW e \in Emitters, Allocate(e) \/ Push(e) \/ Publish(e) PROVE Goal
  <2>1. e = "run" BY <1>2, <1>6 DEF Allocate, Push, Publish, Emitters
  <2>2. ev["run"].kind = "data" BY <1>2, <1>6, <2>1 DEF Allocate, Push, Publish, Emitting
  <2>3. ev["run"] \in Events /\ ~IsEnd(ev["run"]) BY <2>2, <1>3, <1>4 DEF RunOK, IsEnd
  <2>4. ev'["run"].kind = "data"
    BY <2>1, <2>2, <1>3, <1>4, <1>6 DEF Allocate, Push, Publish, AfterPut, IsEnd, RunOK, Events
  <2>5. NoEnds(buffer')
    <3>1. CASE Push(e) /\ redisUp
      <4>1. buffer' = Trimmed(Append(buffer, ev["run"])) BY <2>1, <3>1 DEF Push
      <4>2. Append(buffer, ev["run"]) \in Seq(Events) /\ NoEnds(Append(buffer, ev["run"]))
        BY <1>2, <1>3, <2>3, NoEndsAppend DEF RedisOK
      <4> QED BY <4>1, <4>2, NoEndsTrimmed
    <3>2. CASE ~(Push(e) /\ redisUp)
      <4>1. buffer' = buffer BY <3>2, <1>6 DEF Allocate, Push, Publish, redisVars
      <4> QED BY <4>1, <1>2
    <3> QED BY <3>1, <3>2
  <2>6. ASSUME NEW r \in Readers PROVE NoEnds(inbox'[r]) /\ NoEnds(got'[r])
    <3>1. got' = got BY <1>6 DEF Allocate, Push, Publish, readerVars
    <3>2. inbox'[r] = inbox[r] \/ inbox'[r] = Append(inbox[r], ev["run"])
      BY <2>1, <1>6 DEF Allocate, Push, Publish, readerVars
    <3>3. NoEnds(Append(inbox[r], ev["run"]))
      BY <1>2, <1>3, <2>3, NoEndsAppend DEF ReadersOK
    <3> QED BY <3>1, <3>2, <3>3, <1>2
  <2> QED BY <2>4, <2>5, <2>6
<1>7. ASSUME NEW p \in Procs, StartExecution(p) PROVE Goal
  BY <1>2, <1>3, <1>4, <1>7 DEF StartExecution, RunOK, Emitting, redisVars, readerVars
<1>8. ASSUME GraphEmits PROVE Goal
  BY <1>2, <1>3, <1>4, <1>8 DEF GraphEmits, Begin, RunOK, Emitting, redisVars, readerVars
<1>9. ASSUME NEW result \in {"success", "error"}, GraphEnds(result) PROVE Goal
  BY <1>2, <1>3, <1>4, <1>9 DEF GraphEnds, RunOK, Emitting, redisVars, readerVars
<1>10. ASSUME Interrupt PROVE Goal
  BY <1>2, <1>3, <1>4, <1>10 DEF Interrupt, Struck, RunOK, Emitting, redisVars, readerVars
<1>11. ASSUME Finalize \/ RequestCancel \/ PersistCancel \/ HandleCancel \/ GiveUp PROVE Goal
  BY <1>2, <1>11 DEF Finalize, RowOver, RequestCancel, PersistCancel, HandleCancel, GiveUp
<1>12. ASSUME Outage \/ Crash PROVE Goal
  <2>1. NoEnds(buffer') /\ got' = got BY <1>2, <1>12 DEF Outage, Crash, redisVars
  <2>2. ASSUME NEW r \in Readers PROVE NoEnds(inbox'[r])
    <3>1. inbox'[r] = inbox[r] \/ inbox'[r] = <<>> BY <1>12 DEF Outage, Crash
    <3>2. NoEnds(<<>>) BY DEF NoEnds
    <3> QED BY <3>1, <3>2, <1>2
  <2>3. Emitting("run")' => ev'["run"].kind = "data"
    BY <1>2, <1>3, <1>4, <1>12 DEF Outage, Crash, RunOK, Emitting, runVars
  <2> QED BY <2>1, <2>2, <2>3, <1>2
<1>13. ASSUME Recover PROVE Goal
  BY <1>2, <1>13 DEF Recover, runVars, readerVars, Emitting
<1>14. ASSUME Expire PROVE Goal
  <2>1. buffer' = <<>> /\ UNCHANGED <<at, ev, inbox, got>>
    BY <1>14 DEF Expire, runVars, readerVars
  <2>2. NoEnds(<<>>) BY DEF NoEnds
  <2> QED BY <2>1, <2>2, <1>2 DEF Emitting
<1>15. ASSUME NEW r \in Readers, Connect(r) \/ Read(r) \/ Disconnect(r) PROVE Goal
  <2>1. UNCHANGED <<at, ev, buffer>>
    BY <1>15 DEF Connect, Read, Disconnect, Replay, SendReplayed, StartLive, Subscribe,
           CheckEnd, Receive, LeaveQuiet, Retry, runVars, redisVars
  <2>2. inbox[r] \in Seq(Events) /\ got[r] \in Seq(Events) BY <1>3 DEF ReadersOK
  <2>3. NoEnds(<<>>) BY DEF NoEnds
  <2>4. inbox[r] # <<>> => /\ NoEnds(Tail(inbox[r]))
                           /\ NoEnds(Append(got[r], Head(inbox[r])))
    <3> SUFFICES ASSUME inbox[r] # <<>>
                 PROVE  NoEnds(Tail(inbox[r])) /\ NoEnds(Append(got[r], Head(inbox[r])))
      OBVIOUS
    <3>1. Head(inbox[r]) \in Events BY <2>2
    <3>2. NoEnds(Tail(inbox[r])) /\ ~IsEnd(Head(inbox[r])) BY <2>2, <1>2, NoEndsTail
    <3> QED BY <3>1, <3>2, <2>2, <1>2, NoEndsAppend
  <2>5. LastId(r) \in Nat /\ NoEnds(ReplayAfter(LastId(r)))
    BY <1>2, <1>3, LastIdType, NoEndsReplay
  <2>6. ASSUME NEW q \in Readers PROVE NoEnds(inbox'[q]) /\ NoEnds(got'[q])
    <3>1. CASE q # r
      <4>1. inbox'[q] = inbox[q] /\ got'[q] = got[q]
        BY <3>1, <1>3, <1>15 DEF Connect, Read, Disconnect, Replay, SendReplayed, StartLive,
           Subscribe, CheckEnd, Receive, LeaveQuiet, Retry, ReadersOK
      <4> QED BY <4>1, <1>2
    <3>2. CASE q = r
      <4>1. \/ inbox'[r] \in {inbox[r], <<>>} /\ got'[r] = got[r]
            \/ inbox[r] # <<>> /\ inbox'[r] = Tail(inbox[r])
               /\ got'[r] \in {got[r], Append(got[r], Head(inbox[r]))}
            \/ inbox'[r] = ReplayAfter(LastId(r)) /\ got'[r] = got[r]
        <5>1. CASE Connect(r) BY <5>1, <1>1, <1>3 DEF Connect, ReadersOK
        <5>2. CASE Replay(r) BY <5>2, <1>3 DEF Replay, ReadersOK
        <5>3. CASE SendReplayed(r) BY <5>3, <1>3 DEF SendReplayed, ReadersOK
        <5>4. CASE Receive(r)
          <6>1. ~IsEnd(Head(inbox[r])) BY <5>4, <2>2, <1>2, NoEndsTail DEF Receive
          <6> QED BY <6>1, <5>4, <1>3 DEF Receive, ReadersOK
        <5>5. CASE StartLive(r) \/ Subscribe(r) \/ CheckEnd(r) \/ LeaveQuiet(r) \/ Retry(r)
                   \/ Disconnect(r)
          BY <5>5, <1>3 DEF StartLive, Subscribe, CheckEnd, LeaveQuiet, Retry, Disconnect,
                 ReadersOK
        <5> QED BY <5>1, <5>2, <5>3, <5>4, <5>5, <1>15 DEF Read
      <4> QED BY <4>1, <3>2, <2>3, <2>4, <2>5, <1>2
    <3> QED BY <3>1, <3>2
  <2> QED BY <2>1, <2>6, <1>2 DEF Emitting
<1>16. CASE UNCHANGED vars BY <1>16, <1>5 DEF vars, runVars
<1> QED BY <1>6, <1>7, <1>8, <1>9, <1>10, <1>11, <1>12, <1>13, <1>14, <1>15,
          <1>16 DEF Next, Emit

LEMMA EndInvStep == EndInv /\ [Next]_vars => EndInv'
BY TypeStep, QuietStep, NoEndStep DEF EndInv

\* A client that is told the end of an uncancelled run finds its final status
\* in the database, whatever crashes, outages and interruptions happen.
THEOREM EndAlwaysMeansOver == Spec => []EndMeansOver
<1>1. Init => EndInv
  <2> SUFFICES ASSUME Init PROVE EndInv
    OBVIOUS
  <2>1. TypeOK BY TypeInit
  <2>2. ListenerQuiet BY DEF Init, ListenerQuiet, Emitters
  <2>3. NoEnds(<<>>) BY DEF NoEnds
  <2>4. NoEndYet BY <2>3 DEF Init, NoEndYet, Emitting, Emitters
  <2> QED BY <2>1, <2>2, <2>4 DEF EndInv
<1>2. EndInv => EndMeansOver
  <2> SUFFICES ASSUME EndInv, cancelReq = "none", NEW r \in Readers, HasEnd(got[r])
               PROVE  status = "over"
    BY DEF EndMeansOver
  <2>1. ~NoEnds(got[r]) BY DEF HasEnd, NoEnds
  <2>2. status # "active" BY <2>1 DEF EndInv, NoEndYet
  <2> QED BY <2>2 DEF EndInv, TypeOK, RowOK
<1> QED BY <1>1, <1>2, EndInvStep, PTL DEF Spec
-----------------------------------------------------------------------------
(* The order of events.  While every id comes from the counter of the run,  *)
(* an id names one event, the replay list holds the data events in the      *)
(* order of their ids, and the execution emits its next event only when the *)
(* last one has gone out.                                                   *)

Sequenced == stamps + spent["expiry"] = 0

EventsIn(s) == {s[i] : i \in 1..Len(s)}
Data(E) == {e \in E : ~IsEnd(e)}
Ordered(s) ==
    \A i, j \in 1..Len(s) : i < j /\ ~IsEnd(s[i]) /\ ~IsEnd(s[j]) => s[i].seq < s[j].seq

\* An event has its id from `alloc` on.
InFlight(e) == at[e] \in {"push", "publish"}
Held(r) == EventsIn(got[r]) \cup EventsIn(inbox[r])
Known ==
    EventsIn(buffer) \cup {ev[e] : e \in {x \in Emitters : InFlight(x)}}
        \cup UNION {Held(r) : r \in Readers}

\* What a finished run answers to a first request.
BareEnd == [seq |-> 0, kind |-> "end"]

\* The listener has only an end to emit, and whoever it cancelled emits no
\* more data.
Exclusive ==
    at["listener"] # "idle" =>
        /\ IsEnd(ev["listener"])
        /\ \/ at["run"] = "over"
           \/ at["run"] = "finalize" /\ outcome = "cancelled"
           \/ Emitting("run") /\ IsEnd(ev["run"])

\* Ids come from the counter, and name one event each.
Numbered ==
    /\ \A e \in Known : e.seq <= counter /\ (e.seq = 0 => e = BareEnd)
    /\ \A e, f \in Known : e.seq = f.seq => e = f

\* The data event that the execution is emitting is the newest, and has been
\* published to nobody.
Fresh ==
    InFlight("run") /\ ~IsEnd(ev["run"]) =>
        /\ \A f \in Known : f.seq <= ev["run"].seq
        /\ at["run"] = "push" =>
              /\ ev["run"] \notin EventsIn(buffer)
              /\ \A r \in Readers : ev["run"] \notin Held(r)
        /\ \A r \in Readers : stage[r] \in Subscribed => ev["run"] \notin EventsIn(inbox[r])

\* The replay list is in order, and what is no longer in it is older than
\* what is.
InListOrOlder(e, list) ==
    e \in EventsIn(list) \/ \A f \in Data(EventsIn(list)) : e.seq < f.seq
Kept ==
    /\ Ordered(buffer)
    /\ \A r \in Readers : \A e \in Data(Held(r)) : InListOrOlder(e, buffer)
    /\ at["run"] = "publish" /\ ~IsEnd(ev["run"]) => InListOrOlder(ev["run"], buffer)

\* What a client has been sent is in order and no newer than lastSent; what it
\* replays is newer; what it hears live and would skip has been sent.
ClientAt(st, todo, sent, last) ==
    /\ st = "opened" =>
          NoEnds(sent) /\ last = IF sent = <<>> THEN 0 ELSE sent[Len(sent)].seq
    /\ st \in {"iterate", "backoff"} => todo = <<>>
    /\ Ordered(sent)
    /\ st \notin {"away", "closed"} =>
          /\ \A e \in Data(EventsIn(sent)) : e.seq <= last
          /\ last = 0 \/ \E e \in EventsIn(sent) : e.seq = last
    /\ st \in {"replaying"} \cup Subscribed => Ordered(todo)
    /\ st = "replaying" =>
          \A e \in Data(EventsIn(sent)), f \in Data(EventsIn(todo)) : e.seq < f.seq
    /\ st \in Subscribed =>
          \A e \in Data(EventsIn(todo)) : e.seq <= last => e \in EventsIn(sent)
Client(r) == ClientAt(stage[r], inbox[r], got[r], lastSent[r])

InStep == Numbered /\ Fresh /\ Kept /\ \A r \in Readers : Client(r)

StreamInv == Exclusive /\ (Sequenced => InStep)

\* Lemmas about sequences of events.
LEMMA InAppend ==
    ASSUME NEW s \in Seq(Events), NEW e \in Events
    PROVE  EventsIn(Append(s, e)) = EventsIn(s) \cup {e}
<1> DEFINE t == Append(s, e)
<1>1. /\ Len(s) \in Nat /\ Len(t) = Len(s) + 1
      /\ t[Len(s) + 1] = e /\ \A i \in 1..Len(s) : t[i] = s[i]
  OBVIOUS
<1> HIDE DEF t
<1>2. ASSUME NEW x PROVE x \in EventsIn(t) <=> x \in EventsIn(s) \cup {e}
  <2>1. CASE x \in EventsIn(t)
    <3>1. PICK i \in 1..Len(t) : x = t[i] BY <2>1 DEF EventsIn
    <3>2. i \in 1..Len(s) \/ i = Len(s) + 1 BY <1>1
    <3> QED BY <1>1, <3>1, <3>2 DEF EventsIn
  <2>2. CASE x \in EventsIn(s)
    <3>1. PICK i \in 1..Len(s) : x = s[i] BY <2>2 DEF EventsIn
    <3>2. i \in 1..Len(t) /\ x = t[i] BY <1>1, <3>1
    <3>3. x \in EventsIn(t) BY <3>2 DEF EventsIn
    <3> QED BY <2>2, <3>3
  <2>3. CASE x = e
    <3>1. Len(s) + 1 \in 1..Len(t) BY <1>1
    <3> QED BY <1>1, <2>3, <3>1 DEF EventsIn
  <2> QED BY <2>1, <2>2, <2>3
<1> QED BY <1>2 DEF t

LEMMA OrderedAppend ==
    ASSUME NEW s \in Seq(Events), NEW e \in Events, Ordered(s),
           ~IsEnd(e) => \A f \in Data(EventsIn(s)) : f.seq < e.seq
    PROVE  Ordered(Append(s, e))
<1> DEFINE t == Append(s, e)
<1>1. /\ Len(s) \in Nat /\ Len(t) = Len(s) + 1
      /\ t[Len(s) + 1] = e /\ \A i \in 1..Len(s) : t[i] = s[i]
  OBVIOUS
<1> HIDE DEF t
<1>2. ASSUME NEW i \in 1..Len(t), NEW j \in 1..Len(t), i < j, ~IsEnd(t[i]), ~IsEnd(t[j])
      PROVE  t[i].seq < t[j].seq
  <2>1. i \in 1..Len(s) BY <1>1, <1>2
  <2>2. CASE j \in 1..Len(s) BY <1>1, <1>2, <2>1, <2>2 DEF Ordered
  <2>3. CASE j = Len(s) + 1
    <3>1. s[i] \in Data(EventsIn(s)) BY <1>1, <1>2, <2>1 DEF Data, EventsIn
    <3> QED BY <1>1, <1>2, <2>1, <2>3, <3>1
  <2> QED BY <1>1, <2>2, <2>3
<1> QED BY <1>2 DEF Ordered, t

\* A suffix has the same events in the same order.
LEMMA SuffixFacts ==
    ASSUME NEW s \in Seq(Events), NEW m \in 1..Len(s) + 1
    PROVE  /\ EventsIn(SubSeq(s, m, Len(s))) \subseteq EventsIn(s)
           /\ Ordered(s) => Ordered(SubSeq(s, m, Len(s)))
           /\ \A f \in EventsIn(SubSeq(s, m, Len(s))) : \E j \in m..Len(s) : f = s[j]
           /\ \A j \in m..Len(s) : s[j] \in EventsIn(SubSeq(s, m, Len(s)))
<1> DEFINE t == SubSeq(s, m, Len(s))
<1>1. /\ Len(t) = Len(s) - m + 1 /\ Len(s) \in Nat /\ m \in Nat
      /\ \A i \in 1..Len(s) - m + 1 : t[i] = s[m + i - 1]
  BY SubSeqProperties
<1> HIDE DEF t
<1>2. \A i \in 1..Len(t) : m + i - 1 \in m..Len(s) /\ m + i - 1 \in 1..Len(s) /\ t[i] = s[m + i - 1]
  BY <1>1
<1>3. \A f \in EventsIn(t) : \E j \in m..Len(s) : f = s[j] BY <1>2 DEF EventsIn
<1>4. EventsIn(t) \subseteq EventsIn(s) BY <1>2 DEF EventsIn
<1>5. ASSUME NEW j \in m..Len(s) PROVE s[j] \in EventsIn(t)
  <2>1. j - m + 1 \in 1..Len(t) /\ t[j - m + 1] = s[j] BY <1>1
  <2> QED BY <2>1 DEF EventsIn
<1>6. ASSUME Ordered(s) PROVE Ordered(t)
  <2>1. ASSUME NEW i \in 1..Len(t), NEW j \in 1..Len(t), i < j PROVE m + i - 1 < m + j - 1
    BY <1>1, <2>1
  <2> QED BY <1>2, <1>6, <2>1 DEF Ordered
<1> QED BY <1>3, <1>4, <1>5, <1>6 DEF t

LEMMA TailFacts ==
    ASSUME NEW s \in Seq(Events), s # <<>>
    PROVE  /\ EventsIn(s) = EventsIn(Tail(s)) \cup {Head(s)} /\ Head(s) \in Events
           /\ Ordered(s) => /\ Ordered(Tail(s))
                            /\ \A f \in Data(EventsIn(Tail(s))) :
                                   ~IsEnd(Head(s)) => Head(s).seq < f.seq
<1> DEFINE t == Tail(s)
<1>1. /\ Len(s) \in Nat /\ Len(s) > 0 /\ Len(t) = Len(s) - 1 /\ Head(s) = s[1] /\ s[1] \in Events
      /\ \A i \in 1..Len(s) - 1 : t[i] = s[i + 1]
  OBVIOUS
<1> HIDE DEF t
<1>2. \A i \in 1..Len(t) : i + 1 \in 1..Len(s) /\ t[i] = s[i + 1] /\ 1 < i + 1 BY <1>1
<1>3. ASSUME NEW i \in 1..Len(s) PROVE i = 1 \/ s[i] \in EventsIn(t)
  <2>1. i # 1 => i - 1 \in 1..Len(t) /\ t[i - 1] = s[i] BY <1>1
  <2> QED BY <2>1 DEF EventsIn
<1>4. 1 \in 1..Len(s) BY <1>1
<1>5. EventsIn(s) = EventsIn(t) \cup {Head(s)}
  <2>1. EventsIn(t) \subseteq EventsIn(s) BY <1>2 DEF EventsIn
  <2>2. Head(s) \in EventsIn(s) BY <1>1, <1>4 DEF EventsIn
  <2>3. \A x \in EventsIn(s) : x = Head(s) \/ x \in EventsIn(t) BY <1>1, <1>3 DEF EventsIn
  <2> QED BY <2>1, <2>2, <2>3
<1>6. ASSUME Ordered(s) PROVE Ordered(t)
  <2>1. \A i, j \in 1..Len(t) : i < j => i + 1 < j + 1 BY <1>1
  <2> QED BY <1>2, <1>6, <2>1 DEF Ordered
<1>7. ASSUME Ordered(s), NEW f \in Data(EventsIn(t)), ~IsEnd(Head(s)) PROVE Head(s).seq < f.seq
  <2>1. PICK i \in 1..Len(t) : f = t[i] BY DEF Data, EventsIn
  <2>2. ~IsEnd(f) BY DEF Data
  <2> QED BY <1>1, <1>2, <1>4, <1>7, <2>1, <2>2 DEF Ordered
<1> QED BY <1>1, <1>5, <1>6, <1>7 DEF t

LEMMA TrimmedFacts ==
    ASSUME NEW s \in Seq(Events), Ordered(s)
    PROVE  /\ Ordered(Trimmed(s)) /\ EventsIn(Trimmed(s)) \subseteq EventsIn(s)
           /\ \A e \in Events : ~IsEnd(e) /\ InListOrOlder(e, s) => InListOrOlder(e, Trimmed(s))
<1>1. CASE Len(s) > BufCap
  <2> DEFINE m == Len(s) - BufCap + 1
             t == SubSeq(s, m, Len(s))
  <2>1. m \in 1..Len(s) + 1 BY <1>1
  <2>2. Trimmed(s) = t BY <1>1 DEF Trimmed
  <2>3. /\ EventsIn(t) \subseteq EventsIn(s) /\ Ordered(t)
        /\ \A f \in EventsIn(t) : \E j \in m..Len(s) : f = s[j]
        /\ \A j \in m..Len(s) : s[j] \in EventsIn(t)
    <3> HIDE DEF m
    <3> QED BY <2>1, SuffixFacts
  <2> HIDE DEF t
  <2>4. ASSUME NEW e \in Events, ~IsEnd(e), InListOrOlder(e, s) PROVE InListOrOlder(e, t)
    <3>1. CASE \A f \in Data(EventsIn(s)) : e.seq < f.seq
      BY <2>3, <3>1 DEF InListOrOlder, Data
    <3>2. CASE e \in EventsIn(s)
      <4>1. PICK i \in 1..Len(s) : e = s[i] BY <3>2 DEF EventsIn
      <4>2. CASE i \in m..Len(s) BY <2>3, <4>1, <4>2 DEF InListOrOlder
      <4>3. CASE i \notin m..Len(s)
        <5> SUFFICES ASSUME NEW f \in Data(EventsIn(t)) PROVE e.seq < f.seq
          BY DEF InListOrOlder
        <5>1. f \in EventsIn(t) /\ ~IsEnd(f) BY DEF Data
        <5>2. PICK j \in m..Len(s) : f = s[j] BY <2>3, <5>1
        <5>3. j \in 1..Len(s) /\ i < j BY <2>1, <4>3
        <5> QED BY <2>4, <4>1, <5>1, <5>2, <5>3 DEF Ordered
      <4> QED BY <4>2, <4>3
    <3> QED BY <2>4, <3>1, <3>2 DEF InListOrOlder
  <2> QED BY <2>2, <2>3, <2>4
<1>2. CASE ~(Len(s) > BufCap) BY <1>2 DEF Trimmed
<1> QED BY <1>1, <1>2

\* What LRANGE finds after an event that the client has: newer events only.
LEMMA ReplayFacts ==
    ASSUME RedisOK, Ordered(buffer), NEW id \in Nat
    PROVE  /\ Ordered(ReplayAfter(id)) /\ EventsIn(ReplayAfter(id)) \subseteq EventsIn(buffer)
           /\ \A e \in Events :
                 ~IsEnd(e) /\ e.seq = id /\ InListOrOlder(e, buffer)
                    /\ (\A f \in EventsIn(buffer) : f.seq = id => f = e)
                    => \A f \in Data(EventsIn(ReplayAfter(id))) : e.seq < f.seq
<1>0. buffer \in Seq(Events) BY DEF RedisOK
<1>1. CASE \E i \in 1..Len(buffer) : buffer[i].seq = id
  <2> DEFINE i == CHOOSE i \in 1..Len(buffer) : buffer[i].seq = id
             t == SubSeq(buffer, i + 1, Len(buffer))
  <2>1. i \in 1..Len(buffer) /\ buffer[i].seq = id BY <1>1
  <2>2. ReplayAfter(id) = t BY <1>1 DEF ReplayAfter
  <2> HIDE DEF i
  <2>3. i + 1 \in 1..Len(buffer) + 1 BY <1>0, <2>1
  <2>4. /\ EventsIn(t) \subseteq EventsIn(buffer) /\ Ordered(t)
        /\ \A f \in EventsIn(t) : \E j \in i + 1..Len(buffer) : f = buffer[j]
    BY <1>0, <2>3, SuffixFacts
  <2> HIDE DEF t
  <2>5. ASSUME NEW e \in Events, ~IsEnd(e), e.seq = id, NEW f \in Data(EventsIn(t)),
               \A g \in EventsIn(buffer) : g.seq = id => g = e
        PROVE  e.seq < f.seq
    <3>1. f \in EventsIn(t) /\ ~IsEnd(f) BY DEF Data
    <3>2. PICK j \in i + 1..Len(buffer) : f = buffer[j] BY <2>4, <3>1
    <3>3. j \in 1..Len(buffer) /\ i < j BY <1>0, <2>1
    <3>4. buffer[i] = e BY <2>1, <2>5 DEF EventsIn
    <3> QED BY <2>1, <2>5, <3>1, <3>2, <3>3, <3>4 DEF Ordered
  <2> QED BY <2>2, <2>4, <2>5
<1>2. CASE ~\E i \in 1..Len(buffer) : buffer[i].seq = id
  <2>1. ReplayAfter(id) = buffer BY <1>2 DEF ReplayAfter
  <2>2. \A e \in Events : e.seq = id => e \notin EventsIn(buffer) BY <1>2 DEF EventsIn
  <2> QED BY <2>1, <2>2 DEF InListOrOlder
<1> QED BY <1>1, <1>2

\* The last event of an ordered sequence without an end is the newest.
LEMMA LastIsNewest ==
    ASSUME NEW s \in Seq(Events), s # <<>>, Ordered(s), NoEnds(s)
    PROVE  /\ s[Len(s)] \in EventsIn(s) /\ ~IsEnd(s[Len(s)]) /\ s[Len(s)] \in Events
           /\ \A e \in EventsIn(s) : e.seq <= s[Len(s)].seq
<1>1. Len(s) \in Nat /\ Len(s) \in 1..Len(s) /\ \A i \in 1..Len(s) : s[i] \in Events OBVIOUS
<1>2. ASSUME NEW i \in 1..Len(s) PROVE s[i].seq <= s[Len(s)].seq
  <2>1. s[i].seq \in Nat /\ s[Len(s)].seq \in Nat BY <1>1 DEF Events
  <2>2. i < Len(s) => s[i].seq < s[Len(s)].seq BY <1>1 DEF Ordered, NoEnds
  <2> QED BY <1>1, <2>1, <2>2
<1> QED BY <1>1, <1>2 DEF EventsIn, NoEnds

LEMMA KnownEvents ==
    ASSUME TypeOK
    PROVE  /\ Known \subseteq Events
           /\ \A r \in Readers : Held(r) \subseteq Known
           /\ EventsIn(buffer) \subseteq Known
           /\ \A e \in Emitters : InFlight(e) => ev[e] \in Known /\ ev[e] \in Events
<1>1. \A s \in Seq(Events) : EventsIn(s) \subseteq Events BY DEF EventsIn
<1>2. \A r \in Readers : Held(r) \subseteq Events BY <1>1 DEF Held, TypeOK, ReadersOK
<1>3. EventsIn(buffer) \subseteq Events BY <1>1 DEF TypeOK, RedisOK
<1>4. \A e \in Emitters : ev[e] \in Events BY DEF TypeOK, RunOK
<1> HIDE DEF TypeOK
<1> QED BY <1>2, <1>3, <1>4 DEF Known

\* The clock is never turned back, and without it the counter only grows.
LEMMA SequencedStep ==
    ASSUME TypeOK, [Next]_vars, Sequenced'
    PROVE  Sequenced /\ counter <= counter' /\ stamps' = stamps
<1> USE DEF TypeOK, HistOK, RedisOK, Sequenced, Faults
<1>1. ASSUME NEW fault \in Faults, Disturb(fault), stamps' = stamps, counter' = counter
      PROVE  Sequenced /\ counter <= counter' /\ stamps' = stamps
  <2>1. /\ spent' = [spent EXCEPT ![fault] = @ + 1] /\ spent \in [Faults -> Nat]
        /\ "expiry" \in Faults
    BY <1>1 DEF Disturb
  <2>2. spent["expiry"] \in Nat /\ spent'["expiry"] \in {spent["expiry"], spent["expiry"] + 1}
    BY <2>1
  <2> QED BY <1>1, <2>2
<1>2. ASSUME UNCHANGED <<stamps, spent, counter>>
      PROVE  Sequenced /\ counter <= counter' /\ stamps' = stamps
  BY <1>2
<1>3. ASSUME NEW e \in Emitters, Emit(e)
      PROVE  Sequenced /\ counter <= counter' /\ stamps' = stamps
  <2>1. spent' = spent BY <1>3 DEF Emit, Allocate, Push, Publish
  <2>2. \/ counter' = counter + 1 /\ stamps' = stamps
        \/ counter' = counter /\ stamps' = stamps
        \/ counter' = counter /\ stamps' = stamps + 1
    BY <1>3 DEF Emit, Allocate, Push, Publish, redisVars
  <2>3. counter \in Nat /\ stamps \in Nat /\ spent["expiry"] \in Nat
    BY DEF Faults
  <2>4. stamps' + spent["expiry"] = 0 BY <2>1
  <2>5. stamps' = stamps BY ONLY <2>2, <2>3, <2>4
  <2>6. counter <= counter' BY ONLY <2>2, <2>3
  <2> QED BY ONLY <2>4, <2>5, <2>6 DEF Sequenced
<1>4. CASE Interrupt \/ RequestCancel \/ Outage \/ Crash
  BY <1>1, <1>4 DEF Interrupt, RequestCancel, Outage, Crash, redisVars
<1>5. CASE Expire
  <2>1. spent'["expiry"] = spent["expiry"] + 1 /\ stamps' = stamps BY <1>5 DEF Expire, Disturb
  <2> QED BY <2>1
<1>6. CASE \/ \E p \in Procs : StartExecution(p)
           \/ \E result \in {"success", "error"} : GraphEnds(result)
           \/ GraphEmits \/ Finalize \/ PersistCancel \/ HandleCancel \/ Recover \/ GiveUp
           \/ UNCHANGED vars
  BY <1>2, <1>6 DEF StartExecution, GraphEnds, GraphEmits, Finalize, PersistCancel, HandleCancel,
         Recover, GiveUp, vars, redisVars
<1>7. ASSUME NEW r \in Readers, Connect(r) \/ Read(r) \/ Disconnect(r)
      PROVE  Sequenced /\ counter <= counter' /\ stamps' = stamps
  BY <1>2, <1>7 DEF Connect, Read, Disconnect, Replay, SendReplayed, StartLive, Subscribe,
         CheckEnd, Receive, LeaveQuiet, Retry, redisVars
<1> QED BY <1>3, <1>4, <1>5, <1>6, <1>7 DEF Next

LEMMA ExclusiveStep == TypeOK /\ Exclusive /\ [Next]_vars => Exclusive'
<1> SUFFICES ASSUME TypeOK, Exclusive, [Next]_vars PROVE Exclusive' OBVIOUS
<1> USE DEF TypeOK, RunOK, Emitters, IsEnd
<1>1. CASE UNCHANGED <<at, ev, outcome>> BY <1>1 DEF Exclusive, Emitting
<1>2. ASSUME NEW e \in Emitters, Emit(e) PROVE Exclusive'
  <2>1. outcome' = outcome BY <1>2 DEF Emit, Allocate, Push, Publish
  <2>2. Emitting(e) BY <1>2 DEF Emit, Allocate, Push, Publish, Emitting
  <2>3. \/ at' = [at EXCEPT ![e] = "push"] /\ ev' = [ev EXCEPT ![e].seq = NextSeq]
        \/ at' = [at EXCEPT ![e] = "publish"] /\ ev' = ev
        \/ AfterPut(e)
    BY <1>2 DEF Emit, Allocate, Push, Publish
  <2>4. CASE at' = [at EXCEPT ![e] = "push"] /\ ev' = [ev EXCEPT ![e].seq = NextSeq]
    BY <2>1, <2>2, <2>4 DEF Exclusive, Emitting
  <2>5. CASE at' = [at EXCEPT ![e] = "publish"] /\ ev' = ev
    BY <2>1, <2>2, <2>5 DEF Exclusive, Emitting
  <2>6. CASE AfterPut(e) BY <2>1, <2>2, <2>6 DEF Exclusive, Emitting, AfterPut, Begin
  <2> QED BY <2>3, <2>4, <2>5, <2>6
<1>3. ASSUME NEW p \in Procs, StartExecution(p) PROVE Exclusive'
  BY <1>3 DEF StartExecution, Exclusive, Emitting
<1>4. CASE GraphEmits \/ \E result \in {"success", "error"} : GraphEnds(result)
  BY <1>4 DEF GraphEmits, GraphEnds, Begin, Exclusive, Emitting
<1>5. CASE Finalize BY <1>5 DEF Finalize, Begin, Exclusive, Emitting
<1>6. CASE Interrupt BY <1>6 DEF Interrupt, Interruptible, Struck, Exclusive, Emitting
<1>7. CASE HandleCancel
  BY <1>7 DEF HandleCancel, Interruptible, Struck, Exclusive, Emitting
<1>8. CASE Crash BY <1>8 DEF Crash, Exclusive
<1>9. CASE GiveUp BY <1>9 DEF GiveUp, Exclusive
<1>10. CASE RequestCancel \/ PersistCancel \/ Outage \/ Recover \/ Expire \/ UNCHANGED vars
  BY <1>1, <1>10 DEF RequestCancel, PersistCancel, Outage, Recover, Expire, vars, runVars
<1>11. ASSUME NEW r \in Readers, Connect(r) \/ Read(r) \/ Disconnect(r) PROVE Exclusive'
  BY <1>1, <1>11 DEF Connect, Read, Disconnect, Replay, SendReplayed, StartLive, Subscribe,
         CheckEnd, Receive, LeaveQuiet, Retry, runVars
<1> QED BY <1>2, <1>3, <1>4, <1>5, <1>6, <1>7, <1>8, <1>9, <1>10, <1>11 DEF Next

\* A step without a new event: what clients hold comes from what is known.
LEMMA NothingNew ==
    ASSUME TypeOK, TypeOK', Numbered, Fresh, Kept, buffer' = buffer, counter <= counter',
           \A e \in Emitters : at'[e] \in {"push", "publish"} => at'[e] = at[e] /\ ev'[e] = ev[e],
           \A r \in Readers : Held(r)' \subseteq Held(r) \cup EventsIn(buffer) \cup {BareEnd},
           \A r \in Readers : stage'[r] \in Subscribed =>
               inbox'[r] = <<>> \/ (stage[r] \in Subscribed /\ inbox'[r] = inbox[r])
                  \/ (stage[r] \in Subscribed /\ EventsIn(inbox'[r]) \subseteq EventsIn(inbox[r]))
    PROVE  Numbered' /\ Fresh' /\ Kept'
<1>1. /\ Known \subseteq Events /\ EventsIn(buffer) \subseteq Known
      /\ \A r \in Readers : Held(r) \subseteq Known
      /\ \A e \in Emitters : InFlight(e) => ev[e] \in Known /\ ev[e] \in Events
  BY KnownEvents
<1>2. Known' \subseteq Known \cup {BareEnd}
  <2> SUFFICES ASSUME NEW x \in Known' PROVE x \in Known \cup {BareEnd} OBVIOUS
  <2>1. \/ x \in EventsIn(buffer) \/ \E e \in Emitters : at'[e] \in {"push", "publish"} /\ x = ev'[e]
        \/ \E r \in Readers : x \in Held(r)'
    BY DEF Known, InFlight
  <2> QED BY <1>1, <2>1 DEF InFlight
<1>3. counter \in Nat /\ counter' \in Nat /\ BareEnd.seq = 0 /\ IsEnd(BareEnd) /\ BareEnd \in Events
  BY DEF TypeOK, RedisOK, BareEnd, IsEnd, Events, Kinds
<1>4. \A e \in Known : e.seq \in Nat BY <1>1 DEF Events
<1> HIDE DEF TypeOK, BareEnd, IsEnd
<1>5. Numbered' BY <1>2, <1>3, <1>4 DEF Numbered
<1>6. "run" \in Emitters BY DEF Emitters
<1>7. Fresh'
  <2> SUFFICES ASSUME InFlight("run")', ~IsEnd(ev'["run"])
               PROVE  /\ \A f \in Known' : f.seq <= ev'["run"].seq
                      /\ at'["run"] = "push" =>
                            /\ ev'["run"] \notin EventsIn(buffer')
                            /\ \A r \in Readers : ev'["run"] \notin Held(r)'
                      /\ \A r \in Readers : stage'[r] \in Subscribed =>
                            ev'["run"] \notin EventsIn(inbox'[r])
    BY DEF Fresh, IsEnd, EventsIn
  <2>1. at'["run"] = at["run"] /\ ev'["run"] = ev["run"] /\ InFlight("run")
    BY <1>6 DEF InFlight
  <2>2. /\ \A f \in Known : f.seq <= ev["run"].seq
        /\ at["run"] = "push" => /\ ev["run"] \notin EventsIn(buffer)
                                 /\ \A r \in Readers : ev["run"] \notin Held(r)
        /\ \A r \in Readers : stage[r] \in Subscribed => ev["run"] \notin EventsIn(inbox[r])
    BY <2>1 DEF Fresh
  <2>3. ev["run"].seq \in Nat /\ ev["run"] # BareEnd BY <1>1, <1>3, <1>4, <1>6, <2>1
  <2>4. \A f \in Known' : f.seq <= ev'["run"].seq BY <1>2, <1>3, <2>1, <2>2, <2>3
  <2>5. at'["run"] = "push" => /\ ev'["run"] \notin EventsIn(buffer')
                               /\ \A r \in Readers : ev'["run"] \notin Held(r)'
    BY <2>1, <2>2, <2>3
  <2>6. EventsIn(<<>>) = {} BY DEF EventsIn
  <2>7. \A r \in Readers : stage'[r] \in Subscribed => ev'["run"] \notin EventsIn(inbox'[r])
    BY <2>1, <2>2, <2>6
  <2> QED BY <2>4, <2>5, <2>7
<1>8. Kept'
  <2>1. Ordered(buffer)' BY DEF Kept, Ordered, IsEnd
  <2>2. ASSUME NEW r \in Readers, NEW e \in Held(r)', ~IsEnd(e) PROVE InListOrOlder(e, buffer')
    <3>1. e \in Held(r) \/ e \in EventsIn(buffer) BY <1>3, <2>2
    <3> QED BY <2>2, <3>1 DEF Kept, InListOrOlder, Data
  <2>3. at'["run"] = "publish" /\ ~IsEnd(ev'["run"]) => InListOrOlder(ev'["run"], buffer')
    BY <1>6 DEF Kept
  <2> QED BY <2>1, <2>2, <2>3 DEF Kept, Data, InListOrOlder, IsEnd, EventsIn
<1> QED BY <1>5, <1>7, <1>8

\* How a client gets from one stage of its stream to the next.
LEMMA NoEvents == /\ EventsIn(<<>>) = {} /\ Data({}) = {} /\ Ordered(<<>>) /\ NoEnds(<<>>)
                  /\ Data(EventsIn(<<>>)) = {}
BY DEF EventsIn, Data, Ordered, NoEnds

LEMMA LiveEventArrives ==
    ASSUME NEW st \in Subscribed, NEW todo \in Seq(Events), NEW sent, NEW last, NEW e \in Events,
           ClientAt(st, todo, sent, last),
           ~IsEnd(e) => /\ \A f \in Data(EventsIn(todo)) : f.seq < e.seq
                        /\ e.seq <= last => e \in EventsIn(sent)
    PROVE  ClientAt(st, Append(todo, e), sent, last)
<1>1. EventsIn(Append(todo, e)) = EventsIn(todo) \cup {e} BY InAppend
<1>2. Ordered(Append(todo, e)) BY OrderedAppend DEF ClientAt
<1> QED BY <1>1, <1>2 DEF ClientAt, Subscribed, Data

LEMMA StreamBreaks ==
    ASSUME NEW st, NEW todo, NEW sent, NEW last, ClientAt(st, todo, sent, last)
    PROVE  /\ ClientAt("away", <<>>, sent, last)
           /\ ClientAt("closed", todo, sent, last) /\ ClientAt("closed", <<>>, sent, last)
           /\ st \in Subscribed \cup {"iterate"} => ClientAt("backoff", <<>>, sent, last)
BY DEF ClientAt, Subscribed

LEMMA StreamOpens ==
    ASSUME NEW st, NEW todo, NEW sent \in Seq(Events), NEW last, ClientAt(st, todo, sent, last),
           NoEnds(sent)
    PROVE  ClientAt("opened", todo, sent, IF sent = <<>> THEN 0 ELSE sent[Len(sent)].seq)
<1>1. Ordered(sent) BY DEF ClientAt
<1>2. CASE sent = <<>> BY <1>1, <1>2, NoEvents DEF ClientAt, Subscribed
<1>3. CASE sent # <<>>
  <2>1. /\ sent[Len(sent)] \in EventsIn(sent)
        /\ \A e \in EventsIn(sent) : e.seq <= sent[Len(sent)].seq
    BY <1>1, <1>3, LastIsNewest
  <2> QED BY <1>1, <1>3, <2>1 DEF ClientAt, Subscribed, Data
<1> QED BY <1>2, <1>3

LEMMA ReplayBegins ==
    ASSUME NEW todo, NEW sent, NEW last, ClientAt("opened", todo, sent, last),
           NEW list, Ordered(list),
           \A e \in Data(EventsIn(sent)), f \in Data(EventsIn(list)) : e.seq < f.seq
    PROVE  ClientAt("replaying", list, sent, last)
BY DEF ClientAt, Subscribed

LEMMA ReplayGoesOn ==
    ASSUME NEW todo \in Seq(Events), todo # <<>>, NEW sent \in Seq(Events), NEW last \in Nat,
           ClientAt("replaying", todo, sent, last)
    PROVE  ClientAt("replaying", Tail(todo), Append(sent, Head(todo)),
                    IF Head(todo).seq > last THEN Head(todo).seq ELSE last)
<1> DEFINE e == Head(todo)
           sent1 == Append(sent, e)
           last1 == IF e.seq > last THEN e.seq ELSE last
           todo1 == Tail(todo)
<1>1. /\ EventsIn(todo) = EventsIn(todo1) \cup {e} /\ e \in Events
      /\ Ordered(todo1) /\ \A f \in Data(EventsIn(todo1)) : ~IsEnd(e) => e.seq < f.seq
  BY TailFacts DEF ClientAt
<1>2. EventsIn(sent1) = EventsIn(sent) \cup {e} BY <1>1, InAppend
<1>3. e \in EventsIn(todo) /\ EventsIn(todo1) \subseteq EventsIn(todo) BY <1>1
<1>4. \A f \in EventsIn(sent) : f \in Events BY DEF EventsIn
<1>5. e.seq \in Nat /\ last1 \in Nat /\ \A f \in EventsIn(sent) : f.seq \in Nat
  BY <1>1, <1>4 DEF Events
<1>6. ~IsEnd(e) => \A f \in Data(EventsIn(sent)) : f.seq < e.seq
  BY <1>3 DEF ClientAt, Data
<1>7. Ordered(sent1) BY <1>1, <1>6, OrderedAppend DEF ClientAt
<1> HIDE DEF e, sent1, todo1
<1>8. \A f \in Data(EventsIn(sent1)) : f.seq <= last1
  <2> SUFFICES ASSUME NEW f \in EventsIn(sent1), ~IsEnd(f) PROVE f.seq <= last1 BY DEF Data
  <2>1. CASE f = e BY <1>5, <2>1
  <2>2. CASE f \in EventsIn(sent)
    <3>1. f.seq <= last BY <2>2 DEF ClientAt, Data
    <3> QED BY <1>5, <2>2, <3>1
  <2> QED BY <1>2, <2>1, <2>2
<1>9. last1 = 0 \/ \E f \in EventsIn(sent1) : f.seq = last1
  BY <1>2 DEF ClientAt
<1>10. \A f \in Data(EventsIn(sent1)), g \in Data(EventsIn(todo1)) : f.seq < g.seq
  BY <1>1, <1>2, <1>3 DEF ClientAt, Data
<1>11. ClientAt("replaying", todo1, sent1, last1)
  <2> HIDE DEF last1
  <2> QED BY <1>1, <1>7, <1>8, <1>9, <1>10 DEF ClientAt, Subscribed
<1> QED BY <1>11 DEF e, sent1, last1, todo1

LEMMA IterationGoesOn ==
    ASSUME NEW sent, NEW last,
           \E st \in {"replaying", "backoff", "iterate"} : ClientAt(st, <<>>, sent, last)
    PROVE  /\ ClientAt("iterate", <<>>, sent, last) /\ ClientAt("backoff", <<>>, sent, last)
           /\ ClientAt("checkEnd", <<>>, sent, last)
BY NoEvents DEF ClientAt, Subscribed

LEMMA ListeningBegins ==
    ASSUME NEW todo, NEW sent, NEW last, ClientAt("checkEnd", todo, sent, last)
    PROVE  ClientAt("listen", todo, sent, last)
BY DEF ClientAt, Subscribed

\* A live message is skipped or sent.
LEMMA ListeningGoesOn ==
    ASSUME NEW todo \in Seq(Events), todo # <<>>, NEW sent \in Seq(Events), NEW last \in Nat,
           ClientAt("listen", todo, sent, last)
    PROVE  /\ ClientAt("listen", Tail(todo), sent, last)
           /\ ~(Head(todo).seq <= last) =>
                 /\ ClientAt("closed", <<>>, Append(sent, Head(todo)), Head(todo).seq)
                 /\ ~IsEnd(Head(todo)) =>
                       ClientAt("listen", Tail(todo), Append(sent, Head(todo)), Head(todo).seq)
<1> DEFINE e == Head(todo)
           sent1 == Append(sent, e)
           todo1 == Tail(todo)
<1>1. /\ EventsIn(todo) = EventsIn(todo1) \cup {e} /\ e \in Events
      /\ Ordered(todo1) /\ \A f \in Data(EventsIn(todo1)) : ~IsEnd(e) => e.seq < f.seq
  BY TailFacts DEF ClientAt, Subscribed
<1>2. EventsIn(sent1) = EventsIn(sent) \cup {e} BY <1>1, InAppend
<1>3. \A f \in EventsIn(sent) \cup EventsIn(todo) : f \in Events BY DEF EventsIn
<1>4. e.seq \in Nat /\ \A f \in EventsIn(sent) \cup EventsIn(todo) : f.seq \in Nat
  BY <1>1, <1>3 DEF Events
<1>5. \A f \in Data(EventsIn(sent)) : f.seq <= last BY DEF ClientAt, Subscribed
<1>6. ClientAt("listen", todo1, sent, last)
  <2> HIDE DEF e, todo1
  <2> QED BY <1>1 DEF ClientAt, Subscribed, Data
<1>7. ASSUME ~(e.seq <= last)
      PROVE  /\ ClientAt("closed", <<>>, sent1, e.seq)
             /\ ~IsEnd(e) => ClientAt("listen", todo1, sent1, e.seq)
  <2>1. \A f \in Data(EventsIn(sent)) : f.seq < e.seq BY <1>4, <1>5, <1>7 DEF Data
  <2>2. Ordered(sent1) BY <1>1, <2>1, OrderedAppend DEF ClientAt
  <2> HIDE DEF e, todo1, sent1
  <2>3. \A f \in Data(EventsIn(sent1)) : f.seq <= e.seq BY <1>2, <1>4, <2>1 DEF Data
  <2>4. \E f \in EventsIn(sent1) : f.seq = e.seq BY <1>2
  <2>5. ASSUME ~IsEnd(e), NEW f \in EventsIn(todo1), ~IsEnd(f) PROVE ~(f.seq <= e.seq)
    BY <1>1, <1>4, <2>5 DEF Data
  <2> QED BY <1>1, <2>2, <2>3, <2>4, <2>5 DEF ClientAt, Subscribed, Data
<1> QED BY <1>6, <1>7 DEF e, sent1, todo1

LEMMA ClientNext ==
    ASSUME NEW r \in Readers, ClientAt(stage'[r], inbox'[r], got'[r], lastSent'[r])
    PROVE  Client(r)'
BY DEF Client, ClientAt, NoEnds, Ordered, EventsIn, Data, IsEnd, Subscribed

LEMMA ClientKept ==
    ASSUME NEW r \in Readers, Client(r), stage'[r] = stage[r], inbox'[r] = inbox[r],
           got'[r] = got[r], lastSent'[r] = lastSent[r]
    PROVE  Client(r)'
BY ClientNext DEF Client

StepContext ==
    /\ TypeOK /\ TypeOK' /\ Exclusive /\ InStep
    /\ counter <= counter' /\ stamps' = stamps

\* While the listener is at work, and after anything it does, the execution
\* emits no data.
LEMMA ListenerAlone ==
    ASSUME TypeOK, Exclusive, NEW e \in Emitters, Emitting(e),
           \A x \in Emitters \ {e} : at'[x] = at[x] /\ ev'[x] = ev[x]
    PROVE  /\ ~IsEnd(ev[e]) => e = "run"
           /\ e # "run" => ~(at'["run"] \in {"push", "publish"} /\ ~IsEnd(ev'["run"]))
BY DEF Exclusive, Emitters, Emitting

LEMMA AfterPutEffect ==
    ASSUME TypeOK, NEW e \in Emitters, AfterPut(e)
    PROVE  /\ at'[e] \notin {"push", "publish"}
           /\ \A x \in Emitters \ {e} : at'[x] = at[x] /\ ev'[x] = ev[x]
BY DEF AfterPut, Begin, TypeOK, RunOK, Emitters

LEMMA AllocateKeeps ==
    ASSUME StepContext, NEW e \in Emitters, Allocate(e)
    PROVE  InStep'
<1> USE DEF StepContext
<1>1. /\ UNCHANGED <<buffer, stage, inbox, got, lastSent>> /\ Emitting(e) /\ redisUp
      /\ counter' = counter + 1
  BY DEF Allocate, readerVars, Emitting, TypeOK, HistOK
<1>2. \A r \in Readers : Client(r)' BY <1>1, ClientKept DEF InStep
<1>3. \A r \in Readers : Held(r)' = Held(r) BY <1>1 DEF Held, EventsIn
<1>4. CASE Finished(e)
  <2>1. AfterPut(e) BY <1>4 DEF Allocate
  <2>2. \A x \in Emitters : at'[x] \in {"push", "publish"} => at'[x] = at[x] /\ ev'[x] = ev[x]
    BY <2>1, AfterPutEffect
  <2>3. Numbered' /\ Fresh' /\ Kept' BY <1>1, <1>3, <2>2, NothingNew DEF InStep
  <2> QED BY <1>2, <2>3 DEF InStep
<1>5. CASE ~Finished(e)
  <2> DEFINE n == ev'[e]
  <2>1. /\ at' = [at EXCEPT ![e] = "push"] /\ n = [ev[e] EXCEPT !.seq = counter + 1]
        /\ \A x \in Emitters \ {e} : at'[x] = at[x] /\ ev'[x] = ev[x]
    BY <1>1, <1>5 DEF Allocate, NextSeq, TypeOK, RunOK
  <2>2. n \in Events /\ n.seq = counter + 1
    <3>1. n \in Events BY DEF TypeOK, RunOK, Events, Kinds
    <3>2. ev[e] \in Events BY DEF TypeOK, RunOK
    <3> HIDE DEF n
    <3> QED BY ONLY <2>1, <3>1, <3>2 DEF Events
  <2>3. /\ Known \subseteq Events /\ EventsIn(buffer) \subseteq Known
        /\ \A r \in Readers : Held(r) \subseteq Known /\ EventsIn(inbox[r]) \subseteq Known
        /\ \A x \in Emitters : InFlight(x) => ev[x] \in Known
    BY KnownEvents DEF Held
  <2>4. Known' \subseteq Known \cup {n}
    <3> SUFFICES ASSUME NEW x \in Known' PROVE x \in Known \cup {n} OBVIOUS
    <3>1. \/ x \in EventsIn(buffer)
          \/ \E y \in Emitters : at'[y] \in {"push", "publish"} /\ x = ev'[y]
          \/ \E r \in Readers : x \in Held(r)'
      BY <1>1 DEF Known, InFlight, EventsIn
    <3> HIDE DEF n
    <3>2. \A y \in Emitters : at'[y] \in {"push", "publish"} => ev'[y] \in Known \cup {n}
      BY <2>1, <2>3 DEF InFlight, n
    <3> QED BY <1>3, <2>3, <3>1, <3>2
  <2>5. counter \in Nat /\ \A x \in Known : x.seq \in Nat /\ x.seq <= counter /\ x # n
    BY <2>2, <2>3 DEF InStep, Numbered, TypeOK, RedisOK, Events
  <2> HIDE DEF n
  <2>6. Numbered'
    <3>1. \A x, y \in Known \cup {n} : x.seq = y.seq => x = y
      BY <2>2, <2>5 DEF InStep, Numbered
    <3>2. \A x \in Known \cup {n} : x.seq <= counter' /\ (x.seq = 0 => x = BareEnd)
      BY <1>1, <2>2, <2>5 DEF InStep, Numbered
    <3> QED BY <2>4, <3>1, <3>2 DEF Numbered, BareEnd
  <2>7. Fresh'
    <3>1. CASE e = "run"
      <4>1. n = ev'["run"] BY <3>1 DEF n
      <4>2. \A x \in Known' : x.seq <= n.seq BY <2>2, <2>4, <2>5
      <4>3. n \notin EventsIn(buffer) /\ \A r \in Readers : n \notin Held(r) \cup EventsIn(inbox[r])
        BY <2>3, <2>5
      <4>4. \A r \in Readers : n \notin Held(r)' /\ n \notin EventsIn(inbox'[r])
        BY <1>1, <1>3, <4>3
      <4> QED BY <1>1, <4>1, <4>2, <4>3, <4>4 DEF Fresh, EventsIn, IsEnd
    <3>2. CASE e # "run"
      <4>1. ~(at'["run"] \in {"push", "publish"} /\ ~IsEnd(ev'["run"]))
        BY <1>1, <2>1, <3>2, ListenerAlone
      <4> QED BY <4>1 DEF Fresh, InFlight, IsEnd
    <3> QED BY <3>1, <3>2
  <2>8. Kept'
    <3>1. at'["run"] = "publish" => at["run"] = "publish" /\ ev'["run"] = ev["run"]
      BY <2>1 DEF Emitters, TypeOK, RunOK
    <3>2. Kept BY DEF InStep
    <3> QED BY <1>1, <1>3, <3>1, <3>2 DEF Kept, Ordered, InListOrOlder, Data, EventsIn, IsEnd
  <2> QED BY <1>2, <2>6, <2>7, <2>8 DEF InStep
<1> QED BY <1>4, <1>5

LEMMA PushKeeps ==
    ASSUME StepContext, NEW e \in Emitters, Push(e)
    PROVE  InStep'
<1> USE DEF StepContext
<1>1. UNCHANGED <<stage, inbox, got, lastSent>> /\ Emitting(e) /\ InFlight(e)
  BY DEF Push, readerVars, Emitting, InFlight
<1>2. \A r \in Readers : Client(r)' BY <1>1, ClientKept DEF InStep
<1>3. \A r \in Readers : Held(r)' = Held(r) BY <1>1 DEF Held, EventsIn
<1>4. CASE ~redisUp
  <2>1. AfterPut(e) /\ buffer' = buffer BY <1>4 DEF Push
  <2>2. \A x \in Emitters : at'[x] \in {"push", "publish"} => at'[x] = at[x] /\ ev'[x] = ev[x]
    BY <2>1, AfterPutEffect
  <2>3. Numbered' /\ Fresh' /\ Kept' BY <1>1, <1>3, <2>1, <2>2, NothingNew DEF InStep
  <2> QED BY <1>2, <2>3 DEF InStep
<1>5. CASE redisUp
  <2> DEFINE n == ev[e]
             list == Append(buffer, n)
  <2>1. /\ at[e] = "push" /\ at' = [at EXCEPT ![e] = "publish"] /\ ev' = ev
        /\ buffer' = Trimmed(list)
    BY <1>5 DEF Push
  <2>2. /\ Known \subseteq Events /\ EventsIn(buffer) \subseteq Known
        /\ \A r \in Readers : Held(r) \subseteq Known
        /\ \A x \in Emitters : InFlight(x) => ev[x] \in Known
        /\ n \in Known /\ n \in Events
    BY <1>1, KnownEvents
  <2>3. \A x \in Emitters \ {e} : at'[x] = at[x] /\ ev'[x] = ev[x] BY <2>1 DEF TypeOK, RunOK
  <2>4. /\ ~IsEnd(n) => e = "run"
        /\ e # "run" => ~(at'["run"] \in {"push", "publish"} /\ ~IsEnd(ev'["run"]))
    BY <1>1, <2>3, ListenerAlone
  <2>5. ~IsEnd(n) => /\ \A f \in Known : f.seq <= n.seq
                     /\ n \notin EventsIn(buffer) /\ \A r \in Readers : n \notin Held(r)
                     /\ \A r \in Readers : stage[r] \in Subscribed => n \notin EventsIn(inbox[r])
    BY <1>1, <2>1, <2>4 DEF InStep, Fresh
  <2>6. \A f \in Known : f.seq \in Nat /\ (f.seq = n.seq => f = n)
    BY <2>2 DEF InStep, Numbered, Events
  <2>7. buffer \in Seq(Events) /\ list \in Seq(Events) /\ EventsIn(list) = EventsIn(buffer) \cup {n}
    BY <2>2, InAppend DEF TypeOK, RedisOK
  <2>8. Ordered(buffer) /\ Ordered(list)
    <3>1. Ordered(buffer) BY DEF InStep, Kept
    <3>2. ~IsEnd(n) => \A f \in Data(EventsIn(buffer)) : f.seq < n.seq
      <4> HIDE DEF n
      <4> QED BY <2>2, <2>5, <2>6 DEF Data
    <3> HIDE DEF n
    <3> QED BY <2>2, <2>7, <3>1, <3>2, OrderedAppend
  <2> HIDE DEF n, list
  <2>9. /\ Ordered(buffer') /\ EventsIn(buffer') \subseteq EventsIn(buffer) \cup {n}
        /\ \A x \in Events : ~IsEnd(x) /\ InListOrOlder(x, list) => InListOrOlder(x, buffer')
    BY <2>1, <2>7, <2>8, TrimmedFacts
  <2>10. Known' \subseteq Known
    <3> SUFFICES ASSUME NEW x \in Known' PROVE x \in Known OBVIOUS
    <3>1. \/ x \in EventsIn(buffer')
          \/ \E y \in Emitters : at'[y] \in {"push", "publish"} /\ x = ev'[y]
          \/ \E r \in Readers : x \in Held(r)'
      BY DEF Known, InFlight, EventsIn
    <3>2. \A y \in Emitters : at'[y] \in {"push", "publish"} => InFlight(y) /\ ev'[y] = ev[y]
      BY <1>1, <2>1 DEF InFlight, TypeOK, RunOK
    <3> QED BY <1>3, <2>2, <2>9, <3>1, <3>2
  <2>11. Numbered'
    <3>1. counter \in Nat /\ counter' \in Nat BY DEF TypeOK, RedisOK
    <3> QED BY <2>6, <2>10, <3>1 DEF InStep, Numbered, BareEnd
  <2>12. Fresh'
    <3>1. CASE e = "run"
      <4>1. ev'["run"] = n /\ at'["run"] = "publish" BY <2>1, <3>1 DEF n, TypeOK, RunOK
      <4>2. ~IsEnd(n) => /\ \A f \in Known' : f.seq <= n.seq
                         /\ \A r \in Readers : stage'[r] \in Subscribed => n \notin EventsIn(inbox'[r])
        BY <1>1, <2>5, <2>10
      <4> QED BY <4>1, <4>2 DEF Fresh, InFlight, IsEnd, EventsIn
    <3>2. CASE e # "run" BY <2>4, <3>2 DEF Fresh, InFlight, IsEnd
    <3> QED BY <3>1, <3>2
  <2>13. Kept'
    <3>1. ASSUME NEW x \in Known, ~IsEnd(x), InListOrOlder(x, buffer) PROVE InListOrOlder(x, buffer')
      <4>1. x \in EventsIn(list) \/ \A f \in Data(EventsIn(list)) : x.seq < f.seq
        <5>1. CASE x = n BY <2>7, <5>1
        <5>2. CASE x # n
          <6>1. ~IsEnd(n) => x.seq < n.seq BY <2>2, <2>5, <2>6, <5>2
          <6> QED BY <2>7, <3>1, <6>1 DEF InListOrOlder, Data
        <5> QED BY <5>1, <5>2
      <4> QED BY <2>2, <2>9, <3>1, <4>1 DEF InListOrOlder
    <3>2. \A r \in Readers : \A x \in Data(Held(r)') : InListOrOlder(x, buffer')
      BY <1>3, <2>2, <3>1 DEF InStep, Kept, Data
    <3>3. at'["run"] = "publish" /\ ~IsEnd(ev'["run"]) => InListOrOlder(ev'["run"], buffer')
      <4>1. CASE e = "run"
        <5>1. ev'["run"] = n BY <2>1, <4>1 DEF n
        <5>2. InListOrOlder(n, list) BY <2>7 DEF InListOrOlder
        <5> QED BY <2>2, <2>9, <5>1, <5>2
      <4>2. CASE e # "run" BY <2>4, <4>2
      <4> QED BY <4>1, <4>2
    <3> QED BY <2>9, <3>2, <3>3 DEF Kept, Ordered, InListOrOlder, Data, EventsIn, IsEnd
  <2> QED BY <1>2, <2>11, <2>12, <2>13 DEF InStep
<1> QED BY <1>4, <1>5

LEMMA PublishKeeps ==
    ASSUME StepContext, NEW e \in Emitters, Publish(e)
    PROVE  InStep'
<1> USE DEF StepContext
<1> DEFINE n == ev[e]
<1>1. /\ UNCHANGED <<stage, got, lastSent, buffer>> /\ Emitting(e) /\ InFlight(e)
      /\ at[e] = "publish" /\ AfterPut(e)
      /\ inbox' = [r \in Readers |-> IF redisUp /\ stage[r] \in Subscribed
                                     THEN Append(inbox[r], n) ELSE inbox[r]]
  BY DEF Publish, Emitting, InFlight, redisVars
<1>2. /\ at'[e] \notin {"push", "publish"}
      /\ \A x \in Emitters \ {e} : at'[x] = at[x] /\ ev'[x] = ev[x]
  BY <1>1, AfterPutEffect
<1>3. /\ Known \subseteq Events /\ EventsIn(buffer) \subseteq Known
      /\ \A r \in Readers : Held(r) \subseteq Known
      /\ \A x \in Emitters : InFlight(x) => ev[x] \in Known
      /\ n \in Known /\ n \in Events
  BY <1>1, KnownEvents
<1>4. /\ ~IsEnd(n) => e = "run"
      /\ ~(at'["run"] \in {"push", "publish"} /\ ~IsEnd(ev'["run"]))
  <2>1. /\ ~IsEnd(n) => e = "run"
        /\ e # "run" => ~(at'["run"] \in {"push", "publish"} /\ ~IsEnd(ev'["run"]))
    BY <1>1, <1>2, ListenerAlone
  <2> QED BY <1>2, <2>1
<1> HIDE DEF n
<1>5. ASSUME NEW r \in Readers
      PROVE  Held(r)' \subseteq Held(r) \cup {n} /\ Client(r)'
  <2>1. inbox[r] \in Seq(Events) /\ got'[r] = got[r] BY <1>1 DEF TypeOK, ReadersOK
  <2>2. Client(r) BY DEF InStep
  <2>3. CASE redisUp /\ stage[r] \in Subscribed
    <3>1. inbox'[r] = Append(inbox[r], n) BY <1>1, <2>3
    <3>2. EventsIn(inbox'[r]) = EventsIn(inbox[r]) \cup {n} BY <1>3, <2>1, <3>1, InAppend
    <3>3. Held(r)' \subseteq Held(r) \cup {n} BY <2>1, <3>2 DEF Held, EventsIn
    <3>4. ASSUME ~IsEnd(n)
          PROVE  /\ \A f \in Data(EventsIn(inbox[r])) : f.seq < n.seq
                 /\ n.seq <= lastSent[r] => n \in EventsIn(got[r])
      <4>1. /\ \A f \in Known : f.seq <= n.seq /\ f.seq \in Nat /\ (f.seq = n.seq => f = n)
            /\ n \notin EventsIn(inbox[r]) /\ n.seq \in Nat
        BY <1>1, <1>3, <1>4, <2>3, <3>4 DEF InStep, Fresh, Numbered, n, Events
      <4>2. EventsIn(inbox[r]) \subseteq Known /\ EventsIn(got[r]) \subseteq Known
        BY <1>3 DEF Held
      <4>3. \A f \in Data(EventsIn(inbox[r])) : f.seq < n.seq BY <4>1, <4>2 DEF Data
      <4>4. ASSUME n.seq <= lastSent[r] PROVE n \in EventsIn(got[r])
        <5>1. lastSent[r] = 0 \/ \E f \in EventsIn(got[r]) : f.seq = lastSent[r]
          BY <2>2, <2>3 DEF Client, ClientAt, Subscribed
        <5>2. n.seq # 0 BY <1>3, <3>4 DEF InStep, Numbered, BareEnd, IsEnd
        <5>3. PICK f \in EventsIn(got[r]) : f.seq = lastSent[r] BY <4>1, <4>4, <5>1, <5>2
        <5>4. f.seq = n.seq /\ f \in Known BY <4>1, <4>2, <4>4, <5>3
        <5> QED BY <4>1, <5>3, <5>4
      <4> QED BY <4>3, <4>4
    <3>5. ClientAt(stage[r], Append(inbox[r], n), got[r], lastSent[r])
      BY <1>3, <2>1, <2>2, <2>3, <3>4, LiveEventArrives DEF Client
    <3> QED BY <1>1, <3>1, <3>3, <3>5, ClientNext
  <2>4. CASE ~(redisUp /\ stage[r] \in Subscribed)
    <3>1. inbox'[r] = inbox[r] BY <1>1, <2>4
    <3> QED BY <1>1, <2>2, <3>1, ClientKept DEF Held, EventsIn
  <2> QED BY <2>3, <2>4
<1>6. Known' \subseteq Known
  <2> SUFFICES ASSUME NEW x \in Known' PROVE x \in Known OBVIOUS
  <2>1. \/ x \in EventsIn(buffer)
        \/ \E y \in Emitters : at'[y] \in {"push", "publish"} /\ x = ev'[y]
        \/ \E r \in Readers : x \in Held(r)'
    BY <1>1 DEF Known, InFlight, EventsIn
  <2>2. \A y \in Emitters : at'[y] \in {"push", "publish"} => InFlight(y) /\ ev'[y] = ev[y]
    BY <1>2 DEF InFlight
  <2> QED BY <1>3, <1>5, <2>1, <2>2
<1>7. Numbered'
  <2>1. counter \in Nat /\ counter' \in Nat /\ \A x \in Known : x.seq \in Nat
    BY <1>3 DEF TypeOK, RedisOK, Events
  <2> QED BY <1>6, <2>1 DEF InStep, Numbered, BareEnd
<1>8. Fresh' BY <1>4 DEF Fresh, InFlight, IsEnd
<1>9. Kept'
  <2>1. ~IsEnd(n) => InListOrOlder(n, buffer) BY <1>1, <1>4 DEF InStep, Kept, n
  <2>2. Ordered(buffer) /\ \A r \in Readers : \A x \in Data(Held(r)) : InListOrOlder(x, buffer)
    BY DEF InStep, Kept
  <2>3. \A r \in Readers : \A x \in Data(Held(r)') : InListOrOlder(x, buffer)
    BY <1>5, <2>1, <2>2 DEF Data
  <2> QED BY <1>1, <1>4, <2>2, <2>3 DEF Kept, Ordered, InListOrOlder, Data, EventsIn, IsEnd
<1> QED BY <1>5, <1>7, <1>8, <1>9 DEF InStep

\* Steps that emit nothing; a client may lose its connection.
LEMMA LullKeeps ==
    ASSUME StepContext, buffer' = buffer,
           \A e \in Emitters : at'[e] \in {"push", "publish"} => at'[e] = at[e] /\ ev'[e] = ev[e],
           \A r \in Readers :
               /\ got'[r] = got[r] /\ lastSent'[r] = lastSent[r]
               /\ \/ stage'[r] = stage[r] /\ inbox'[r] = inbox[r]
                  \/ inbox'[r] = <<>> /\ stage'[r] = stage[r] /\ stage[r] \in {"away", "closed"}
                  \/ inbox'[r] = <<>> /\ stage'[r] = "away"
                  \/ inbox'[r] = <<>> /\ stage'[r] = "backoff" /\ stage[r] \in Subscribed
    PROVE  InStep'
<1> USE DEF StepContext
<1>1. \A r \in Readers : Held(r)' \subseteq Held(r) BY NoEvents DEF Held, EventsIn
<1>2. Numbered' /\ Fresh' /\ Kept'
  <2>1. \A r \in Readers : stage'[r] \in Subscribed =>
            stage[r] \in Subscribed /\ inbox'[r] = inbox[r]
    BY DEF Subscribed
  <2> QED BY <1>1, <2>1, NothingNew DEF InStep
<1>3. ASSUME NEW r \in Readers PROVE Client(r)'
  <2>1. Client(r) BY DEF InStep
  <2>2. ClientAt(stage'[r], inbox'[r], got[r], lastSent[r])
    <3>1. CASE stage'[r] = stage[r] /\ inbox'[r] = inbox[r] BY <2>1, <3>1 DEF Client
    <3>2. CASE inbox'[r] = <<>> /\ stage'[r] \in {"away", "closed"}
      BY <2>1, <3>2, StreamBreaks DEF Client
    <3>3. CASE inbox'[r] = <<>> /\ stage'[r] = "backoff" /\ stage[r] \in Subscribed
      BY <2>1, <3>3, StreamBreaks DEF Client
    <3> QED BY <3>1, <3>2, <3>3
  <2> QED BY <2>2, ClientNext
<1> QED BY <1>2, <1>3 DEF InStep

LEMMA ExecutionKeeps ==
    ASSUME StepContext, Sequenced',
           \/ \E p \in Procs : StartExecution(p)
           \/ \E result \in {"success", "error"} : GraphEnds(result)
           \/ GraphEmits \/ Finalize \/ Interrupt \/ RequestCancel \/ PersistCancel
           \/ HandleCancel \/ Outage \/ Recover \/ Crash \/ GiveUp \/ UNCHANGED vars
    PROVE  InStep'
<1> USE DEF StepContext
<1>1. buffer' = buffer
  BY DEF StartExecution, GraphEnds, GraphEmits, Finalize, Interrupt, RequestCancel,
         PersistCancel, HandleCancel, Outage, Recover, Crash, GiveUp, vars, redisVars
<1>2. \A e \in Emitters : at'[e] \in {"push", "publish"} => at'[e] = at[e] /\ ev'[e] = ev[e]
  <2> SUFFICES ASSUME NEW e \in Emitters, at'[e] \in {"push", "publish"}
               PROVE  at'[e] = at[e] /\ ev'[e] = ev[e]
    OBVIOUS
  <2>1. e \in {"run", "listener"} BY DEF Emitters
  <2>2. at \in [{"run", "listener"} -> {"waiting", "graph", "finalize", "alloc", "push",
                                        "publish", "over", "idle"}]
        /\ ev \in [{"run", "listener"} -> Events]
    BY DEF TypeOK, RunOK, Emitters
  <2> HIDE DEF TypeOK, Exclusive, InStep
  <2>3. CASE \/ \E p \in Procs : StartExecution(p)
             \/ \E result \in {"success", "error"} : GraphEnds(result)
             \/ Interrupt \/ Crash \/ GiveUp \/ RequestCancel \/ PersistCancel \/ Outage
             \/ Recover \/ UNCHANGED vars
    BY <2>1, <2>2, <2>3 DEF StartExecution, GraphEnds, Interrupt, Struck, Crash, GiveUp,
           RequestCancel, PersistCancel, Outage, Recover, vars, runVars
  <2>4. CASE GraphEmits \/ Finalize BY <2>1, <2>2, <2>4 DEF GraphEmits, Finalize, Begin
  <2>5. CASE HandleCancel BY <2>1, <2>2, <2>5 DEF HandleCancel, Struck
  <2> QED BY <2>3, <2>4, <2>5
<1>3. CASE ~(Outage \/ Crash)
  <2>1. UNCHANGED <<stage, inbox, got, lastSent>>
    BY <1>3 DEF StartExecution, GraphEnds, GraphEmits, Finalize, Interrupt, RequestCancel,
           PersistCancel, HandleCancel, Recover, GiveUp, vars, readerVars
  <2> QED BY <1>1, <1>2, <2>1, LullKeeps
<1>4. CASE Outage \/ Crash
  <2>1. ASSUME NEW r \in Readers
        PROVE  /\ got'[r] = got[r] /\ lastSent'[r] = lastSent[r]
               /\ \/ stage'[r] = stage[r] /\ inbox'[r] = inbox[r]
                  \/ inbox'[r] = <<>> /\ stage'[r] = stage[r] /\ stage[r] \in {"away", "closed"}
                  \/ inbox'[r] = <<>> /\ stage'[r] = "away"
                  \/ inbox'[r] = <<>> /\ stage'[r] = "backoff" /\ stage[r] \in Subscribed
    BY <1>4 DEF Outage, Crash, Connected
  <2> QED BY <1>1, <1>2, <2>1, LullKeeps
<1> QED BY <1>3, <1>4

\* A step of one client's stream.
LEMMA OwnStreamKeeps ==
    ASSUME StepContext, NEW r \in Readers, UNCHANGED <<at, ev, buffer>>,
           \A q \in Readers \ {r} : /\ stage'[q] = stage[q] /\ inbox'[q] = inbox[q]
                                    /\ got'[q] = got[q] /\ lastSent'[q] = lastSent[q],
           EventsIn(got'[r]) \cup EventsIn(inbox'[r]) \subseteq Held(r) \cup EventsIn(buffer) \cup {BareEnd},
           stage'[r] \in Subscribed =>
               inbox'[r] = <<>> \/ (stage[r] \in Subscribed /\ EventsIn(inbox'[r]) \subseteq EventsIn(inbox[r])),
           ClientAt(stage'[r], inbox'[r], got'[r], lastSent'[r])
    PROVE  InStep'
<1> USE DEF StepContext
<1>1. \A q \in Readers : Client(q)' BY ClientKept, ClientNext DEF InStep
<1>2. \A q \in Readers : Held(q)' \subseteq Held(q) \cup EventsIn(buffer) \cup {BareEnd}
  <2>1. \A q \in Readers : Held(q)' = EventsIn(got'[q]) \cup EventsIn(inbox'[q])
    BY DEF Held, EventsIn
  <2>2. \A q \in Readers \ {r} : Held(q)' = Held(q) BY <2>1 DEF Held
  <2> QED BY <2>1, <2>2
<1>3. Numbered' /\ Fresh' /\ Kept' BY <1>2, NothingNew DEF InStep
<1> QED BY <1>1, <1>3 DEF InStep

LEMMA ReaderKeeps ==
    ASSUME StepContext, NEW r \in Readers, Connect(r) \/ Read(r) \/ Disconnect(r)
    PROVE  InStep'
<1> USE DEF StepContext
<1>1. UNCHANGED <<at, ev, buffer>>
  BY DEF Connect, Read, Disconnect, Replay, SendReplayed, StartLive, Subscribe, CheckEnd,
         Receive, LeaveQuiet, Retry, runVars, redisVars
<1>2. /\ stage \in [Readers -> Stages] /\ inbox \in [Readers -> Seq(Events)]
      /\ lastSent \in [Readers -> Nat] /\ got \in [Readers -> Seq(Events)]
      /\ inbox[r] \in Seq(Events) /\ got[r] \in Seq(Events) /\ lastSent[r] \in Nat
  BY DEF TypeOK, ReadersOK
<1>3. ClientAt(stage[r], inbox[r], got[r], lastSent[r]) BY DEF InStep, Client
<1>4. Held(r) = EventsIn(got[r]) \cup EventsIn(inbox[r]) BY DEF Held
<1>5. \A q \in Readers \ {r} : /\ stage'[q] = stage[q] /\ inbox'[q] = inbox[q]
                               /\ got'[q] = got[q] /\ lastSent'[q] = lastSent[q]
  BY <1>2 DEF Connect, Read, Disconnect, Replay, SendReplayed, StartLive, Subscribe, CheckEnd,
         Receive, LeaveQuiet, Retry
<1> DEFINE Same(st) == /\ stage'[r] = st /\ inbox'[r] = inbox[r]
                       /\ got'[r] = got[r] /\ lastSent'[r] = lastSent[r]
<1>6. ASSUME NEW st, Same(st), ClientAt(st, inbox[r], got[r], lastSent[r]),
             st \in Subscribed => inbox[r] = <<>> \/ stage[r] \in Subscribed
      PROVE  InStep'
  <2>1. EventsIn(got'[r]) \cup EventsIn(inbox'[r]) = Held(r) BY <1>4, <1>6
  <2>2. stage'[r] \in Subscribed =>
            inbox'[r] = <<>> \/ (stage[r] \in Subscribed /\ EventsIn(inbox'[r]) \subseteq EventsIn(inbox[r]))
    BY <1>6
  <2>3. ClientAt(stage'[r], inbox'[r], got'[r], lastSent'[r]) BY <1>6
  <2> QED BY <1>1, <1>5, <2>1, <2>2, <2>3, OwnStreamKeeps
<1>7. CASE Connect(r)
  <2>1. CASE status = "over" /\ got[r] = <<>>
    <3>1. got'[r] = <<BareEnd>> /\ stage'[r] = "closed" /\ inbox'[r] = inbox[r]
      BY <1>2, <1>7, <2>1 DEF Connect, BareEnd
    <3>2. EventsIn(<<BareEnd>>) = {BareEnd} /\ Ordered(<<BareEnd>>)
      BY DEF EventsIn, Ordered
    <3>3. ClientAt("closed", inbox[r], <<BareEnd>>, lastSent'[r])
      BY <3>2 DEF ClientAt, Subscribed
    <3>4. EventsIn(got'[r]) \cup EventsIn(inbox'[r]) \subseteq Held(r) \cup EventsIn(buffer) \cup {BareEnd}
      BY <1>4, <3>1, <3>2
    <3>5. stage'[r] \notin Subscribed BY <3>1 DEF Subscribed
    <3>6. ClientAt(stage'[r], inbox'[r], got'[r], lastSent'[r]) BY <3>1, <3>3
    <3> QED BY <1>1, <1>5, <3>4, <3>5, <3>6, OwnStreamKeeps
  <2>2. CASE ~(status = "over" /\ got[r] = <<>>)
    <3>1. /\ got'[r] = got[r] /\ stage'[r] = "opened" /\ inbox'[r] = inbox[r]
          /\ lastSent'[r] = IF got[r] = <<>> THEN 0 ELSE got[r][Len(got[r])].seq
      BY <1>2, <1>7, <2>2 DEF Connect, LastId
    <3>2. NoEnds(got[r]) BY <1>7 DEF Connect, HasEnd, NoEnds
    <3>3. ClientAt("opened", inbox[r], got[r], lastSent'[r])
      BY <1>2, <1>3, <3>1, <3>2, StreamOpens
    <3>4. EventsIn(got'[r]) \cup EventsIn(inbox'[r]) = Held(r) BY <1>4, <3>1
    <3>5. stage'[r] \notin Subscribed BY <3>1 DEF Subscribed
    <3>6. ClientAt(stage'[r], inbox'[r], got'[r], lastSent'[r]) BY <3>1, <3>3
    <3> QED BY <1>1, <1>5, <3>4, <3>5, <3>6, OwnStreamKeeps
  <2> QED BY <2>1, <2>2
<1>8. CASE Replay(r)
  <2> DEFINE list == IF redisUp THEN ReplayAfter(LastId(r)) ELSE <<>>
  <2>1. /\ stage[r] = "opened" /\ stage'[r] = "replaying" /\ inbox'[r] = list
        /\ got'[r] = got[r] /\ lastSent'[r] = lastSent[r]
    BY <1>2, <1>8 DEF Replay
  <2>2. Ordered(buffer) /\ RedisOK /\ LastId(r) \in Nat
    BY LastIdType DEF InStep, Kept, TypeOK
  <2>3. /\ Ordered(ReplayAfter(LastId(r)))
        /\ EventsIn(ReplayAfter(LastId(r))) \subseteq EventsIn(buffer)
    BY <2>2, ReplayFacts
  <2>4. \A e \in Data(EventsIn(got[r])), f \in Data(EventsIn(ReplayAfter(LastId(r)))) : e.seq < f.seq
    <3>1. CASE got[r] = <<>> BY <3>1, NoEvents
    <3>2. CASE got[r] # <<>>
      <4> DEFINE n == got[r][Len(got[r])]
      <4>1. NoEnds(got[r]) /\ Ordered(got[r]) BY <1>3, <2>1 DEF ClientAt
      <4>2. /\ n \in EventsIn(got[r]) /\ ~IsEnd(n) /\ n \in Events
            /\ \A e \in EventsIn(got[r]) : e.seq <= n.seq
        BY <1>2, <3>2, <4>1, LastIsNewest
      <4>3. LastId(r) = n.seq BY <3>2 DEF LastId
      <4> HIDE DEF n
      <4>4. n \in Held(r) /\ n \in Known /\ EventsIn(buffer) \subseteq Known
        BY <1>4, <4>2, KnownEvents
      <4>5. InListOrOlder(n, buffer) BY <4>2, <4>4 DEF InStep, Kept, Data
      <4>6. \A f \in EventsIn(buffer) : f.seq = n.seq => f = n
        BY <4>4 DEF InStep, Numbered
      <4>7. \A f \in Data(EventsIn(ReplayAfter(LastId(r)))) : n.seq < f.seq
        BY <2>2, <4>2, <4>3, <4>5, <4>6, ReplayFacts
      <4>8. \A e \in EventsIn(got[r]) \cup EventsIn(ReplayAfter(LastId(r))) : e.seq \in Nat
        BY <1>4, <2>3, KnownEvents DEF Events
      <4>9. n.seq \in Nat BY <4>2 DEF Events
      <4> QED BY <4>2, <4>7, <4>8, <4>9 DEF Data
    <3> QED BY <3>1, <3>2
  <2>5. /\ Ordered(list) /\ EventsIn(list) \subseteq EventsIn(buffer)
        /\ \A e \in Data(EventsIn(got[r])), f \in Data(EventsIn(list)) : e.seq < f.seq
    BY <2>3, <2>4, NoEvents
  <2> HIDE DEF list
  <2>6. ClientAt("replaying", list, got[r], lastSent[r]) BY <1>3, <2>1, <2>5, ReplayBegins
  <2>7. EventsIn(got'[r]) \cup EventsIn(inbox'[r]) \subseteq Held(r) \cup EventsIn(buffer) \cup {BareEnd}
    BY <1>4, <2>1, <2>5
  <2>8. stage'[r] \notin Subscribed BY <2>1 DEF Subscribed
  <2>9. ClientAt(stage'[r], inbox'[r], got'[r], lastSent'[r]) BY <2>1, <2>6
  <2> QED BY <1>1, <1>5, <2>7, <2>8, <2>9, OwnStreamKeeps
<1>9. CASE SendReplayed(r)
  <2> DEFINE e == Head(inbox[r])
  <2>1. /\ stage[r] = "replaying" /\ inbox[r] # <<>> /\ stage'[r] = "replaying"
        /\ inbox'[r] = Tail(inbox[r]) /\ got'[r] = Append(got[r], e)
        /\ lastSent'[r] = IF e.seq > lastSent[r] THEN e.seq ELSE lastSent[r]
    BY <1>2, <1>9 DEF SendReplayed
  <2>2. ClientAt("replaying", Tail(inbox[r]), Append(got[r], e),
                 IF e.seq > lastSent[r] THEN e.seq ELSE lastSent[r])
    BY <1>2, <1>3, <2>1, ReplayGoesOn
  <2>3. e \in Events /\ EventsIn(inbox[r]) = EventsIn(Tail(inbox[r])) \cup {e}
    BY <1>2, <2>1, TailFacts
  <2>4. EventsIn(Append(got[r], e)) = EventsIn(got[r]) \cup {e} BY <1>2, <2>3, InAppend
  <2> HIDE DEF e
  <2>5. EventsIn(got'[r]) \cup EventsIn(inbox'[r]) \subseteq Held(r) BY <1>4, <2>1, <2>3, <2>4
  <2>6. stage'[r] \notin Subscribed BY <2>1 DEF Subscribed
  <2>7. ClientAt(stage'[r], inbox'[r], got'[r], lastSent'[r]) BY <2>1, <2>2
  <2> QED BY <1>1, <1>5, <2>5, <2>6, <2>7, OwnStreamKeeps
<1>10. CASE StartLive(r)
  <2>1. /\ stage[r] = "replaying" /\ inbox[r] = <<>> /\ (Same("closed") \/ Same("iterate"))
    BY <1>2, <1>10 DEF StartLive
  <2>2. ClientAt("closed", inbox[r], got[r], lastSent[r]) BY <1>3, StreamBreaks
  <2>3. ClientAt("iterate", inbox[r], got[r], lastSent[r]) BY <1>3, <2>1, IterationGoesOn
  <2> HIDE DEF Same
  <2> QED BY <1>6, <2>1, <2>2, <2>3 DEF Subscribed
<1>11. CASE Subscribe(r)
  <2>1. stage[r] = "iterate" /\ (Same("checkEnd") \/ Same("backoff"))
    BY <1>2, <1>11 DEF Subscribe
  <2>2. inbox[r] = <<>> BY <1>3, <2>1 DEF ClientAt
  <2>3. /\ ClientAt("checkEnd", inbox[r], got[r], lastSent[r])
        /\ ClientAt("backoff", inbox[r], got[r], lastSent[r])
    BY <1>3, <2>1, <2>2, IterationGoesOn
  <2> HIDE DEF Same
  <2> QED BY <1>6, <2>1, <2>2, <2>3
<1>12. CASE CheckEnd(r)
  <2>1. stage[r] = "checkEnd" /\ Same("listen") BY <1>2, <1>12 DEF CheckEnd
  <2>2. ClientAt("listen", inbox[r], got[r], lastSent[r]) BY <1>3, <2>1, ListeningBegins
  <2> HIDE DEF Same
  <2> QED BY <1>6, <2>1, <2>2 DEF Subscribed
<1>13. CASE LeaveQuiet(r)
  <2>1. Same("closed") BY <1>2, <1>13 DEF LeaveQuiet
  <2>2. ClientAt("closed", inbox[r], got[r], lastSent[r]) BY <1>3, StreamBreaks
  <2> HIDE DEF Same
  <2> QED BY <1>6, <2>1, <2>2 DEF Subscribed
<1>14. CASE Retry(r)
  <2>1. stage[r] = "backoff" /\ (Same("closed") \/ Same("iterate")) BY <1>2, <1>14 DEF Retry
  <2>2. inbox[r] = <<>> BY <1>3, <2>1 DEF ClientAt
  <2>3. ClientAt("closed", inbox[r], got[r], lastSent[r]) BY <1>3, StreamBreaks
  <2>4. ClientAt("iterate", inbox[r], got[r], lastSent[r]) BY <1>3, <2>1, <2>2, IterationGoesOn
  <2> HIDE DEF Same
  <2> QED BY <1>6, <2>1, <2>2, <2>3, <2>4
<1>15. CASE Receive(r)
  <2> DEFINE e == Head(inbox[r])
             todo == Tail(inbox[r])
             more == Append(got[r], e)
  <2>1. stage[r] = "listen" /\ inbox[r] # <<>> BY <1>15 DEF Receive
  <2>2. /\ ClientAt("listen", todo, got[r], lastSent[r])
        /\ ~(e.seq <= lastSent[r]) => /\ ClientAt("closed", <<>>, more, e.seq)
                                      /\ ~IsEnd(e) => ClientAt("listen", todo, more, e.seq)
    BY <1>2, <1>3, <2>1, ListeningGoesOn
  <2>3. ClientAt("closed", <<>>, got[r], lastSent[r]) BY <1>3, StreamBreaks
  <2>4. e \in Events /\ EventsIn(inbox[r]) = EventsIn(todo) \cup {e}
    BY <1>2, <2>1, TailFacts
  <2>5. EventsIn(more) = EventsIn(got[r]) \cup {e} BY <1>2, <2>4, InAppend
  <2>6. /\ IF e.seq <= lastSent[r] THEN got'[r] = got[r] /\ lastSent'[r] = lastSent[r]
                                   ELSE got'[r] = more /\ lastSent'[r] = e.seq
        /\ IF IsEnd(e) THEN stage'[r] = "closed" /\ inbox'[r] = <<>>
                       ELSE stage'[r] = "listen" /\ inbox'[r] = todo
    BY <1>2, <1>15 DEF Receive, IsReplayed
  <2> HIDE DEF e, todo, more
  <2>7. EventsIn(got'[r]) \cup EventsIn(inbox'[r]) \subseteq Held(r)
    BY <1>4, <2>4, <2>5, <2>6, NoEvents
  <2>8. stage'[r] \in Subscribed =>
            inbox'[r] = <<>> \/ (stage[r] \in Subscribed /\ EventsIn(inbox'[r]) \subseteq EventsIn(inbox[r]))
    BY <2>1, <2>4, <2>6 DEF Subscribed
  <2>9. ClientAt(stage'[r], inbox'[r], got'[r], lastSent'[r]) BY <2>2, <2>3, <2>6
  <2> QED BY <1>1, <1>5, <2>7, <2>8, <2>9, OwnStreamKeeps
<1>16. CASE Disconnect(r)
  <2>1. /\ stage'[r] = "away" /\ inbox'[r] = <<>> /\ got'[r] = got[r] /\ lastSent'[r] = lastSent[r]
    BY <1>2, <1>16 DEF Disconnect
  <2>2. ClientAt("away", <<>>, got[r], lastSent[r]) BY <1>3, StreamBreaks
  <2>3. EventsIn(got'[r]) \cup EventsIn(inbox'[r]) \subseteq Held(r) BY <1>4, <2>1, NoEvents
  <2>4. stage'[r] \notin Subscribed BY <2>1 DEF Subscribed
  <2>5. ClientAt(stage'[r], inbox'[r], got'[r], lastSent'[r]) BY <2>1, <2>2
  <2> QED BY <1>1, <1>5, <2>3, <2>4, <2>5, OwnStreamKeeps
<1> QED BY <1>7, <1>8, <1>9, <1>10, <1>11, <1>12, <1>13, <1>14, <1>15, <1>16 DEF Read

LEMMA StreamInvStep == TypeOK /\ StreamInv /\ [Next]_vars => StreamInv'
<1> SUFFICES ASSUME TypeOK, StreamInv, [Next]_vars PROVE StreamInv' OBVIOUS
<1>1. Exclusive' BY ExclusiveStep DEF StreamInv
<1>2. ASSUME Sequenced' PROVE InStep'
  <2>1. StepContext BY <1>2, SequencedStep, TypeStep DEF StepContext, StreamInv
  <2>2. ~Expire
    <3> SUFFICES ASSUME Expire PROVE FALSE OBVIOUS
    <3>1. spent'["expiry"] = spent["expiry"] + 1 /\ stamps' = stamps
      BY DEF Expire, Disturb, TypeOK, HistOK, Faults
    <3> QED BY <1>2, <3>1 DEF Sequenced, TypeOK, HistOK, Faults
  <2> QED BY <1>2, <2>1, <2>2, AllocateKeeps, PushKeeps, PublishKeeps, ExecutionKeeps, ReaderKeeps
          DEF Next, Emit
<1> QED BY <1>1, <1>2 DEF StreamInv

LEMMA StreamInvInit == Init => StreamInv
<1> SUFFICES ASSUME Init PROVE StreamInv OBVIOUS
<1>1. /\ at["run"] = "waiting" /\ at["listener"] = "idle" /\ buffer = <<>>
      /\ \A r \in Readers : /\ stage[r] = "away" /\ got[r] = <<>> /\ inbox[r] = <<>>
  BY DEF Init, Emitters
<1>2. Exclusive BY <1>1 DEF Exclusive
<1>3. \A r \in Readers : Held(r) = {} BY <1>1, NoEvents DEF Held
<1>4. Known = {} BY <1>1, <1>3, NoEvents DEF Known, InFlight, Emitters
<1>5. Numbered /\ Fresh BY <1>1, <1>4 DEF Numbered, Fresh, InFlight
<1>6. Kept BY <1>1, <1>3, NoEvents DEF Kept, Data
<1>7. \A r \in Readers : Client(r) BY <1>1, NoEvents DEF Client, ClientAt, Subscribed
<1> QED BY <1>2, <1>5, <1>6, <1>7 DEF StreamInv, InStep

\* A client receives the data events of a run in the order of their
\* production, across reconnections, replays, crashes and executions that were
\* started again, while ids come from the run's counter.
THEOREM ClientsReadInOrder == Spec => []InOrder
<1>1. StreamInv => InOrder
  BY DEF StreamInv, InStep, Sequenced, InOrder, Client, ClientAt, Ordered
<1> QED BY <1>1, StreamInvStep, StreamInvInit, TypeCorrect, PTL DEF Spec

\* Without an outage no id is taken from the clock.
RedisReachable == spent["outage"] = 0 => redisUp /\ stamps = 0

LEMMA RedisReachableStep == TypeOK /\ RedisReachable /\ [Next]_vars => RedisReachable'
<1> SUFFICES ASSUME TypeOK, RedisReachable, [Next]_vars PROVE RedisReachable' OBVIOUS
<1> USE DEF TypeOK, HistOK, Faults
<1>1. CASE UNCHANGED <<redisUp, stamps, spent>> BY <1>1 DEF RedisReachable
<1>2. ASSUME NEW fault \in Faults, Disturb(fault), UNCHANGED <<redisUp, stamps>>
      PROVE  RedisReachable'
  BY <1>2 DEF Disturb, RedisReachable
<1>3. ASSUME NEW e \in Emitters, Emit(e) PROVE RedisReachable'
  BY <1>3 DEF Emit, Allocate, Push, Publish, redisVars, RedisReachable
<1>4. CASE Outage
  <2>1. spent' = [spent EXCEPT !["outage"] = @ + 1] BY <1>4 DEF Outage, Disturb
  <2>2. spent'["outage"] # 0 BY <2>1
  <2> QED BY <2>2 DEF RedisReachable
<1>5. CASE Interrupt \/ RequestCancel \/ Crash \/ Expire
  BY <1>2, <1>5 DEF Interrupt, RequestCancel, Crash, Expire, redisVars
<1>6. CASE Recover BY <1>6 DEF Recover, RedisReachable
<1>7. CASE \/ \E p \in Procs : StartExecution(p)
           \/ \E result \in {"success", "error"} : GraphEnds(result)
           \/ GraphEmits \/ Finalize \/ PersistCancel \/ HandleCancel \/ GiveUp
           \/ UNCHANGED vars
  BY <1>1, <1>7 DEF StartExecution, GraphEnds, GraphEmits, Finalize, PersistCancel, HandleCancel,
         GiveUp, vars, redisVars
<1>8. ASSUME NEW r \in Readers, Connect(r) \/ Read(r) \/ Disconnect(r) PROVE RedisReachable'
  BY <1>1, <1>8 DEF Connect, Read, Disconnect, Replay, SendReplayed, StartLive, Subscribe,
         CheckEnd, Receive, LeaveQuiet, Retry, redisVars
<1> QED BY <1>3, <1>4, <1>5, <1>6, <1>7, <1>8 DEF Next

\* While Redis stays reachable and its keys last, no client is kept from a
\* live event that it was never sent: the generator's comparison with lastSent
\* drops duplicates only.
THEOREM OnlyDuplicatesSkipped == Spec => SkippedWasSent
<1>1. Init => RedisReachable BY DEF Init, RedisReachable
<1>2. ASSUME TypeOK, StreamInv, RedisReachable, NEW r \in Readers, SkipsUnsent(r)
      PROVE  spent["outage"] + spent["expiry"] > 0
  <2> SUFFICES ASSUME ~(spent["outage"] + spent["expiry"] > 0) PROVE FALSE OBVIOUS
  <2>1. spent["outage"] = 0 /\ spent["expiry"] = 0 BY <1>2 DEF TypeOK, HistOK, Faults
  <2>2. Sequenced BY <1>2, <2>1 DEF RedisReachable, Sequenced
  <2>3. ClientAt(stage[r], inbox[r], got[r], lastSent[r])
    BY <1>2, <2>2 DEF StreamInv, InStep, Client
  <2>4. /\ stage[r] = "listen" /\ inbox[r] # <<>> /\ ~IsEnd(Head(inbox[r]))
        /\ Head(inbox[r]).seq <= lastSent[r] /\ Head(inbox[r]) \notin EventsIn(got[r])
    BY <1>2 DEF SkipsUnsent, Receive, IsReplayed, EventsIn
  <2>5. inbox[r] \in Seq(Events) BY <1>2 DEF TypeOK, ReadersOK
  <2>6. Head(inbox[r]) \in EventsIn(inbox[r]) BY <2>4, <2>5, TailFacts
  <2> QED BY <2>3, <2>4, <2>6 DEF ClientAt, Subscribed, Data
<1>3. TypeOK /\ StreamInv /\ RedisReachable
         => \A r \in Readers : SkipsUnsent(r) => spent["outage"] + spent["expiry"] > 0
  BY <1>2
<1> QED
  BY <1>1, <1>3, RedisReachableStep, StreamInvStep, StreamInvInit, TypeCorrect, PTL
  DEF Spec, SkippedWasSent
=============================================================================
