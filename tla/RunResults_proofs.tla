-------------------------- MODULE RunResults_proofs --------------------------
(***************************************************************************)
(* What a run gives: that a wait answers with the output the run keeps and *)
(* that the thread of a stateless run is deleted after the run and not     *)
(* under it, for any number of waiting requests, attempts and disturbances *)
(* (RunWaits); and that the events and the output a run makes of its       *)
(* graph's chunks lose no interrupt and no token, for any number of        *)
(* chunks, messages and subgraphs (GraphEvents).                           *)
(***************************************************************************)
EXTENDS RunWaits, GraphEvents, SequenceTheorems, FiniteSetTheorems, TLAPS

USE ConstantsAssumption

-----------------------------------------------------------------------------
(* The inductive invariant *)

Deleter(w) == waiter[w].kind \in {"wait", "clean"}

Finished == row \in Terminal \cup {"gone"}

\* A request is where its kind can be.
Place(w) ==
    /\ waiter[w].kind = "none" <=> waiter[w].step = "idle"
    /\ waiter[w].kind = "cancel" => cancelled
    /\ waiter[w].step \in {"persist", "settle"} => waiter[w].kind = "cancel"
    /\ waiter[w].step = "read" => waiter[w].kind \in {"join", "wait"}
    /\ waiter[w].step \in {"first", "second", "row"} => waiter[w].kind \in {"join", "wait", "clean"}
    /\ waiter[w].step \in {"select", "cancel", "await", "drop", "over"} => Deleter(w)
    /\ waiter[w].step = "answered" => waiter[w].kind \in {"join", "cancel"}

Places == \A w \in Waiters : Place(w)

OneDeleter == \A v, w \in Waiters : Deleter(v) /\ Deleter(w) => v = w

\* Only its own clean-up deletes the thread, and then it is through.
GoneByDeletion == row = "gone" => \E w \in Waiters : waiter[w].step = "over"

\* What holds of the attempts and of the key while nothing went wrong.
OneWorks == \A a \in Attempts : Working(a) => owner = a /\ row \in {"running", "gone"}
SignalsTheEnd == \A a \in Attempts : attempt[a].step = "signal" => Finished
KeyMeansEnd == key => Finished

\* A wait that was not cut short has seen the end of the run.
Saw(w) ==
    /\ ~waiter[w].cut
    /\ waiter[w].step \in {"read", "select", "cancel", "await", "drop", "over", "answered"}
    => Finished

SawTheEnd == \A w \in Waiters : Saw(w)

ToldRight(w) ==
    Told(w) /\ ~waiter[w].cut => waiter[w].answer = output \/ (row = "gone" /\ waiter[w].answer = 0)

ToldTheOutput == \A w \in Waiters : ToldRight(w)

Calm == OneWorks /\ SignalsTheEnd /\ KeyMeansEnd /\ SawTheEnd /\ ToldTheOutput

WaitsInv == Places /\ OneDeleter /\ GoneByDeletion /\ (~Disturbed => Calm)

-----------------------------------------------------------------------------
(* Types, per group of variables *)

AttemptSteps == {"none", "start", "stream", "undo", "signal", "release", "over"}
AttemptStates == [step : AttemptSteps, here : BOOLEAN]
WaiterSteps == {"idle", "first", "second", "row", "read", "select", "cancel", "await",
            "drop", "publish", "persist", "settle", "answered", "over", "left"}
WaiterStates == [kind : {"none", "join", "wait", "clean", "cancel"}, step : WaiterSteps,
                 answer : 0 .. MaxAttempts, task : 0 .. MaxAttempts, cut : BOOLEAN]

RowOK ==
    /\ row \in {"gone"} \cup Active \cup Terminal
    /\ output \in 0 .. MaxAttempts /\ owner \in 0 .. MaxAttempts
AttemptsOK == attempt \in [Attempts -> AttemptStates]
ReapersOK == reaper \in [Reapers -> {"idle", "check", "fail"}] /\ retries \in Nat
RedisOK == key \in BOOLEAN /\ redis \in BOOLEAN /\ sent \in BOOLEAN
WaitersOK == waiter \in [Waiters -> WaiterStates]
HistOK == cancelled \in BOOLEAN /\ unwritten \in BOOLEAN /\ stalled \in BOOLEAN
LeftOK == left \in [Bounded -> Nat]

LEMMA TypeGroups ==
    TypeOK <=> RowOK /\ AttemptsOK /\ ReapersOK /\ RedisOK /\ WaitersOK /\ HistOK /\ LeftOK
BY DEF TypeOK, RowOK, AttemptsOK, ReapersOK, RedisOK, WaitersOK, HistOK, LeftOK, AttemptStates,
       WaiterStates, AttemptSteps, WaiterSteps

LEMMA TypeGroupsNext ==
    RowOK' /\ AttemptsOK' /\ ReapersOK' /\ RedisOK' /\ WaitersOK' /\ HistOK' /\ LeftOK' => TypeOK'
BY DEF TypeOK, RowOK, AttemptsOK, ReapersOK, RedisOK, WaitersOK, HistOK, LeftOK, AttemptStates,
       WaiterStates, AttemptSteps, WaiterSteps

LEMMA GroupsKept ==
    /\ RowOK /\ UNCHANGED <<row, output, owner>> => RowOK'
    /\ AttemptsOK /\ UNCHANGED attempt => AttemptsOK'
    /\ ReapersOK /\ UNCHANGED <<reaper, retries>> => ReapersOK'
    /\ RedisOK /\ UNCHANGED <<key, redis, sent>> => RedisOK'
    /\ WaitersOK /\ UNCHANGED waiter => WaitersOK'
    /\ HistOK /\ UNCHANGED <<cancelled, unwritten, stalled>> => HistOK'
    /\ LeftOK /\ UNCHANGED left => LeftOK'
BY DEF RowOK, AttemptsOK, ReapersOK, RedisOK, WaitersOK, HistOK, LeftOK

LEMMA SpendType ==
    ASSUME LeftOK, NEW kind \in Bounded, Spend(kind)
    PROVE  LeftOK'
BY DEF LeftOK, Spend

LEMMA AttemptsNumbered == \A a \in Attempts : a \in 0 .. MaxAttempts /\ a # 0
BY DEF Attempts

LEMMA BeginType ==
    ASSUME AttemptsOK, NEW a \in Attempts, NEW step \in AttemptSteps, Begin(a, step)
    PROVE  AttemptsOK'
BY DEF AttemptsOK, AttemptStates, Begin

LEMMA WriteType ==
    ASSUME RowOK, NEW status \in Active \cup Terminal, NEW out \in 0 .. MaxAttempts,
           Write(status, out), UNCHANGED owner
    PROVE  RowOK'
BY DEF RowOK, Write

\* Whom a cancellation strikes, and what it makes of him.
StruckFrom(old, new) ==
    \/ old \in {"start", "stream"} /\ new = "undo"
    \/ old = "undo" /\ new = "signal"
    \/ old = "signal" /\ new \in {"signal", "release"}
    \/ old \in {"none", "release", "over"} /\ new = old

LEMMA StrikeEffect ==
    ASSUME AttemptsOK, NEW hit \in SUBSET Attempts, Strike(hit)
    PROVE  /\ AttemptsOK'
           /\ \A a \in Attempts : attempt'[a].here = attempt[a].here
           /\ \A a \in Attempts \ hit : attempt'[a] = attempt[a]
           /\ \A a \in hit : StruckFrom(attempt[a].step, attempt'[a].step)
           /\ unwritten' = (unwritten \/ \E a \in hit : attempt[a].step = "undo")
<1>1. PICK quiet \in BOOLEAN :
          attempt' = [a \in Attempts |->
             IF a \notin hit THEN attempt[a]
             ELSE [attempt[a] EXCEPT !.step =
                      CASE @ \in {"start", "stream"} -> "undo"
                        [] @ = "undo" -> "signal"
                        [] @ = "signal" -> IF quiet THEN "release" ELSE "signal"
                        [] OTHER -> @]]
  BY DEF Strike
<1>2. \A a \in Attempts : attempt[a] \in AttemptStates BY DEF AttemptsOK
<1>3. \A a \in Attempts \ hit : attempt'[a] = attempt[a] BY <1>1
<1>4. ASSUME NEW a \in hit
      PROVE  /\ attempt'[a] \in AttemptStates /\ attempt'[a].here = attempt[a].here
             /\ StruckFrom(attempt[a].step, attempt'[a].step)
  <2>1. attempt[a] \in AttemptStates BY <1>2
  <2>2. attempt'[a] = [attempt[a] EXCEPT !.step =
                      CASE @ \in {"start", "stream"} -> "undo"
                        [] @ = "undo" -> "signal"
                        [] @ = "signal" -> IF quiet THEN "release" ELSE "signal"
                        [] OTHER -> @]
    BY <1>1
  <2> QED BY <2>1, <2>2 DEF AttemptStates, AttemptSteps, StruckFrom
<1>5. attempt' = [a \in Attempts |-> attempt'[a]] BY <1>1
<1>6. AttemptsOK' BY <1>2, <1>3, <1>4, <1>5 DEF AttemptsOK
<1>7. unwritten' = (unwritten \/ \E a \in hit : attempt[a].step = "undo") BY DEF Strike
<1> QED BY <1>2, <1>3, <1>4, <1>6, <1>7

LEMMA LocalAttempts == Local \subseteq Attempts
BY DEF Local

LEMMA GotoType ==
    ASSUME WaitersOK, NEW w \in Waiters, NEW step \in WaiterSteps, Goto(w, step)
    PROVE  WaitersOK'
BY DEF WaitersOK, WaiterStates, Goto

LEMMA IdleType == Idle \in WaiterStates
BY DEF Idle, WaiterStates, WaiterSteps

LEMMA StartType ==
    ASSUME WaitersOK, NEW w \in Waiters, NEW step \in WaiterSteps,
           NEW kind \in {"none", "join", "wait", "clean", "cancel"}, Start(w, kind, step)
    PROVE  WaitersOK'
<1> DEFINE new == [Idle EXCEPT !.kind = kind, !.step = step]
<1>1. new \in WaiterStates BY IdleType DEF WaiterStates
<1>2. waiter' = [waiter EXCEPT ![w] = new] BY DEF Start
<1> QED BY <1>1, <1>2 DEF WaitersOK

\* A waiter moves and is marked, or is given an answer or a task to wait for.
LEMMA MarkType ==
    ASSUME WaitersOK, NEW w \in Waiters, NEW step \in WaiterSteps
    PROVE  /\ waiter' = [waiter EXCEPT ![w].step = step, ![w].cut = TRUE] => WaitersOK'
           /\ \A n \in 0 .. MaxAttempts :
                 /\ waiter' = [waiter EXCEPT ![w].step = step, ![w].answer = n] => WaitersOK'
                 /\ waiter' = [waiter EXCEPT ![w].answer = n, ![w].step = step] => WaitersOK'
                 /\ waiter' = [waiter EXCEPT ![w].step = step, ![w].task = n] => WaitersOK'
BY DEF WaitersOK, WaiterStates

LEMMA WaitedType == \A w \in Waiters : Waited(w) \in {"select", "read"}
BY DEF Waited

LEMMA RunType ==
    ASSUME TypeOK, Run
    PROVE  TypeOK'
<1> USE TypeGroups, TypeGroupsNext, GroupsKept, AttemptsNumbered DEF histVars, redisVars, reaperVars, runVars
<1>1. ASSUME NEW a \in Attempts, NEW here \in BOOLEAN, Acquire(a, here) PROVE TypeOK'
  <2>1. RowOK' BY <1>1 DEF RowOK, Acquire, Active
  <2>2. AttemptsOK' BY <1>1 DEF AttemptsOK, AttemptStates, AttemptSteps, Acquire
  <2> QED BY <1>1, <2>1, <2>2 DEF Acquire
<1>2. ASSUME NEW a \in Attempts, WriteRunning(a) PROVE TypeOK'
  <2>1. RowOK' BY <1>2 DEF RowOK, WriteRunning, Write, Active
  <2>2. AttemptsOK' BY <1>2, BeginType DEF WriteRunning, AttemptSteps
  <2> QED BY <1>2, <2>1, <2>2 DEF WriteRunning
<1>3. ASSUME NEW a \in Attempts, NEW status \in Terminal, Finalize(a, status) PROVE TypeOK'
  <2>1. RowOK' BY <1>3 DEF RowOK, Finalize, Write
  <2>2. AttemptsOK' BY <1>3, BeginType DEF Finalize, AttemptSteps
  <2> QED BY <1>3, <2>1, <2>2 DEF Finalize
<1>4. ASSUME NEW a \in Attempts, Undo(a) PROVE TypeOK'
  <2>1. RowOK' BY <1>4 DEF RowOK, Undo, Write, Terminal
  <2>2. AttemptsOK' BY <1>4, BeginType DEF Undo, AttemptSteps
  <2> QED BY <1>4, <2>1, <2>2 DEF Undo
<1>5. ASSUME NEW a \in Attempts, WriteFails(a) PROVE TypeOK'
  <2>1. AttemptsOK' BY <1>5, BeginType DEF WriteFails, AttemptSteps
  <2>2. HistOK' BY <1>5 DEF WriteFails, HistOK
  <2>3. LeftOK' BY <1>5, SpendType DEF WriteFails, Bounded
  <2> QED BY <1>5, <2>1, <2>2, <2>3 DEF WriteFails
<1>6. ASSUME NEW a \in Attempts, Signal(a) PROVE TypeOK'
  <2>1. AttemptsOK' BY <1>6, BeginType DEF Signal, AttemptSteps
  <2>2. RedisOK' BY <1>6 DEF Signal, RedisOK
  <2> QED BY <1>6, <2>1, <2>2 DEF Signal
<1>7. ASSUME NEW a \in Attempts, LoseLease(a) PROVE TypeOK'
  <2>1. AttemptsOK' BY <1>7, BeginType DEF LoseLease, AttemptSteps
  <2> QED BY <1>7, <2>1 DEF LoseLease
<1>8. ASSUME NEW a \in Attempts, Crash(a) PROVE TypeOK'
  <2>1. AttemptsOK' BY <1>8, BeginType DEF Crash, AttemptSteps
  <2>2. LeftOK' BY <1>8, SpendType DEF Crash, Bounded
  <2> QED BY <1>8, <2>1, <2>2 DEF Crash
<1>9. ASSUME NEW a \in Attempts, Release(a) PROVE TypeOK'
  <2>1. AttemptsOK' BY <1>9, BeginType DEF Release, AttemptSteps
  <2>2. RowOK' BY <1>9 DEF Release, RowOK
  <2> QED BY <1>9, <2>1, <2>2 DEF Release
<1>10. ASSUME NEW a \in Attempts, ReleaseFails(a) PROVE TypeOK'
  <2>1. AttemptsOK' BY <1>10, BeginType DEF ReleaseFails, AttemptSteps
  <2>2. LeftOK' BY <1>10, SpendType DEF ReleaseFails, Bounded
  <2> QED BY <1>10, <2>1, <2>2 DEF ReleaseFails
<1>11. ASSUME NEW p \in Reapers, Reap(p) PROVE TypeOK'
  <2>1. RowOK' BY <1>11 DEF RowOK, Reap, Active
  <2>2. HistOK' /\ LeftOK'
    <3>1. CASE attempt[owner].step = "over" BY <1>11, <3>1 DEF Reap, HistOK, LeftOK
    <3>2. CASE attempt[owner].step # "over"
      BY <1>11, <3>2, SpendType DEF Reap, HistOK, Bounded
    <3> QED BY <3>1, <3>2
  <2>3. ReapersOK' BY <1>11 DEF Reap, ReapersOK
  <2> QED BY <1>11, <2>1, <2>2, <2>3 DEF Reap
<1>12. ASSUME NEW p \in Reapers, CheckRetries(p) PROVE TypeOK'
  <2>1. ReapersOK' BY <1>12 DEF CheckRetries, ReapersOK
  <2> QED BY <1>12, <2>1 DEF CheckRetries
<1>13. ASSUME NEW p \in Reapers, MarkFailed(p) PROVE TypeOK'
  <2>1. ReapersOK' BY <1>13 DEF MarkFailed, ReapersOK
  <2>2. RowOK' BY <1>13 DEF MarkFailed, RowOK, Write, Terminal
  <2>3. HistOK' BY <1>13 DEF MarkFailed, HistOK
  <2> QED BY <1>13, <2>1, <2>2, <2>3 DEF MarkFailed
<1>14. ASSUME NEW p \in Reapers, ReaperStops(p) PROVE TypeOK'
  <2>1. ReapersOK' BY <1>14 DEF ReaperStops, ReapersOK
  <2>2. LeftOK' BY <1>14, SpendType DEF ReaperStops, Bounded
  <2> QED BY <1>14, <2>1, <2>2 DEF ReaperStops
<1>15. CASE Deliver
  <2>1. AttemptsOK' BY <1>15, StrikeEffect DEF Deliver
  <2>2. HistOK' BY <1>15 DEF Deliver, Strike, HistOK
  <2>3. RedisOK' BY <1>15 DEF Deliver, RedisOK
  <2> QED BY <1>15, <2>1, <2>2, <2>3 DEF Deliver
<1> QED BY <1>1, <1>2, <1>3, <1>4, <1>5, <1>6, <1>7, <1>8, <1>9, <1>10, <1>11, <1>12, <1>13,
           <1>14, <1>15 DEF Run

LEMMA ServerType ==
    ASSUME TypeOK, Server
    PROVE  TypeOK'
<1> USE TypeGroups, TypeGroupsNext, GroupsKept DEF histVars, redisVars, reaperVars, runVars
<1>1. CASE Outage BY <1>1, SpendType DEF Outage, RedisOK, Bounded
<1>2. CASE Recover BY <1>2 DEF Recover, RedisOK
<1>3. CASE Expire BY <1>3, SpendType DEF Expire, RedisOK, Bounded
<1> QED BY <1>1, <1>2, <1>3 DEF Server

LEMMA RequestType ==
    ASSUME TypeOK, NEW w \in Waiters, Request(w)
    PROVE  TypeOK'
<1> USE TypeGroups, TypeGroupsNext, GroupsKept, GotoType, WaitedType
    DEF histVars, redisVars, reaperVars, runVars
<1>1. CASE Join(w)
  <2> DEFINE told == [Idle EXCEPT !.kind = "join", !.step = "answered", !.answer = output]
             waits == [Idle EXCEPT !.kind = "join", !.step = "first"]
  <2>1. told \in WaiterStates /\ waits \in WaiterStates
    BY IdleType DEF WaiterStates, WaiterSteps, RowOK
  <2>2. waiter' = [waiter EXCEPT ![w] = IF row \in Terminal THEN told ELSE waits]
    BY <1>1 DEF Join
  <2> HIDE DEF told, waits
  <2>3. WaitersOK' BY <2>1, <2>2 DEF WaitersOK
  <2> QED BY <1>1, <2>3 DEF Join
<1>2. CASE StatelessWait(w)
  <2>1. WaitersOK' BY <1>2, StartType DEF StatelessWait, Made, WaiterSteps
  <2> QED BY <1>2, <2>1 DEF StatelessWait, Made
<1>3. CASE BackgroundRun(w)
  <2>1. WaitersOK' BY <1>3, StartType DEF BackgroundRun, Made, WaiterSteps
  <2> QED BY <1>3, <2>1 DEF BackgroundRun, Made
<1>4. CASE CheckKey(w)
  <2>1. WaitersOK' BY <1>4 DEF CheckKey, WaiterSteps
  <2> QED BY <1>4, <2>1 DEF CheckKey
<1>5. CASE CheckRow(w)
  <2>1. WaitersOK' BY <1>5 DEF CheckRow, WaiterSteps
  <2> QED BY <1>5, <2>1 DEF CheckRow
<1>6. CASE Cut(w)
  <2>1. WaitersOK' BY <1>6, MarkType DEF Cut, WaiterSteps
  <2> QED BY <1>6, <2>1, SpendType DEF Cut, Bounded
<1>7. CASE ReadOutput(w)
  <2>1. (IF row = "gone" THEN 0 ELSE output) \in 0 .. MaxAttempts BY DEF RowOK
  <2>2. (IF waiter[w].kind = "wait" THEN "select" ELSE "answered") \in WaiterSteps BY DEF WaiterSteps
  <2>3. WaitersOK' BY <1>7, <2>1, <2>2, MarkType DEF ReadOutput
  <2> QED BY <1>7, <2>3 DEF ReadOutput
<1>8. CASE Disconnect(w)
  <2>1. WaitersOK' BY <1>8 DEF Disconnect, WaiterSteps
  <2> QED BY <1>8, <2>1, SpendType DEF Disconnect, Bounded
<1>9. CASE Cancel(w)
  <2>1. WaitersOK' BY <1>9, StartType DEF Cancel, WaiterSteps
  <2>2. AttemptsOK' BY <1>9, StrikeEffect, LocalAttempts DEF Cancel
  <2>3. HistOK' BY <1>9 DEF Cancel, Strike, HistOK
  <2>4. RedisOK' BY <1>9 DEF Cancel, RedisOK
  <2> QED BY <1>9, <2>1, <2>2, <2>3, <2>4, SpendType DEF Cancel, Bounded
<1>10. CASE Persist(w)
  <2>1. WaitersOK' BY <1>10 DEF Persist, WaiterSteps
  <2>2. RowOK' BY <1>10 DEF Persist, RowOK, Write, Terminal
  <2> QED BY <1>10, <2>1, <2>2 DEF Persist
<1>11. CASE Settle(w)
  <2>1. output \in 0 .. MaxAttempts /\ "answered" \in WaiterSteps BY DEF RowOK, WaiterSteps
  <2>2. WaitersOK' BY <1>11, <2>1, MarkType DEF Settle, Answer
  <2> QED BY <1>11, <2>2 DEF Settle
<1>12. CASE GiveUp(w)
  <2>1. WaitersOK' BY <1>12, MarkType DEF GiveUp, WaiterSteps
  <2> QED BY <1>12, <2>1 DEF GiveUp
<1> QED BY <1>1, <1>2, <1>3, <1>4, <1>5, <1>6, <1>7, <1>8, <1>9, <1>10, <1>11, <1>12 DEF Request

LEMMA DeletionType ==
    ASSUME TypeOK, NEW w \in Waiters, Deletion(w)
    PROVE  TypeOK'
<1> USE TypeGroups, TypeGroupsNext, GroupsKept, GotoType, AttemptsNumbered
    DEF histVars, redisVars, reaperVars, runVars
<1>1. CASE SelectActive(w)
  <2>1. WaitersOK' BY <1>1 DEF SelectActive, WaiterSteps
  <2> QED BY <1>1, <2>1 DEF SelectActive
<1>2. CASE CancelRun(w)
  <2>1. WaitersOK'
    <3>1. CASE Local = {} BY <1>2, <3>1 DEF CancelRun, WaiterSteps
    <3>2. CASE Local # {}
      <4>1. PICK a \in Local : waiter' = [waiter EXCEPT ![w].step = "await", ![w].task = a]
        BY <1>2, <3>2 DEF CancelRun
      <4>2. a \in 0 .. MaxAttempts BY LocalAttempts
      <4> QED BY <4>1, <4>2, MarkType DEF WaiterSteps
    <3> QED BY <3>1, <3>2
  <2>2. AttemptsOK' BY <1>2, StrikeEffect, LocalAttempts DEF CancelRun
  <2>3. HistOK' BY <1>2 DEF CancelRun, Strike, HistOK
  <2>4. RedisOK' BY <1>2 DEF CancelRun, RedisOK
  <2> QED BY <1>2, <2>1, <2>2, <2>3, <2>4 DEF CancelRun
<1>3. CASE AwaitTask(w)
  <2>1. WaitersOK' BY <1>3 DEF AwaitTask, WaiterSteps
  <2> QED BY <1>3, <2>1 DEF AwaitTask
<1>4. CASE Drop(w)
  <2>1. WaitersOK' BY <1>4 DEF Drop, WaiterSteps
  <2>2. RowOK' BY <1>4 DEF Drop, RowOK
  <2> QED BY <1>4, <2>1, <2>2 DEF Drop
<1>5. CASE DropFails(w)
  <2>1. WaitersOK' BY <1>5 DEF DropFails, WaiterSteps
  <2> QED BY <1>5, <2>1, SpendType DEF DropFails, Bounded
<1> QED BY <1>1, <1>2, <1>3, <1>4, <1>5 DEF Deletion

\* Every variable keeps its type: attempts and outputs stay within the number of
\* executions, the count of retries does not fall below none, a waiting request is at a place of its code.
THEOREM TypeCorrect == Spec => []TypeOK
<1>1. Init => TypeOK
  <2> SUFFICES ASSUME Init PROVE TypeOK OBVIOUS
  <2>1. WaitersOK BY IdleType DEF Init, WaitersOK
  <2>2. AttemptsOK BY DEF Init, AttemptsOK, AttemptStates, AttemptSteps
  <2>3. RowOK BY DEF Init, RowOK, Active
  <2>4. RedisOK /\ HistOK /\ ReapersOK BY DEF Init, RedisOK, HistOK, ReapersOK
  <2>5. LeftOK BY DEF Init, LeftOK
  <2> QED BY <2>1, <2>2, <2>3, <2>4, <2>5, TypeGroups
<1>2. TypeOK /\ [Next]_vars => TypeOK'
  <2>1. TypeOK /\ Next => TypeOK' BY RunType, ServerType, RequestType, DeletionType DEF Next
  <2>2. TypeOK /\ UNCHANGED vars => TypeOK'
    BY DEF TypeOK, vars, runVars, reaperVars, redisVars, histVars
  <2> QED BY <2>1, <2>2
<1> QED BY <1>1, <1>2, PTL DEF Spec

-----------------------------------------------------------------------------
(* The end of a run that was not disturbed is an end *)

EndStays == Finished => Finished' /\ output' = output /\ (row = "gone" => row' = "gone")

LEMMA WaitKept ==
    ASSUME Calm, EndStays, NEW w \in Waiters, waiter'[w] = waiter[w]
    PROVE  Saw(w)' /\ ToldRight(w)'
<1>1. Saw(w) /\ ToldRight(w) BY DEF Calm, SawTheEnd, ToldTheOutput
<1>2. Saw(w)' BY <1>1 DEF Saw, EndStays
<1>3. ASSUME Told(w)', ~waiter'[w].cut
      PROVE  waiter'[w].answer = output' \/ (row' = "gone" /\ waiter'[w].answer = 0)
  <2>1. Told(w) /\ ~waiter[w].cut BY <1>3 DEF Told
  <2>2. Finished BY <1>1, <2>1 DEF Told, Saw
  <2> QED BY <1>1, <2>1, <2>2 DEF EndStays, ToldRight
<1> QED BY <1>2, <1>3 DEF ToldRight

LEMMA WaitsKept ==
    ASSUME Calm, EndStays, UNCHANGED waiter
    PROVE  SawTheEnd' /\ ToldTheOutput'
BY WaitKept DEF SawTheEnd, ToldTheOutput

LEMMA FinishedStatus == TypeOK => (Finished <=> row \notin Active)
BY DEF TypeOK, Finished, Active, Terminal

\* What an attempt may do: go to another step, as one that no longer works
\* unless it worked before, with the row left alone.
LEMMA AttemptsEnd ==
    ASSUME TypeOK, Calm, UNCHANGED <<row, output, owner, key>>,
           \A a \in Attempts : Working(a)' => Working(a),
           \A a \in Attempts : attempt'[a].step = "signal" => attempt[a].step = "signal"
    PROVE  OneWorks' /\ SignalsTheEnd' /\ KeyMeansEnd' /\ EndStays
<1>1. OneWorks' BY DEF Calm, OneWorks
<1>2. SignalsTheEnd' BY DEF Calm, SignalsTheEnd, Finished
<1>3. KeyMeansEnd' BY DEF Calm, KeyMeansEnd, Finished
<1>4. EndStays BY DEF EndStays, Finished
<1> QED BY <1>1, <1>2, <1>3, <1>4

LEMMA BeginEffect ==
    ASSUME AttemptsOK, NEW a \in Attempts, NEW step, Begin(a, step)
    PROVE  /\ attempt'[a].step = step
           /\ \A b \in Attempts \ {a} : attempt'[b] = attempt[b]
BY DEF AttemptsOK, AttemptStates, Begin

\* A cancellation that strikes nobody in the middle of its final write leaves
\* the workers at work and the others where they were.
LEMMA StrikeCalm ==
    ASSUME TypeOK, ~unwritten', NEW hit \in SUBSET Attempts, Strike(hit)
    PROVE  /\ \A a \in Attempts : Working(a)' => Working(a)
           /\ \A a \in Attempts : attempt'[a].step = "signal" => attempt[a].step = "signal"
<1>1. AttemptsOK BY TypeGroups
<1>2. /\ \A a \in Attempts \ hit : attempt'[a] = attempt[a]
      /\ \A a \in hit : StruckFrom(attempt[a].step, attempt'[a].step)
      /\ \A a \in hit : attempt[a].step # "undo"
  BY <1>1, StrikeEffect
<1> QED BY <1>2 DEF Working, StruckFrom

LEMMA RunKeepsCalm ==
    ASSUME TypeOK, Calm, Run, ~Disturbed, ~Disturbed'
    PROVE  Calm'
<1> USE TypeGroups DEF histVars, redisVars, reaperVars, runVars
<1>0. OneWorks /\ SignalsTheEnd /\ KeyMeansEnd BY DEF Calm
<1>1. ASSUME NEW a \in Attempts, NEW here \in BOOLEAN, Acquire(a, here) PROVE Calm'
  <2>1. ~Finished BY <1>1, FinishedStatus DEF Acquire, Active
  <2>2. \A b \in Attempts : ~Working(b) /\ attempt[b].step # "signal"
    BY <1>0, <1>1, <2>1 DEF OneWorks, SignalsTheEnd, Acquire
  <2>3. \A b \in Attempts \ {a} : attempt'[b] = attempt[b]
    BY <1>1 DEF Acquire, AttemptsOK
  <2>4. attempt'[a].step = "start" BY <1>1 DEF Acquire, AttemptsOK
  <2>5. OneWorks' BY <1>1, <2>2, <2>3 DEF OneWorks, Working, Acquire
  <2>6. SignalsTheEnd' BY <2>2, <2>3, <2>4 DEF SignalsTheEnd
  <2>7. KeyMeansEnd' BY <1>0, <1>1, <2>1 DEF KeyMeansEnd, Acquire
  <2>8. EndStays BY <2>1 DEF EndStays
  <2> QED BY <1>1, <2>5, <2>6, <2>7, <2>8, WaitsKept DEF Calm, Acquire
<1>2. ASSUME NEW a \in Attempts, WriteRunning(a) PROVE Calm'
  <2>1. owner = a /\ row \in {"running", "gone"} BY <1>0, <1>2 DEF OneWorks, WriteRunning, Working
  <2>2. attempt'[a].step = "stream" /\ \A b \in Attempts \ {a} : attempt'[b] = attempt[b]
    BY <1>2, BeginEffect DEF WriteRunning
  <2>3. UNCHANGED <<row, output, owner, key, waiter>> BY <1>2, <2>1 DEF WriteRunning, Write
  <2>4. \A b \in Attempts : Working(b)' => Working(b)
    BY <1>2, <2>2 DEF Working, WriteRunning
  <2>5. \A b \in Attempts : attempt'[b].step = "signal" => attempt[b].step = "signal" BY <2>2
  <2> QED BY <2>3, <2>4, <2>5, AttemptsEnd, WaitsKept DEF Calm
<1>3. ASSUME NEW a \in Attempts, NEW status \in Terminal, NEW out, NEW step \in {"stream", "undo"},
             attempt[a].step = step, Begin(a, "signal"), Write(status, out),
             UNCHANGED <<owner, redisVars, waiter, histVars, left>>
      PROVE  Calm'
  <2>1. owner = a /\ row \in {"running", "gone"} BY <1>0, <1>3 DEF OneWorks, Working
  <2>2. attempt'[a].step = "signal" /\ \A b \in Attempts \ {a} : attempt'[b] = attempt[b]
    BY <1>3, BeginEffect
  <2>3. Finished' BY <1>3, <2>1 DEF Write, Finished
  <2>4. \A b \in Attempts : ~Working(b)' BY <1>0, <2>1, <2>2 DEF OneWorks, Working
  <2>5. EndStays BY <1>3, <2>1, <2>3 DEF EndStays, Finished, Write, Terminal
  <2> QED BY <1>3, <2>3, <2>4, <2>5, WaitsKept DEF Calm, OneWorks, SignalsTheEnd, KeyMeansEnd
<1>4. ASSUME NEW a \in Attempts, NEW status \in Terminal, Finalize(a, status) PROVE Calm'
  BY <1>3, <1>4 DEF Finalize
<1>5. ASSUME NEW a \in Attempts, Undo(a) PROVE Calm'
  BY <1>3, <1>5 DEF Undo, Terminal
<1>6. ASSUME NEW a \in Attempts, WriteFails(a) PROVE Calm'
  BY <1>6 DEF WriteFails, Disturbed
<1>7. ASSUME NEW a \in Attempts, Signal(a) PROVE Calm'
  <2>1. Finished BY <1>0, <1>7 DEF SignalsTheEnd, Signal
  <2>2. attempt'[a].step = "release" /\ \A b \in Attempts \ {a} : attempt'[b] = attempt[b]
    BY <1>7, BeginEffect DEF Signal
  <2>3. UNCHANGED <<row, output, owner, waiter>> BY <1>7 DEF Signal
  <2>4. Finished' BY <2>1, <2>3 DEF Finished
  <2>5. OneWorks' BY <1>0, <2>2, <2>3 DEF OneWorks, Working
  <2>6. EndStays BY <2>3, <2>4 DEF EndStays
  <2> QED BY <2>3, <2>4, <2>5, <2>6, WaitsKept DEF Calm, SignalsTheEnd, KeyMeansEnd
<1>8. ASSUME NEW a \in Attempts, LoseLease(a) \/ Crash(a) \/ ReleaseFails(a) PROVE Calm'
  <2>1. Begin(a, "over") /\ UNCHANGED <<row, output, owner, key, waiter>>
    BY <1>8 DEF LoseLease, Crash, ReleaseFails
  <2>2. attempt'[a].step = "over" /\ \A b \in Attempts \ {a} : attempt'[b] = attempt[b]
    BY <2>1, BeginEffect
  <2>3. \A b \in Attempts : Working(b)' => Working(b) BY <2>2 DEF Working
  <2>4. \A b \in Attempts : attempt'[b].step = "signal" => attempt[b].step = "signal" BY <2>2
  <2> QED BY <2>1, <2>3, <2>4, AttemptsEnd, WaitsKept DEF Calm
<1>9. ASSUME NEW a \in Attempts, Release(a) PROVE Calm'
  <2>1. attempt'[a].step = "over" /\ \A b \in Attempts \ {a} : attempt'[b] = attempt[b]
    BY <1>9, BeginEffect DEF Release
  <2>2. UNCHANGED <<row, output, key, waiter>> /\ (owner # a => owner' = owner) BY <1>9 DEF Release
  <2>3. OneWorks' BY <1>0, <2>1, <2>2 DEF OneWorks, Working
  <2>4. SignalsTheEnd' /\ KeyMeansEnd' BY <1>0, <2>1, <2>2 DEF SignalsTheEnd, KeyMeansEnd, Finished
  <2>5. EndStays BY <2>2 DEF EndStays, Finished
  <2> QED BY <2>2, <2>3, <2>4, <2>5, WaitsKept DEF Calm
<1>10. ASSUME NEW p \in Reapers, Reap(p) PROVE Calm'
  <2>1. attempt[owner].step = "over" BY <1>10 DEF Reap, Disturbed
  <2>2. ~Finished BY <1>10, FinishedStatus DEF Reap, Active
  <2>3. \A a \in Attempts : ~Working(a) /\ attempt[a].step # "signal"
    BY <1>0, <2>1, <2>2 DEF OneWorks, SignalsTheEnd, Working
  <2>4. OneWorks' /\ SignalsTheEnd' BY <1>10, <2>3 DEF OneWorks, SignalsTheEnd, Working, Reap
  <2>5. KeyMeansEnd' BY <1>0, <1>10, <2>2 DEF KeyMeansEnd, Reap
  <2>6. EndStays BY <2>2 DEF EndStays
  <2> QED BY <1>10, <2>4, <2>5, <2>6, WaitsKept DEF Calm, Reap
<1>11. ASSUME NEW p \in Reapers, CheckRetries(p) \/ ReaperStops(p) PROVE Calm'
  <2>1. UNCHANGED <<row, output, owner, key, waiter, attempt>> BY <1>11 DEF CheckRetries, ReaperStops
  <2> QED BY <2>1, AttemptsEnd, WaitsKept DEF Calm, Working
<1>12. ASSUME NEW p \in Reapers, MarkFailed(p) PROVE Calm'
  <2>1. \A a \in Attempts : ~Working(a) BY <1>12 DEF MarkFailed, Disturbed
  <2>2. UNCHANGED <<output, attempt, key, waiter>> BY <1>12 DEF MarkFailed, Write
  <2>3. Finished' /\ (row = "gone" => row' = "gone")
    BY <1>12 DEF MarkFailed, Write, Finished, Terminal
  <2>4. OneWorks' /\ SignalsTheEnd' /\ KeyMeansEnd'
    BY <2>1, <2>2, <2>3 DEF OneWorks, Working, SignalsTheEnd, KeyMeansEnd
  <2>5. EndStays BY <2>2, <2>3 DEF EndStays
  <2> QED BY <2>2, <2>4, <2>5, WaitsKept DEF Calm
<1>13. CASE Deliver
  <2>1. UNCHANGED <<row, output, owner, key, waiter>> /\ Strike(Attempts) /\ ~unwritten'
    BY <1>13 DEF Deliver, Disturbed
  <2> QED BY <2>1, StrikeCalm, AttemptsEnd, WaitsKept DEF Calm
<1> QED BY <1>1, <1>2, <1>4, <1>5, <1>6, <1>7, <1>8, <1>9, <1>10, <1>11, <1>12, <1>13 DEF Run

LEMMA ServerKeepsCalm ==
    ASSUME TypeOK, Calm, Server
    PROVE  Calm'
<1> USE DEF histVars, redisVars, reaperVars, runVars
<1>1. UNCHANGED <<row, output, owner, attempt, waiter>> /\ (key' => key)
  BY DEF Server, Outage, Recover, Expire
<1>2. OneWorks' /\ SignalsTheEnd' /\ KeyMeansEnd'
  BY <1>1 DEF Calm, OneWorks, SignalsTheEnd, KeyMeansEnd, Finished, Working
<1>3. EndStays BY <1>1 DEF EndStays, Finished
<1> QED BY <1>1, <1>2, <1>3, WaitsKept DEF Calm

LEMMA RunAndServerKeep ==
    ASSUME TypeOK, WaitsInv, Run \/ Server
    PROVE  WaitsInv'
<1> USE DEF histVars, redisVars, reaperVars, runVars
<1>1. UNCHANGED <<waiter, cancelled>>
  <2>1. ASSUME Run PROVE UNCHANGED <<waiter, cancelled>>
    BY <2>1 DEF Run, Acquire, WriteRunning, Finalize, Undo, WriteFails, Signal, Release,
       ReleaseFails, LoseLease, Crash, Reap, CheckRetries, MarkFailed, ReaperStops, Deliver
  <2>2. ASSUME Server PROVE UNCHANGED <<waiter, cancelled>>
    BY <2>2 DEF Server, Outage, Recover, Expire
  <2> QED BY <2>1, <2>2
<1>2. row' = "gone" => row = "gone"
  <2>1. ASSUME Run PROVE row' = "gone" => row = "gone"
    BY <2>1 DEF Run, Acquire, WriteRunning, Finalize, Undo, WriteFails, Signal, Release,
       ReleaseFails, LoseLease, Crash, Reap, CheckRetries, MarkFailed, ReaperStops, Deliver, Write, Terminal
  <2>2. ASSUME Server PROVE row' = row BY <2>2 DEF Server, Outage, Recover, Expire
  <2> QED BY <2>1, <2>2
<1>3. Disturbed => Disturbed'
  <2>1. ASSUME Run PROVE Disturbed => Disturbed'
    BY <2>1 DEF Run, Acquire, WriteRunning, Finalize, Undo, WriteFails, Signal, Release,
       ReleaseFails, LoseLease, Crash, Reap, CheckRetries, MarkFailed, ReaperStops, Deliver, Strike, Disturbed
  <2>2. ASSUME Server PROVE Disturbed' = Disturbed
    BY <2>2 DEF Server, Outage, Recover, Expire, Disturbed
  <2> QED BY <2>1, <2>2
<1>4. Places' /\ OneDeleter' /\ GoneByDeletion'
  BY <1>1, <1>2 DEF WaitsInv, Places, Place, OneDeleter, GoneByDeletion, Deleter
<1>5. ~Disturbed' => Calm'
  BY <1>3, RunKeepsCalm, ServerKeepsCalm DEF WaitsInv
<1> QED BY <1>4, <1>5 DEF WaitsInv

-----------------------------------------------------------------------------
(* A request moves, the others stay *)

OthersStay(w) == \A v \in Waiters \ {w} : waiter'[v] = waiter[v]

Moves(w, step) ==
    /\ OthersStay(w)
    /\ waiter'[w].step = step /\ waiter'[w].kind = waiter[w].kind

LEMMA MoveEffect ==
    ASSUME WaitersOK, NEW w \in Waiters, NEW step
    PROVE  /\ Goto(w, step) => /\ Moves(w, step) /\ waiter'[w].answer = waiter[w].answer
                               /\ waiter'[w].cut = waiter[w].cut
           /\ waiter' = [waiter EXCEPT ![w].step = step, ![w].cut = TRUE]
                => Moves(w, step) /\ waiter'[w].cut
           /\ \A n : waiter' = [waiter EXCEPT ![w].answer = n, ![w].step = step]
                => Moves(w, step) /\ waiter'[w].answer = n /\ waiter'[w].cut = waiter[w].cut
           /\ \A n : waiter' = [waiter EXCEPT ![w].step = step, ![w].answer = n]
                => Moves(w, step) /\ waiter'[w].answer = n /\ waiter'[w].cut = waiter[w].cut
           /\ \A n : waiter' = [waiter EXCEPT ![w].step = step, ![w].task = n]
                => /\ Moves(w, step) /\ waiter'[w].answer = waiter[w].answer
                   /\ waiter'[w].cut = waiter[w].cut
BY DEF WaitersOK, WaiterStates, Goto, Moves, OthersStay

LEMMA StartEffect ==
    ASSUME WaitersOK, NEW w \in Waiters, NEW kind, NEW step, Start(w, kind, step)
    PROVE  /\ OthersStay(w) /\ waiter'[w].kind = kind /\ waiter'[w].step = step
           /\ waiter'[w].answer = 0 /\ ~waiter'[w].cut
BY DEF WaitersOK, WaiterStates, Start, Idle, OthersStay

\* What a step of one request leaves of the invariant, when the request is no
\* new deleter and no deletion has ended with it.
LEMMA MoveKeepsPlaces ==
    ASSUME WaitsInv, NEW w \in Waiters, OthersStay(w), Place(w)',
           Deleter(w)' => Deleter(w) \/ \A v \in Waiters : ~Deleter(v),
           waiter[w].step # "over", cancelled => cancelled', row' = "gone" => row = "gone"
    PROVE  Places' /\ OneDeleter' /\ GoneByDeletion'
<1>1. Places' BY DEF WaitsInv, Places, Place, Deleter, OthersStay
<1>2. OneDeleter' BY DEF WaitsInv, OneDeleter, Deleter, OthersStay
<1>3. GoneByDeletion' BY DEF WaitsInv, GoneByDeletion, OthersStay
<1> QED BY <1>1, <1>2, <1>3

LEMMA MoveKeepsCalm ==
    ASSUME Calm, NEW w \in Waiters, OthersStay(w), EndStays, Saw(w)', ToldRight(w)',
           OneWorks', SignalsTheEnd', KeyMeansEnd'
    PROVE  Calm'
<1>1. \A v \in Waiters \ {w} : Saw(v)' /\ ToldRight(v)' BY WaitKept DEF OthersStay
<1>2. SawTheEnd' /\ ToldTheOutput' BY <1>1 DEF SawTheEnd, ToldTheOutput
<1> QED BY <1>2 DEF Calm

\* A request that only looks at the run.
LEMMA LooksKeep ==
    ASSUME WaitsInv, NEW w \in Waiters, OthersStay(w), Place(w)',
           Deleter(w)' => Deleter(w) \/ \A v \in Waiters : ~Deleter(v),
           waiter[w].step # "over",
           UNCHANGED <<row, output, owner, attempt, key, cancelled, unwritten, stalled>>,
           Calm => Saw(w)' /\ ToldRight(w)'
    PROVE  WaitsInv'
<1>1. Places' /\ OneDeleter' /\ GoneByDeletion' BY MoveKeepsPlaces
<1>2. ASSUME ~Disturbed' PROVE Calm'
  <2>1. Calm BY <1>2 DEF WaitsInv, Disturbed
  <2>2. OneWorks' /\ SignalsTheEnd' /\ KeyMeansEnd'
    BY <2>1 DEF Calm, OneWorks, SignalsTheEnd, KeyMeansEnd, Finished, Working
  <2>3. EndStays BY DEF EndStays, Finished
  <2> QED BY <2>1, <2>2, <2>3, MoveKeepsCalm
<1> QED BY <1>1, <1>2 DEF WaitsInv

LEMMA RequestKeeps ==
    ASSUME TypeOK, WaitsInv, NEW w \in Waiters, Request(w)
    PROVE  WaitsInv'
<1> USE TypeGroups DEF histVars, redisVars, reaperVars, runVars
<1>0. Place(w) /\ (Calm => Saw(w) /\ ToldRight(w) /\ KeyMeansEnd)
  BY DEF WaitsInv, Places, Calm, SawTheEnd, ToldTheOutput
<1>1. CASE Join(w)
  <2>1. /\ OthersStay(w) /\ waiter'[w].kind = "join"
        /\ row \in Terminal => waiter'[w].step = "answered" /\ waiter'[w].answer = output
        /\ row \notin Terminal => waiter'[w].step = "first"
    BY <1>1 DEF Join, OthersStay, Idle, WaitersOK
  <2>2. Place(w)' BY <2>1 DEF Place, Deleter
  <2>3. Saw(w)' /\ ToldRight(w)'
    BY <1>1, <2>1 DEF Saw, ToldRight, Told, Finished, Join
  <2> QED BY <1>1, <2>1, <2>2, <2>3, LooksKeep DEF Join, Deleter
<1>2. ASSUME NEW kind \in {"wait", "clean"}, Made(w, kind) PROVE WaitsInv'
  <2>1. OthersStay(w) /\ waiter'[w].kind = kind /\ waiter'[w].step = "first"
    BY <1>2, StartEffect DEF Made
  <2>2. Place(w)' BY <2>1 DEF Place, Deleter
  <2>3. Saw(w)' /\ ToldRight(w)' BY <2>1 DEF Saw, ToldRight, Told
  <2> QED BY <1>2, <2>1, <2>2, <2>3, LooksKeep DEF Made, Deleter
<1>3. CASE CheckKey(w)
  <2> DEFINE step == IF key /\ redis THEN Waited(w)
                     ELSE IF waiter[w].step = "first" THEN "second" ELSE "row"
  <2>1. Moves(w, step) /\ waiter'[w].cut = waiter[w].cut
    BY <1>3, MoveEffect DEF CheckKey
  <2>2. Place(w)' BY <1>0, <1>3, <2>1 DEF Place, Deleter, Moves, CheckKey, Waited
  <2>3. ASSUME Calm PROVE Saw(w)'
    BY <1>0, <1>3, <2>1, <2>3 DEF Saw, Moves, CheckKey, Waited, KeyMeansEnd, Finished
  <2>4. ~Told(w)' BY <2>1 DEF Told, Moves, Waited
  <2> QED BY <1>3, <2>1, <2>2, <2>3, <2>4, LooksKeep DEF CheckKey, Deleter, Moves, ToldRight
<1>4. CASE CheckRow(w)
  <2> DEFINE step == IF IsTerminal THEN Waited(w) ELSE "first"
  <2>1. Moves(w, step) /\ waiter'[w].cut = waiter[w].cut
    BY <1>4, MoveEffect DEF CheckRow
  <2>2. Place(w)' BY <1>0, <1>4, <2>1 DEF Place, Deleter, Moves, CheckRow, Waited
  <2>3. Saw(w)' BY <1>4, <2>1 DEF Saw, Moves, CheckRow, IsTerminal, Finished
  <2>4. ~Told(w)' BY <2>1 DEF Told, Moves, Waited
  <2> QED BY <1>4, <2>1, <2>2, <2>3, <2>4, LooksKeep DEF CheckRow, Deleter, Moves, ToldRight
<1>5. CASE Cut(w)
  <2>1. Moves(w, Waited(w)) /\ waiter'[w].cut BY <1>5, MoveEffect DEF Cut
  <2>2. Place(w)' BY <1>0, <1>5, <2>1 DEF Place, Deleter, Moves, Cut, Waited
  <2>3. Saw(w)' /\ ToldRight(w)' BY <2>1 DEF Saw, ToldRight
  <2> QED BY <1>5, <2>1, <2>2, <2>3, LooksKeep DEF Cut, Deleter, Moves
<1>6. CASE ReadOutput(w)
  <2> DEFINE out == IF row = "gone" THEN 0 ELSE output
             step == IF waiter[w].kind = "wait" THEN "select" ELSE "answered"
  <2>0. waiter' = [waiter EXCEPT ![w].answer = out, ![w].step = step]
    BY <1>6 DEF ReadOutput
  <2>1. Moves(w, step) /\ waiter'[w].answer = out /\ waiter'[w].cut = waiter[w].cut
    <3> HIDE DEF out, step
    <3> QED BY <2>0, MoveEffect
  <2>2. Place(w)' BY <1>0, <1>6, <2>1 DEF Place, Deleter, Moves, ReadOutput
  <2>3. ASSUME Calm PROVE Saw(w)'
    BY <1>0, <1>6, <2>1, <2>3 DEF Saw, Moves, ReadOutput, Finished
  <2>4. ToldRight(w)' BY <1>6, <2>1 DEF ToldRight, ReadOutput
  <2> QED BY <1>6, <2>1, <2>2, <2>3, <2>4, LooksKeep DEF ReadOutput, Deleter, Moves
<1>7. CASE Disconnect(w)
  <2>1. Moves(w, "left") BY <1>7, MoveEffect DEF Disconnect
  <2>2. Place(w)' BY <1>0, <1>7, <2>1 DEF Place, Deleter, Moves, Disconnect
  <2>3. Saw(w)' /\ ToldRight(w)' BY <2>1 DEF Saw, ToldRight, Told, Moves
  <2> QED BY <1>7, <2>1, <2>2, <2>3, LooksKeep DEF Disconnect, Deleter, Moves
<1>8. CASE Cancel(w)
  <2>1. OthersStay(w) /\ waiter'[w].kind = "cancel" /\ waiter'[w].step = "persist"
    BY <1>8, StartEffect DEF Cancel
  <2>2. cancelled' /\ row' = row /\ waiter[w].step # "over" BY <1>8 DEF Cancel
  <2>3. Place(w)' BY <2>1, <2>2 DEF Place, Deleter
  <2> QED BY <2>1, <2>2, <2>3, MoveKeepsPlaces DEF WaitsInv, Disturbed, Deleter
<1>9. CASE Persist(w)
  <2>1. Moves(w, "settle") BY <1>9, MoveEffect DEF Persist
  <2>2. /\ cancelled /\ cancelled' = cancelled /\ waiter[w].step # "over"
        /\ row' = "gone" => row = "gone"
    BY <1>0, <1>9 DEF Persist, Place, Write
  <2>3. Place(w)' BY <1>0, <1>9, <2>1, <2>2 DEF Place, Deleter, Moves, Persist
  <2> QED BY <2>1, <2>2, <2>3, MoveKeepsPlaces DEF WaitsInv, Disturbed, Deleter, Moves
<1>10. CASE Settle(w)
  <2>1. Moves(w, "answered") BY <1>10, MoveEffect DEF Settle, Answer
  <2>2. Place(w)' BY <1>0, <1>10, <2>1 DEF Place, Deleter, Moves, Settle
  <2>3. Saw(w)' BY <1>10, <2>1 DEF Saw, Settle, Finished
  <2>4. ~Told(w)' BY <1>0, <1>10, <2>1 DEF Told, Moves, Place, Settle
  <2> QED BY <1>10, <2>1, <2>2, <2>3, <2>4, LooksKeep DEF Settle, Deleter, Moves, ToldRight
<1>11. CASE GiveUp(w)
  <2>1. Moves(w, "left") BY <1>11, MoveEffect DEF GiveUp
  <2>2. Place(w)' BY <1>0, <1>11, <2>1 DEF Place, Deleter, Moves, GiveUp
  <2>3. Saw(w)' /\ ToldRight(w)' BY <2>1 DEF Saw, ToldRight, Told, Moves
  <2> QED BY <1>11, <2>1, <2>2, <2>3, LooksKeep DEF GiveUp, Deleter, Moves
<1> QED BY <1>1, <1>2, <1>3, <1>4, <1>5, <1>6, <1>7, <1>8, <1>9, <1>10, <1>11
        DEF Request, StatelessWait, BackgroundRun

LEMMA DeletionKeeps ==
    ASSUME TypeOK, WaitsInv, NEW w \in Waiters, Deletion(w)
    PROVE  WaitsInv'
<1> USE TypeGroups DEF histVars, redisVars, reaperVars, runVars
<1>0. Place(w) /\ (Calm => Saw(w) /\ ToldRight(w))
  BY DEF WaitsInv, Places, Calm, SawTheEnd, ToldTheOutput
<1>1. CASE SelectActive(w)
  <2> DEFINE step == IF row \in Active THEN "cancel" ELSE "drop"
  <2>1. /\ Moves(w, step) /\ waiter'[w].cut = waiter[w].cut
        /\ waiter'[w].answer = waiter[w].answer
    BY <1>1, MoveEffect DEF SelectActive
  <2>2. Place(w)' BY <1>0, <1>1, <2>1 DEF Place, Deleter, Moves, SelectActive
  <2>3. ASSUME Calm PROVE Saw(w)' /\ ToldRight(w)'
    BY <1>0, <1>1, <2>1, <2>3 DEF Saw, ToldRight, Told, Moves, SelectActive, Finished
  <2> QED BY <1>1, <2>1, <2>2, <2>3, LooksKeep DEF SelectActive, Deleter, Moves
<1>2. CASE CancelRun(w)
  <2>1. PICK step \in {"drop", "await"} :
           /\ Moves(w, step) /\ waiter'[w].cut = waiter[w].cut
           /\ waiter'[w].answer = waiter[w].answer
    <3>1. \/ Goto(w, "drop")
          \/ \E a \in Local : waiter' = [waiter EXCEPT ![w].step = "await", ![w].task = a]
      BY <1>2 DEF CancelRun
    <3>2. CASE Goto(w, "drop") BY <3>2, MoveEffect
    <3>3. ASSUME NEW a \in Local, waiter' = [waiter EXCEPT ![w].step = "await", ![w].task = a]
          PROVE  /\ Moves(w, "await") /\ waiter'[w].cut = waiter[w].cut
                 /\ waiter'[w].answer = waiter[w].answer
      BY <3>3, MoveEffect
    <3> QED BY <3>1, <3>2, <3>3
  <2>2. Place(w)' BY <1>0, <1>2, <2>1 DEF Place, Deleter, Moves, CancelRun
  <2>3. UNCHANGED <<row, output, owner, key, cancelled, stalled>> /\ Strike(Local)
    BY <1>2 DEF CancelRun
  <2>4. Places' /\ OneDeleter' /\ GoneByDeletion'
    BY <1>2, <2>1, <2>2, <2>3, MoveKeepsPlaces DEF CancelRun, Deleter, Moves
  <2>5. ASSUME ~Disturbed' PROVE Calm'
    <3>1. Calm BY <2>3, <2>5 DEF WaitsInv, Disturbed, Strike
    <3>2. OneWorks' /\ SignalsTheEnd' /\ KeyMeansEnd' /\ EndStays
      BY <2>3, <2>5, <3>1, StrikeCalm, LocalAttempts, AttemptsEnd DEF Disturbed
    <3>3. Saw(w)' /\ ToldRight(w)'
      BY <1>0, <1>2, <2>1, <2>3, <3>1 DEF Saw, ToldRight, Told, Moves, CancelRun, Finished
    <3> QED BY <2>1, <3>1, <3>2, <3>3, MoveKeepsCalm DEF Moves
  <2> QED BY <2>4, <2>5 DEF WaitsInv
<1>3. CASE AwaitTask(w)
  <2>1. /\ Moves(w, "drop") /\ waiter'[w].cut = waiter[w].cut
        /\ waiter'[w].answer = waiter[w].answer
    BY <1>3, MoveEffect DEF AwaitTask
  <2>2. Place(w)' BY <1>0, <1>3, <2>1 DEF Place, Deleter, Moves, AwaitTask
  <2>3. ASSUME Calm PROVE Saw(w)' /\ ToldRight(w)'
    BY <1>0, <1>3, <2>1, <2>3 DEF Saw, ToldRight, Told, Moves, AwaitTask, Finished
  <2> QED BY <1>3, <2>1, <2>2, <2>3, LooksKeep DEF AwaitTask, Deleter, Moves
<1>4. CASE Drop(w)
  <2>1. /\ Moves(w, "over") /\ waiter'[w].cut = waiter[w].cut
        /\ waiter'[w].answer = waiter[w].answer
    BY <1>4, MoveEffect DEF Drop
  <2>2. row' = "gone" /\ UNCHANGED <<output, owner, attempt, key, cancelled, unwritten, stalled>>
    BY <1>4 DEF Drop
  <2>3. Place(w)' BY <1>0, <1>4, <2>1 DEF Place, Deleter, Moves, Drop
  <2>4. Places' BY <2>1, <2>2, <2>3 DEF WaitsInv, Places, Place, Deleter, Moves, OthersStay
  <2>5. OneDeleter' BY <2>1 DEF WaitsInv, OneDeleter, Deleter, Moves, OthersStay
  <2>6. GoneByDeletion' BY <2>1 DEF GoneByDeletion, Moves
  <2>7. ASSUME ~Disturbed' PROVE Calm'
    <3>1. Calm BY <2>2, <2>7 DEF WaitsInv, Disturbed
    <3>2. OneWorks' /\ SignalsTheEnd' /\ KeyMeansEnd'
      BY <2>2, <3>1 DEF Calm, OneWorks, SignalsTheEnd, KeyMeansEnd, Finished, Working
    <3>3. EndStays BY <2>2 DEF EndStays, Finished
    <3>4. Saw(w)' /\ ToldRight(w)'
      BY <1>0, <1>4, <2>1, <2>2, <3>1 DEF Saw, ToldRight, Told, Moves, Drop, Finished
    <3> QED BY <2>1, <3>1, <3>2, <3>3, <3>4, MoveKeepsCalm DEF Moves
  <2> QED BY <2>4, <2>5, <2>6, <2>7 DEF WaitsInv
<1>5. CASE DropFails(w)
  <2>1. /\ Moves(w, "over") /\ waiter'[w].cut = waiter[w].cut
        /\ waiter'[w].answer = waiter[w].answer
    BY <1>5, MoveEffect DEF DropFails
  <2>2. Place(w)' BY <1>0, <1>5, <2>1 DEF Place, Deleter, Moves, DropFails
  <2>3. ASSUME Calm PROVE Saw(w)' /\ ToldRight(w)'
    BY <1>0, <1>5, <2>1, <2>3 DEF Saw, ToldRight, Told, Moves, DropFails, Finished
  <2> QED BY <1>5, <2>1, <2>2, <2>3, LooksKeep DEF DropFails, Deleter, Moves
<1> QED BY <1>1, <1>2, <1>3, <1>4, <1>5 DEF Deletion

-----------------------------------------------------------------------------
(* The theorems *)

LEMMA WaitsInvariant == Spec => []WaitsInv
<1>1. Init => WaitsInv
  BY DEF Init, WaitsInv, Places, Place, Deleter, OneDeleter, GoneByDeletion, Calm, OneWorks, Working,
     SignalsTheEnd, KeyMeansEnd, SawTheEnd, Saw, ToldTheOutput, ToldRight, Told, Idle
<1>2. TypeOK /\ WaitsInv /\ [Next]_vars => WaitsInv'
  <2>1. TypeOK /\ WaitsInv /\ Next => WaitsInv'
    BY RunAndServerKeep, RequestKeeps, DeletionKeeps DEF Next
  <2>2. WaitsInv /\ UNCHANGED vars => WaitsInv'
    BY DEF WaitsInv, Places, Place, Deleter, OneDeleter, GoneByDeletion, Calm, OneWorks, Working,
       SignalsTheEnd, KeyMeansEnd, SawTheEnd, Saw, ToldTheOutput, ToldRight, Told, Finished, Disturbed,
       vars, runVars, reaperVars, redisVars, histVars
  <2> QED BY <2>1, <2>2
<1> QED BY <1>1, <1>2, TypeCorrect, PTL DEF Spec

\* A join or a stateless wait that was not cut short answers with the output the
\* run keeps for good, or with {} after its deletion: whatever the order in
\* which the key, the row and other waits went, unless the run was disturbed.
THEOREM WaitsTellTheOutput == Spec => []AnswerIsFinal
<1>1. TypeOK /\ WaitsInv => AnswerIsFinal
  <2> SUFFICES ASSUME TypeOK, WaitsInv, NEW w \in Waiters, Told(w), ~Disturbed, ~waiter[w].cut
               PROVE  \/ row = "gone" /\ waiter[w].answer \in {0, output}
                      \/ row \in Terminal /\ waiter[w].answer = output
    BY DEF AnswerIsFinal
  <2>1. Saw(w) /\ ToldRight(w) BY DEF WaitsInv, Calm, SawTheEnd, ToldTheOutput
  <2>2. Finished BY <2>1 DEF Saw, Told
  <2> QED BY <2>1, <2>2 DEF ToldRight, Finished, Terminal
<1> QED BY <1>1, TypeCorrect, WaitsInvariant, PTL

\* The step that deletes the thread of a stateless run finds the run over, and
\* its row still there: no other clean-up has taken it before.
THEOREM DeletionsWait == Spec => CleanUpWaits
<1>1. WaitsInv /\ [Next]_vars
        => [\A w \in Waiters : Drop(w) => row \in Terminal \/ Disturbed \/ waiter[w].cut]_vars
  <2> SUFFICES ASSUME WaitsInv, NEW w \in Waiters, Drop(w), ~Disturbed, ~waiter[w].cut
               PROVE  row \in Terminal
    OBVIOUS
  <2>1. Place(w) /\ Saw(w) BY DEF WaitsInv, Places, Calm, SawTheEnd
  <2>2. Finished /\ Deleter(w) /\ waiter[w].step = "drop" BY <2>1 DEF Saw, Place, Drop
  <2>3. row # "gone"
    <3> SUFFICES ASSUME row = "gone" PROVE FALSE OBVIOUS
    <3>1. PICK v \in Waiters : waiter[v].step = "over" BY DEF WaitsInv, GoneByDeletion
    <3>2. Deleter(v) BY <3>1 DEF WaitsInv, Places, Place
    <3> QED BY <2>2, <3>1, <3>2 DEF WaitsInv, OneDeleter
  <2> QED BY <2>2, <2>3 DEF Finished
<1> QED BY <1>1, WaitsInvariant, PTL DEF Spec, CleanUpWaits

-----------------------------------------------------------------------------
(* GraphEvents: what is known of the events *)

HIDE ConstantsAssumption
USE ChunksAssumption

Positions == 1..Len(given)
Elements(s) == {s[n] : n \in DOMAIN s}
Increasing(s) == \A n \in 1..(Len(s) - 1) : s[n] < s[n + 1]

\* The chunks of a message, and the events made of them.
PartTypes == {"messages/partial", "messages/complete"}
Pieces(m) == {i \in Positions : given[i].id = m}
Parts(m) == {k \in DOMAIN put :
    put[k].type \in PartTypes /\ put[k].data # <<>> /\ given[put[k].data[1]].id = m}
Metas(m) == {k \in DOMAIN put : put[k].type = "messages/metadata" /\ given[put[k].data[1]].id = m}

InterruptType == IF "updates" \in asked THEN "updates" ELSE "values"
OtherType == IF "updates" \in asked THEN "values" ELSE "updates"

\* The chunks LangGraph may hand over.
Lawful(c) ==
    /\ c \in Chunk
    /\ c.what = "interrupt" => c.mode = "updates" \/ (c.mode = "values" /\ "values" \in asked)
    /\ c.what = "breakpoint" => c.mode = "updates"
    /\ c.mode = "messages" <=> c.id \in Messages
    /\ c.mode = "messages" => {"messages", "messages-tuple"} \cap asked # {}
    /\ c.mode = "raw" => "events" \in asked

\* Events are made from chunks that were handed over.
Positioned ==
    \A k \in DOMAIN put :
       /\ Elements(put[k].data) \subseteq Positions
       /\ put[k].type # "metadata" => put[k].data # <<>>

\* A chunk that makes the run one that is interrupted.
Pauses(c) == c.what \in {"interrupt"} \cup (IF "updates" \in asked THEN {"breakpoint"} ELSE {})

\* What a node asks a human has one event, of the one type.
Interrupted ==
    /\ \A i \in Positions : given[i].what = "interrupt" /\ given[i].mode = "updates" =>
         /\ \E k \in DOMAIN put : From(i, InterruptType) = {k}
         /\ From(i, OtherType) = {}
    /\ result.interrupt <=> \E i \in Positions : Pauses(given[i])

\* What is accumulated of a message is what was handed over of it, in that order.
Accumulating(m) ==
    /\ Elements(messages[m]) = IF "messages-tuple" \in asked THEN {} ELSE Pieces(m)
    /\ Increasing(messages[m])
    /\ IsFiniteSet(Elements(messages[m])) /\ Cardinality(Elements(messages[m])) = Len(messages[m])

\* The last part of a message that was sent is all that is accumulated of it.
BuiltUp(m) ==
    IF messages[m] = <<>> THEN Parts(m) = {} /\ Metas(m) = {}
    ELSE \E last \in Parts(m), k \in Metas(m) :
            /\ \A l \in Parts(m) : l <= last
            /\ put[last].data = messages[m]
            /\ Metas(m) = {k} /\ \A l \in Parts(m) : k < l

\* The states of the run, of any of its graphs.
States == {i \in Positions : given[i].mode = "values"}
IsLast(i) == i \in States /\ \A j \in States : j <= i

\* Nothing has been interrupted.
Stops(c) == c.what \in {"interrupt", "breakpoint"}
NoPause == \A i \in Positions : ~Stops(given[i])

\* What the output is of a run that does not pause.
OutputKept ==
    "values" \in asked /\ NoPause /\ States # {} =>
        \E i \in States : IsLast(i) /\ result.data = <<i>>

\* A graph goes on without having been interrupted, or has paused for good.
Phases ==
    /\ graph = "running" => NoPause
    /\ graph = "pausing" => ~NoPause
    /\ graph = "over" /\ "values" \in asked /\ NoPause =>
          \E i \in States : IsLast(i) /\ given[i].space = Root

StreamInv ==
    /\ StreamTypeOK
    /\ \A i \in Positions : Lawful(given[i])
    /\ Positioned
    /\ Interrupted
    /\ OnlyAsked
    /\ OutputKept
    /\ Phases
    /\ \A m \in Messages : Accumulating(m) /\ BuiltUp(m)

-----------------------------------------------------------------------------
(* GraphEvents: the events of one chunk *)

\* What its mode or its kind makes of a chunk, but for the messages that are
\* accumulated: an event of this type, or none.
SentAs(c) ==
    IF c.mode = "raw" THEN IF c.what = "hidden" THEN "none" ELSE "events"
    ELSE IF c.mode = "messages" THEN "messages"
    ELSE IF c.mode \in asked THEN c.mode
    ELSE IF c.mode = "updates" /\ c.what = "interrupt" THEN "values" ELSE "none"

Direct(c, i) ==
    IF SentAs(c) = "none" THEN <<>> ELSE << [type |-> SentAs(c), space |-> c.space, data |-> <<i>>] >>
Raw(i) == [type |-> "events", space |-> Root, data |-> <<i>>]
RawTail(c, i) == IF c.mode # "raw" /\ "events" \in asked THEN <<Raw(i)>> ELSE <<>>

\* A chunk whose message is accumulated here.
Gathers(c) == c.mode = "messages" /\ "messages-tuple" \notin asked

Meta(i) == [type |-> "messages/metadata", space |-> Root, data |-> <<i>>]
Part(c, i) == [type |-> IF c.what = "piece" THEN "messages/partial" ELSE "messages/complete",
               space |-> Root, data |-> Append(messages[c.id], i)]
MetaFirst(c, i) == IF messages[c.id] = <<>> THEN <<Meta(i)>> ELSE <<>>

LEMMA DirectEvents ==
    ASSUME NEW c \in Chunk, NEW i \in 1..MaxChunks, ~Gathers(c)
    PROVE  Events(c, i) = Direct(c, i) \o RawTail(c, i)
<1>1. CASE c.mode = "raw" BY <1>1 DEF Events, Direct, RawTail, SentAs, Ev
<1>2. CASE c.mode # "raw"
  <2>1. Processed(c, i) = Direct(c, i)
    BY <1>2 DEF Gathers, Processed, OfMessage, Remapped, Direct, SentAs, Ev, Chunk
  <2>2. [c EXCEPT !.space = Root].space = Root BY DEF Chunk
  <2> QED BY <1>2, <2>1, <2>2 DEF Events, RawTail, Raw, Ev
<1> QED BY <1>1, <1>2

LEMMA GatheredEvents ==
    ASSUME NEW c \in Chunk, NEW i \in 1..MaxChunks, Gathers(c)
    PROVE  Events(c, i) = (MetaFirst(c, i) \o <<Part(c, i)>>) \o RawTail(c, i)
<1>1. [c EXCEPT !.space = Root].space = Root BY DEF Chunk
<1>2. c.mode = "messages" /\ "messages-tuple" \notin asked BY DEF Gathers
<1>3. /\ Ev("messages/metadata", [c EXCEPT !.space = Root], <<i>>) = <<Meta(i)>>
      /\ Ev(IF c.what = "piece" THEN "messages/partial" ELSE "messages/complete",
            [c EXCEPT !.space = Root], Accumulated(c, i)) = <<Part(c, i)>>
  BY <1>1 DEF Ev, Accumulated, Meta, Part
<1>4. OfMessage(c, i) = MetaFirst(c, i) \o <<Part(c, i)>>
  BY <1>2, <1>3, Zenon DEF OfMessage, MetaFirst
<1>5. Processed(c, i) = MetaFirst(c, i) \o <<Part(c, i)>> BY <1>2, <1>4 DEF Processed
<1>6. Events(c, i) = Processed(c, i) \o RawTail(c, i)
  BY <1>1, <1>2 DEF Events, RawTail, Raw, Ev
<1> QED BY <1>5, <1>6

\* What stands where in two sequences joined.
LEMMA Joined ==
    ASSUME NEW S, NEW s \in Seq(S), NEW t \in Seq(S)
    PROVE  /\ s \o t \in Seq(S) /\ Len(s \o t) = Len(s) + Len(t)
           /\ \A k \in 1..Len(s) : (s \o t)[k] = s[k]
           /\ \A k \in 1..Len(t) : (s \o t)[Len(s) + k] = t[k]
<1>1. s \o t \in Seq(S) /\ Len(s \o t) = Len(s) + Len(t) BY ConcatProperties, ZenonT(30)
<1>2. \A k \in 1..(Len(s) + Len(t)) : (s \o t)[k] = IF k <= Len(s) THEN s[k] ELSE t[k - Len(s)]
  BY ConcatProperties, ZenonT(30)
<1>3. Len(s) \in Nat /\ Len(t) \in Nat OBVIOUS
<1>4. ASSUME NEW k \in 1..Len(s) PROVE (s \o t)[k] = s[k]
  <2>1. k \in 1..(Len(s) + Len(t)) /\ k <= Len(s) BY <1>3
  <2> QED BY <1>2, <2>1
<1>5. ASSUME NEW k \in 1..Len(t) PROVE (s \o t)[Len(s) + k] = t[k]
  <2>1. Len(s) + k \in 1..(Len(s) + Len(t)) /\ ~(Len(s) + k <= Len(s)) /\ Len(s) + k - Len(s) = k BY <1>3
  <2> QED BY <1>2, <2>1
<1> QED BY <1>1, <1>4, <1>5

LEMMA TailFacts ==
    ASSUME NEW c \in Chunk, NEW i \in 1..MaxChunks
    PROVE  /\ RawTail(c, i) \in Seq(Event) /\ Len(RawTail(c, i)) \in 0..1
           /\ \A k \in 1..Len(RawTail(c, i)) : RawTail(c, i)[k] = Raw(i)
           /\ Len(RawTail(c, i)) # 0 => "events" \in asked
<1>1. Raw(i) \in Event
  <2>1. <<i>> \in Seq(1..MaxChunks) OBVIOUS
  <2> QED BY <2>1 DEF Raw, Event, Types, Spaces
<1> HIDE DEF Raw
<1> QED BY <1>1 DEF RawTail

\* The events of a chunk that is not accumulated.
Simple(c, i, ev) ==
    /\ ev \in Seq(Event)
    /\ \A k \in 1..Len(ev) : ev[k].data = <<i>> /\ ev[k].type \in {SentAs(c), "events"} \ {"none"}
    /\ \A k \in 1..Len(ev) : k # 1 \/ SentAs(c) = "none" => ev[k].type = "events" /\ "events" \in asked
    /\ SentAs(c) # "none" => Len(ev) >= 1 /\ ev[1].type = SentAs(c)

LEMMA DirectFacts ==
    ASSUME NEW c \in Chunk, NEW i \in 1..MaxChunks, ~Gathers(c)
    PROVE  Simple(c, i, Events(c, i))
<1> DEFINE one == [type |-> SentAs(c), space |-> c.space, data |-> <<i>>]
<1>1. SentAs(c) \in {"values", "updates", "messages", "debug", "custom", "events", "none"}
  BY DEF SentAs, Chunk
<1>2. SentAs(c) # "none" => one \in Event
  <2>1. <<i>> \in Seq(1..MaxChunks) OBVIOUS
  <2> QED BY <1>1, <2>1 DEF Event, Types, Chunk
<1>3. one.type = SentAs(c) /\ one.data = <<i>> OBVIOUS
<1>4. Direct(c, i) = IF SentAs(c) = "none" THEN <<>> ELSE <<one>> BY DEF Direct
<1> HIDE DEF one
<1> DEFINE d == Direct(c, i)
           t == RawTail(c, i)
<1>5. /\ d \in Seq(Event) /\ Len(d) = (IF SentAs(c) = "none" THEN 0 ELSE 1)
      /\ SentAs(c) # "none" => d[1] = one
  BY <1>2, <1>4
<1>6. /\ t \in Seq(Event) /\ Len(t) \in 0..1 /\ \A k \in 1..Len(t) : t[k] = Raw(i)
      /\ Len(t) # 0 => "events" \in asked
  BY TailFacts
<1>7. Events(c, i) = d \o t BY DirectEvents
<1> HIDE DEF d, t
<1>8. /\ d \o t \in Seq(Event) /\ Len(d \o t) = Len(d) + Len(t)
      /\ \A k \in 1..Len(d) : (d \o t)[k] = d[k]
      /\ \A k \in 1..Len(t) : (d \o t)[Len(d) + k] = t[k]
  BY <1>5, <1>6, Joined
<1> DEFINE ev == d \o t
<1>9. Raw(i).type = "events" /\ Raw(i).data = <<i>> BY DEF Raw
<1>10. ev \in Seq(Event) /\ Len(ev) = Len(d) + Len(t)
       /\ (\A k \in 1..Len(d) : ev[k] = d[k]) /\ (\A k \in 1..Len(t) : ev[Len(d) + k] = t[k])
  BY <1>8
<1> HIDE DEF ev
<1>11. CASE SentAs(c) = "none"
  <2>1. Len(d) = 0 /\ Len(ev) = Len(t) /\ \A k \in 1..Len(ev) : 0 + k = k BY <1>5, <1>6, <1>10, <1>11
  <2>2. \A k \in 1..Len(ev) : ev[k] = Raw(i) /\ "events" \in asked BY <1>6, <1>10, <2>1
  <2>3. Simple(c, i, ev) BY <1>9, <1>10, <1>11, <2>2 DEF Simple
  <2> QED BY <1>7, <2>3 DEF ev
<1>12. CASE SentAs(c) # "none"
  <2>1. Len(d) = 1 /\ ev[1] = one /\ Len(ev) = 1 + Len(t) BY <1>5, <1>6, <1>10, <1>12
  <2>2. ASSUME NEW k \in 1..Len(ev), k # 1 PROVE ev[k] = Raw(i) /\ "events" \in asked
    <3>1. Len(t) # 0 /\ k - 1 \in 1..Len(t) /\ 1 + (k - 1) = k BY <1>6, <2>1, <2>2
    <3> QED BY <1>6, <1>10, <2>1, <3>1
  <2>3. Simple(c, i, ev)
    <3>1. Len(ev) >= 1 BY <1>6, <2>1
    <3> QED BY <1>3, <1>9, <1>10, <1>12, <2>1, <2>2, <3>1 DEF Simple
  <2> QED BY <1>7, <2>3 DEF ev
<1> QED BY <1>11, <1>12

\* The events of a chunk that is accumulated: its metadata if it is the message's
\* first, then all there is of the message.
PartAt(c) == IF messages[c.id] = <<>> THEN 2 ELSE 1
Gathering(c, i, ev) ==
    /\ ev \in Seq(Event) /\ Len(ev) >= PartAt(c)
    /\ ev[PartAt(c)] = Part(c, i)
    /\ PartAt(c) = 2 => ev[1] = Meta(i)
    /\ \A k \in 1..Len(ev) : k > PartAt(c) => ev[k] = Raw(i) /\ "events" \in asked

LEMMA GatheredFacts ==
    ASSUME NEW c \in Chunk, NEW i \in 1..MaxChunks, Gathers(c), c.id \in Messages,
           messages \in [Messages -> Seq(1..MaxChunks)]
    PROVE  Gathering(c, i, Events(c, i))
<1>1. Part(c, i) \in Event
  <2>1. messages[c.id] \in Seq(1..MaxChunks) OBVIOUS
  <2>2. Append(messages[c.id], i) \in Seq(1..MaxChunks) BY <2>1, AppendProperties
  <2> QED BY <2>2 DEF Part, Event, Types, Spaces
<1>2. Meta(i) \in Event
  <2>1. <<i>> \in Seq(1..MaxChunks) OBVIOUS
  <2> QED BY <2>1 DEF Meta, Event, Types, Spaces
<1> DEFINE b == MetaFirst(c, i)
           p == <<Part(c, i)>>
           t == RawTail(c, i)
<1>3. b \in Seq(Event) /\ Len(b) = PartAt(c) - 1 /\ (PartAt(c) = 2 => b[1] = Meta(i)) /\ PartAt(c) \in 1..2
  <2> HIDE DEF Meta
  <2> QED BY <1>2 DEF MetaFirst, PartAt
<1>4. p \in Seq(Event) /\ Len(p) = 1 /\ p[1] = Part(c, i)
  <2> HIDE DEF Part
  <2> QED BY <1>1
<1>5. /\ t \in Seq(Event) /\ Len(t) \in 0..1 /\ \A k \in 1..Len(t) : t[k] = Raw(i)
      /\ Len(t) # 0 => "events" \in asked
  BY TailFacts
<1>6. Events(c, i) = (b \o p) \o t BY GatheredEvents
<1> HIDE DEF b, p, t
<1>7. /\ b \o p \in Seq(Event) /\ Len(b \o p) = Len(b) + Len(p)
      /\ \A k \in 1..Len(b) : (b \o p)[k] = b[k]
      /\ \A k \in 1..Len(p) : (b \o p)[Len(b) + k] = p[k]
  <2>1. b \in Seq(Event) /\ p \in Seq(Event) BY <1>3, <1>4
  <2> QED BY <2>1, Joined
<1> DEFINE bp == b \o p
<1>15. /\ bp \in Seq(Event) /\ Len(bp) = Len(b) + Len(p)
       /\ \A k \in 1..Len(b) : bp[k] = b[k]
       /\ \A k \in 1..Len(p) : bp[Len(b) + k] = p[k]
  BY <1>7
<1> HIDE DEF bp
<1>8. /\ Len(bp) = PartAt(c) /\ bp[PartAt(c)] = Part(c, i)
      /\ PartAt(c) = 2 => bp[1] = Meta(i)
  <2>1. Len(b) + 1 = PartAt(c) /\ 1 \in 1..Len(p) BY <1>3, <1>4
  <2>2. PartAt(c) = 2 => 1 \in 1..Len(b) BY <1>3
  <2> QED BY <1>3, <1>4, <1>15, <2>1, <2>2
<1>9. /\ bp \o t \in Seq(Event) /\ Len(bp \o t) = Len(bp) + Len(t)
      /\ \A k \in 1..Len(bp) : (bp \o t)[k] = bp[k]
      /\ \A k \in 1..Len(t) : (bp \o t)[Len(bp) + k] = t[k]
  <2>1. bp \in Seq(Event) /\ t \in Seq(Event) BY <1>5, <1>15
  <2> QED BY <2>1, Joined
<1> DEFINE ev == bp \o t
<1>14. /\ ev \in Seq(Event) /\ Len(ev) = Len(bp) + Len(t)
       /\ \A k \in 1..Len(bp) : ev[k] = bp[k]
       /\ \A k \in 1..Len(t) : ev[Len(bp) + k] = t[k]
  BY <1>9
<1>10. Events(c, i) = ev BY <1>6 DEF bp
<1> HIDE DEF ev
<1>11. PartAt(c) \in 1..Len(bp) /\ 1 \in 1..Len(bp) BY <1>3, <1>8
<1>12. ASSUME NEW k \in 1..Len(ev), k > PartAt(c) PROVE ev[k] = Raw(i) /\ "events" \in asked
  <2>1. PartAt(c) \in Nat /\ Len(t) \in Nat /\ Len(ev) = PartAt(c) + Len(t) BY <1>3, <1>5, <1>8, <1>14
  <2>2. Len(t) # 0 /\ k - PartAt(c) \in 1..Len(t) /\ PartAt(c) + (k - PartAt(c)) = k BY <1>12, <2>1
  <2> QED BY <1>5, <1>8, <1>14, <2>2
<1>13. Len(ev) >= PartAt(c) BY <1>3, <1>5, <1>8, <1>14
<1> QED BY <1>8, <1>14, <1>10, <1>11, <1>12, <1>13 DEF Gathering

-----------------------------------------------------------------------------
(* GraphEvents: a chunk is taken *)

LEMMA ElementsAppend ==
    ASSUME NEW S, NEW s \in Seq(S), NEW x \in S
    PROVE  Elements(Append(s, x)) = Elements(s) \cup {x}
<1>1. /\ Append(s, x) \in Seq(S) /\ Len(Append(s, x)) = Len(s) + 1
      /\ \A k \in 1..Len(s) : Append(s, x)[k] = s[k]
      /\ Append(s, x)[Len(s) + 1] = x
  BY AppendProperties
<1>2. Len(s) \in Nat /\ DOMAIN s = 1..Len(s) OBVIOUS
<1>3. DOMAIN Append(s, x) = 1..(Len(s) + 1) BY <1>1, <1>2
<1>4. \A k \in 1..(Len(s) + 1) : k \in 1..Len(s) \/ k = Len(s) + 1 BY <1>2
<1>5. \A k \in 1..Len(s) : k \in 1..(Len(s) + 1) BY <1>2
<1>6. Len(s) + 1 \in 1..(Len(s) + 1) BY <1>2
<1> DEFINE t == Append(s, x)
<1> HIDE DEF t
<1>7. ASSUME NEW e \in Elements(t) PROVE e \in Elements(s) \cup {x}
  <2>1. PICK k \in 1..(Len(s) + 1) : e = t[k] BY <1>3 DEF Elements, t
  <2> QED BY <1>1, <1>2, <1>4, <2>1 DEF Elements, t
<1>8. ASSUME NEW e \in Elements(s) \cup {x} PROVE e \in Elements(t)
  BY <1>1, <1>2, <1>3, <1>5, <1>6 DEF Elements, t
<1> QED BY <1>7, <1>8 DEF t

LEMMA FirstAppended ==
    ASSUME NEW S, NEW s \in Seq(S), NEW x \in S
    PROVE  Append(s, x) # <<>> /\ Append(s, x)[1] = IF s = <<>> THEN x ELSE s[1]
<1>1. Len(s) \in Nat /\ Len(Append(s, x)) = Len(s) + 1 OBVIOUS
<1>2. Append(s, x) # <<>> BY <1>1
<1>3. CASE s = <<>> BY <1>3
<1>4. CASE s # <<>>
  <2>1. 1 \in 1..Len(s) BY <1>4
  <2> QED BY <1>2, <1>4, <2>1, AppendProperties
<1> QED BY <1>2, <1>3, <1>4

\* What a step that takes chunk c, number i, and puts the events ev changes.
Taken(c, i, ev) ==
    /\ i = Len(given) + 1 /\ i \in 1..MaxChunks
    /\ given' \in Seq(Chunk) /\ Len(given') = i /\ given'[i] = c
    /\ \A k \in 1..Len(given) : given'[k] = given[k]
    /\ put' \in Seq(Event) /\ Len(put') = Len(put) + Len(ev)
    /\ \A k \in 1..Len(put) : put'[k] = put[k]
    /\ \A n \in 1..Len(ev) : put'[Len(put) + n] = ev[n]
    /\ asked' = asked
    /\ messages' = IF Gathers(c) THEN [messages EXCEPT ![c.id] = Append(@, i)] ELSE messages
    /\ IF Gathers(c) THEN Gathering(c, i, ev) ELSE Simple(c, i, ev)

LEMMA TakeIsTaken ==
    ASSUME StreamTypeOK, NEW c, Lawful(c), Take(c)
    PROVE  LET i == Len(given) + 1 IN Taken(c, i, Events(c, i))
<1> DEFINE i == Len(given) + 1
           ev == Events(c, i)
<1>1. c \in Chunk /\ (Gathers(c) => c.id \in Messages) BY DEF Lawful, Gathers
<1>2. given \in Seq(Chunk) /\ Len(given) \in Nat /\ i \in 1..MaxChunks
  BY DEF StreamTypeOK, Take
<1>3. IF Gathers(c) THEN Gathering(c, i, ev) ELSE Simple(c, i, ev)
  <2>1. ASSUME Gathers(c) PROVE Gathering(c, i, ev)
    BY <1>1, <1>2, <2>1, GatheredFacts DEF StreamTypeOK
  <2>2. ASSUME ~Gathers(c) PROVE Simple(c, i, ev) BY <1>1, <1>2, <2>2, DirectFacts
  <2> QED BY <2>1, <2>2
<1>4. ev \in Seq(Event) BY <1>3 DEF Gathering, Simple
<1>5. /\ given' = Append(given, c) /\ put' = put \o ev /\ asked' = asked
      /\ messages' = IF Gathers(c) THEN [messages EXCEPT ![c.id] = Append(@, i)] ELSE messages
  BY DEF Take, Gathers
<1> HIDE DEF ev
<1>6. /\ put \o ev \in Seq(Event) /\ Len(put \o ev) = Len(put) + Len(ev)
      /\ \A k \in 1..Len(put) : (put \o ev)[k] = put[k]
      /\ \A k \in 1..Len(ev) : (put \o ev)[Len(put) + k] = ev[k]
  <2>1. put \in Seq(Event) BY DEF StreamTypeOK
  <2> QED BY <1>4, <2>1, Joined
<1>7. /\ given' \in Seq(Chunk) /\ Len(given') = i /\ given'[i] = c
      /\ \A k \in 1..Len(given) : given'[k] = given[k]
  BY <1>1, <1>2, <1>5, AppendProperties
<1> QED BY <1>2, <1>3, <1>5, <1>6, <1>7 DEF Taken, ev

\* Where an event that was put stands.
LEMMA OldOrNew ==
    ASSUME StreamTypeOK, NEW c, NEW i, NEW ev \in Seq(Event), Taken(c, i, ev)
    PROVE  /\ Len(put) \in Nat /\ Len(given) \in Nat /\ Len(ev) \in Nat /\ i \in Nat
           /\ DOMAIN put = 1..Len(put) /\ DOMAIN put' = 1..(Len(put) + Len(ev))
           /\ Positions' = Positions \cup {i} /\ i \notin Positions
           /\ \A k \in DOMAIN put' : k \in DOMAIN put \/ \E n \in 1..Len(ev) : k = Len(put) + n
           /\ \A k \in DOMAIN put : k \in DOMAIN put' /\ put'[k] = put[k]
           /\ \A n \in 1..Len(ev) : Len(put) + n \in DOMAIN put' /\ Len(put) + n \notin DOMAIN put
<1>1. put \in Seq(Event) /\ given \in Seq(Chunk) BY DEF StreamTypeOK
<1>2. /\ Len(put) \in Nat /\ Len(given) \in Nat /\ Len(ev) \in Nat /\ DOMAIN put = 1..Len(put) BY <1>1
<1>3. put' \in Seq(Event) /\ Len(put') = Len(put) + Len(ev) /\ i = Len(given) + 1 /\ Len(given') = i
  BY DEF Taken
<1>4. DOMAIN put' = 1..(Len(put) + Len(ev)) BY <1>3
<1>5. Positions' = Positions \cup {i} /\ i \notin Positions BY <1>2, <1>3 DEF Positions
<1>6. ASSUME NEW k \in DOMAIN put' PROVE k \in DOMAIN put \/ \E n \in 1..Len(ev) : k = Len(put) + n
  <2>1. CASE k <= Len(put) BY <1>2, <1>4, <2>1
  <2>2. CASE k > Len(put)
    <3>1. k - Len(put) \in 1..Len(ev) /\ k = Len(put) + (k - Len(put)) BY <1>2, <1>4, <2>2
    <3> QED BY <3>1
  <2> QED BY <1>2, <1>4, <2>1, <2>2
<1>7. ASSUME NEW k \in DOMAIN put PROVE k \in DOMAIN put' /\ put'[k] = put[k]
  BY <1>2, <1>4 DEF Taken
<1>8. ASSUME NEW n \in 1..Len(ev) PROVE Len(put) + n \in DOMAIN put' /\ Len(put) + n \notin DOMAIN put
  BY <1>2, <1>4
<1> QED BY <1>2, <1>3, <1>4, <1>5, <1>6, <1>7, <1>8

\* The events of a chunk, by what they are made from.
LEMMA NewEvents ==
    ASSUME StreamInv, NEW c, NEW i, NEW ev, Lawful(c), Taken(c, i, ev), NEW n \in 1..Len(ev)
    PROVE  /\ ev \in Seq(Event) /\ ev[n].data # <<>> /\ ev[n].type # "metadata"
           /\ Elements(ev[n].data) \subseteq Positions \cup {i}
           /\ ev[n].type \in {"values", "updates"} =>
                 n = 1 /\ ~Gathers(c) /\ ev[n].type = SentAs(c) /\ ev[n].data = <<i>>
           /\ ev[n].type = "messages/metadata" =>
                 Gathers(c) /\ ev[n].data = <<i>> /\ n = 1 /\ PartAt(c) = 2
           /\ ev[n].type \in PartTypes =>
                 Gathers(c) /\ ev[n].data = Append(messages[c.id], i) /\ n = PartAt(c)
<1>1. i \in 1..MaxChunks BY DEF Taken
<1>2. <<i>> # <<>> /\ Elements(<<i>>) = {i} BY DEF Elements
<1>3. CASE Gathers(c)
  <2>1. Gathering(c, i, ev) BY <1>3 DEF Taken
  <2>2. c.id \in Messages BY <1>3 DEF Gathers, Lawful
  <2>3. messages[c.id] \in Seq(1..MaxChunks) BY <2>2 DEF StreamInv, StreamTypeOK
  <2>4. /\ Append(messages[c.id], i) # <<>>
        /\ Elements(Append(messages[c.id], i)) = Elements(messages[c.id]) \cup {i}
    <3>1. ASSUME NEW s \in Seq(1..MaxChunks) PROVE Append(s, i) # <<>>
      <4>1. Len(Append(s, i)) = Len(s) + 1 /\ Len(s) \in Nat BY <1>1
      <4> QED BY <4>1
    <3>2. ASSUME NEW s \in Seq(1..MaxChunks) PROVE Elements(Append(s, i)) = Elements(s) \cup {i}
      BY <1>1, ElementsAppend
    <3> QED BY <2>3, <3>1, <3>2
  <2>5. Elements(messages[c.id]) \subseteq Positions
    BY <2>2 DEF StreamInv, Accumulating, Pieces
  <2>6. /\ PartAt(c) \in 1..2
        /\ ev \in Seq(Event) /\ Len(ev) >= PartAt(c) /\ ev[PartAt(c)] = Part(c, i)
        /\ PartAt(c) = 2 => ev[1] = Meta(i)
        /\ \A k \in 1..Len(ev) : k > PartAt(c) => ev[k] = Raw(i)
    BY <2>1 DEF Gathering, PartAt
  <2>7. /\ Part(c, i).type \in PartTypes /\ Part(c, i).data = Append(messages[c.id], i)
        /\ Meta(i).type = "messages/metadata" /\ Meta(i).data = <<i>>
        /\ Raw(i).type = "events" /\ Raw(i).data = <<i>>
    BY DEF Part, Meta, Raw, PartTypes
  <2>8. n = PartAt(c) \/ (n = 1 /\ PartAt(c) = 2) \/ n > PartAt(c) BY <2>6
  <2>9. CASE n = PartAt(c) BY <1>3, <2>4, <2>5, <2>6, <2>7, <2>9 DEF PartTypes
  <2>10. CASE n = 1 /\ PartAt(c) = 2 BY <1>2, <1>3, <2>6, <2>7, <2>10 DEF PartTypes
  <2>11. CASE n > PartAt(c) BY <1>2, <2>6, <2>7, <2>11 DEF PartTypes
  <2> QED BY <2>8, <2>9, <2>10, <2>11
<1>4. CASE ~Gathers(c)
  <2>1. Simple(c, i, ev) BY <1>4 DEF Taken
  <2>2. SentAs(c) \in {"values", "updates", "messages", "debug", "custom", "events", "none"}
    BY DEF SentAs, Lawful, Chunk
  <2> QED BY <1>2, <1>4, <2>1, <2>2 DEF Simple, PartTypes
<1> QED BY <1>3, <1>4

\* An interrupt is told as what was asked for.
LEMMA InterruptTold ==
    ASSUME NEW c, Lawful(c), c.what = "interrupt", c.mode = "updates"
    PROVE  ~Gathers(c) /\ SentAs(c) = InterruptType
BY DEF Lawful, Gathers, SentAs, InterruptType

LEMMA PositionedTaken ==
    ASSUME StreamInv, NEW c, NEW i, NEW ev \in Seq(Event), Lawful(c), Taken(c, i, ev)
    PROVE  Positioned'
<1>1. StreamTypeOK BY DEF StreamInv
<1> SUFFICES ASSUME NEW k \in DOMAIN put' PROVE
      /\ Elements(put'[k].data) \subseteq Positions'
      /\ put'[k].type # "metadata" => put'[k].data # <<>>
  BY DEF Positioned, Elements
<1>2. Positions' = Positions \cup {i} BY <1>1, OldOrNew
<1>3. CASE k \in DOMAIN put
  <2>1. put'[k] = put[k] BY <1>1, <1>3, OldOrNew
  <2> QED BY <1>2, <1>3, <2>1 DEF StreamInv, Positioned
<1>4. CASE k \notin DOMAIN put
  <2>1. PICK n \in 1..Len(ev) : k = Len(put) + n BY <1>1, <1>4, OldOrNew
  <2>2. put'[k] = ev[n] BY <2>1 DEF Taken
  <2> QED BY <1>2, <2>2, NewEvents
<1> QED BY <1>3, <1>4

LEMMA InterruptedTaken ==
    ASSUME StreamInv, NEW c, NEW i, NEW ev \in Seq(Event), Lawful(c), Taken(c, i, ev),
           result'.interrupt = (result.interrupt \/ Interrupts(ev, c))
    PROVE  Interrupted'
<1>1. StreamTypeOK /\ asked' = asked BY DEF StreamInv, Taken
<1>2. Positions' = Positions \cup {i} /\ i \notin Positions /\ i \in Nat BY <1>1, OldOrNew
<1>3. given'[i] = c /\ \A j \in Positions : given'[j] = given[j] BY DEF Taken, Positions
<1>4. \A j : j \in Elements(<<i>>) <=> j = i BY DEF Elements
<1> DEFINE Here(t, j) == {k \in DOMAIN put' : put'[k].type = t /\ j \in Elements(put'[k].data)}
<1>5. \A t, j : From(j, t)' = Here(t, j) BY DEF From, Elements
<1>6. \A t, j : From(j, t) = {k \in DOMAIN put : put[k].type = t /\ j \in Elements(put[k].data)}
  BY DEF From, Elements
<1>7. ASSUME NEW j \in Positions, NEW t \in {"values", "updates"} PROVE Here(t, j) = From(j, t)
  <2>1. ASSUME NEW k \in Here(t, j) PROVE k \in From(j, t)
    <3>1. CASE k \in DOMAIN put
      <4>1. put'[k] = put[k] BY <1>1, <3>1, OldOrNew
      <4> QED BY <1>6, <3>1, <4>1
    <3>2. CASE k \notin DOMAIN put
      <4>1. PICK n \in 1..Len(ev) : k = Len(put) + n BY <1>1, <3>2, OldOrNew
      <4>2. put'[k] = ev[n] BY <4>1 DEF Taken
      <4>3. ev[n].data = <<i>> BY <4>2, NewEvents
      <4> QED BY <1>2, <1>4, <4>2, <4>3
    <3> QED BY <3>1, <3>2
  <2>2. ASSUME NEW k \in From(j, t) PROVE k \in Here(t, j)
    <3>1. k \in DOMAIN put' /\ put'[k] = put[k] BY <1>1, <1>6, OldOrNew
    <3> QED BY <1>6, <3>1
  <2> QED BY <2>1, <2>2
<1>8. ASSUME c.what = "interrupt", c.mode = "updates"
      PROVE  Here(InterruptType, i) = {Len(put) + 1} /\ Here(OtherType, i) = {}
  <2>1. ~Gathers(c) /\ SentAs(c) = InterruptType BY <1>8, InterruptTold
  <2>2. Simple(c, i, ev) BY <2>1 DEF Taken
  <2>3. /\ InterruptType \in {"values", "updates"} /\ OtherType \in {"values", "updates"}
        /\ InterruptType # OtherType
    BY DEF InterruptType, OtherType
  <2>4. 1 \in 1..Len(ev) /\ ev[1].type = InterruptType
    <3>1. SentAs(c) # "none" BY <2>1, <2>3
    <3>2. Len(ev) \in Nat OBVIOUS
    <3> QED BY <2>1, <2>2, <3>1, <3>2 DEF Simple
  <2>5. ev[1].data = <<i>> BY <2>2, <2>4 DEF Simple
  <2>6. Len(put) + 1 \in DOMAIN put' /\ put'[Len(put) + 1] = ev[1]
    BY <1>1, <2>4, OldOrNew DEF Taken
  <2>7. Len(put) + 1 \in Here(InterruptType, i) BY <1>4, <2>4, <2>5, <2>6
  <2>8. ASSUME NEW t \in {"values", "updates"}, NEW k \in Here(t, i)
        PROVE  k = Len(put) + 1 /\ t = InterruptType
    <3>1. k \notin DOMAIN put
      <4> SUFFICES ASSUME k \in DOMAIN put PROVE FALSE OBVIOUS
      <4>1. put'[k] = put[k] BY <1>1, OldOrNew
      <4>2. Elements(put[k].data) \subseteq Positions BY DEF StreamInv, Positioned
      <4> QED BY <1>2, <4>1, <4>2
    <3>2. PICK n \in 1..Len(ev) : k = Len(put) + n BY <1>1, <3>1, OldOrNew
    <3>3. put'[k] = ev[n] BY <3>2 DEF Taken
    <3>4. n = 1 /\ ev[n].type = SentAs(c) BY <3>3, NewEvents
    <3> QED BY <2>1, <3>2, <3>3, <3>4
  <2> QED BY <2>3, <2>7, <2>8
<1>9. InterruptType' = InterruptType /\ OtherType' = OtherType BY <1>1 DEF InterruptType, OtherType
<1>10. InterruptType \in {"values", "updates"} /\ OtherType \in {"values", "updates"}
  BY DEF InterruptType, OtherType
<1>11. Interrupts(ev, c) <=> Pauses(c)
  <2>1. ASSUME Pauses(c) PROVE \E k \in DOMAIN ev : ev[k].type # "events"
    <3>1. ~Gathers(c) /\ SentAs(c) \in {"values", "updates"}
      BY <2>1 DEF Pauses, Lawful, Gathers, SentAs
    <3>2. Simple(c, i, ev) BY <3>1 DEF Taken
    <3>3. 1 \in DOMAIN ev /\ ev[1].type = SentAs(c) BY <3>1, <3>2 DEF Simple
    <3> QED BY <3>1, <3>3
  <2>2. ASSUME ~Pauses(c), c.what = "breakpoint" PROVE \A k \in DOMAIN ev : ev[k].type = "events"
    <3>1. ~Gathers(c) /\ SentAs(c) = "none" BY <2>2 DEF Pauses, Lawful, Gathers, SentAs
    <3>2. Simple(c, i, ev) BY <3>1 DEF Taken
    <3>3. DOMAIN ev = 1..Len(ev) OBVIOUS
    <3> QED BY <3>1, <3>2, <3>3 DEF Simple
  <2> QED BY <2>1, <2>2 DEF Interrupts, Pauses
<1> HIDE DEF Here
<1>12. ASSUME NEW j \in Positions', given'[j].what = "interrupt", given'[j].mode = "updates"
       PROVE  /\ \E k \in DOMAIN put' : Here(InterruptType, j) = {k}
              /\ Here(OtherType, j) = {}
  <2>1. CASE j = i
    <3>1. c.what = "interrupt" /\ c.mode = "updates" BY <1>3, <1>12, <2>1
    <3>2. Len(put) + 1 \in DOMAIN put'
      <4>1. Simple(c, i, ev) /\ SentAs(c) = InterruptType BY <3>1, InterruptTold DEF Taken
      <4>2. 1 \in 1..Len(ev) BY <1>10, <4>1 DEF Simple
      <4> QED BY <1>1, <4>2, OldOrNew
    <3> QED BY <1>8, <2>1, <3>1, <3>2
  <2>2. CASE j # i
    <3>1. j \in Positions /\ given[j].what = "interrupt" /\ given[j].mode = "updates"
      BY <1>2, <1>3, <1>12, <2>2
    <3>2. PICK k \in DOMAIN put : From(j, InterruptType) = {k} BY <3>1 DEF StreamInv, Interrupted
    <3>3. From(j, OtherType) = {} BY <3>1 DEF StreamInv, Interrupted
    <3>4. k \in DOMAIN put' BY <1>1, OldOrNew
    <3> QED BY <1>7, <1>10, <3>1, <3>2, <3>3, <3>4
  <2> QED BY <2>1, <2>2
<1>13. \A d : Pauses(d)' <=> Pauses(d) BY <1>1 DEF Pauses
<1>14. result'.interrupt <=> \E j \in Positions' : Pauses(given'[j])
  BY <1>2, <1>3, <1>11 DEF StreamInv, Interrupted
<1>15. result'.interrupt <=> \E j \in Positions' : Pauses(given[j])' BY <1>1, <1>14 DEF Pauses
<1> QED BY <1>5, <1>9, <1>12, <1>15 DEF Interrupted

LEMMA AccumulatingTaken ==
    ASSUME StreamInv, NEW c, NEW i, NEW ev \in Seq(Event), Lawful(c), Taken(c, i, ev), NEW m \in Messages
    PROVE  Accumulating(m)'
<1>1. StreamTypeOK /\ asked' = asked BY DEF StreamInv, Taken
<1>2. Positions' = Positions \cup {i} /\ i \notin Positions /\ i \in Nat BY <1>1, OldOrNew
<1>3. given'[i] = c /\ \A j \in Positions : given'[j] = given[j] BY DEF Taken, Positions
<1>4. messages[m] \in Seq(1..MaxChunks) /\ i \in 1..MaxChunks BY <1>1 DEF StreamTypeOK, Taken
<1>5. c.mode = "messages" <=> c.id \in Messages BY DEF Lawful
<1>6. Accumulating(m) BY DEF StreamInv
<1>7. CASE c.id = m /\ "messages-tuple" \notin asked
  <2>1. Gathers(c) BY <1>5, <1>7 DEF Gathers
  <2> DEFINE s == messages[m]
             t == Append(s, i)
  <2>2. messages'[m] = t BY <1>1, <1>7, <2>1 DEF Taken, StreamTypeOK
  <2>3. Pieces(m)' = Pieces(m) \cup {i} BY <1>2, <1>3, <1>7 DEF Pieces
  <2>4. Elements(t) = Elements(s) \cup {i} BY <1>4, ElementsAppend
  <2>5. Elements(s) = Pieces(m) BY <1>6, <1>7 DEF Accumulating
  <2>6. i \notin Elements(s) BY <1>2, <2>5 DEF Pieces
  <2>7. IsFiniteSet(Elements(t)) /\ Cardinality(Elements(t)) = Len(s) + 1
    <3>1. IsFiniteSet(Elements(s)) /\ Cardinality(Elements(s)) = Len(s) BY <1>6 DEF Accumulating
    <3> QED BY <2>4, <2>6, <3>1, FS_AddElement
  <2>8. /\ Len(t) = Len(s) + 1 /\ Len(s) \in Nat /\ t[Len(s) + 1] = i
        /\ \A k \in 1..Len(s) : t[k] = s[k]
    BY <1>4
  <2>9. \A k \in 1..Len(s) : s[k] < i
    <3> SUFFICES ASSUME NEW k \in 1..Len(s) PROVE s[k] < i OBVIOUS
    <3>1. s[k] \in Elements(s) BY <1>4 DEF Elements
    <3>2. s[k] \in Positions BY <2>5, <3>1 DEF Pieces
    <3>3. Len(given) \in Nat /\ i = Len(given) + 1 BY <1>1, OldOrNew DEF Taken
    <3> QED BY <3>2, <3>3 DEF Positions
  <2>10. Increasing(s) BY <1>6 DEF Accumulating
  <2> HIDE DEF t, s
  <2>11. Increasing(t)
    <3> SUFFICES ASSUME NEW n \in 1..Len(s) PROVE t[n] < t[n + 1] BY <2>8 DEF Increasing
    <3>1. CASE n = Len(s) BY <2>8, <2>9, <3>1
    <3>2. CASE n # Len(s)
      <4>1. n \in 1..(Len(s) - 1) /\ n + 1 \in 1..Len(s) BY <2>8, <3>2
      <4> QED BY <2>8, <2>10, <4>1 DEF Increasing
    <3> QED BY <3>1, <3>2
  <2>12. Accumulating(m)' <=> /\ Elements(t) = Pieces(m)' /\ Increasing(t)
                              /\ IsFiniteSet(Elements(t)) /\ Cardinality(Elements(t)) = Len(t)
    BY <1>1, <1>7, <2>2 DEF Accumulating, Elements, Increasing
  <2> QED BY <2>3, <2>4, <2>5, <2>7, <2>8, <2>11, <2>12
<1>8. CASE ~(c.id = m /\ "messages-tuple" \notin asked)
  <2>1. messages'[m] = messages[m] BY <1>1, <1>8 DEF Taken, Gathers, StreamTypeOK
  <2>2. c.id # m => Pieces(m)' = Pieces(m) BY <1>2, <1>3 DEF Pieces
  <2>3. Elements(messages'[m]) = IF "messages-tuple" \in asked' THEN {} ELSE Pieces(m)'
    BY <1>1, <1>6, <1>8, <2>1, <2>2 DEF Accumulating
  <2>4. /\ Increasing(messages'[m]) /\ IsFiniteSet(Elements(messages'[m]))
        /\ Cardinality(Elements(messages'[m])) = Len(messages'[m])
    BY <1>6, <2>1 DEF Accumulating
  <2> QED BY <2>3, <2>4 DEF Accumulating, Elements, Increasing
<1> QED BY <1>7, <1>8

\* The parts of a message, with one that is new.
LEMMA PartsTaken ==
    ASSUME StreamInv, NEW c, NEW i, NEW ev \in Seq(Event), Lawful(c), Taken(c, i, ev), NEW m \in Messages
    PROVE  LET mine == Gathers(c) /\ c.id = m IN
           /\ Parts(m)' = Parts(m) \cup IF mine THEN {Len(put) + PartAt(c)} ELSE {}
           /\ Metas(m)' = Metas(m) \cup IF mine /\ PartAt(c) = 2 THEN {Len(put) + 1} ELSE {}
<1> DEFINE mine == Gathers(c) /\ c.id = m
<1>1. StreamTypeOK BY DEF StreamInv
<1>2. Positions' = Positions \cup {i} /\ i \notin Positions /\ i \in Nat BY <1>1, OldOrNew
<1>3. given'[i] = c /\ \A j \in Positions : given'[j] = given[j] BY DEF Taken, Positions
<1>4. ASSUME NEW k \in DOMAIN put, put[k].type # "metadata"
      PROVE  put[k].data # <<>> /\ put[k].data[1] \in Positions
  <2>1. put[k].data # <<>> /\ Elements(put[k].data) \subseteq Positions BY <1>4 DEF StreamInv, Positioned
  <2>2. put[k].data \in Seq(1..MaxChunks)
    <3>1. put[k] \in Event BY <1>1 DEF StreamTypeOK
    <3> QED BY <3>1 DEF Event
  <2>3. 1 \in DOMAIN put[k].data BY <2>1, <2>2
  <2> QED BY <2>1, <2>3 DEF Elements
<1>5. ASSUME NEW k \in DOMAIN put
      PROVE  (k \in Parts(m)' <=> k \in Parts(m)) /\ (k \in Metas(m)' <=> k \in Metas(m))
  <2>1. k \in DOMAIN put' /\ put'[k] = put[k] BY <1>1, OldOrNew
  <2>2. put[k].type \in PartTypes \cup {"messages/metadata"} => given'[put[k].data[1]] = given[put[k].data[1]]
    BY <1>3, <1>4 DEF PartTypes
  <2> QED BY <2>1, <2>2 DEF Parts, Metas
<1>6. ASSUME Gathers(c)
      PROVE  /\ PartAt(c) \in 1..2 /\ PartAt(c) \in 1..Len(ev)
             /\ ev[PartAt(c)] = Part(c, i) /\ (PartAt(c) = 2 => ev[1] = Meta(i))
             /\ Part(c, i).data # <<>> /\ given'[Part(c, i).data[1]].id = c.id
             /\ given'[Meta(i).data[1]].id = c.id
  <2>1. Gathering(c, i, ev) BY <1>6 DEF Taken
  <2>2. PartAt(c) \in 1..2 BY DEF PartAt
  <2>3. ev[PartAt(c)] = Part(c, i) /\ (PartAt(c) = 2 => ev[1] = Meta(i)) /\ PartAt(c) \in 1..Len(ev)
    BY <2>1, <2>2 DEF Gathering
  <2>4. c.id \in Messages /\ "messages-tuple" \notin asked BY <1>6 DEF Gathers, Lawful
  <2> DEFINE s == messages[c.id]
  <2>5. s \in Seq(1..MaxChunks) /\ i \in 1..MaxChunks BY <1>1, <2>4 DEF StreamTypeOK, Taken
  <2>6. Elements(s) = Pieces(c.id) BY <2>4 DEF StreamInv, Accumulating
  <2>7. Part(c, i).data = Append(s, i) /\ Meta(i).data[1] = i BY DEF Part, Meta
  <2> HIDE DEF s
  <2>8. Append(s, i) # <<>> /\ Append(s, i)[1] = IF s = <<>> THEN i ELSE s[1]
    <3> DEFINE S == 1..MaxChunks
    <3>1. s \in Seq(S) /\ i \in S BY <2>5
    <3> HIDE DEF S
    <3> QED BY <3>1, FirstAppended
  <2>9. s # <<>> => given'[s[1]].id = c.id
    <3>1. s # <<>> => s[1] \in Elements(s)
      <4>1. s # <<>> => 1 \in DOMAIN s BY <2>5
      <4> QED BY <4>1 DEF Elements
    <3> QED BY <1>3, <2>6, <3>1 DEF Pieces
  <2>10. given'[Append(s, i)[1]].id = c.id BY <1>3, <2>8, <2>9
  <2> QED BY <1>3, <2>2, <2>3, <2>7, <2>8, <2>10
<1>7. /\ Part(c, i).type \in PartTypes /\ Meta(i).type = "messages/metadata"
      /\ "messages/metadata" \notin PartTypes
  BY DEF Part, Meta, PartTypes
<1>8. ASSUME NEW n \in 1..Len(ev)
      PROVE  /\ Len(put) + n \in Parts(m)' <=> mine /\ n = PartAt(c)
             /\ Len(put) + n \in Metas(m)' <=> mine /\ PartAt(c) = 2 /\ n = 1
  <2> DEFINE k == Len(put) + n
  <2>1. k \in DOMAIN put' /\ put'[k] = ev[n] BY <1>1, OldOrNew DEF Taken
  <2> HIDE DEF k
  <2>2. ev[n].type \in PartTypes => Gathers(c) /\ n = PartAt(c) BY NewEvents
  <2>3. ev[n].type = "messages/metadata" => Gathers(c) /\ n = 1 /\ PartAt(c) = 2 BY NewEvents
  <2>4. k \in Parts(m)' <=> mine /\ n = PartAt(c)
    <3>1. k \in Parts(m)' <=> ev[n].type \in PartTypes /\ ev[n].data # <<>> /\ given'[ev[n].data[1]].id = m
      BY <2>1 DEF Parts
    <3> QED BY <1>6, <1>7, <2>2, <3>1
  <2>5. k \in Metas(m)' <=> mine /\ PartAt(c) = 2 /\ n = 1
    <3>1. k \in Metas(m)' <=> ev[n].type = "messages/metadata" /\ given'[ev[n].data[1]].id = m
      BY <2>1 DEF Metas
    <3> QED BY <1>6, <1>7, <2>3, <3>1
  <2> QED BY <2>4, <2>5 DEF k
<1>9. /\ Parts(m) \subseteq DOMAIN put /\ Metas(m) \subseteq DOMAIN put
      /\ Parts(m)' \subseteq DOMAIN put' /\ Metas(m)' \subseteq DOMAIN put'
  BY DEF Parts, Metas
<1>10. \A k \in DOMAIN put' : k \in DOMAIN put \/ \E n \in 1..Len(ev) : k = Len(put) + n
  BY <1>1, OldOrNew
<1>11. Len(put) \in Nat /\ Len(ev) \in Nat BY <1>1, OldOrNew
<1> HIDE DEF mine
<1>12. ASSUME NEW k PROVE k \in Parts(m)' <=> k \in Parts(m) \/ (mine /\ k = Len(put) + PartAt(c))
  <2>1. CASE k \in DOMAIN put
    <3>1. mine => k # Len(put) + PartAt(c)
      <4>1. mine => PartAt(c) \in 1..Len(ev) BY <1>6 DEF mine
      <4> QED BY <1>1, <2>1, <4>1, OldOrNew
    <3>2. k \in Parts(m)' <=> k \in Parts(m) BY <1>5, <2>1
    <3> QED BY <3>1, <3>2
  <2>2. CASE k \in DOMAIN put' /\ k \notin DOMAIN put
    <3>1. PICK n \in 1..Len(ev) : k = Len(put) + n BY <1>10, <2>2
    <3>2. k \in Parts(m)' <=> mine /\ n = PartAt(c) BY <1>8, <3>1
    <3>3. mine => (k = Len(put) + PartAt(c) <=> n = PartAt(c))
      <4>1. mine => PartAt(c) \in Nat BY <1>6 DEF mine
      <4> QED BY <1>11, <3>1, <4>1
    <3> QED BY <1>9, <2>2, <3>2, <3>3
  <2>3. CASE k \notin DOMAIN put' /\ k \notin DOMAIN put
    <3>1. mine => Len(put) + PartAt(c) \in DOMAIN put'
      <4>1. mine => PartAt(c) \in 1..Len(ev) BY <1>6 DEF mine
      <4> QED BY <1>1, <4>1, OldOrNew
    <3> QED BY <1>9, <2>3, <3>1
  <2> QED BY <2>1, <2>2, <2>3
<1>13. ASSUME NEW k PROVE k \in Metas(m)' <=> k \in Metas(m) \/ (mine /\ PartAt(c) = 2 /\ k = Len(put) + 1)
  <2>1. mine /\ PartAt(c) = 2 => 1 \in 1..Len(ev)
    <3>1. mine => PartAt(c) \in 1..Len(ev) BY <1>6 DEF mine
    <3> QED BY <1>11, <3>1
  <2>2. mine /\ PartAt(c) = 2 => Len(put) + 1 \in DOMAIN put' /\ Len(put) + 1 \notin DOMAIN put
    BY <1>1, <2>1, OldOrNew
  <2>3. CASE k \in DOMAIN put
    <3>1. k \in Metas(m)' <=> k \in Metas(m) BY <1>5, <2>3
    <3> QED BY <2>2, <2>3, <3>1
  <2>4. CASE k \in DOMAIN put' /\ k \notin DOMAIN put
    <3>1. PICK n \in 1..Len(ev) : k = Len(put) + n BY <1>10, <2>4
    <3>2. k \in Metas(m)' <=> mine /\ PartAt(c) = 2 /\ n = 1 BY <1>8, <3>1
    <3>3. k = Len(put) + 1 <=> n = 1 BY <1>11, <3>1
    <3> QED BY <1>9, <2>4, <3>2, <3>3
  <2>5. CASE k \notin DOMAIN put' /\ k \notin DOMAIN put BY <1>9, <2>2, <2>5
  <2> QED BY <2>3, <2>4, <2>5
<1>14. Parts(m)' = Parts(m) \cup IF mine THEN {Len(put) + PartAt(c)} ELSE {} BY <1>12
<1>15. Metas(m)' = Metas(m) \cup IF mine /\ PartAt(c) = 2 THEN {Len(put) + 1} ELSE {} BY <1>13
<1> QED BY <1>14, <1>15 DEF mine

LEMMA BuiltUpTaken ==
    ASSUME StreamInv, NEW c, NEW i, NEW ev \in Seq(Event), Lawful(c), Taken(c, i, ev), NEW m \in Messages
    PROVE  BuiltUp(m)'
<1>1. StreamTypeOK BY DEF StreamInv
<1>2. BuiltUp(m) BY DEF StreamInv
<1>3. DOMAIN put = 1..Len(put) /\ Len(put) \in Nat BY <1>1, OldOrNew
<1>4. Parts(m) \subseteq 1..Len(put) /\ Metas(m) \subseteq 1..Len(put) BY <1>3 DEF Parts, Metas
<1>5. CASE Gathers(c) /\ c.id = m
  <2>1. Gathering(c, i, ev) /\ PartAt(c) \in 1..2 /\ PartAt(c) = IF messages[m] = <<>> THEN 2 ELSE 1
    BY <1>5 DEF Taken, PartAt
  <2> DEFINE p == Len(put) + PartAt(c)
  <2>2. /\ Parts(m)' = Parts(m) \cup {p}
        /\ Metas(m)' = Metas(m) \cup IF PartAt(c) = 2 THEN {Len(put) + 1} ELSE {}
    BY <1>5, PartsTaken
  <2>3. messages[m] \in Seq(1..MaxChunks) /\ i \in 1..MaxChunks BY <1>1 DEF StreamTypeOK, Taken
  <2>4. messages'[m] = Append(messages[m], i) BY <1>1, <1>5 DEF Taken, StreamTypeOK
  <2>5. messages'[m] # <<>>
    <3>1. Append(messages[m], i) # <<>> BY <2>3, FirstAppended
    <3> QED BY <2>4, <3>1
  <2>6. put'[p].data = messages'[m]
    <3>1. PartAt(c) \in 1..Len(ev) BY <2>1 DEF Gathering
    <3>2. put'[p] = Part(c, i) BY <2>1, <3>1 DEF Taken, Gathering
    <3> QED BY <1>5, <2>4, <3>2 DEF Part
  <2>7. p \in Nat /\ p > Len(put) BY <1>3, <2>1
  <2> DEFINE k == IF messages[m] = <<>> THEN Len(put) + 1 ELSE CHOOSE k \in Metas(m) : TRUE
  <2>8. Metas(m)' = {k} /\ \A l \in Parts(m)' : k < l
    <3>1. CASE messages[m] = <<>>
      <4>1. Parts(m) = {} /\ Metas(m) = {} BY <1>2, <3>1 DEF BuiltUp
      <4>2. p = Len(put) + 2 /\ k = Len(put) + 1 BY <2>1, <3>1
      <4>3. Parts(m)' = {p} /\ Metas(m)' = {k} BY <2>1, <2>2, <3>1, <4>1
      <4> QED BY <1>3, <4>2, <4>3
    <3>2. CASE messages[m] # <<>>
      <4>1. PICK q \in Metas(m) : Metas(m) = {q} /\ \A l \in Parts(m) : q < l
        BY <1>2, <3>2 DEF BuiltUp
      <4>2. k = q BY <3>2, <4>1
      <4>3. Metas(m)' = {q} BY <2>1, <2>2, <3>2, <4>1
      <4>4. q \in 1..Len(put) BY <1>4
      <4> HIDE DEF k, p
      <4>5. q < p BY <1>3, <2>7, <4>4
      <4> QED BY <2>2, <4>1, <4>2, <4>3, <4>5
    <3> QED BY <3>1, <3>2
  <2> HIDE DEF k, p
  <2>9. \A l \in Parts(m)' : l <= p BY <1>3, <1>4, <2>2, <2>7
  <2>10. p \in Parts(m)' /\ k \in Metas(m)' BY <2>2, <2>8
  <2> QED BY <2>5, <2>6, <2>8, <2>9, <2>10 DEF BuiltUp
<1>6. CASE ~(Gathers(c) /\ c.id = m)
  <2>1. Parts(m)' = Parts(m) /\ Metas(m)' = Metas(m) BY <1>6, PartsTaken
  <2>2. messages'[m] = messages[m] BY <1>1, <1>6 DEF Taken, StreamTypeOK
  <2>3. \A k \in Parts(m) : put'[k] = put[k] BY <1>1, OldOrNew DEF Parts
  <2> QED BY <1>2, <2>1, <2>2, <2>3 DEF BuiltUp
<1> QED BY <1>5, <1>6

LEMMA AskedTaken ==
    ASSUME StreamInv, NEW c, NEW i, NEW ev \in Seq(Event), Lawful(c), Taken(c, i, ev)
    PROVE  OnlyAsked'
<1>1. StreamTypeOK /\ asked' = asked BY DEF StreamInv, Taken
<1>2. Positions' = Positions \cup {i} /\ i \notin Positions /\ i \in Nat BY <1>1, OldOrNew
<1>3. given'[i] = c /\ \A j \in Positions : given'[j] = given[j] BY DEF Taken, Positions
<1>4. DOMAIN given = Positions /\ DOMAIN given' = Positions'
  BY <1>1 DEF StreamTypeOK, Taken, Positions
<1> DEFINE Fine(e) ==
             \/ e.type = "metadata" \/ e.type \in asked
             \/ e.type = "messages" /\ "messages-tuple" \in asked
             \/ e.type \in {"messages/metadata", "messages/partial", "messages/complete"}
                    /\ "messages" \in asked /\ "messages-tuple" \notin asked
           Tells(e, j) == e.type = "values" /\ e.data = <<j>>
<1>5. ASSUME NEW n \in 1..Len(ev), ~Fine(ev[n])
      PROVE  Tells(ev[n], i) /\ c.what = "interrupt" /\ c.mode = "updates"
  <2>1. CASE Gathers(c)
    <3>1. Gathering(c, i, ev) BY <2>1 DEF Taken
    <3>2. "messages" \in asked /\ "messages-tuple" \notin asked BY <2>1 DEF Gathers, Lawful
    <3>3. PartAt(c) \in 1..2 BY DEF PartAt
    <3>4. n = PartAt(c) \/ (n = 1 /\ PartAt(c) = 2) \/ n > PartAt(c) BY <3>3
    <3>5. ev[n] \in {Part(c, i), Meta(i)} \/ (ev[n] = Raw(i) /\ "events" \in asked)
      BY <3>1, <3>4 DEF Gathering
    <3>6. /\ Part(c, i).type \in {"messages/partial", "messages/complete"}
          /\ Meta(i).type = "messages/metadata" /\ Raw(i).type = "events"
      BY DEF Part, Meta, Raw
    <3> QED BY <1>5, <3>2, <3>5, <3>6
  <2>2. CASE ~Gathers(c)
    <3>1. Simple(c, i, ev) BY <2>2 DEF Taken
    <3>2. n = 1 /\ SentAs(c) # "none" /\ ev[n].type = SentAs(c) /\ ev[n].data = <<i>>
      BY <1>5, <3>1 DEF Simple
    <3> QED BY <1>5, <2>2, <3>2 DEF SentAs, Lawful, Gathers
  <2> QED BY <2>1, <2>2
<1>6. ASSUME NEW k \in DOMAIN put, ~Fine(put[k])
      PROVE  \E j \in Positions : Tells(put[k], j) /\ given[j].what = "interrupt" /\ given[j].mode = "updates"
  BY <1>4, <1>6 DEF StreamInv, OnlyAsked
<1> HIDE DEF Tells
<1>7. ASSUME NEW k \in DOMAIN put', ~Fine(put'[k])
      PROVE  \E j \in Positions' :
                Tells(put'[k], j) /\ given'[j].what = "interrupt" /\ given'[j].mode = "updates"
  <2>1. CASE k \in DOMAIN put
    <3>1. put'[k] = put[k] BY <1>1, <2>1, OldOrNew
    <3> QED BY <1>2, <1>3, <1>6, <1>7, <2>1, <3>1
  <2>2. CASE k \notin DOMAIN put
    <3>1. PICK n \in 1..Len(ev) : k = Len(put) + n BY <1>1, <2>2, OldOrNew
    <3>2. put'[k] = ev[n] BY <3>1 DEF Taken
    <3> HIDE DEF Fine
    <3> QED BY <1>2, <1>3, <1>5, <1>7, <3>2
  <2> QED BY <2>1, <2>2
<1> QED BY <1>1, <1>4, <1>7 DEF OnlyAsked, Tells

\* Which event of a chunk is kept as the output.
LEMMA KeptEvent ==
    ASSUME StreamInv, NEW c, NEW i, NEW ev \in Seq(Event), Lawful(c), Taken(c, i, ev)
    PROVE  IF ~Gathers(c) /\ SentAs(c) = "values" THEN Kept(ev) = 1 /\ ev[1].data = <<i>> ELSE Kept(ev) = 0
<1> DEFINE vals == {k \in DOMAIN ev : ev[k].type = "values"}
<1>1. DOMAIN ev = 1..Len(ev) /\ Len(ev) \in Nat OBVIOUS
<1>2. \A k \in vals : k = 1 /\ ~Gathers(c) /\ SentAs(c) = "values" BY <1>1, NewEvents
<1>3. CASE ~Gathers(c) /\ SentAs(c) = "values"
  <2>1. Simple(c, i, ev) BY <1>3 DEF Taken
  <2>2. 1 \in vals /\ ev[1].data = <<i>> BY <1>1, <1>3, <2>1 DEF Simple
  <2>3. vals = {1} BY <1>2, <2>2
  <2>4. Kept(ev) = CHOOSE k \in {1} : \A l \in {1} : l <= k BY <2>3 DEF Kept
  <2>5. (CHOOSE k \in {1} : \A l \in {1} : l <= k) = 1 OBVIOUS
  <2> QED BY <1>3, <2>2, <2>4, <2>5
<1>4. CASE ~(~Gathers(c) /\ SentAs(c) = "values")
  <2>1. vals = {} BY <1>2, <1>4
  <2> QED BY <1>4, <2>1 DEF Kept
<1> QED BY <1>3, <1>4

\* The states of the run, with the one that may be new, and the last of them.
IsState(c) == c.mode = "values"

LEMMA StatesTaken ==
    ASSUME StreamInv, NEW c, NEW i, NEW ev \in Seq(Event), Lawful(c), Taken(c, i, ev)
    PROVE  /\ States' = States \cup IF IsState(c) THEN {i} ELSE {}
           /\ \A j \in States : given'[j] = given[j]
           /\ IsState(c) => IsLast(i)' /\ given'[i] = c
           /\ ~IsState(c) => \A j \in States : IsLast(j)' <=> IsLast(j)
<1>1. StreamTypeOK BY DEF StreamInv
<1>2. Positions' = Positions \cup {i} /\ i \notin Positions /\ i \in Nat /\ Len(given) \in Nat
  BY <1>1, OldOrNew
<1>3. given'[i] = c /\ i = Len(given) + 1 /\ \A j \in Positions : given'[j] = given[j]
  BY DEF Taken, Positions
<1>4. States' = States \cup IF IsState(c) THEN {i} ELSE {} BY <1>2, <1>3 DEF States, IsState
<1>5. \A j \in States : given'[j] = given[j] /\ j <= i BY <1>2, <1>3 DEF States, Positions
<1>6. IsState(c) => IsLast(i)' /\ given'[i] = c
  <2>1. i <= i BY <1>2
  <2> QED BY <1>3, <1>4, <1>5, <2>1 DEF IsLast
<1>7. ~IsState(c) => \A j \in States : IsLast(j)' <=> IsLast(j) BY <1>4 DEF IsLast
<1> QED BY <1>4, <1>5, <1>6, <1>7

LEMMA NoPauseTaken ==
    ASSUME StreamInv, NEW c, NEW i, NEW ev \in Seq(Event), Taken(c, i, ev)
    PROVE  NoPause' <=> NoPause /\ ~Stops(c)
<1>1. StreamTypeOK BY DEF StreamInv
<1>2. Positions' = Positions \cup {i} BY <1>1, OldOrNew
<1>3. given'[i] = c /\ \A j \in Positions : given'[j] = given[j] BY DEF Taken, Positions
<1> QED BY <1>2, <1>3 DEF NoPause, Stops

LEMMA OutputTaken ==
    ASSUME StreamInv, NEW c, NEW i, NEW ev \in Seq(Event), Lawful(c), Taken(c, i, ev),
           result'.data = IF Kept(ev) = 0 THEN result.data ELSE ev[Kept(ev)].data
    PROVE  OutputKept'
<1>1. asked' = asked BY DEF Taken
<1>2. result'.data = IF ~Gathers(c) /\ SentAs(c) = "values" THEN <<i>> ELSE result.data BY KeptEvent
<1> SUFFICES ASSUME "values" \in asked, NoPause', States' # {}
             PROVE  \E j \in States' : IsLast(j)' /\ result'.data = <<j>>
  BY <1>1 DEF OutputKept
<1>3. NoPause /\ ~Stops(c) BY NoPauseTaken
<1>4. CASE IsState(c)
  <2>1. i \in States' /\ IsLast(i)' BY <1>4, StatesTaken
  <2>2. ~Gathers(c) /\ SentAs(c) = "values" BY <1>4 DEF IsState, SentAs, Gathers
  <2> QED BY <1>2, <2>1, <2>2
<1>5. CASE ~IsState(c)
  <2>1. States' = States /\ \A j \in States : IsLast(j)' <=> IsLast(j) BY <1>5, StatesTaken
  <2>2. ~(~Gathers(c) /\ SentAs(c) = "values")
    BY <1>3, <1>5 DEF Stops, IsState, SentAs, Gathers, Lawful, Chunk
  <2>3. PICK j \in States : IsLast(j) /\ result.data = <<j>>
    BY <1>3, <2>1 DEF StreamInv, OutputKept
  <2> QED BY <1>2, <2>1, <2>2, <2>3
<1> QED BY <1>4, <1>5

\* What taking a chunk leaves true, whatever it means for the graph.
TakenInv ==
    /\ asked \subseteq {"values", "updates", "messages", "messages-tuple", "debug", "custom", "events"}
    /\ subgraphs \in BOOLEAN
    /\ given \in Seq(Chunk) /\ Len(given) <= MaxChunks
    /\ messages \in [Messages -> Seq(1..MaxChunks)]
    /\ put \in Seq(Event)
    /\ result.data \in Seq(1..MaxChunks) /\ result.interrupt \in BOOLEAN
    /\ \A i \in Positions : Lawful(given[i])
    /\ Positioned
    /\ Interrupted
    /\ OnlyAsked
    /\ OutputKept
    /\ \A m \in Messages : Accumulating(m) /\ BuiltUp(m)

LEMMA WhenTaken ==
    ASSUME StreamInv, NEW c, Lawful(c), Take(c)
    PROVE  TakenInv' /\ (NoPause' <=> NoPause /\ ~Stops(c))
<1> DEFINE i == Len(given) + 1
           ev == Events(c, i)
<1>1. StreamTypeOK BY DEF StreamInv
<1>2. Taken(c, i, ev) BY <1>1, TakeIsTaken
<1>3. /\ result' = [data |-> IF Kept(ev) = 0 THEN result.data ELSE ev[Kept(ev)].data,
                    interrupt |-> result.interrupt \/ Interrupts(ev, c)]
      /\ asked' = asked /\ subgraphs' = subgraphs
  BY DEF Take
<1> HIDE DEF ev, i
<1>4. ev \in Seq(Event) BY <1>2 DEF Taken, Gathering, Simple
<1>5. result'.interrupt = (result.interrupt \/ Interrupts(ev, c)) BY <1>3
<1>6. Interrupted' BY <1>2, <1>4, <1>5, InterruptedTaken
<1>7. OutputKept'
  <2>1. result'.data = IF Kept(ev) = 0 THEN result.data ELSE ev[Kept(ev)].data BY <1>3
  <2> QED BY <1>2, <1>4, <2>1, OutputTaken
<1>8. Positioned' /\ OnlyAsked' BY <1>2, <1>4, PositionedTaken, AskedTaken
<1>9. ASSUME NEW m \in Messages PROVE Accumulating(m)' /\ BuiltUp(m)'
  BY <1>2, <1>4, AccumulatingTaken, BuiltUpTaken
<1>10. Positions' = Positions \cup {i} /\ given'[i] = c /\ \A j \in Positions : given'[j] = given[j]
  BY <1>1, <1>2, <1>4, OldOrNew DEF Taken, Positions
<1>11. ASSUME NEW j \in Positions' PROVE Lawful(given[j])'
  <2>1. Lawful(given'[j]) BY <1>10 DEF StreamInv
  <2> QED BY <1>3, <2>1 DEF Lawful
<1>12. messages' \in [Messages -> Seq(1..MaxChunks)]
  <2>1. CASE Gathers(c)
    <3>1. c.id \in Messages /\ i \in 1..MaxChunks BY <1>2, <2>1 DEF Gathers, Lawful, Taken
    <3>2. Append(messages[c.id], i) \in Seq(1..MaxChunks)
      <4>1. messages[c.id] \in Seq(1..MaxChunks) BY <1>1, <3>1 DEF StreamTypeOK
      <4> QED BY <3>1, <4>1, AppendProperties
    <3> QED BY <1>1, <1>2, <2>1, <3>2 DEF Taken, StreamTypeOK
  <2>2. CASE ~Gathers(c) BY <1>1, <1>2, <2>2 DEF Taken, StreamTypeOK
  <2> QED BY <2>1, <2>2
<1>13. result'.data \in Seq(1..MaxChunks) /\ result'.interrupt \in BOOLEAN
  <2>1. i \in 1..MaxChunks BY <1>2 DEF Taken
  <2>2. <<i>> \in Seq(1..MaxChunks) BY <2>1
  <2>3. result'.data = IF ~Gathers(c) /\ SentAs(c) = "values" THEN <<i>> ELSE result.data
    BY <1>2, <1>3, <1>4, KeptEvent
  <2>4. result.data \in Seq(1..MaxChunks) BY <1>1 DEF StreamTypeOK
  <2>5. Interrupts(ev, c) \in BOOLEAN BY DEF Interrupts
  <2> QED BY <1>1, <1>5, <2>2, <2>3, <2>4, <2>5 DEF StreamTypeOK
<1>14. given' \in Seq(Chunk) /\ Len(given') <= MaxChunks /\ put' \in Seq(Event)
  BY <1>2 DEF Taken
<1>15. TakenInv'
  BY <1>1, <1>3, <1>6, <1>7, <1>8, <1>9, <1>11, <1>12, <1>13, <1>14 DEF TakenInv, StreamTypeOK
<1>16. NoPause' <=> NoPause /\ ~Stops(c) BY <1>2, <1>4, NoPauseTaken
<1> QED BY <1>15, <1>16

-----------------------------------------------------------------------------
(* GraphEvents: the steps *)

LEMMA StreamInitInv == StreamInit => StreamInv
<1> SUFFICES ASSUME StreamInit PROVE StreamInv OBVIOUS
<1>1. Positions = {} /\ given = <<>> BY DEF StreamInit, Positions
<1> DEFINE e == [type |-> "metadata", space |-> Root, data |-> <<>>]
<1>2. e \in Event BY EmptySeq DEF Event, Types, Spaces
<1>3. put = <<e>> BY DEF StreamInit
<1>4. e.type = "metadata" /\ e.data = <<>> OBVIOUS
<1> HIDE DEF e
<1>5. put \in Seq(Event) /\ \A k \in DOMAIN put : put[k] = e BY <1>2, <1>3
<1>6. result.data = <<>> /\ result.interrupt = FALSE BY DEF StreamInit
<1>7. StreamTypeOK
  <2>1. /\ subgraphs \in BOOLEAN /\ graph \in {"running", "pausing", "over"}
        /\ given \in Seq(Chunk) /\ Len(given) <= MaxChunks
        /\ messages \in [Messages -> Seq(1..MaxChunks)]
        /\ result.data \in Seq(1..MaxChunks) /\ result.interrupt \in BOOLEAN
    BY <1>1, <1>6, EmptySeq DEF StreamInit
  <2>2. PICK modes \in Requests : asked = Resolve(modes) BY DEF StreamInit
  <2>3. asked \subseteq {"values", "updates", "messages", "messages-tuple", "debug", "custom", "events"}
    BY <2>2, RequestsAssumption DEF Resolve
  <2> QED BY <1>5, <2>1, <2>3 DEF StreamTypeOK
<1>8. Positioned BY <1>4, <1>5 DEF Positioned, Elements
<1>9. Interrupted BY <1>1, <1>6, Zenon DEF Interrupted
<1>10. OnlyAsked BY <1>4, <1>5 DEF OnlyAsked
<1>11. States = {} BY <1>1 DEF States
<1>12. OutputKept BY <1>11 DEF OutputKept
<1>13. Phases BY <1>1 DEF Phases, NoPause, StreamInit
<1>14. ASSUME NEW m \in Messages PROVE Accumulating(m) /\ BuiltUp(m)
  <2>1. messages[m] = <<>> BY DEF StreamInit
  <2>2. Elements(<<>>) = {} BY DEF Elements
  <2>3. Pieces(m) = {} BY <1>1 DEF Pieces
  <2>4. Increasing(<<>>) /\ Len(<<>>) = 0 BY DEF Increasing
  <2>5. IsFiniteSet({}) /\ Cardinality({}) = 0 BY FS_EmptySet
  <2>6. Accumulating(m) BY <2>1, <2>2, <2>3, <2>4, <2>5 DEF Accumulating
  <2>7. Parts(m) = {} /\ Metas(m) = {} BY <1>4, <1>5 DEF Parts, Metas, PartTypes
  <2> QED BY <2>1, <2>6, <2>7 DEF BuiltUp
<1> QED BY <1>1, <1>7, <1>8, <1>9, <1>10, <1>12, <1>13, <1>14 DEF StreamInv

LEMMA ChunksLawful ==
    ASSUME NEW mode, NEW whats, NEW ids, NEW c \in Chunks(mode, whats, ids)
    PROVE  c.mode = mode /\ c.space \in Spaces /\ c.what \in whats /\ c.id \in ids
           /\ c = [mode |-> c.mode, space |-> c.space, what |-> c.what, id |-> c.id]
BY DEF Chunks, Streamed, Spaces

\* A chunk that leaves the graph as it is, and one that pauses it.
LEMMA ChunkTaken ==
    ASSUME StreamInv, NEW c, Lawful(c), Take(c),
           \/ graph' = graph /\ graph # "over" /\ ~Stops(c)
           \/ graph' = "pausing" /\ Stops(c)
    PROVE  StreamInv'
<1>1. TakenInv' /\ (NoPause' <=> NoPause /\ ~Stops(c)) BY WhenTaken
<1>2. graph \in {"running", "pausing", "over"} /\ Phases BY DEF StreamInv, StreamTypeOK
<1>3. Phases' BY <1>1, <1>2 DEF Phases
<1> QED BY <1>1, <1>2, <1>3 DEF TakenInv, StreamInv, StreamTypeOK

LEMMA TakeStepInv == ASSUME StreamInv, TakeStep PROVE StreamInv'
<1>1. PICK mode \in Subscribed \cap {"values", "updates", "debug", "custom"} :
        \E c \in Chunks(mode, {IF mode = "values" THEN "state" ELSE "other"}, {None}) : Take(c)
  BY DEF TakeStep
<1>2. PICK c \in Chunks(mode, {IF mode = "values" THEN "state" ELSE "other"}, {None}) : Take(c)
  BY <1>1
<1>3. /\ c.mode = mode /\ c.space \in Spaces /\ c.id = None
      /\ c.what = IF mode = "values" THEN "state" ELSE "other"
      /\ c = [mode |-> c.mode, space |-> c.space, what |-> c.what, id |-> c.id]
  BY ChunksLawful
<1>4. Lawful(c) /\ ~Stops(c) BY <1>3 DEF Lawful, Chunk, Stops
<1>5. graph' = graph /\ graph # "over" BY DEF TakeStep
<1> QED BY <1>2, <1>4, <1>5, ChunkTaken

LEMMA TakeMessageInv == ASSUME StreamInv, TakeMessage PROVE StreamInv'
<1>1. PICK c \in Chunks("messages", {"piece", "whole"}, Messages) : Take(c) BY DEF TakeMessage
<1>2. /\ c.mode = "messages" /\ c.space \in Spaces /\ c.id \in Messages /\ c.what \in {"piece", "whole"}
      /\ c = [mode |-> c.mode, space |-> c.space, what |-> c.what, id |-> c.id]
  BY ChunksLawful
<1>3. "messages" \in asked \/ "messages-tuple" \in asked BY DEF TakeMessage, Subscribed
<1>4. Lawful(c) /\ ~Stops(c) BY <1>2, <1>3 DEF Lawful, Chunk, Stops
<1>5. graph' = graph /\ graph # "over" BY DEF TakeMessage
<1> QED BY <1>1, <1>4, <1>5, ChunkTaken

LEMMA TakeInterruptInv == ASSUME StreamInv, TakeInterrupt PROVE StreamInv'
<1>1. PICK c \in Chunks("updates", {"interrupt"}, {None}) : Take(c) BY DEF TakeInterrupt
<1>2. /\ c.mode = "updates" /\ c.space \in Spaces /\ c.id = None /\ c.what = "interrupt"
      /\ c = [mode |-> c.mode, space |-> c.space, what |-> c.what, id |-> c.id]
  BY ChunksLawful
<1>3. Lawful(c) /\ Stops(c) BY <1>2 DEF Lawful, Chunk, Stops
<1>4. graph' = "pausing" BY DEF TakeInterrupt
<1> QED BY <1>1, <1>3, <1>4, ChunkTaken

\* An interrupt is repeated only when the graph is pausing already.
LEMMA TakeEchoInv == ASSUME StreamInv, TakeEcho PROVE StreamInv'
<1> DEFINE last == given[Len(given)]
           Echo(space) == [mode |-> "values", space |-> space, what |-> "interrupt", id |-> None]
<1>1. /\ graph # "over" /\ graph' = graph /\ given # <<>> /\ "values" \in asked
      /\ last.what = "interrupt" /\ Take(Echo(last.space))
  BY DEF TakeEcho, Subscribed
<1>2. Len(given) \in Positions /\ last \in Chunk
  BY <1>1 DEF StreamInv, StreamTypeOK, Positions
<1>3. graph = "pausing"
  <2>1. ~NoPause BY <1>1, <1>2 DEF NoPause, Stops
  <2> QED BY <1>1, <2>1 DEF StreamInv, StreamTypeOK, Phases
<1>4. last.space \in Spaces BY <1>2 DEF Chunk
<1> HIDE DEF last
<1>5. Lawful(Echo(last.space)) /\ Stops(Echo(last.space)) BY <1>1, <1>4 DEF Lawful, Chunk, Stops
<1> HIDE DEF Echo
<1> QED BY <1>1, <1>3, <1>5, ChunkTaken

LEMMA TakeBreakpointInv == ASSUME StreamInv, TakeBreakpoint PROVE StreamInv'
<1> DEFINE c == [mode |-> "updates", space |-> Root, what |-> "breakpoint", id |-> None]
<1>1. Take(c) /\ graph' = "pausing" BY DEF TakeBreakpoint
<1>2. Lawful(c) /\ Stops(c) BY DEF Lawful, Chunk, Spaces, Stops
<1> HIDE DEF c
<1> QED BY <1>1, <1>2, ChunkTaken

LEMMA TakeRawInv == ASSUME StreamInv, TakeRaw PROVE StreamInv'
<1>1. PICK c \in [mode : {"raw"}, space : {Root}, what : {"other", "hidden"}, id : {None}] : Take(c)
  BY DEF TakeRaw
<1>2. graph' = graph /\ graph # "over" /\ "events" \in asked BY DEF TakeRaw
<1>3. Lawful(c) /\ ~Stops(c) BY <1>2 DEF Lawful, Chunk, Spaces, Stops
<1> QED BY <1>1, <1>2, <1>3, ChunkTaken

LEMMA StillTaken ==
    ASSUME StreamInv, UNCHANGED <<asked, subgraphs, given, messages, put, result>> PROVE TakenInv'
<1>1. Positions' = Positions /\ States' = States BY DEF Positions, States
<1>2. Interrupted' BY <1>1 DEF StreamInv, Interrupted, From, InterruptType, OtherType, Pauses
<1>3. OnlyAsked' BY DEF StreamInv, OnlyAsked
<1>4. OutputKept' BY <1>1 DEF StreamInv, OutputKept, IsLast, NoPause
<1>5. Positioned' BY <1>1 DEF StreamInv, Positioned, Elements
<1>6. ASSUME NEW m \in Messages PROVE Accumulating(m)' /\ BuiltUp(m)'
  <2>1. Pieces(m)' = Pieces(m) /\ Parts(m)' = Parts(m) /\ Metas(m)' = Metas(m)
    BY <1>1 DEF Pieces, Parts, Metas
  <2>2. Accumulating(m)' BY <2>1 DEF StreamInv, Accumulating, Elements, Increasing
  <2>3. BuiltUp(m)' BY <2>1 DEF StreamInv, BuiltUp
  <2> QED BY <2>2, <2>3
<1>7. ASSUME NEW i \in Positions' PROVE Lawful(given[i])' BY <1>1 DEF StreamInv, Lawful
<1> QED BY <1>2, <1>3, <1>4, <1>5, <1>6, <1>7 DEF TakenInv, StreamInv, StreamTypeOK

LEMMA FinishInv == ASSUME StreamInv, Finish PROVE StreamInv'
<1>1. UNCHANGED <<asked, subgraphs, given, messages, put, result>> /\ graph' = "over" BY DEF Finish
<1>2. TakenInv' BY <1>1, StillTaken
<1>3. Positions' = Positions /\ States' = States /\ (NoPause' <=> NoPause)
      /\ \A j : IsLast(j)' <=> IsLast(j)
  BY <1>1 DEF Positions, States, IsLast, NoPause
<1>4. DOMAIN given = Positions BY DEF StreamInv, StreamTypeOK, Positions
<1>5. ASSUME "values" \in asked, NoPause PROVE \E i \in States : IsLast(i) /\ given[i].space = Root
  <2>1. StateReported BY <1>5 DEF Finish, StreamInv, Phases
  <2>2. PICK i \in Positions : /\ given[i].mode = "values" /\ given[i].space = Root
                               /\ \A j \in Positions : j > i => given[j].mode # "values"
    BY <1>4, <1>5, <2>1 DEF StateReported, Subscribed
  <2>3. ASSUME NEW j \in States PROVE j <= i
    <3>1. j \in Positions /\ given[j].mode = "values" BY DEF States
    <3>2. Len(given) \in Nat BY DEF StreamInv, StreamTypeOK
    <3> QED BY <2>2, <3>1, <3>2 DEF Positions
  <2> QED BY <2>2, <2>3 DEF States, IsLast
<1>6. Phases' BY <1>1, <1>3, <1>5 DEF Phases
<1> QED BY <1>1, <1>2, <1>6 DEF TakenInv, StreamInv, StreamTypeOK

LEMMA StreamNextInv == StreamInv /\ [StreamNext]_streamVars => StreamInv'
<1> SUFFICES ASSUME StreamInv, [StreamNext]_streamVars PROVE StreamInv' OBVIOUS
<1>1. CASE UNCHANGED streamVars
  <2>1. TakenInv' BY <1>1, StillTaken DEF streamVars
  <2>2. Positions' = Positions /\ States' = States /\ (NoPause' <=> NoPause)
        /\ \A j : IsLast(j)' <=> IsLast(j)
    BY <1>1 DEF Positions, States, IsLast, NoPause, streamVars
  <2>3. Phases' BY <1>1, <2>2 DEF StreamInv, Phases, streamVars
  <2> QED BY <1>1, <2>1, <2>3 DEF TakenInv, StreamInv, StreamTypeOK, streamVars
<1> QED BY <1>1, TakeStepInv, TakeMessageInv, TakeInterruptInv, TakeEchoInv, TakeBreakpointInv,
        TakeRawInv, FinishInv DEF StreamNext

LEMMA StreamAlwaysInv == StreamSpec => []StreamInv
BY StreamInitInv, StreamNextInv, PTL DEF StreamSpec

\* Every event of a run is made of chunks the graph handed over, and every variable
\* keeps its type (`_stream_graph`, `stream_graph_events`).
THEOREM StreamTypeCorrect == StreamSpec => []StreamTypeOK
<1>1. StreamInv => StreamTypeOK BY DEF StreamInv
<1> QED BY <1>1, StreamAlwaysInv, PTL

\* What a node asks a human makes one event, an update or values by what the client
\* asked for, and never both; the run is kept as interrupted exactly when a node asked
\* or the graph stopped at a breakpoint and updates were asked for: of the empty
\* interrupt of a breakpoint nobody else is told (`_process_stream_event`, `_stream_graph`).
THEOREM InterruptAlwaysReachesClient == StreamSpec => []InterruptReachesClient
<1>1. StreamInv => InterruptReachesClient
  <2> SUFFICES ASSUME StreamInv PROVE InterruptReachesClient OBVIOUS
  <2>1. DOMAIN given = Positions BY DEF StreamInv, StreamTypeOK, Positions
  <2>2. ASSUME NEW i \in Positions, given[i].what = "interrupt", given[i].mode = "updates"
        PROVE  Cardinality(From(i, InterruptType)) = 1 /\ From(i, OtherType) = {}
    <3>1. PICK k \in DOMAIN put : From(i, InterruptType) = {k} BY <2>2 DEF StreamInv, Interrupted
    <3>2. Cardinality({k}) = 1 BY FS_Singleton
    <3> QED BY <2>2, <3>1, <3>2 DEF StreamInv, Interrupted
  <2> QED BY <2>1, <2>2 DEF InterruptReachesClient, InterruptType, OtherType, StreamInv, Interrupted, Pauses
<1> QED BY <1>1, StreamAlwaysInv, PTL

\* A client that shows the last part it was sent of each message shows every token
\* of it so far, once and in order, however the tokens of several are interleaved,
\* and was given the metadata first, once (`_process_stream_event`).
THEOREM MessagesAlwaysBuildUp == StreamSpec => []MessagesBuildUp
<1>1. StreamInv => MessagesBuildUp
  <2> SUFFICES ASSUME StreamInv, NEW m \in Messages, Parts(m) # {} PROVE
        LET last == CHOOSE k \in Parts(m) : \A l \in Parts(m) : l <= k
            data == put[last].data
            pieces == {i \in DOMAIN given : given[i].id = m}
        IN  /\ Elements(data) = pieces /\ Len(data) = Cardinality(pieces)
            /\ Increasing(data)
            /\ \E k \in Metas(m) : Metas(m) = {k} /\ \A l \in Parts(m) : k < l
    BY DEF MessagesBuildUp, Parts, Metas, Elements, Increasing, PartTypes
  <2>1. BuiltUp(m) /\ Accumulating(m) BY DEF StreamInv
  <2>2. PICK last \in Parts(m), k \in Metas(m) :
           /\ \A l \in Parts(m) : l <= last
           /\ put[last].data = messages[m]
           /\ Metas(m) = {k} /\ \A l \in Parts(m) : k < l
    BY <2>1 DEF BuiltUp
  <2>3. Parts(m) \subseteq Nat BY DEF Parts, StreamInv, StreamTypeOK
  <2>4. (CHOOSE l \in Parts(m) : \A j \in Parts(m) : j <= l) = last BY <2>2, <2>3
  <2>5. "messages-tuple" \notin asked
    <3>1. put[last].type \in PartTypes BY DEF Parts
    <3> QED BY <3>1 DEF PartTypes, StreamInv, OnlyAsked, StreamTypeOK, Parts
  <2>6. Pieces(m) = {i \in DOMAIN given : given[i].id = m}
    BY DEF Pieces, StreamInv, StreamTypeOK, Positions
  <2> QED BY <2>1, <2>2, <2>4, <2>5, <2>6 DEF Accumulating
<1> QED BY <1>1, StreamAlwaysInv, PTL

\* Clients get only what was asked for, and the interrupts, whatever the run
\* subscribes to (`stream_graph_events`).
THEOREM OnlyAskedIsSent == StreamSpec => []OnlyAsked
<1>1. StreamInv => OnlyAsked BY DEF StreamInv
<1> QED BY <1>1, StreamAlwaysInv, PTL

\* When values are asked for the output of a run that did not pause is the last state
\* the root graph reported, even when its subgraphs report theirs (`_stream_graph`).
THEOREM OutputAlwaysTheLastState == StreamSpec => []OutputIsTheLastState
<1>1. StreamInv => OutputIsTheLastState
  <2> SUFFICES ASSUME StreamInv, graph = "over", "values" \in asked, NoPause
               PROVE  LET states == {i \in Positions : given[i].space = Root /\ given[i].mode = "values"}
                      IN  \E i \in states : result.data = <<i>> /\ \A j \in states : j <= i
    <3>1. DOMAIN given = Positions BY DEF StreamInv, StreamTypeOK, Positions
    <3> QED BY <3>1 DEF OutputIsTheLastState, NoPause, Stops
  <2>1. PICK i \in States : IsLast(i) /\ given[i].space = Root BY DEF StreamInv, Phases
  <2>2. PICK j \in States : IsLast(j) /\ result.data = <<j>> BY <2>1 DEF StreamInv, OutputKept
  <2>3. i = j
    <3>1. i \in Nat /\ j \in Nat BY DEF States, Positions, StreamInv, StreamTypeOK
    <3>2. i <= j /\ j <= i BY <2>1, <2>2 DEF IsLast
    <3> QED BY <3>1, <3>2
  <2> QED BY <2>1, <2>2, <2>3 DEF States, IsLast
<1> QED BY <1>1, StreamAlwaysInv, PTL

=============================================================================
