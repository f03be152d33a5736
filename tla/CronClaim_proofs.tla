--------------------------- MODULE CronClaim_proofs ---------------------------
(***************************************************************************)
(* That claims keep schedulers apart, that duplicates have their reasons   *)
(* and that every cron keeps its promise, for any number of crons and      *)
(* schedulers, any schedules and any length of a claim.                    *)
(***************************************************************************)
EXTENDS CronClaim, FiniteSetTheorems, TLAPS

USE CronsAssumption

-----------------------------------------------------------------------------
(* Types *)

LEMMA NextOccurrenceType ==
    ASSUME TypeOK, NEW p \in Periods
    PROVE  NextOccurrence(p) \in 1 .. p /\ p \in 1 .. Cycle
<1>1. p \in 1 .. Cycle /\ clock \in Nat BY TimeAssumption DEF TypeOK
<1>2. clock % p \in 0 .. p - 1 BY <1>1
<1> QED BY <1>1, <1>2 DEF NextOccurrence

LEMMA DelayType ==
    ASSUME TypeOK, NEW p \in Periods
    PROVE  NextOccurrence(p) \in Delays \ {0} /\ NextOccurrence(p) + p \in Delays
BY NextOccurrenceType, TimeAssumption DEF Delays

LEMMA LessType == \A n \in Nat : Less(n) \in Nat /\ Less(n) <= n /\ (n > 0 => Less(n) = n - 1)
BY DEF Less

LEMMA NearerType == \A e \in Ends : Nearer(e) \in Ends
BY TimeAssumption DEF Nearer, Less, Ends, NoEnd

LEMMA CopyOfType == ASSUME TypeOK, NEW c \in Crons PROVE CopyOf(c) \in Copies
BY TimeAssumption DEF TypeOK, CopyOf, Copies

LEMMA SpendType == ASSUME TypeOK, NEW f \in Faults, Spend(f) PROVE spent' \in [Faults -> Nat]
<1>1. spent[f] \in Nat /\ spent["any"] \in Nat BY DEF TypeOK, Faults
<1> QED BY <1>1 DEF TypeOK, Spend, Faults

\* The type of the batches and what ties them to the schedulers.
BatchOK ==
    /\ pc \in [Schedulers -> Steps]
    /\ batch \in [Schedulers -> SUBSET Copies]
    /\ cur \in [Schedulers -> Crons \cup {None}]
    /\ \A s \in Schedulers :
           /\ cur[s] = None <=> pc[s] \in {"down", "ready"}
           /\ cur[s] # None => Has(s, cur[s])
           /\ pc[s] = "down" => batch[s] = {}

LEMMA CopyType ==
    ASSUME TypeOK, NEW s \in Schedulers, cur[s] # None
    PROVE  Copy(s) \in batch[s] /\ Copy(s) \in Copies /\ Copy(s).cron = cur[s] /\ cur[s] \in Crons
BY DEF TypeOK, Copy, Has

\* s drops its copies of c and is between two firings.
LEMMA LeaveType ==
    ASSUME TypeOK, NEW s \in Schedulers, NEW c \in Crons, pc[s] # "down",
           c = cur[s] \/ cur[s] = None,
           batch' = Without(s, c),
           pc' = [pc EXCEPT ![s] = "ready"], cur' = [cur EXCEPT ![s] = None]
    PROVE  BatchOK'
<1>1. batch' \in [Schedulers -> SUBSET Copies] BY DEF TypeOK, Without
<1>2. ASSUME NEW t \in Schedulers, t # s
      PROVE  batch'[t] = batch[t] /\ pc'[t] = pc[t] /\ cur'[t] = cur[t]
  BY <1>2 DEF TypeOK, Without
<1>3. pc'[s] = "ready" /\ cur'[s] = None BY DEF TypeOK
<1> QED BY <1>1, <1>2, <1>3 DEF TypeOK, BatchOK, Has, Steps

\* s goes on with another step of the same firing.
LEMMA GotoType ==
    ASSUME TypeOK, NEW s \in Schedulers, NEW step \in Steps \ {"down", "ready"}, cur[s] # None,
           Goto(s, step)
    PROVE  BatchOK'
BY DEF TypeOK, BatchOK, Goto, Has

\* The copies change, but not the crons they are of.
LEMMA RelabelType ==
    ASSUME TypeOK, UNCHANGED <<pc, cur>>,
           batch' \in [Schedulers -> SUBSET Copies],
           \A s \in Schedulers : batch[s] = {} => batch'[s] = {},
           \A s \in Schedulers : \A k \in batch[s] : \E l \in batch'[s] : l.cron = k.cron
    PROVE  BatchOK'
<1>1. ASSUME NEW s \in Schedulers, cur'[s] # None PROVE Has(s, cur[s])'
  <2>1. PICK k \in batch[s] : k.cron = cur[s] BY <1>1 DEF TypeOK, Has
  <2> QED BY <2>1 DEF Has
<1>2. ASSUME NEW s \in Schedulers PROVE (cur[s] = None <=> pc[s] \in {"down", "ready"})'
  BY DEF TypeOK
<1>3. ASSUME NEW s \in Schedulers, pc'[s] = "down" PROVE batch'[s] = {}
  BY <1>3 DEF TypeOK
<1>4. pc' \in [Schedulers -> Steps] /\ cur' \in [Schedulers -> Crons \cup {None}]
  BY DEF TypeOK
<1> QED BY <1>1, <1>2, <1>3, <1>4 DEF BatchOK

LEMMA OutdatedType ==
    ASSUME TypeOK, NEW c \in Crons, NEW n \in Delays, NewOccurrence(c, n, batch), UNCHANGED <<pc, cur>>
    PROVE  BatchOK'
<1> DEFINE Mark(k) == [k EXCEPT !.stale = @ \/ k.cron = c]
<1>1. \A k \in Copies : Mark(k) \in Copies /\ Mark(k).cron = k.cron
  BY DEF Copies
<1>2. \A s \in Schedulers : batch'[s] = {Mark(k) : k \in batch[s]} BY DEF NewOccurrence
<1>3. \A s \in Schedulers : batch[s] \subseteq Copies BY DEF TypeOK
<1> HIDE DEF Mark
<1>4. \A s \in Schedulers : \A k \in batch[s] : Mark(k) \in batch'[s] /\ Mark(k).cron = k.cron
  BY <1>1, <1>2, <1>3
<1>5. batch' = [s \in Schedulers |-> batch'[s]] BY DEF NewOccurrence
<1>6. \A s \in Schedulers : batch'[s] \subseteq Copies BY <1>1, <1>2, <1>3
<1>7. batch' \in [Schedulers -> SUBSET Copies] BY <1>5, <1>6
<1>8. \A s \in Schedulers : batch[s] = {} => batch'[s] = {} BY <1>2
<1> QED BY <1>4, <1>7, <1>8, RelabelType

\* What of the type the rest of a state makes up.
RowsOK ==
    /\ clock \in 0 .. Cycle - 1
    /\ rows \subseteq Crons
    /\ enabled \in [Crons -> BOOLEAN]
    /\ period \in [Crons -> Periods]
    /\ due \in [Crons -> Delays]
    /\ claim \in [Crons -> 0 .. ClaimTicks]
    /\ ends \in [Crons -> Ends]
    /\ threadUp \in BOOLEAN
    /\ api \in [Crons -> Requests]
    /\ made \in [Crons -> Nat]
    /\ excuse \in [Crons -> Nat]
    /\ overran \subseteq Crons
    /\ touched \subseteq Crons
    /\ overtaken \subseteq Crons
    /\ edits \in Nat
    /\ spent \in [Faults -> Nat]

LEMMA TypeParts == RowsOK' /\ BatchOK' => TypeOK'
BY DEF TypeOK, RowsOK, BatchOK

LEMMA TickType == TypeOK /\ Tick => TypeOK'
<1> SUFFICES ASSUME TypeOK, Tick PROVE TypeOK' OBVIOUS
<1> DEFINE Aged(k) == [k EXCEPT !.ends = Nearer(@), !.lease = Less(@)]
<1>1. \A k \in Copies : Aged(k) \in Copies /\ Aged(k).cron = k.cron
  <2> TAKE k \in Copies
  <2>1. Nearer(k.ends) \in Ends BY NearerType DEF Copies
  <2>2. Less(k.lease) \in 0 .. ClaimTicks BY TimeAssumption DEF Copies, Less
  <2> QED BY <2>1, <2>2 DEF Copies
<1>2. \A s \in Schedulers : batch'[s] = {Aged(k) : k \in batch[s]} BY DEF Tick
<1>3. \A s \in Schedulers : batch[s] \subseteq Copies BY DEF TypeOK
<1>4. batch' = [s \in Schedulers |-> batch'[s]] BY DEF Tick
<1> HIDE DEF Aged
<1>5. \A s \in Schedulers : \A k \in batch[s] : Aged(k) \in batch'[s] /\ Aged(k).cron = k.cron
  BY <1>1, <1>2, <1>3
<1>6. batch' \in [Schedulers -> SUBSET Copies]
  <2>1. \A s \in Schedulers : batch'[s] \subseteq Copies BY <1>1, <1>2, <1>3
  <2> QED BY <1>4, <2>1
<1>7. \A s \in Schedulers : batch[s] = {} => batch'[s] = {} BY <1>2
<1>8. UNCHANGED <<pc, cur>> BY DEF Tick
<1>9. BatchOK' BY <1>5, <1>6, <1>7, <1>8, RelabelType
<1>10. clock' \in 0 .. Cycle - 1
  <2>1. Cycle \in Nat \ {0} /\ clock \in Nat BY TimeAssumption DEF TypeOK
  <2>2. \A n \in Nat : n % Cycle \in 0 .. Cycle - 1 BY <2>1
  <2>3. clock + 1 \in Nat BY <2>1
  <2>4. clock' = (clock + 1) % Cycle BY DEF Tick
  <2> QED BY <2>2, <2>3, <2>4
<1>11. \A c \in Crons :
          Less(due[c]) \in Delays /\ Less(claim[c]) \in 0 .. ClaimTicks /\ Nearer(ends[c]) \in Ends
  <2> TAKE c \in Crons
  <2>1. due[c] \in Delays /\ claim[c] \in 0 .. ClaimTicks /\ ends[c] \in Ends BY DEF TypeOK
  <2> QED BY <2>1, NearerType, TimeAssumption DEF Less, Delays
<1>12. due' \in [Crons -> Delays] /\ claim' \in [Crons -> 0 .. ClaimTicks] /\ ends' \in [Crons -> Ends]
  BY <1>11 DEF Tick, ClaimsLeft
<1>13. spent' \in [Faults -> Nat]
  <2>1. CASE UNCHANGED spent BY <2>1 DEF TypeOK
  <2>2. CASE Spend("slow") BY <2>2, SpendType DEF Faults
  <2> QED BY <2>1, <2>2 DEF Tick
<1>14. overran' \subseteq Crons BY DEF Tick, TypeOK, Expiring
<1>15. RowsOK' BY <1>10, <1>12, <1>13, <1>14 DEF Tick, TypeOK, RowsOK, runVars
<1> QED BY <1>9, <1>15, TypeParts

LEMMA ClaimType == \A s \in Schedulers : TypeOK /\ Claim(s) => TypeOK'
<1> SUFFICES ASSUME NEW s \in Schedulers, TypeOK, Claim(s) PROVE TypeOK' OBVIOUS
<1>1. PICK C \in SUBSET Claimable :
          /\ claim' = [c \in Crons |-> IF c \in C THEN ClaimTicks ELSE claim[c]]
          /\ batch' = [batch EXCEPT ![s] = {CopyOf(c) : c \in C}]
  BY DEF Claim
<1>2. C \subseteq Crons BY DEF Claimable, TypeOK
<1>3. {CopyOf(c) : c \in C} \subseteq Copies BY <1>2, CopyOfType
<1>4. batch' \in [Schedulers -> SUBSET Copies] BY <1>1, <1>3 DEF TypeOK
<1>5. \A t \in Schedulers \ {s} : batch'[t] = batch[t] BY <1>1 DEF TypeOK
<1>6. pc[s] = "ready" /\ UNCHANGED <<pc, cur>> BY DEF Claim
<1>7. BatchOK' BY <1>4, <1>5, <1>6 DEF BatchOK, TypeOK, Has
<1>8. claim' \in [Crons -> 0 .. ClaimTicks]
  BY <1>1, TimeAssumption DEF TypeOK
<1>9. RowsOK' BY <1>8 DEF Claim, RowsOK, TypeOK, runVars, histVars
<1> QED BY <1>7, <1>9, TypeParts

LEMMA FireType == \A s \in Schedulers : TypeOK /\ Fire(s) => TypeOK'
<1> SUFFICES ASSUME NEW s \in Schedulers, TypeOK, Fire(s) PROVE TypeOK' OBVIOUS
<1> USE DEF rowVars, fireVars, runVars, histVars
<1>1. ASSUME NEW c \in Crons, Begin(s, c) PROVE TypeOK'
  <2>1. BatchOK' BY <1>1 DEF Begin, BatchOK, TypeOK, Has, Steps
  <2>2. RowsOK' BY <1>1 DEF Begin, RowsOK, TypeOK
  <2> QED BY <2>1, <2>2, TypeParts
<1>2. ASSUME NEW c \in Crons, Revoke(s, c) PROVE TypeOK'
  <2>1. pc[s] = "ready" /\ cur[s] = None BY <1>2 DEF Revoke, TypeOK
  <2>2. batch' = Without(s, c) /\ UNCHANGED <<pc, cur>> BY <1>2 DEF Revoke
  <2>3. pc' = [pc EXCEPT ![s] = "ready"] /\ cur' = [cur EXCEPT ![s] = None]
    BY <2>1, <2>2 DEF TypeOK
  <2>4. BatchOK' BY <2>1, <2>2, <2>3, LeaveType
  <2>5. spent' \in [Faults -> Nat] BY <1>2, SpendType DEF Revoke, Faults
  <2>6. enabled' \in [Crons -> BOOLEAN] /\ claim' \in [Crons -> 0 .. ClaimTicks]
    BY <1>2, TimeAssumption DEF Revoke, TypeOK, Update
  <2>7. RowsOK' BY <1>2, <2>5, <2>6 DEF Revoke, RowsOK, TypeOK
  <2> QED BY <2>4, <2>7, TypeParts
<1>3. CASE PrepareRun(s)
  <2>1. cur[s] # None BY <1>3 DEF PrepareRun, TypeOK
  <2>2. BatchOK' BY <1>3, <2>1, GotoType DEF PrepareRun, Steps
  <2>3. made' \in [Crons -> Nat] BY <1>3 DEF PrepareRun, TypeOK
  <2>4. RowsOK' BY <1>3, <2>3 DEF PrepareRun, RowsOK, TypeOK
  <2> QED BY <2>2, <2>4, TypeParts
<1>4. CASE PrepareFails(s)
  <2>1. cur[s] # None BY <1>4 DEF PrepareFails, TypeOK
  <2>2. BatchOK' BY <1>4, <2>1, GotoType DEF PrepareFails, Steps
  <2>3. spent' \in [Faults -> Nat] BY <1>4, SpendType DEF PrepareFails, Faults
  <2>4. RowsOK' BY <1>4, <2>3 DEF PrepareFails, RowsOK, TypeOK
  <2> QED BY <2>2, <2>4, TypeParts
<1>5. CASE Submit(s)
  <2>1. cur[s] # None BY <1>5 DEF Submit, TypeOK
  <2>2. BatchOK' BY <1>5, <2>1, GotoType DEF Submit, Steps
  <2>3. RowsOK' BY <1>5 DEF Submit, RowsOK, TypeOK
  <2> QED BY <2>2, <2>3, TypeParts
<1>6. CASE SubmitFails(s)
  <2>1. cur[s] # None BY <1>6 DEF SubmitFails, TypeOK
  <2>2. BatchOK' BY <1>6, <2>1, GotoType DEF SubmitFails, Steps
  <2>3. spent' \in [Faults -> Nat] BY <1>6, SpendType DEF SubmitFails, Faults
  <2>4. excuse' \in [Crons -> Nat] BY <1>6 DEF SubmitFails, Excuse, TypeOK
  <2>5. RowsOK' BY <1>6, <2>3, <2>4 DEF SubmitFails, RowsOK, TypeOK
  <2> QED BY <2>2, <2>5, TypeParts
<1>7. CASE Advance(s)
  <2>1. pc[s] = "advance" /\ cur[s] \in Crons BY <1>7 DEF Advance, TypeOK
  <2>2. Copy(s) \in Copies BY <2>1, CopyType
  <2> DEFINE c == cur[s]
             n == NextOccurrence(Copy(s).period)
  <2>3. n \in Delays BY <2>2, DelayType DEF Copies
  <2>4. claim' \in [Crons -> 0 .. ClaimTicks] /\ enabled' \in [Crons -> BOOLEAN]
    BY <1>7, <2>1, TimeAssumption DEF Advance, TypeOK, Update
  <2>5. Loop(s) BY <1>7 DEF Advance
  <2>6. CASE NewOccurrence(c, n, Without(s, c))
    <3>1. RowsOK' BY <1>7, <2>3, <2>4, <2>6 DEF Advance, RowsOK, TypeOK, NewOccurrence
    <3> DEFINE Mark(k) == [k EXCEPT !.stale = @ \/ k.cron = c]
    <3>2. \A k \in Copies : Mark(k) \in Copies /\ Mark(k).cron = k.cron BY DEF Copies
    <3>3. batch' = [t \in Schedulers |-> {Mark(k) : k \in Without(s, c)[t]}]
      BY <2>6 DEF NewOccurrence
    <3>4. \A t \in Schedulers : Without(s, c)[t] \subseteq batch[t] /\ (t # s => Without(s, c)[t] = batch[t])
      BY DEF Without, TypeOK
    <3> HIDE DEF Mark, c, n
    <3>5. \A t \in Schedulers : batch[t] \subseteq Copies BY DEF TypeOK
    <3>6. \A t \in Schedulers : {Mark(k) : k \in Without(s, c)[t]} \subseteq Copies BY <3>2, <3>4, <3>5
    <3>7. batch' \in [Schedulers -> SUBSET Copies] BY <3>3, <3>6
    <3>8. ASSUME NEW t \in Schedulers, t # s
          PROVE  /\ pc'[t] = pc[t] /\ cur'[t] = cur[t]
                 /\ \A k \in batch[t] : Mark(k) \in batch'[t] /\ Mark(k).cron = k.cron
                 /\ batch[t] = {} => batch'[t] = {}
      BY <2>5, <3>2, <3>3, <3>4, <3>5, <3>8 DEF Loop, TypeOK
    <3>9. ASSUME NEW t \in Schedulers, t # s, cur'[t] # None PROVE Has(t, cur[t])'
      <4>1. PICK k \in batch[t] : k.cron = cur[t] BY <3>8, <3>9 DEF TypeOK, Has
      <4> QED BY <3>8, <3>9, <4>1 DEF Has
    <3>10. pc'[s] = "ready" /\ cur'[s] = None BY <2>5 DEF Loop, TypeOK
    <3>11. pc' \in [Schedulers -> Steps] /\ cur' \in [Schedulers -> Crons \cup {None}]
      BY <2>5 DEF Loop, TypeOK, Steps
    <3>12. BatchOK' BY <3>7, <3>8, <3>9, <3>10, <3>11 DEF BatchOK, TypeOK
    <3> QED BY <3>1, <3>12, TypeParts
  <2>7. CASE batch' = Without(s, c) /\ UNCHANGED <<due, runVars>>
    <3>1. RowsOK' BY <1>7, <2>4, <2>7 DEF Advance, RowsOK, TypeOK
    <3>2. BatchOK' BY <2>1, <2>5, <2>7, LeaveType DEF Loop
    <3> QED BY <3>1, <3>2, TypeParts
  <2> QED BY <1>7, <2>6, <2>7 DEF Advance
<1>8. CASE Release(s)
  <2>1. cur[s] \in Crons /\ pc[s] # "down" BY <1>8 DEF Release, TypeOK
  <2>2. BatchOK' BY <1>8, <2>1, LeaveType DEF Release, Loop
  <2>3. claim' \in [Crons -> 0 .. ClaimTicks] BY <1>8, <2>1, TimeAssumption DEF Release, TypeOK, Update
  <2>4. RowsOK' BY <1>8, <2>3 DEF Release, RowsOK, TypeOK
  <2> QED BY <2>2, <2>4, TypeParts
<1>9. CASE WriteFails(s)
  <2>1. cur[s] \in Crons /\ pc[s] # "down" BY <1>9 DEF WriteFails, TypeOK
  <2>2. BatchOK' BY <1>9, <2>1, LeaveType DEF WriteFails, Loop
  <2>3. spent' \in [Faults -> Nat] BY <1>9, SpendType DEF WriteFails, Faults
  <2>4. excuse' \in [Crons -> Nat] BY <1>9 DEF WriteFails, Excuse, TypeOK
  <2>5. RowsOK' BY <1>9, <2>3, <2>4 DEF WriteFails, RowsOK, TypeOK
  <2> QED BY <2>2, <2>5, TypeParts
<1> QED BY <1>1, <1>2, <1>3, <1>4, <1>5, <1>6, <1>7, <1>8, <1>9 DEF Fire

LEMMA SchedulerType == \A s \in Schedulers : TypeOK /\ Scheduler(s) => TypeOK'
<1> SUFFICES ASSUME NEW s \in Schedulers, TypeOK, Scheduler(s) PROVE TypeOK' OBVIOUS
<1> USE DEF rowVars, fireVars, runVars, histVars
<1>1. CASE Die(s)
  <2>1. BatchOK' BY <1>1 DEF Die, BatchOK, TypeOK, Has, Steps
  <2>2. spent' \in [Faults -> Nat] BY <1>1, SpendType DEF Die, Faults
  <2>3. excuse' \in [Crons -> Nat] BY <1>1 DEF Die, Excuse, TypeOK
  <2>4. RowsOK' BY <1>1, <2>2, <2>3 DEF Die, RowsOK, TypeOK
  <2> QED BY <2>1, <2>4, TypeParts
<1>2. CASE Start(s)
  <2>1. BatchOK' BY <1>2 DEF Start, BatchOK, TypeOK, Has, Steps
  <2>2. RowsOK' BY <1>2 DEF Start, RowsOK, TypeOK
  <2> QED BY <2>1, <2>2, TypeParts
<1> QED BY <1>1, <1>2, ClaimType, FireType DEF Scheduler

LEMMA RemoveType ==
    ASSUME TypeOK, NEW C \in SUBSET Crons, Remove(C), threadUp' \in BOOLEAN,
           api' \in [Crons -> Requests], spent' \in [Faults -> Nat]
    PROVE  TypeOK'
<1> USE DEF rowVars, fireVars, runVars, histVars
<1>1. BatchOK' BY DEF Remove, BatchOK, TypeOK, Has
<1>2. enabled' \in [Crons -> BOOLEAN] BY DEF Remove, TypeOK
<1>3. RowsOK' BY <1>2 DEF Remove, RowsOK, TypeOK
<1> QED BY <1>1, <1>3, TypeParts

LEMMA OwnerType == \A c \in Crons : TypeOK /\ Owner(c) => TypeOK'
<1> SUFFICES ASSUME NEW c \in Crons, TypeOK, Owner(c) PROVE TypeOK' OBVIOUS
<1> USE DEF rowVars, fireVars, runVars, histVars
<1>1. CASE CountCrons(c)
  BY <1>1 DEF CountCrons, TypeOK, Has, Requests
<1>2. CASE InsertFails(c)
  BY <1>2 DEF InsertFails, TypeOK, Has, Requests
<1>3. CASE FirstRun(c)
  <2>1. spent' \in [Faults -> Nat]
    <3>1. "prepare" \in Faults BY DEF Faults
    <3> QED BY <1>3, <3>1, SpendType DEF FirstRun, TypeOK
  <2>2. BatchOK' BY <1>3 DEF FirstRun, BatchOK, TypeOK, Has
  <2>3. RowsOK' BY <1>3, <2>1 DEF FirstRun, RowsOK, TypeOK, Requests
  <2> QED BY <2>2, <2>3, TypeParts
<1>4. CASE RollBack(c)
  <2>1. api' \in [Crons -> Requests] /\ threadUp' \in BOOLEAN BY <1>4 DEF RollBack, TypeOK, Requests
  <2>2. CASE Remove({c}) /\ UNCHANGED spent BY <2>1, <2>2, RemoveType DEF TypeOK
  <2>3. CASE Spend("db") /\ UNCHANGED <<clock, rowVars, fireVars, runVars, histVars>>
    <3>1. spent' \in [Faults -> Nat] BY <2>3, SpendType DEF Faults
    <3> QED BY <2>1, <2>3, <3>1 DEF TypeOK, Has
  <2>4. CASE UNCHANGED <<clock, rowVars, fireVars, runVars, histVars, spent>>
    BY <2>1, <2>4 DEF TypeOK, Has
  <2> QED BY <1>4, <2>2, <2>3, <2>4 DEF RollBack
<1>5. CASE Delete(c)
  BY <1>5, SpendType, RemoveType DEF Delete, Faults, TypeOK
<1>6. ASSUME NEW p \in Periods, NEW e \in {EndTicks, NoEnd}, NEW fires \in BOOLEAN, Insert(c, p, e, fires)
      PROVE  TypeOK'
  <2>1. e \in Ends BY TimeAssumption DEF Ends, NoEnd
  <2>2. due' \in [Crons -> Delays] BY <1>6, DelayType DEF Insert, TypeOK
  <2>3. BatchOK' BY <1>6 DEF Insert, BatchOK, TypeOK, Has
  <2>4. /\ rows' \subseteq Crons /\ enabled' \in [Crons -> BOOLEAN] /\ period' \in [Crons -> Periods]
        /\ ends' \in [Crons -> Ends] /\ overtaken' \subseteq Crons /\ api' \in [Crons -> Requests]
        /\ edits' \in Nat
    BY <1>6, <2>1 DEF Insert, TypeOK, Requests
  <2>5. RowsOK' BY <1>6, <2>2, <2>4 DEF Insert, RowsOK, TypeOK
  <2> QED BY <2>3, <2>5, TypeParts
<1>7. ASSUME NEW p \in Periods \cup {None}, NEW on \in BOOLEAN \cup {None},
             NEW e \in {EndTicks, None}, Edit(c, p, on, e)
      PROVE  TypeOK'
  <2> DEFINE Given(new, old) == IF new = None THEN old ELSE new
  <2>1. EndTicks \in Ends BY TimeAssumption DEF Ends, NoEnd
  <2>2. /\ period' \in [Crons -> Periods] /\ enabled' \in [Crons -> BOOLEAN] /\ ends' \in [Crons -> Ends]
        /\ touched' \subseteq Crons /\ edits' \in Nat
    BY <1>7, <2>1 DEF Edit, TypeOK
  <2>3. spent' \in [Faults -> Nat] BY <1>7, SpendType DEF Edit, Faults
  <2>4. Given(p, period[c]) \in Periods BY DEF TypeOK
  <2>5. NextOccurrence(Given(p, period[c])) \in Delays BY <2>4, DelayType
  <2>6. CASE NewOccurrence(c, NextOccurrence(Given(p, period[c])), batch)
    <3>1. UNCHANGED <<pc, cur>> BY <1>7 DEF Edit
    <3>2. BatchOK' BY <2>5, <2>6, <3>1, OutdatedType
    <3> HIDE DEF Given
    <3>3. due' \in [Crons -> Delays] /\ made' \in [Crons -> Nat] /\ excuse' \in [Crons -> Nat]
      BY <2>5, <2>6 DEF NewOccurrence, TypeOK
    <3>4. RowsOK' BY <1>7, <2>2, <2>3, <3>3 DEF Edit, RowsOK, TypeOK
    <3> QED BY <3>2, <3>4, TypeParts
  <2>7. CASE UNCHANGED <<due, runVars, batch>>
    <3>1. BatchOK' BY <1>7, <2>7 DEF Edit, BatchOK, TypeOK, Has
    <3>2. RowsOK' BY <1>7, <2>2, <2>3, <2>7 DEF Edit, RowsOK, TypeOK
    <3> QED BY <3>1, <3>2, TypeParts
  <2> QED BY <1>7, <2>6, <2>7 DEF Edit
<1> QED BY <1>1, <1>2, <1>3, <1>4, <1>5, <1>6, <1>7 DEF Owner

-----------------------------------------------------------------------------
(* Claims *)

\* A batch has one copy of a cron.
Single == \A s \in Schedulers : \A k, l \in batch[s] : k.cron = l.cron => k = l

Exclusive(c) == \A s, t \in Schedulers : Has(s, c) /\ Has(t, c) => s = t

\* As long as a copy is held, the row carries at least the claim of the copy.
Leased(c) ==
    \A s \in Schedulers : \A k \in batch[s] :
        k.cron = c => k.lease > 0 /\ k.lease <= claim[c]

ClaimInv == TypeOK /\ Single /\ \A c \in Crons \ overran : Exclusive(c) /\ Leased(c)

\* Steps but Tick and Claim: the copies go or become outdated, and a claim is
\* taken back only by a scheduler that drops its copy.
Subsides ==
    /\ \A s \in Schedulers : \A k \in batch'[s] : \E l \in batch[s] :
           l.cron = k.cron /\ l.lease = k.lease /\ l.period = k.period /\ (l.stale => k.stale)
    /\ \A c \in Crons :
           claim'[c] = claim[c] \/ \E s \in Schedulers : Has(s, c) /\ ~Has(s, c)'
    /\ Single'
    /\ overran' = overran

LEMMA SubsidesSuffices == ClaimInv /\ TypeOK' /\ Subsides => ClaimInv'
<1> SUFFICES ASSUME ClaimInv, TypeOK', Subsides PROVE ClaimInv' OBVIOUS
<1>1. ASSUME NEW c \in Crons, NEW s \in Schedulers, Has(s, c)' PROVE Has(s, c)
  BY <1>1 DEF Subsides, Has
<1>2. ASSUME NEW c \in Crons \ overran PROVE Exclusive(c)' /\ Leased(c)'
  <2>1. Exclusive(c) /\ Leased(c) BY <1>2 DEF ClaimInv
  <2>2. Exclusive(c)' BY <1>1, <2>1 DEF Exclusive
  <2>3. CASE claim'[c] = claim[c] BY <2>1, <2>2, <2>3 DEF Leased, Subsides
  <2>4. ASSUME NEW s \in Schedulers, Has(s, c), ~Has(s, c)' PROVE Leased(c)'
    <3>1. \A t \in Schedulers : ~Has(t, c)' BY <1>1, <2>1, <2>4 DEF Exclusive
    <3> QED BY <3>1 DEF Leased, Has
  <2> QED BY <2>2, <2>3, <2>4 DEF Subsides
<1> QED BY <1>2 DEF Subsides, ClaimInv

\* The batches stay as they are.
LEMMA SameBatches ==
    ASSUME Single, UNCHANGED <<batch, claim, overran>>
    PROVE  Subsides
BY DEF Single, Subsides, Has

\* s drops its copy of c, and may take back the claim.
LEMMA DropCopy ==
    ASSUME TypeOK, Single, NEW s \in Schedulers, NEW c \in Crons, Has(s, c),
           batch' = Without(s, c), UNCHANGED overran,
           \A d \in Crons \ {c} : claim'[d] = claim[d]
    PROVE  Subsides
<1>1. \A t \in Schedulers : batch'[t] = IF t = s THEN {k \in batch[s] : k.cron # c} ELSE batch[t]
  BY DEF TypeOK, Without
<1>2. ~Has(s, c)' BY <1>1 DEF Has
<1>3. Single' BY <1>1 DEF Single
<1>4. \A t \in Schedulers : batch'[t] \subseteq batch[t] BY <1>1
<1> QED BY <1>2, <1>3, <1>4 DEF Subsides

\* The copies of c become outdated, in batches that are no larger than before.
LEMMA OutdateCopies ==
    ASSUME TypeOK, Single, NEW c \in Crons, NEW STATE n, NEW STATE B,
           \A s \in Schedulers : B[s] \subseteq batch[s],
           NewOccurrence(c, n, B), UNCHANGED overran,
           \A d \in Crons : claim'[d] = claim[d] \/ (d = c /\ \E s \in Schedulers : Has(s, c) /\ \A k \in B[s] : k.cron # c)
    PROVE  Subsides
<1> DEFINE Mark(k) == [k EXCEPT !.stale = @ \/ k.cron = c]
<1>1. \A k \in Copies : /\ Mark(k).cron = k.cron /\ Mark(k).lease = k.lease /\ Mark(k).period = k.period
                        /\ k.stale => Mark(k).stale
  BY DEF Copies
<1>2. \A s \in Schedulers : batch'[s] = {Mark(k) : k \in B[s]} BY DEF NewOccurrence
<1>3. \A s \in Schedulers : B[s] \subseteq Copies BY DEF TypeOK
<1> HIDE DEF Mark
<1>4. \A s \in Schedulers : \A k \in batch'[s] : \E l \in batch[s] :
          l.cron = k.cron /\ l.lease = k.lease /\ l.period = k.period /\ (l.stale => k.stale)
  BY <1>1, <1>2, <1>3
<1>5. Single'
  <2> SUFFICES ASSUME NEW s \in Schedulers, NEW k \in batch'[s], NEW l \in batch'[s], k.cron = l.cron
               PROVE  k = l
    BY DEF Single
  <2>1. PICK x \in B[s], y \in B[s] : k = Mark(x) /\ l = Mark(y) BY <1>2
  <2>2. x.cron = y.cron BY <1>1, <1>3, <2>1
  <2>3. x = y BY <2>2 DEF Single
  <2> QED BY <2>1, <2>3
<1>6. ASSUME NEW s \in Schedulers, \A k \in B[s] : k.cron # c PROVE ~Has(s, c)'
  <2>1. \A k \in batch'[s] : k.cron # c BY <1>1, <1>2, <1>3, <1>6
  <2> QED BY <2>1 DEF Has
<1> QED BY <1>4, <1>5, <1>6 DEF Subsides

LEMMA UpdateOther ==
    ASSUME TypeOK, NEW c \in Crons, claim' = Update(claim, c, 0)
    PROVE  \A d \in Crons \ {c} : claim'[d] = claim[d]
BY DEF Update, TypeOK

LEMMA FireSubsides == \A s \in Schedulers : ClaimInv /\ Fire(s) => Subsides
<1> SUFFICES ASSUME NEW s \in Schedulers, ClaimInv, Fire(s) PROVE Subsides OBVIOUS
<1> USE DEF rowVars, fireVars, histVars
<1>1. TypeOK /\ Single BY DEF ClaimInv
<1>2. ASSUME NEW c \in Crons, Begin(s, c) PROVE Subsides
  BY <1>1, <1>2, SameBatches DEF Begin
<1>3. ASSUME NEW c \in Crons, Revoke(s, c) PROVE Subsides
  <2>1. \A d \in Crons \ {c} : claim'[d] = claim[d] BY <1>1, <1>3, UpdateOther DEF Revoke
  <2> QED BY <1>1, <1>3, <2>1, DropCopy DEF Revoke
<1>4. CASE PrepareRun(s) BY <1>1, <1>4, SameBatches DEF PrepareRun, Goto
<1>5. CASE PrepareFails(s) BY <1>1, <1>5, SameBatches DEF PrepareFails, Goto
<1>6. CASE Submit(s) BY <1>1, <1>6, SameBatches DEF Submit, Goto
<1>7. CASE SubmitFails(s) BY <1>1, <1>7, SameBatches DEF SubmitFails, Goto
<1>8. CASE Advance(s)
  <2>1. PICK c \in Crons : c = cur[s] /\ Has(s, c) BY <1>1, <1>8 DEF Advance, TypeOK
  <2>2. \A d \in Crons \ {c} : claim'[d] = claim[d] BY <1>1, <1>8, <2>1, UpdateOther DEF Advance
  <2>3. CASE batch' = Without(s, c)
    BY <1>1, <1>8, <2>1, <2>2, <2>3, DropCopy DEF Advance
  <2>4. CASE NewOccurrence(c, NextOccurrence(Copy(s).period), Without(s, c))
    <3>1. \A t \in Schedulers : Without(s, c)[t] \subseteq batch[t] BY <1>1 DEF Without, TypeOK
    <3>2. \A k \in Without(s, c)[s] : k.cron # c BY <1>1 DEF Without, TypeOK
    <3>3. UNCHANGED overran BY <1>8 DEF Advance
    <3> QED BY <1>1, <2>1, <2>2, <2>4, <3>1, <3>2, <3>3, OutdateCopies
  <2> QED BY <1>8, <2>1, <2>3, <2>4 DEF Advance
<1>9. CASE Release(s)
  <2>1. PICK c \in Crons : c = cur[s] /\ Has(s, c) BY <1>1, <1>9 DEF Release, TypeOK
  <2>2. \A d \in Crons \ {c} : claim'[d] = claim[d] BY <1>1, <1>9, <2>1, UpdateOther DEF Release
  <2> QED BY <1>1, <1>9, <2>1, <2>2, DropCopy DEF Release
<1>10. CASE WriteFails(s)
  <2>1. PICK c \in Crons : c = cur[s] /\ Has(s, c) BY <1>1, <1>10 DEF WriteFails, TypeOK
  <2> QED BY <1>1, <1>10, <2>1, DropCopy DEF WriteFails
<1> QED BY <1>2, <1>3, <1>4, <1>5, <1>6, <1>7, <1>8, <1>9, <1>10 DEF Fire

LEMMA OwnerSubsides == \A c \in Crons : ClaimInv /\ Owner(c) => Subsides
<1> SUFFICES ASSUME NEW c \in Crons, ClaimInv, Owner(c) PROVE Subsides OBVIOUS
<1> USE DEF rowVars, fireVars, histVars
<1>1. TypeOK /\ Single BY DEF ClaimInv
<1>2. ASSUME NEW p \in Periods \cup {None}, NEW on \in BOOLEAN \cup {None},
             NEW e \in {EndTicks, None}, Edit(c, p, on, e)
      PROVE  Subsides
  <2> DEFINE Given(new, old) == IF new = None THEN old ELSE new
             n == NextOccurrence(Given(p, period[c]))
  <2>1. UNCHANGED <<claim, overran>> BY <1>2 DEF Edit
  <2>2. CASE NewOccurrence(c, n, batch)
    <3> HIDE DEF n
    <3> QED BY <1>1, <2>1, <2>2, OutdateCopies
  <2>3. CASE UNCHANGED batch BY <1>1, <2>1, <2>3, SameBatches
  <2> QED BY <1>2, <2>2, <2>3 DEF Edit
<1>3. ASSUME NEW p \in Periods, NEW e \in {EndTicks, NoEnd}, NEW fires \in BOOLEAN, Insert(c, p, e, fires)
      PROVE  Subsides
  BY <1>1, <1>3, SameBatches DEF Insert
<1>4. CASE CountCrons(c) BY <1>1, <1>4, SameBatches DEF CountCrons
<1>5. CASE InsertFails(c) BY <1>1, <1>5, SameBatches DEF InsertFails
<1>6. CASE FirstRun(c) BY <1>1, <1>6, SameBatches DEF FirstRun
<1>7. CASE RollBack(c) BY <1>1, <1>7, SameBatches DEF RollBack, Remove
<1>8. CASE Delete(c) BY <1>1, <1>8, SameBatches DEF Delete, Remove
<1> QED BY <1>2, <1>3, <1>4, <1>5, <1>6, <1>7, <1>8 DEF Owner

LEMMA LoopSubsides == \A s \in Schedulers : ClaimInv /\ (Die(s) \/ Start(s)) => Subsides
<1> SUFFICES ASSUME NEW s \in Schedulers, ClaimInv, Die(s) \/ Start(s) PROVE Subsides OBVIOUS
<1> USE DEF rowVars, fireVars, histVars
<1>1. TypeOK /\ Single BY DEF ClaimInv
<1>2. CASE Die(s)
  <2>1. \A t \in Schedulers : batch'[t] = IF t = s THEN {} ELSE batch[t]
    BY <1>1, <1>2 DEF Die, TypeOK
  <2>2. Single' BY <1>1, <2>1 DEF Single
  <2>3. \A t \in Schedulers : batch'[t] \subseteq batch[t] BY <2>1
  <2>4. UNCHANGED <<claim, overran>> BY <1>2 DEF Die
  <2> QED BY <2>2, <2>3, <2>4 DEF Subsides
<1>3. CASE Start(s) BY <1>1, <1>3, SameBatches DEF Start
<1> QED BY <1>2, <1>3

LEMMA TickClaims == ClaimInv /\ TypeOK' /\ Tick => ClaimInv'
<1> SUFFICES ASSUME ClaimInv, TypeOK', Tick PROVE ClaimInv' OBVIOUS
<1>1. TypeOK /\ Single BY DEF ClaimInv
<1> DEFINE Aged(k) == [k EXCEPT !.ends = Nearer(@), !.lease = Less(@)]
<1>2. \A k \in Copies : Aged(k).cron = k.cron /\ Aged(k).lease = Less(k.lease) BY DEF Copies
<1>3. \A s \in Schedulers : batch'[s] = {Aged(k) : k \in batch[s]} BY DEF Tick
<1>4. \A s \in Schedulers : batch[s] \subseteq Copies BY <1>1 DEF TypeOK
<1> HIDE DEF Aged
<1>5. Single'
  <2> SUFFICES ASSUME NEW s \in Schedulers, NEW k \in batch'[s], NEW l \in batch'[s], k.cron = l.cron
               PROVE  k = l
    BY DEF Single
  <2>1. PICK x \in batch[s], y \in batch[s] : k = Aged(x) /\ l = Aged(y) BY <1>3
  <2>2. x.cron = y.cron BY <1>2, <1>4, <2>1
  <2>3. x = y BY <1>1, <2>2 DEF Single
  <2> QED BY <2>1, <2>3
<1>6. ASSUME NEW c \in Crons, NEW s \in Schedulers, Has(s, c)' PROVE Has(s, c)
  BY <1>2, <1>3, <1>4, <1>6 DEF Has
<1>7. ASSUME NEW c \in Crons \ overran' PROVE Exclusive(c)' /\ Leased(c)'
  <2>1. c \notin overran /\ c \notin Expiring BY <1>7 DEF Tick
  <2>2. Exclusive(c) /\ Leased(c) BY <2>1 DEF ClaimInv
  <2>3. Exclusive(c)' BY <1>6, <2>2 DEF Exclusive
  <2>4. ASSUME NEW s \in Schedulers, NEW k \in batch'[s], k.cron = c
        PROVE  k.lease > 0 /\ k.lease <= claim'[c]
    <3>1. PICK l \in batch[s] : k = Aged(l) BY <1>3
    <3>2. l \in Copies /\ l.cron = c /\ k.lease = Less(l.lease) BY <1>2, <1>4, <2>4, <3>1
    <3>3. l.lease # 1 BY <2>1, <3>2 DEF Expiring
    <3>4. l.lease > 0 /\ l.lease <= claim[c] BY <2>2, <3>2 DEF Leased
    <3>5. claim'[c] = Less(claim[c]) BY DEF Tick, ClaimsLeft
    <3>6. l.lease \in Nat /\ claim[c] \in Nat BY <1>1, <3>2, TimeAssumption DEF TypeOK, Copies
    <3> QED BY <3>2, <3>3, <3>4, <3>5, <3>6 DEF Less
  <2> QED BY <2>3, <2>4 DEF Leased
<1> QED BY <1>5, <1>7 DEF ClaimInv

LEMMA ClaimClaims == \A s \in Schedulers : ClaimInv /\ TypeOK' /\ Claim(s) => ClaimInv'
<1> SUFFICES ASSUME NEW s \in Schedulers, ClaimInv, TypeOK', Claim(s) PROVE ClaimInv' OBVIOUS
<1>1. TypeOK /\ Single BY DEF ClaimInv
<1>2. PICK C \in SUBSET Claimable :
          /\ claim' = [c \in Crons |-> IF c \in C THEN ClaimTicks ELSE claim[c]]
          /\ batch' = [batch EXCEPT ![s] = {CopyOf(c) : c \in C}]
  BY DEF Claim
<1>3. batch[s] = {} /\ UNCHANGED overran BY DEF Claim, histVars
<1>4. batch'[s] = {CopyOf(c) : c \in C} /\ \A t \in Schedulers \ {s} : batch'[t] = batch[t]
  BY <1>1, <1>2 DEF TypeOK
<1>5. \A c \in C : CopyOf(c).cron = c /\ CopyOf(c).lease = ClaimTicks /\ c \in Crons /\ claim[c] = 0
  BY <1>1 DEF CopyOf, Claimable, TypeOK
<1>6. \A k \in batch'[s] : k.cron \in C /\ k = CopyOf(k.cron) /\ k.lease = ClaimTicks
  BY <1>4, <1>5
<1>7. Single'
  <2> SUFFICES ASSUME NEW t \in Schedulers, NEW k \in batch'[t], NEW l \in batch'[t], k.cron = l.cron
               PROVE  k = l
    BY DEF Single
  <2>1. CASE t = s BY <1>6, <2>1
  <2>2. CASE t # s BY <1>1, <1>4, <2>2 DEF Single
  <2> QED BY <2>1, <2>2
<1>8. ASSUME NEW c \in Crons \ overran PROVE Exclusive(c)' /\ Leased(c)'
  <2>1. Exclusive(c) /\ Leased(c) BY <1>8 DEF ClaimInv
  <2>2. CASE c \in C
    <3>1. ASSUME NEW t \in Schedulers, NEW k \in batch[t], k.cron = c PROVE FALSE
      <4>1. k.lease > 0 /\ k.lease <= 0 BY <1>5, <2>1, <2>2, <3>1 DEF Leased
      <4>2. k.lease \in Nat BY <1>1, TimeAssumption DEF TypeOK, Copies
      <4> QED BY <4>1, <4>2
    <3>2. \A t \in Schedulers : Has(t, c)' => t = s BY <1>4, <3>1 DEF Has
    <3>3. claim'[c] = ClaimTicks BY <1>2, <2>2
    <3>4. \A t \in Schedulers : \A k \in batch'[t] : k.cron = c => k.lease = ClaimTicks
      BY <1>4, <1>6, <3>1
    <3> QED BY <3>2, <3>3, <3>4, TimeAssumption DEF Exclusive, Leased
  <2>3. CASE c \notin C
    <3>1. claim'[c] = claim[c] BY <1>2, <2>3
    <3>2. \A t \in Schedulers : \A k \in batch'[t] : k.cron = c => k \in batch[t]
      BY <1>4, <1>6, <2>3
    <3>3. \A t \in Schedulers : Has(t, c)' => Has(t, c) BY <3>2 DEF Has
    <3> QED BY <2>1, <3>1, <3>2, <3>3 DEF Exclusive, Leased
  <2> QED BY <2>2, <2>3
<1> QED BY <1>3, <1>7, <1>8 DEF ClaimInv

LEMMA TypeStep == TypeOK /\ [Next]_vars => TypeOK'
<1> SUFFICES ASSUME TypeOK, [Next]_vars PROVE TypeOK' OBVIOUS
<1>1. CASE DeleteThread
  <2>1. Bound \in SUBSET Crons OBVIOUS
  <2> QED BY <1>1, <2>1, SpendType, RemoveType DEF DeleteThread, Faults, TypeOK
<1>2. CASE UNCHANGED vars
  BY <1>2 DEF vars, rowVars, fireVars, runVars, histVars, TypeOK, Has
<1> QED BY <1>1, <1>2, TickType, SchedulerType, OwnerType DEF Next

LEMMA ClaimInvStep == ClaimInv /\ [Next]_vars => ClaimInv'
<1> SUFFICES ASSUME ClaimInv, [Next]_vars PROVE ClaimInv' OBVIOUS
<1>1. TypeOK /\ Single BY DEF ClaimInv
<1>2. TypeOK' BY <1>1, TypeStep
<1>3. CASE Tick BY <1>2, <1>3, TickClaims
<1>4. ASSUME NEW s \in Schedulers, Scheduler(s) PROVE ClaimInv'
  BY <1>2, <1>4, ClaimClaims, FireSubsides, LoopSubsides, SubsidesSuffices DEF Scheduler
<1>5. ASSUME NEW c \in Crons, Owner(c) PROVE ClaimInv'
  BY <1>2, <1>5, OwnerSubsides, SubsidesSuffices
<1>6. CASE DeleteThread
  <2>1. Subsides BY <1>1, <1>6, SameBatches DEF DeleteThread, Remove, fireVars
  <2> QED BY <1>2, <2>1, SubsidesSuffices
<1>7. CASE UNCHANGED vars
  <2>1. Subsides BY <1>1, <1>7, SameBatches DEF vars, rowVars, fireVars, histVars
  <2> QED BY <1>2, <2>1, SubsidesSuffices
<1> QED BY <1>3, <1>4, <1>5, <1>6, <1>7 DEF Next

-----------------------------------------------------------------------------
(* Occurrences *)

\* s holds a copy of c whose occurrence is still that of the row ...
Fresh(s, c) == \E k \in batch[s] : k.cron = c /\ ~k.stale

\* ... and has created a run for it.
Created(s, c) == cur[s] = c /\ pc[s] \in {"submit", "advance"}

\* Runs and copies belong to an occurrence that has come.
Present(c) ==
    /\ due[c] > 0 => made[c] = 0
    /\ \A s \in Schedulers : Fresh(s, c) => due[c] = 0
    /\ api[c] \in {"unborn", "counted"} =>
           c \notin rows /\ made[c] = 0 /\ \A s \in Schedulers : ~Has(s, c)

\* Every run but one has its excuse, and the one is being recorded, or the cron
\* is off.
Counted(c) ==
    /\ made[c] <= 1 + excuse[c]
    /\ \A s \in Schedulers : Fresh(s, c) /\ ~Created(s, c) => made[c] <= excuse[c]
    /\ c \in rows /\ enabled[c] /\ (\A s \in Schedulers : ~Fresh(s, c)) => made[c] <= excuse[c]

\* What a scheduler holds is what the row says.
Undisturbed(c) ==
    \A s \in Schedulers : Has(s, c) =>
        Fresh(s, c) /\ c \in rows /\ enabled[c] /\ (Created(s, c) => made[c] > 0)

Good(c) ==
    /\ Present(c)
    /\ c \notin overran => Counted(c)
    /\ c \notin overran \cup touched => Undisturbed(c)

IInv == ClaimInv /\ \A c \in Crons : Good(c)

LEMMA FreshHas == \A s, c : Fresh(s, c) => Has(s, c)
BY DEF Fresh, Has

LEMMA Types == IInv => /\ TypeOK /\ Single
                       /\ \A c \in Crons : /\ due[c] \in Nat /\ made[c] \in Nat /\ excuse[c] \in Nat
                                           /\ enabled[c] \in BOOLEAN /\ Good(c)
                                           /\ c \notin overran => Exclusive(c)
BY DEF IInv, ClaimInv, TypeOK, Delays

LEMMA CopyFresh ==
    ASSUME IInv, NEW s \in Schedulers, NEW c \in Crons, c = cur[s]
    PROVE  Has(s, c) /\ (Copy(s).stale <=> ~Fresh(s, c))
<1>1. TypeOK /\ Single BY Types
<1>2. Copy(s) \in batch[s] /\ Copy(s).cron = c BY <1>1, CopyType
<1> QED BY <1>1, <1>2 DEF Single, Fresh, Has

\* A step that leaves c alone: nothing of it changes but that its occurrence
\* may come.
Same(c) ==
    /\ \A s \in Schedulers : /\ Has(s, c)' <=> Has(s, c)
                             /\ Fresh(s, c)' <=> Fresh(s, c)
                             /\ Created(s, c)' <=> Created(s, c)
    /\ c \in rows' <=> c \in rows
    /\ enabled'[c] = enabled[c] /\ made'[c] = made[c] /\ excuse'[c] = excuse[c]
    /\ due[c] = 0 => due'[c] = 0
    /\ api'[c] \in {"unborn", "counted"} => api[c] \in {"unborn", "counted"}
    /\ overran \subseteq overran' /\ touched \subseteq touched'

LEMMA SameGood ==
    ASSUME IInv, TypeOK', NEW c \in Crons, Same(c)
    PROVE  Good(c)'
<1>1. due[c] \in Nat /\ due'[c] \in Nat BY DEF IInv, ClaimInv, TypeOK, Delays
<1>2. Good(c) BY DEF IInv
<1>3. Present(c)' BY <1>1, <1>2 DEF Same, Good, Present
<1>4. c \notin overran' => Counted(c)' BY <1>2 DEF Same, Good, Counted
<1>5. c \notin overran' \cup touched' => Undisturbed(c)' BY <1>2 DEF Same, Good, Undisturbed
<1> QED BY <1>3, <1>4, <1>5 DEF Good

\* What the operations on batches do to who holds what.
LEMMA KeepHolders ==
    ASSUME UNCHANGED batch
    PROVE  \A t \in Schedulers, c \in Crons : (Has(t, c)' <=> Has(t, c)) /\ (Fresh(t, c)' <=> Fresh(t, c))
BY DEF Has, Fresh

LEMMA DropHolder ==
    ASSUME TypeOK, NEW s \in Schedulers, NEW d \in Crons, batch' = Without(s, d)
    PROVE  \A t \in Schedulers, c \in Crons :
               /\ Has(t, c)' <=> Has(t, c) /\ ~(t = s /\ c = d)
               /\ Fresh(t, c)' <=> Fresh(t, c) /\ ~(t = s /\ c = d)
<1>1. \A t \in Schedulers : batch'[t] = IF t = s THEN {k \in batch[s] : k.cron # d} ELSE batch[t]
  BY DEF TypeOK, Without
<1> QED BY <1>1 DEF Has, Fresh

LEMMA OutdateHolders ==
    ASSUME TypeOK, NEW d \in Crons, NEW STATE n, NEW STATE B,
           \A s \in Schedulers : B[s] \subseteq batch[s],
           NewOccurrence(d, n, B)
    PROVE  \A t \in Schedulers, c \in Crons :
               /\ Has(t, c)' <=> \E k \in B[t] : k.cron = c
               /\ Fresh(t, c)' <=> c # d /\ \E k \in B[t] : k.cron = c /\ ~k.stale
<1> DEFINE Mark(k) == [k EXCEPT !.stale = @ \/ k.cron = d]
<1>1. \A k \in Copies : Mark(k).cron = k.cron /\ (Mark(k).stale <=> k.stale \/ k.cron = d)
  BY DEF Copies
<1>2. \A s \in Schedulers : batch'[s] = {Mark(k) : k \in B[s]} BY DEF NewOccurrence
<1>3. \A s \in Schedulers : B[s] \subseteq Copies BY DEF TypeOK
<1> HIDE DEF Mark
<1>4. ASSUME NEW t \in Schedulers, NEW c \in Crons
      PROVE  /\ (\E k \in batch'[t] : k.cron = c) <=> \E k \in B[t] : k.cron = c
             /\ (\E k \in batch'[t] : k.cron = c /\ ~k.stale) <=>
                    c # d /\ \E k \in B[t] : k.cron = c /\ ~k.stale
  BY <1>1, <1>2, <1>3
<1> QED BY <1>4 DEF Has, Fresh

\* The cron that s leaves is out of its hands, the others are untouched.
Leaves(s, d) ==
    \A t \in Schedulers, c \in Crons :
        /\ Has(t, c)' <=> Has(t, c) /\ ~(t = s /\ c = d)
        /\ Fresh(t, c)' <=> Fresh(t, c) /\ ~(t = s /\ c = d)
        /\ Created(t, c)' <=> Created(t, c) /\ ~(t = s /\ c = d)

LEMMA LeavesHolders ==
    ASSUME TypeOK, NEW s \in Schedulers, NEW d \in Crons, batch' = Without(s, d),
           (Loop(s) /\ cur[s] = d) \/ (UNCHANGED <<pc, cur>> /\ pc[s] = "ready")
    PROVE  Leaves(s, d)
<1>1. ASSUME NEW t \in Schedulers, NEW c \in Crons
      PROVE  Created(t, c)' <=> Created(t, c) /\ ~(t = s /\ c = d)
  BY DEF TypeOK, Loop, Created
<1> QED BY <1>1, DropHolder DEF Leaves

\* A firing of s moves on.
LEMMA GotoCreated ==
    ASSUME TypeOK, NEW s \in Schedulers, NEW d \in Crons, cur[s] = d, NEW step, Goto(s, step)
    PROVE  \A t \in Schedulers, c \in Crons :
               Created(t, c)' <=> IF t = s THEN c = d /\ step \in {"submit", "advance"} ELSE Created(t, c)
BY DEF TypeOK, Goto, Created

\* The rest of c does not change.
SameRow(c) ==
    /\ c \in rows' <=> c \in rows
    /\ enabled'[c] = enabled[c] /\ made'[c] = made[c] /\ excuse'[c] = excuse[c]
    /\ due'[c] = due[c] /\ api'[c] = api[c]
    /\ overran \subseteq overran' /\ touched \subseteq touched'

LEMMA TickGood == IInv /\ TypeOK' /\ Tick => \A c \in Crons : Good(c)'
<1> SUFFICES ASSUME IInv, TypeOK', Tick, NEW c \in Crons PROVE Good(c)' OBVIOUS
<1>1. TypeOK BY Types
<1> DEFINE Aged(k) == [k EXCEPT !.ends = Nearer(@), !.lease = Less(@)]
<1>2. \A k \in Copies : Aged(k).cron = k.cron /\ Aged(k).stale = k.stale BY DEF Copies
<1>3. \A s \in Schedulers : batch'[s] = {Aged(k) : k \in batch[s]} BY DEF Tick
<1>4. \A s \in Schedulers : batch[s] \subseteq Copies BY <1>1 DEF TypeOK
<1> HIDE DEF Aged
<1>5. ASSUME NEW s \in Schedulers
      PROVE  (Has(s, c)' <=> Has(s, c)) /\ (Fresh(s, c)' <=> Fresh(s, c))
  <2>1. \A k \in batch[s] : Aged(k) \in batch'[s] /\ Aged(k).cron = k.cron /\ Aged(k).stale = k.stale
    BY <1>2, <1>3, <1>4
  <2>2. \A k \in batch'[s] : \E l \in batch[s] : k.cron = l.cron /\ k.stale = l.stale
    BY <1>2, <1>3, <1>4
  <2> QED BY <2>1, <2>2 DEF Has, Fresh
<1>6. \A s \in Schedulers : Created(s, c)' <=> Created(s, c) BY DEF Tick, Created
<1>7. due[c] = 0 => due'[c] = 0 BY DEF Tick, Less
<1>8. Same(c) BY <1>5, <1>6, <1>7 DEF Tick, Same, runVars
<1> QED BY <1>8, SameGood

LEMMA ClaimGood == \A s \in Schedulers : IInv /\ TypeOK' /\ Claim(s) => \A c \in Crons : Good(c)'
<1> SUFFICES ASSUME NEW s \in Schedulers, IInv, TypeOK', Claim(s), NEW c \in Crons PROVE Good(c)'
  OBVIOUS
<1>1. TypeOK BY Types
<1>2. PICK C \in SUBSET Claimable : batch' = [batch EXCEPT ![s] = {CopyOf(d) : d \in C}]
  BY DEF Claim
<1>3. C \subseteq Claimable /\ Claimable \subseteq Crons BY <1>1 DEF Claimable, TypeOK
<1>4. batch[s] = {} /\ pc[s] = "ready" BY DEF Claim
<1>5. batch'[s] = {CopyOf(d) : d \in C} /\ \A t \in Schedulers \ {s} : batch'[t] = batch[t]
  BY <1>1, <1>2 DEF TypeOK
<1>6. \A d : CopyOf(d).cron = d /\ ~CopyOf(d).stale BY DEF CopyOf
<1>7. /\ (\E k \in batch'[s] : k.cron = c) <=> c \in C
      /\ (\E k \in batch'[s] : k.cron = c /\ ~k.stale) <=> c \in C
  <2>1. ASSUME c \in C PROVE CopyOf(c) \in batch'[s] BY <1>5, <2>1
  <2>2. \A k \in batch'[s] : k.cron \in C BY <1>5, <1>6
  <2> QED BY <1>6, <2>1, <2>2
<1>8. ~Has(s, c) /\ ~Fresh(s, c) BY <1>4 DEF Has, Fresh
<1>9. \A t \in Schedulers : /\ Has(t, c)' <=> Has(t, c) \/ (t = s /\ c \in C)
                            /\ Fresh(t, c)' <=> Fresh(t, c) \/ (t = s /\ c \in C)
  BY <1>5, <1>7, <1>8 DEF Has, Fresh
<1>10. \A t \in Schedulers : Created(t, c)' <=> Created(t, c) BY DEF Claim, Created
<1>11. ~Created(s, c) BY <1>4 DEF Created
<1>12. UNCHANGED <<rows, enabled, made, excuse, due, api, overran, touched>>
  BY DEF Claim, runVars, histVars
<1>13. CASE c \notin C
  <2>1. Same(c) BY <1>9, <1>10, <1>12, <1>13 DEF Same
  <2> QED BY <2>1, SameGood
<1>14. CASE c \in C
  <2>1. c \in rows /\ enabled[c] /\ due[c] = 0 /\ claim[c] = 0 BY <1>3, <1>14 DEF Claimable
  <2>2. Good(c) BY DEF IInv
  <2>3. Present(c)' BY <1>9, <1>12, <2>1, <2>2 DEF Good, Present
  <2>4. ASSUME c \notin overran PROVE (\A t \in Schedulers : ~Has(t, c)) /\ made[c] <= excuse[c]
    <3>1. Leased(c) BY <2>4 DEF IInv, ClaimInv
    <3>2. ASSUME NEW t \in Schedulers, NEW k \in batch[t], k.cron = c PROVE FALSE
      <4>1. k.lease > 0 /\ k.lease <= 0 BY <2>1, <3>1, <3>2 DEF Leased
      <4>2. k.lease \in Nat BY <1>1, TimeAssumption DEF TypeOK, Copies
      <4> QED BY <4>1, <4>2
    <3>3. \A t \in Schedulers : ~Has(t, c) BY <3>2 DEF Has
    <3>4. \A t \in Schedulers : ~Fresh(t, c) BY <3>3, FreshHas
    <3> QED BY <2>1, <2>2, <2>4, <3>3, <3>4 DEF Good, Counted
  <2>5. c \notin overran' => Counted(c)'
    BY <1>9, <1>10, <1>11, <1>12, <2>2, <2>4 DEF Good, Counted
  <2>6. c \notin overran' \cup touched' => Undisturbed(c)'
    BY <1>9, <1>10, <1>11, <1>12, <2>1, <2>4 DEF Undisturbed
  <2> QED BY <2>3, <2>5, <2>6 DEF Good
<1> QED BY <1>13, <1>14

\* What is left of c once s has dropped it, with its row as it was or off.
LEMMA Left ==
    ASSUME IInv, TypeOK', NEW s \in Schedulers, NEW c \in Crons, Has(s, c), Leaves(s, c),
           c \in rows' => c \in rows, made'[c] = made[c], due'[c] = due[c],
           c \in rows' /\ enabled'[c] => enabled[c] /\ (Fresh(s, c) => made[c] <= excuse'[c]),
           excuse[c] <= excuse'[c],
           UNCHANGED <<api, overran, touched>>
    PROVE  Good(c)'
<1>1. /\ due[c] \in Nat /\ made[c] \in Nat /\ excuse[c] \in Nat /\ excuse'[c] \in Nat
      /\ Good(c) /\ (c \notin overran => Exclusive(c))
  BY Types DEF TypeOK
<1>2. Present(c)' BY <1>1 DEF Leaves, Good, Present
<1>3. ASSUME c \notin overran PROVE \A t \in Schedulers : ~Has(t, c)' /\ ~Fresh(t, c)'
  BY <1>1, <1>3, FreshHas DEF Exclusive, Leaves
<1>4. ASSUME c \notin overran PROVE \A t \in Schedulers : Fresh(t, c) => t = s
  BY <1>1, <1>4, FreshHas DEF Exclusive
<1>5. ASSUME c \notin overran PROVE Counted(c)'
  <2>1. Counted(c) BY <1>1, <1>5 DEF Good
  <2>2. made'[c] <= 1 + excuse'[c] BY <1>1, <2>1 DEF Counted
  <2>3. c \in rows' /\ enabled'[c] => made'[c] <= excuse'[c]
    BY <1>1, <1>4, <1>5, <2>1 DEF Counted
  <2> QED BY <1>3, <1>5, <2>2, <2>3 DEF Counted
<1>6. c \notin overran => Undisturbed(c)' BY <1>3 DEF Undisturbed
<1> QED BY <1>2, <1>5, <1>6 DEF Good

LEMMA OtherLeft ==
    ASSUME IInv, TypeOK', NEW s \in Schedulers, NEW d \in Crons, Leaves(s, d),
           NEW c \in Crons, c # d, SameRow(c)
    PROVE  Good(c)'
<1>1. Same(c) BY DEF Leaves, SameRow, Same
<1> QED BY <1>1, SameGood

LEMMA UpdateSame ==
    ASSUME TypeOK, NEW d \in Crons, NEW v \in BOOLEAN, enabled' = Update(enabled, d, v)
    PROVE  \A c \in Crons : enabled'[c] = IF c = d /\ d \in rows THEN v ELSE enabled[c]
BY DEF TypeOK, Update

LEMMA BeginGood ==
    ASSUME IInv, TypeOK', NEW s \in Schedulers, NEW d \in Crons, Begin(s, d)
    PROVE  \A c \in Crons : Good(c)'
<1>1. TypeOK BY Types
<1> SUFFICES ASSUME NEW c \in Crons PROVE Good(c)' OBVIOUS
<1>2. \A t \in Schedulers : Created(t, c)' <=> Created(t, c) BY <1>1 DEF Begin, TypeOK, Created
<1>3. Same(c) BY <1>2, KeepHolders DEF Begin, Same, rowVars, runVars, histVars
<1> QED BY <1>3, SameGood

LEMMA RevokeGood ==
    ASSUME IInv, TypeOK', NEW s \in Schedulers, NEW d \in Crons, Revoke(s, d)
    PROVE  \A c \in Crons : Good(c)'
<1>1. TypeOK /\ d \in Crons BY Types
<1>2. Leaves(s, d) BY <1>1, LeavesHolders DEF Revoke
<1>3. Has(s, d) BY DEF Revoke
<1>4. \A c \in Crons : enabled'[c] = IF c = d /\ d \in rows THEN FALSE ELSE enabled[c]
  BY <1>1, UpdateSame DEF Revoke
<1>5. UNCHANGED <<rows, made, excuse, due, api, overran, touched>> BY DEF Revoke, runVars, histVars
<1>6. Good(d)'
  <2>1. excuse[d] <= excuse'[d] BY <1>1, <1>5 DEF TypeOK
  <2> QED BY <1>2, <1>3, <1>4, <1>5, <2>1, Left
<1>7. ASSUME NEW c \in Crons, c # d PROVE Good(c)'
  <2>1. SameRow(c) BY <1>4, <1>5, <1>7 DEF SameRow
  <2> QED BY <1>2, <1>7, <2>1, OtherLeft
<1> QED BY <1>6, <1>7

LEMMA PrepareRunGood ==
    ASSUME IInv, TypeOK', NEW s \in Schedulers, PrepareRun(s)
    PROVE  \A c \in Crons : Good(c)'
<1>1. TypeOK BY Types
<1>2. PICK d \in Crons : cur[s] = d BY <1>1 DEF PrepareRun, TypeOK
<1>3. Has(s, d) /\ (Copy(s).stale <=> ~Fresh(s, d)) BY <1>2, CopyFresh
<1>4. ~Created(s, d) /\ UNCHANGED batch BY DEF PrepareRun, Created, Goto
<1>5. \A t \in Schedulers, c \in Crons : Created(t, c)' <=> IF t = s THEN c = d ELSE Created(t, c)
  BY <1>1, <1>2, GotoCreated DEF PrepareRun
<1>6. \A c \in Crons : made'[c] = IF c = d /\ Fresh(s, d) THEN made[c] + 1 ELSE made[c]
  BY <1>1, <1>2, <1>3 DEF PrepareRun, TypeOK
<1>7. UNCHANGED <<rows, enabled, excuse, due, api, overran, touched>>
  BY DEF PrepareRun, rowVars, histVars
<1>8. \A t \in Schedulers, c \in Crons : (Has(t, c)' <=> Has(t, c)) /\ (Fresh(t, c)' <=> Fresh(t, c))
  BY <1>4, KeepHolders
<1>9. ASSUME NEW c \in Crons, c # d PROVE Good(c)'
  <2>1. \A t \in Schedulers : Created(t, c)' <=> Created(t, c)
    BY <1>2, <1>5, <1>9 DEF Created
  <2>2. Same(c) BY <1>6, <1>7, <1>8, <1>9, <2>1 DEF Same
  <2> QED BY <2>2, SameGood
<1>10. Good(d)'
  <2>1. /\ due[d] \in Nat /\ made[d] \in Nat /\ excuse[d] \in Nat
        /\ Good(d) /\ (d \notin overran => Exclusive(d))
    BY Types
  <2>2. Present(d)' BY <1>3, <1>6, <1>7, <1>8, <2>1 DEF Good, Present
  <2>3. ASSUME d \notin overran PROVE Counted(d)'
    <3>1. Counted(d) BY <2>1, <2>3 DEF Good
    <3>2. \A t \in Schedulers : Fresh(t, d) => t = s
      BY <1>3, <2>1, <2>3, FreshHas DEF Exclusive
    <3>3. CASE Fresh(s, d)
      <4>1. made[d] <= excuse[d] BY <1>4, <3>1, <3>3 DEF Counted
      <4>2. made'[d] <= 1 + excuse'[d] BY <1>6, <1>7, <2>1, <3>3, <4>1
      <4> QED BY <1>5, <1>8, <3>2, <3>3, <4>2 DEF Counted
    <3>4. CASE ~Fresh(s, d)
      <4>1. \A t \in Schedulers : ~Fresh(t, d) BY <3>2, <3>4
      <4> QED BY <1>6, <1>7, <1>8, <3>1, <3>4, <4>1 DEF Counted
    <3> QED BY <3>3, <3>4
  <2>4. ASSUME d \notin overran \cup touched PROVE Undisturbed(d)'
    <3>1. Undisturbed(d) BY <2>1, <2>4 DEF Good
    <3>2. Fresh(s, d) BY <1>3, <3>1 DEF Undisturbed
    <3>3. made'[d] > 0 BY <1>6, <2>1, <3>2
    <3> QED BY <1>7, <1>8, <3>1, <3>3 DEF Undisturbed
  <2> QED BY <1>7, <2>2, <2>3, <2>4 DEF Good
<1> QED BY <1>9, <1>10

LEMMA PrepareFailsGood ==
    ASSUME IInv, TypeOK', NEW s \in Schedulers, PrepareFails(s)
    PROVE  \A c \in Crons : Good(c)'
<1>1. TypeOK BY Types
<1>2. PICK d \in Crons : cur[s] = d BY <1>1 DEF PrepareFails, TypeOK
<1>3. UNCHANGED batch BY DEF PrepareFails, Goto
<1>4. \A t \in Schedulers, c \in Crons : Created(t, c)' <=> IF t = s THEN FALSE ELSE Created(t, c)
  BY <1>1, <1>2, GotoCreated DEF PrepareFails
<1>5. \A c \in Crons : ~Created(s, c) BY DEF PrepareFails, Created
<1>6. ASSUME NEW c \in Crons PROVE Same(c)
  BY <1>3, <1>4, <1>5, KeepHolders DEF PrepareFails, Same, rowVars, runVars, histVars
<1> QED BY <1>6, SameGood

LEMMA SubmitGood ==
    ASSUME IInv, TypeOK', NEW s \in Schedulers, Submit(s)
    PROVE  \A c \in Crons : Good(c)'
<1>1. TypeOK BY Types
<1>2. PICK d \in Crons : cur[s] = d BY <1>1 DEF Submit, TypeOK
<1>3. UNCHANGED batch BY DEF Submit, Goto
<1>4. \A t \in Schedulers, c \in Crons : Created(t, c)' <=> IF t = s THEN c = d ELSE Created(t, c)
  BY <1>1, <1>2, GotoCreated DEF Submit
<1>5. \A c \in Crons : Created(s, c) <=> c = d BY <1>2 DEF Submit, Created
<1>6. ASSUME NEW c \in Crons PROVE Same(c)
  BY <1>3, <1>4, <1>5, KeepHolders DEF Submit, Same, rowVars, runVars, histVars
<1> QED BY <1>6, SameGood

\* The excuse covers the run that s has created for its copy of d.
LEMMA ExcuseEffect ==
    ASSUME IInv, NEW s \in Schedulers, NEW d \in Crons, cur[s] = d, Excuse(s)
    PROVE  \A c \in Crons : excuse'[c] = IF c = d /\ Fresh(s, d) THEN excuse[c] + 1 ELSE excuse[c]
<1>1. TypeOK BY Types
<1>2. Copy(s).stale <=> ~Fresh(s, d) BY CopyFresh
<1> QED BY <1>1, <1>2 DEF Excuse, TypeOK

LEMMA SubmitFailsGood ==
    ASSUME IInv, TypeOK', NEW s \in Schedulers, SubmitFails(s)
    PROVE  \A c \in Crons : Good(c)'
<1>1. TypeOK BY Types
<1>2. PICK d \in Crons : cur[s] = d BY <1>1 DEF SubmitFails, TypeOK
<1>3. Has(s, d) BY <1>2, CopyFresh
<1>4. Created(s, d) /\ UNCHANGED batch BY <1>2 DEF SubmitFails, Created, Goto
<1>5. \A t \in Schedulers, c \in Crons : Created(t, c)' <=> IF t = s THEN FALSE ELSE Created(t, c)
  BY <1>1, <1>2, GotoCreated DEF SubmitFails
<1>6. \A c \in Crons : excuse'[c] = IF c = d /\ Fresh(s, d) THEN excuse[c] + 1 ELSE excuse[c]
  BY <1>2, ExcuseEffect DEF SubmitFails
<1>7. UNCHANGED <<rows, enabled, made, due, api, overran, touched>>
  BY DEF SubmitFails, rowVars, histVars
<1>8. \A t \in Schedulers, c \in Crons : (Has(t, c)' <=> Has(t, c)) /\ (Fresh(t, c)' <=> Fresh(t, c))
  BY <1>4, KeepHolders
<1>9. ASSUME NEW c \in Crons, c # d PROVE Good(c)'
  <2>1. \A t \in Schedulers : Created(t, c)' <=> Created(t, c)
    BY <1>2, <1>5, <1>9 DEF Created
  <2>2. Same(c) BY <1>6, <1>7, <1>8, <1>9, <2>1 DEF Same
  <2> QED BY <2>2, SameGood
<1>10. Good(d)'
  <2>1. /\ due[d] \in Nat /\ made[d] \in Nat /\ excuse[d] \in Nat
        /\ Good(d) /\ (d \notin overran => Exclusive(d))
    BY Types
  <2>2. Present(d)' BY <1>7, <1>8, <2>1 DEF Good, Present
  <2>3. ASSUME d \notin overran PROVE Counted(d)'
    <3>1. Counted(d) BY <2>1, <2>3 DEF Good
    <3>2. \A t \in Schedulers : Fresh(t, d) => t = s
      BY <1>3, <2>1, <2>3, FreshHas DEF Exclusive
    <3>3. made'[d] <= 1 + excuse'[d] BY <1>6, <1>7, <2>1, <3>1 DEF Counted
    <3>4. Fresh(s, d) => made'[d] <= excuse'[d] BY <1>6, <1>7, <2>1, <3>1 DEF Counted
    <3>5. (\A t \in Schedulers : ~Fresh(t, d)) /\ d \in rows /\ enabled[d] => made'[d] <= excuse'[d]
      BY <1>6, <1>7, <2>1, <3>1 DEF Counted
    <3> QED BY <1>7, <1>8, <3>2, <3>3, <3>4, <3>5 DEF Counted
  <2>4. ASSUME d \notin overran \cup touched PROVE Undisturbed(d)'
    <3>1. Undisturbed(d) BY <2>1, <2>4 DEF Good
    <3>2. \A t \in Schedulers : Created(t, d)' => Created(t, d) BY <1>5
    <3> QED BY <1>7, <1>8, <3>1, <3>2 DEF Undisturbed
  <2> QED BY <1>7, <2>2, <2>3, <2>4 DEF Good
<1> QED BY <1>9, <1>10

LEMMA AdvanceGood ==
    ASSUME IInv, TypeOK', NEW s \in Schedulers, Advance(s)
    PROVE  \A c \in Crons : Good(c)'
<1>1. TypeOK BY Types
<1>2. PICK d \in Crons : cur[s] = d BY <1>1 DEF Advance, TypeOK
<1>3. Has(s, d) BY <1>2, CopyFresh
<1>4. Loop(s) /\ UNCHANGED <<rows, api, overran, touched>> BY DEF Advance, histVars
<1>5. CASE batch' = Without(s, d) /\ UNCHANGED <<due, runVars>> /\ (Copy(s).ends = 0 \/ d \notin rows)
  <2>1. Leaves(s, d)
    <3>1. batch' = Without(s, d) /\ Loop(s) /\ cur[s] = d BY <1>2, <1>4, <1>5
    <3> QED BY <1>1, <3>1, LeavesHolders
  <2>2. \A c \in Crons : /\ c # d => enabled'[c] = enabled[c]
                         /\ ~(d \in rows /\ enabled'[d])
    BY <1>1, <1>2, <1>5, UpdateSame DEF Advance
  <2>3. Good(d)'
    <3>1. excuse[d] <= excuse'[d] BY <1>1, <1>5 DEF TypeOK, runVars
    <3> QED BY <1>3, <1>4, <1>5, <2>1, <2>2, <3>1, Left DEF runVars
  <2>4. ASSUME NEW c \in Crons, c # d PROVE Good(c)'
    <3>1. SameRow(c) BY <1>4, <1>5, <2>2, <2>4 DEF SameRow, runVars
    <3> QED BY <2>1, <2>4, <3>1, OtherLeft
  <2> QED BY <2>3, <2>4
<1>6. CASE NewOccurrence(d, NextOccurrence(Copy(s).period), Without(s, d)) /\ Copy(s).ends # 0
  <2>1. \A t \in Schedulers : Without(s, d)[t] = IF t = s THEN {k \in batch[s] : k.cron # d} ELSE batch[t]
    BY <1>1 DEF Without, TypeOK
  <2>2. \A t \in Schedulers : Without(s, d)[t] \subseteq batch[t] BY <2>1
  <2>3. \A t \in Schedulers, c \in Crons :
            /\ Has(t, c)' <=> \E k \in Without(s, d)[t] : k.cron = c
            /\ Fresh(t, c)' <=> c # d /\ \E k \in Without(s, d)[t] : k.cron = c /\ ~k.stale
    BY <1>1, <1>6, <2>2, OutdateHolders
  <2>4. \A t \in Schedulers, c \in Crons :
            /\ Has(t, c)' <=> Has(t, c) /\ ~(t = s /\ c = d)
            /\ Fresh(t, c)' <=> Fresh(t, c) /\ c # d
    <3> SUFFICES ASSUME NEW t \in Schedulers, NEW c \in Crons
                 PROVE  /\ Has(t, c)' <=> Has(t, c) /\ ~(t = s /\ c = d)
                        /\ Fresh(t, c)' <=> Fresh(t, c) /\ c # d
      OBVIOUS
    <3> HIDE <1>6
    <3>1. /\ (\E k \in Without(s, d)[t] : k.cron = c) <=> Has(t, c) /\ ~(t = s /\ c = d)
          /\ c # d => ((\E k \in Without(s, d)[t] : k.cron = c /\ ~k.stale) <=> Fresh(t, c))
      BY <2>1 DEF Has, Fresh
    <3> QED BY <2>3, <3>1
  <2>5. \A t \in Schedulers, c \in Crons : Created(t, c)' <=> Created(t, c) /\ ~(t = s /\ c = d)
    BY <1>1, <1>2, <1>4 DEF Created, Loop, TypeOK
  <2>6. \A c \in Crons \ {d} : made'[c] = made[c] /\ excuse'[c] = excuse[c] /\ due'[c] = due[c]
    BY <1>1, <1>6 DEF NewOccurrence, TypeOK
  <2>7. made'[d] = 0 /\ excuse'[d] = 0 BY <1>1, <1>6 DEF NewOccurrence, TypeOK
  <2>8. enabled' = enabled BY <1>2, <1>6 DEF Advance
  <2>9. ASSUME NEW c \in Crons, c # d PROVE Good(c)'
    <3>1. \A t \in Schedulers : /\ Has(t, c)' <=> Has(t, c)
                                /\ Fresh(t, c)' <=> Fresh(t, c)
                                /\ Created(t, c)' <=> Created(t, c)
      BY <2>4, <2>5, <2>9
    <3>2. Same(c) BY <1>4, <2>6, <2>8, <2>9, <3>1 DEF Same
    <3> QED BY <3>2, SameGood
  <2>10. Good(d)'
    <3>1. Good(d) /\ (d \notin overran => Exclusive(d)) BY Types
    <3>2. Present(d)' BY <1>3, <1>4, <2>4, <2>7, <3>1 DEF Good, Present
    <3>3. Counted(d)' BY <2>7 DEF Counted
    <3>4. ASSUME d \notin overran PROVE Undisturbed(d)'
      <4>1. \A t \in Schedulers : ~Has(t, d)' BY <1>3, <2>4, <3>1, <3>4 DEF Exclusive
      <4> QED BY <4>1 DEF Undisturbed
    <3> QED BY <1>4, <3>2, <3>3, <3>4 DEF Good
  <2> QED BY <2>9, <2>10
<1>7. \/ batch' = Without(s, d) /\ UNCHANGED <<due, runVars>> /\ (Copy(s).ends = 0 \/ d \notin rows)
      \/ NewOccurrence(d, NextOccurrence(Copy(s).period), Without(s, d)) /\ Copy(s).ends # 0
  BY <1>2 DEF Advance
<1> QED BY <1>5, <1>6, <1>7

LEMMA ReleaseGood ==
    ASSUME IInv, TypeOK', NEW s \in Schedulers, Release(s)
    PROVE  \A c \in Crons : Good(c)'
<1>1. TypeOK BY Types
<1>2. PICK d \in Crons : cur[s] = d BY <1>1 DEF Release, TypeOK
<1>3. Has(s, d) BY <1>2, CopyFresh
<1>4. Leaves(s, d) BY <1>1, <1>2, LeavesHolders DEF Release
<1>5. UNCHANGED <<rows, enabled, made, excuse, due, api, overran, touched>>
  BY DEF Release, runVars, histVars
<1>6. Good(d)'
  <2>1. excuse[d] <= excuse'[d] BY <1>1, <1>5 DEF TypeOK
  <2>2. ~Created(s, d) BY DEF Release, Created
  <2>3. CASE d \in overran
    <3>1. Good(d) BY Types
    <3>2. Present(d)' BY <1>4, <1>5, <3>1 DEF Leaves, Good, Present
    <3> QED BY <1>5, <2>3, <3>2 DEF Good
  <2>4. CASE d \notin overran
    <3>1. Counted(d) BY <2>4, Types DEF Good
    <3>2. Fresh(s, d) => made[d] <= excuse'[d] BY <1>5, <2>2, <3>1 DEF Counted
    <3> QED BY <1>3, <1>4, <1>5, <2>1, <3>2, Left
  <2> QED BY <2>3, <2>4
<1>7. ASSUME NEW c \in Crons, c # d PROVE Good(c)'
  <2>1. SameRow(c) BY <1>5 DEF SameRow
  <2> QED BY <1>4, <1>7, <2>1, OtherLeft
<1> QED BY <1>6, <1>7

LEMMA WriteFailsGood ==
    ASSUME IInv, TypeOK', NEW s \in Schedulers, WriteFails(s)
    PROVE  \A c \in Crons : Good(c)'
<1>1. TypeOK BY Types
<1>2. PICK d \in Crons : cur[s] = d BY <1>1 DEF WriteFails, TypeOK
<1>3. Has(s, d) BY <1>2, CopyFresh
<1>4. Leaves(s, d) BY <1>1, <1>2, LeavesHolders DEF WriteFails
<1>5. UNCHANGED <<rows, enabled, made, due, api, overran, touched>>
  BY DEF WriteFails, rowVars, histVars
<1>6. \A c \in Crons : excuse'[c] = IF c = d /\ Fresh(s, d) /\ Created(s, d) THEN excuse[c] + 1 ELSE excuse[c]
  <2>1. CASE pc[s] = "advance"
    <3>1. Created(s, d) BY <1>2, <2>1 DEF Created
    <3> QED BY <1>2, <2>1, <3>1, ExcuseEffect DEF WriteFails
  <2>2. CASE pc[s] # "advance"
    <3>1. ~Created(s, d) BY <2>2 DEF WriteFails, Created
    <3> QED BY <2>2, <3>1 DEF WriteFails
  <2> QED BY <2>1, <2>2
<1>7. Good(d)'
  <2>1. excuse[d] \in Nat /\ made[d] \in Nat BY Types
  <2>2. excuse[d] <= excuse'[d] BY <1>6, <2>1
  <2>3. CASE d \in overran
    <3>1. Good(d) BY Types
    <3>2. Present(d)' BY <1>4, <1>5, <3>1 DEF Leaves, Good, Present
    <3> QED BY <1>5, <2>3, <3>2 DEF Good
  <2>4. CASE d \notin overran
    <3>1. Counted(d) BY <2>4, Types DEF Good
    <3>2. Fresh(s, d) => made[d] <= excuse'[d] BY <1>6, <2>1, <3>1 DEF Counted
    <3> QED BY <1>3, <1>4, <1>5, <2>2, <3>2, Left
  <2> QED BY <2>3, <2>4
<1>8. ASSUME NEW c \in Crons, c # d PROVE Good(c)'
  <2>1. SameRow(c) BY <1>5, <1>6, <1>8 DEF SameRow
  <2> QED BY <1>4, <1>8, <2>1, OtherLeft
<1> QED BY <1>7, <1>8

LEMMA DieGood ==
    ASSUME IInv, TypeOK', NEW s \in Schedulers, Die(s)
    PROVE  \A c \in Crons : Good(c)'
<1> SUFFICES ASSUME NEW c \in Crons PROVE Good(c)' OBVIOUS
<1>1. TypeOK BY Types
<1>2. \A t \in Schedulers : batch'[t] = IF t = s THEN {} ELSE batch[t] BY <1>1 DEF Die, TypeOK
<1>3. \A t \in Schedulers : /\ Has(t, c)' <=> Has(t, c) /\ t # s
                            /\ Fresh(t, c)' <=> Fresh(t, c) /\ t # s
  BY <1>2 DEF Has, Fresh
<1>4. \A t \in Schedulers : Created(t, c)' <=> Created(t, c) /\ t # s
  BY <1>1 DEF Die, TypeOK, Created
<1>5. UNCHANGED <<rows, enabled, made, due, api, overran, touched>> BY DEF Die, rowVars, histVars
<1>6. excuse'[c] = IF Fresh(s, c) /\ Created(s, c) THEN excuse[c] + 1 ELSE excuse[c]
  <2>1. CASE pc[s] \in {"submit", "advance"}
    <3>1. PICK d \in Crons : cur[s] = d BY <1>1, <2>1 DEF TypeOK
    <3>2. Created(s, c) <=> c = d BY <2>1, <3>1 DEF Created
    <3> QED BY <2>1, <3>1, <3>2, ExcuseEffect DEF Die
  <2>2. CASE pc[s] \notin {"submit", "advance"} BY <2>2 DEF Die, Created
  <2> QED BY <2>1, <2>2
<1>7. CASE Has(s, c)
  <2>1. excuse[c] \in Nat /\ made[c] \in Nat /\ excuse[c] <= excuse'[c]
    <3>1. excuse[c] \in Nat /\ made[c] \in Nat BY Types
    <3> QED BY <1>6, <3>1
  <2>2. Good(c) /\ (c \notin overran => Exclusive(c)) BY Types
  <2>3. Present(c)' BY <1>3, <1>5, <2>2 DEF Good, Present
  <2>4. ASSUME c \notin overran PROVE Counted(c)' /\ Undisturbed(c)'
    <3>1. Counted(c) BY <2>2, <2>4 DEF Good
    <3>2. Fresh(s, c) => made[c] <= excuse'[c] BY <1>6, <2>1, <3>1 DEF Counted
    <3>3. \A t \in Schedulers : (Fresh(t, c) => t = s) /\ ~Has(t, c)'
      BY <1>3, <1>7, <2>2, <2>4, FreshHas DEF Exclusive
    <3>4. \A t \in Schedulers : ~Fresh(t, c)' BY <1>3, <3>3
    <3>5. made'[c] <= 1 + excuse'[c] BY <1>5, <1>6, <2>1, <3>1 DEF Counted
    <3>6. c \in rows' /\ enabled'[c] => made'[c] <= excuse'[c]
      BY <1>5, <2>1, <3>1, <3>2, <3>3, <1>6 DEF Counted
    <3> QED BY <3>3, <3>4, <3>5, <3>6 DEF Counted, Undisturbed
  <2> QED BY <1>5, <2>3, <2>4 DEF Good
<1>8. CASE ~Has(s, c)
  <2>1. ~Fresh(s, c) /\ ~Created(s, c)
    <3>1. ~Fresh(s, c) BY <1>8, FreshHas
    <3>2. cur[s] = c => Has(s, c) BY CopyFresh
    <3> QED BY <1>8, <3>1, <3>2 DEF Created
  <2>2. Same(c) BY <1>3, <1>4, <1>5, <1>6, <1>8, <2>1 DEF Same
  <2> QED BY <2>2, SameGood
<1> QED BY <1>7, <1>8

LEMMA SchedulerGood ==
    ASSUME IInv, TypeOK', NEW s \in Schedulers, Scheduler(s)
    PROVE  \A c \in Crons : Good(c)'
<1>1. CASE Start(s)
  <2> SUFFICES ASSUME NEW c \in Crons PROVE Good(c)' OBVIOUS
  <2>1. TypeOK BY Types
  <2>2. \A t \in Schedulers : Created(t, c)' <=> Created(t, c) BY <1>1, <2>1 DEF Start, TypeOK, Created
  <2>3. Same(c) BY <1>1, <2>2, KeepHolders DEF Start, Same, rowVars, runVars, histVars
  <2> QED BY <2>3, SameGood
<1>2. CASE Fire(s)
  BY <1>2, BeginGood, RevokeGood, PrepareRunGood, PrepareFailsGood, SubmitGood, SubmitFailsGood,
     AdvanceGood, ReleaseGood, WriteFailsGood DEF Fire
<1> QED BY <1>1, <1>2, ClaimGood, DieGood DEF Scheduler

-----------------------------------------------------------------------------
(* Owners *)

LEMMA KeepCreated ==
    ASSUME UNCHANGED <<pc, cur>>
    PROVE  \A t \in Schedulers, c \in Crons : Created(t, c)' <=> Created(t, c)
BY DEF Created

\* A request that changes no cron.
LEMMA RequestGood ==
    ASSUME IInv, TypeOK', UNCHANGED <<rowVars, fireVars, runVars, overran, touched>>,
           \A c \in Crons : api'[c] \in {"unborn", "counted"} => api[c] \in {"unborn", "counted"}
    PROVE  \A c \in Crons : Good(c)'
<1>1. UNCHANGED batch /\ UNCHANGED <<pc, cur>> BY DEF fireVars
<1>2. ASSUME NEW c \in Crons PROVE Same(c)
  BY <1>1, KeepHolders, KeepCreated DEF Same, rowVars, runVars
<1> QED BY <1>2, SameGood

LEMMA RemoveGood ==
    ASSUME IInv, TypeOK', NEW C \in SUBSET Crons, Remove(C),
           \A c \in Crons : api'[c] \in {"unborn", "counted"} => api[c] \in {"unborn", "counted"}
    PROVE  \A c \in Crons : Good(c)'
<1> SUFFICES ASSUME NEW c \in Crons PROVE Good(c)' OBVIOUS
<1>1. TypeOK BY Types
<1>2. UNCHANGED <<batch, pc, cur, due, made, excuse, overran>> BY DEF Remove, fireVars, runVars
<1>3. \A t \in Schedulers : /\ Has(t, c)' <=> Has(t, c)
                            /\ Fresh(t, c)' <=> Fresh(t, c)
                            /\ Created(t, c)' <=> Created(t, c)
  BY <1>2, KeepHolders, KeepCreated
<1>4. CASE c \notin C
  <2>1. c \in rows' <=> c \in rows BY <1>4 DEF Remove
  <2>2. enabled'[c] = enabled[c] BY <1>1, <1>4 DEF Remove, TypeOK
  <2>3. touched \subseteq touched' BY DEF Remove
  <2>4. Same(c) BY <1>2, <1>3, <2>1, <2>2, <2>3 DEF Same
  <2> QED BY <2>4, SameGood
<1>5. CASE c \in C
  <2>1. c \notin rows' BY <1>5 DEF Remove
  <2>2. Good(c) BY Types
  <2>3. Present(c)' BY <1>2, <1>3, <2>1, <2>2 DEF Good, Present
  <2>4. c \notin overran' => Counted(c)' BY <1>2, <1>3, <2>1, <2>2 DEF Good, Counted
  <2>5. ASSUME c \notin touched' PROVE \A t \in Schedulers : ~Has(t, c)
    BY <1>5, <2>5 DEF Remove, Holders
  <2>6. c \notin overran' \cup touched' => Undisturbed(c)' BY <1>3, <2>5 DEF Undisturbed
  <2> QED BY <2>3, <2>4, <2>6 DEF Good
<1> QED BY <1>4, <1>5

LEMMA InsertGood ==
    ASSUME IInv, TypeOK', NEW d \in Crons, NEW p \in Periods, NEW e \in {EndTicks, NoEnd},
           NEW fires \in BOOLEAN, Insert(d, p, e, fires)
    PROVE  \A c \in Crons : Good(c)'
<1> SUFFICES ASSUME NEW c \in Crons PROVE Good(c)' OBVIOUS
<1>1. TypeOK BY Types
<1>2. UNCHANGED <<batch, pc, cur, made, excuse, overran, touched>> BY DEF Insert, fireVars, runVars
<1>3. \A t \in Schedulers : /\ Has(t, c)' <=> Has(t, c)
                            /\ Fresh(t, c)' <=> Fresh(t, c)
                            /\ Created(t, c)' <=> Created(t, c)
  BY <1>2, KeepHolders, KeepCreated
<1>4. CASE c # d
  <2>1. /\ c \in rows' <=> c \in rows
        /\ enabled'[c] = enabled[c] /\ due'[c] = due[c] /\ api'[c] = api[c]
    BY <1>1, <1>4 DEF Insert, TypeOK
  <2>2. Same(c) BY <1>2, <1>3, <2>1 DEF Same
  <2> QED BY <2>2, SameGood
<1>5. CASE c = d
  <2>1. Good(c) /\ made[c] \in Nat /\ excuse[c] \in Nat BY Types
  <2>2. api[c] = "counted" /\ api'[c] \in {"inserted", "over"} BY <1>1, <1>5 DEF Insert, TypeOK
  <2>3. made[c] = 0 /\ \A t \in Schedulers : ~Has(t, c) BY <2>1, <2>2 DEF Good, Present
  <2>4. \A t \in Schedulers : ~Fresh(t, c) BY <2>3, FreshHas
  <2>5. Present(c)' BY <1>2, <1>3, <2>2, <2>3, <2>4 DEF Present
  <2>6. Counted(c)' BY <1>2, <2>1, <2>3 DEF Counted
  <2>7. Undisturbed(c)' BY <1>3, <2>3 DEF Undisturbed
  <2> QED BY <2>5, <2>6, <2>7 DEF Good
<1> QED BY <1>4, <1>5

LEMMA EditGood ==
    ASSUME IInv, TypeOK', NEW d \in Crons, NEW p \in Periods \cup {None},
           NEW on \in BOOLEAN \cup {None}, NEW e \in {EndTicks, None}, Edit(d, p, on, e)
    PROVE  \A c \in Crons : Good(c)'
<1> SUFFICES ASSUME NEW c \in Crons PROVE Good(c)' OBVIOUS
<1>1. TypeOK /\ Good(c) /\ due[c] \in Nat /\ made[c] \in Nat /\ excuse[c] \in Nat BY Types
<1>2. UNCHANGED <<rows, pc, cur, api, overran>> BY DEF Edit
<1>3. touched \subseteq touched' BY DEF Edit
<1>4. enabled'[c] = IF c = d /\ on # None THEN on ELSE enabled[c] BY <1>1 DEF Edit, TypeOK
<1>5. ASSUME d \notin touched' PROVE \A t \in Schedulers : ~Has(t, d)
  BY <1>5 DEF Edit, Holders
<1>6. \A t \in Schedulers : Created(t, c)' <=> Created(t, c) BY <1>2, KeepCreated
<1> DEFINE n == NextOccurrence(IF p = None THEN period[d] ELSE p)
<1>7. CASE NewOccurrence(d, n, batch)
  <2> HIDE DEF n
  <2>1. \A t \in Schedulers : /\ Has(t, c)' <=> Has(t, c)
                              /\ Fresh(t, c)' <=> c # d /\ Fresh(t, c)
    <3>1. \A t \in Schedulers : batch[t] \subseteq batch[t] OBVIOUS
    <3> QED BY <1>1, <1>7, <3>1, OutdateHolders DEF Has, Fresh
  <2>2. c # d => made'[c] = made[c] /\ excuse'[c] = excuse[c] /\ due'[c] = due[c]
    BY <1>1, <1>7 DEF NewOccurrence, TypeOK
  <2>3. c = d => made'[c] = 0 /\ excuse'[c] = 0 BY <1>1, <1>7 DEF NewOccurrence, TypeOK
  <2>4. CASE c # d
    <3>1. Same(c) BY <1>2, <1>3, <1>4, <1>6, <2>1, <2>2, <2>4 DEF Same
    <3> QED BY <3>1, SameGood
  <2>5. CASE c = d
    <3>1. c \in rows BY <2>5 DEF Edit
    <3>2. Present(c)' BY <1>1, <1>2, <2>1, <2>3, <2>5, <3>1 DEF Good, Present
    <3>3. Counted(c)' BY <2>3, <2>5 DEF Counted
    <3>4. c \notin touched' => Undisturbed(c)' BY <1>5, <2>1, <2>5 DEF Undisturbed
    <3> QED BY <3>2, <3>3, <3>4 DEF Good
  <2> QED BY <2>4, <2>5
<1>8. CASE UNCHANGED <<due, runVars, batch>> /\ ~(on = TRUE /\ due[d] = 0)
  <2>1. \A t \in Schedulers : (Has(t, c)' <=> Has(t, c)) /\ (Fresh(t, c)' <=> Fresh(t, c))
    BY <1>8, KeepHolders
  <2>2. UNCHANGED <<due, made, excuse>> BY <1>8 DEF runVars
  <2>3. CASE c # d
    <3>1. Same(c) BY <1>2, <1>3, <1>4, <1>6, <2>1, <2>2, <2>3 DEF Same
    <3> QED BY <3>1, SameGood
  <2>4. CASE c = d
    <3>1. Present(c)' BY <1>1, <1>2, <2>1, <2>2 DEF Good, Present
    <3>2. ASSUME c \notin overran PROVE Counted(c)'
      <4>1. Counted(c) BY <1>1, <3>2 DEF Good
      <4>2. due[c] > 0 => made[c] <= excuse[c] BY <1>1 DEF Good, Present
      <4>3. enabled'[c] => enabled[c] \/ due[c] > 0
        BY <1>1, <1>4, <1>8, <2>4
      <4> QED BY <1>2, <1>6, <2>1, <2>2, <4>1, <4>2, <4>3 DEF Counted
    <3>3. c \notin touched' => Undisturbed(c)' BY <1>5, <2>1, <2>4 DEF Undisturbed
    <3> QED BY <1>2, <3>1, <3>2, <3>3 DEF Good
  <2> QED BY <2>3, <2>4
<1>9. \/ NewOccurrence(d, n, batch)
      \/ UNCHANGED <<due, runVars, batch>> /\ ~(on = TRUE /\ due[d] = 0)
  BY DEF Edit
<1> QED BY <1>7, <1>8, <1>9

LEMMA OwnerGood ==
    ASSUME IInv, TypeOK', NEW d \in Crons, Owner(d)
    PROVE  \A c \in Crons : Good(c)'
<1>1. TypeOK BY Types
<1> USE DEF histVars
<1>2. CASE CountCrons(d)
  <2>1. \A c \in Crons : api'[c] \in {"unborn", "counted"} => api[c] \in {"unborn", "counted"}
    BY <1>1, <1>2 DEF CountCrons, TypeOK
  <2> QED BY <1>2, <2>1, RequestGood DEF CountCrons
<1>3. ASSUME api' = [api EXCEPT ![d] = "over"] \/ api' = [api EXCEPT ![d] = "rollback"]
      PROVE  \A c \in Crons : api'[c] \in {"unborn", "counted"} => api[c] \in {"unborn", "counted"}
  BY <1>1, <1>3 DEF TypeOK
<1>4. CASE InsertFails(d) BY <1>3, <1>4, RequestGood DEF InsertFails
<1>5. CASE FirstRun(d) BY <1>3, <1>5, RequestGood DEF FirstRun
<1>6. CASE RollBack(d)
  <2>1. \A c \in Crons : api'[c] \in {"unborn", "counted"} => api[c] \in {"unborn", "counted"}
    BY <1>3, <1>6 DEF RollBack
  <2>2. CASE Remove({d}) BY <2>1, <2>2, RemoveGood
  <2>3. CASE UNCHANGED <<clock, rowVars, fireVars, runVars, histVars>> BY <2>1, <2>3, RequestGood
  <2> QED BY <1>6, <2>2, <2>3 DEF RollBack
<1>7. CASE Delete(d) BY <1>7, RemoveGood DEF Delete
<1> QED BY <1>2, <1>4, <1>5, <1>6, <1>7, InsertGood, EditGood DEF Owner

LEMMA IInvStep == IInv /\ [Next]_vars => IInv'
<1> SUFFICES ASSUME IInv, [Next]_vars PROVE IInv' OBVIOUS
<1>1. TypeOK /\ ClaimInv BY Types DEF IInv
<1>2. TypeOK' /\ ClaimInv' BY <1>1, TypeStep, ClaimInvStep
<1>3. CASE DeleteThread
  <2>1. Bound \in SUBSET Crons OBVIOUS
  <2>2. \A c \in Crons : Good(c)' BY <1>2, <1>3, <2>1, RemoveGood DEF DeleteThread
  <2> QED BY <1>2, <2>2 DEF IInv
<1>4. CASE UNCHANGED vars
  <2>1. \A c \in Crons : Good(c)' BY <1>2, <1>4, RequestGood DEF vars, histVars
  <2> QED BY <1>2, <2>1 DEF IInv
<1> QED BY <1>2, <1>3, <1>4, TickGood, SchedulerGood, OwnerGood DEF Next, IInv

LEMMA InitInv == Init => IInv
<1> SUFFICES ASSUME Init PROVE IInv OBVIOUS
<1>1. TypeOK
  <2>1. NoEnd \in Ends /\ 0 \in Delays /\ 0 \in 0 .. ClaimTicks /\ 0 \in 0 .. Cycle - 1
    BY TimeAssumption DEF Ends, NoEnd, Delays
  <2>2. (CHOOSE p \in Periods : TRUE) \in Periods BY TimeAssumption
  <2> QED BY <2>1, <2>2 DEF Init, TypeOK, Steps, Requests, Has
<1>2. ClaimInv BY <1>1 DEF Init, ClaimInv, Single, Exclusive, Leased, Has
<1>3. \A c \in Crons : Good(c) BY DEF Init, Good, Present, Counted, Undisturbed, Has, Fresh
<1> QED BY <1>2, <1>3 DEF IInv

-----------------------------------------------------------------------------
(* The promise *)

\* No phase changes, or that of one cron does.
LEMMA QuietPhases ==
    ASSUME \A c \in Crons : PhaseOf(c)' = PhaseOf(c), UNCHANGED <<overran, touched, edits>>
    PROVE  UNCHANGED Promise!vars
BY DEF Promise!vars

LEMMA OnePhase ==
    ASSUME NEW d \in Crons, NEW from, NEW to,
           PhaseOf(d) \in from, PhaseOf(d)' = to,
           \A c \in Crons \ {d} : PhaseOf(c)' = PhaseOf(c),
           UNCHANGED <<overran, touched, edits>>
    PROVE  Promise!Become(d, from, to)
BY DEF Promise!Become

LEMMA EditPhases ==
    ASSUME TypeOK', overran \subseteq overran', touched \subseteq touched', edits' = edits + 1
    PROVE  Promise!Edit
BY DEF Promise!Edit, Promise!MayRace, Promise!Phases, PhaseOf, TypeOK

LEMMA SamePhase ==
    ASSUME UNCHANGED <<rows, enabled, due, made>>
    PROVE  \A c \in Crons : PhaseOf(c)' = PhaseOf(c)
BY DEF PhaseOf

LEMMA PhaseNames == \A c : PhaseOf(c) \in Promise!Phases
BY DEF PhaseOf, Promise!Phases

LEMMA TickPromise == IInv /\ TypeOK' /\ Tick => Promise!Pass
<1> SUFFICES ASSUME IInv, TypeOK', Tick PROVE Promise!Pass OBVIOUS
<1>1. UNCHANGED <<rows, enabled, made, touched, edits>> /\ overran \subseteq overran'
  BY DEF Tick, runVars
<1>2. ASSUME NEW c \in Crons
      PROVE  PhaseOf(c)' = PhaseOf(c) \/ (PhaseOf(c) = "waiting" /\ PhaseOf(c)' = "due")
  <2>1. due'[c] = Less(due[c]) BY DEF Tick
  <2>2. due[c] \in Nat /\ (due[c] > 0 => made[c] = 0) BY Types DEF Good, Present
  <2>3. CASE due[c] = 0
    <3>1. due'[c] = 0 BY <2>1, <2>3 DEF Less
    <3> QED BY <1>1, <2>3, <3>1 DEF PhaseOf
  <2>4. CASE due[c] > 0
    <3>1. due'[c] = 0 \/ due'[c] > 0 BY <2>1, <2>2 DEF Less
    <3> QED BY <1>1, <2>2, <2>4, <3>1 DEF PhaseOf
  <2> QED BY <2>2, <2>3, <2>4
<1>3. overran' \subseteq Crons /\ touched' \subseteq Crons BY DEF TypeOK
<1>4. \A c \in Crons : PhaseOf(c)' \in Promise!Phases BY DEF PhaseOf, Promise!Phases
<1> QED BY <1>1, <1>2, <1>3, <1>4 DEF Promise!Pass, Promise!MayRace

LEMMA FirePromise ==
    ASSUME IInv, NEW s \in Schedulers, Fire(s)
    PROVE  UNCHANGED Promise!vars \/ \E c \in Crons : Promise!Fire(c) \/ Promise!Advance(c) \/ Promise!SwitchOff(c)
<1>1. TypeOK BY Types
<1> USE DEF rowVars, runVars, histVars
<1>2. ASSUME NEW d \in Crons, Revoke(s, d)
      PROVE  UNCHANGED Promise!vars \/ Promise!SwitchOff(d)
  <2>1. \A c \in Crons : enabled'[c] = IF c = d /\ d \in rows THEN FALSE ELSE enabled[c]
    BY <1>1, <1>2, UpdateSame DEF Revoke
  <2>2. UNCHANGED <<rows, due, made, overran, touched, edits>> BY <1>2 DEF Revoke
  <2>3. \A c \in Crons \ {d} : PhaseOf(c)' = PhaseOf(c) BY <2>1, <2>2 DEF PhaseOf
  <2>4. CASE d \in rows
    <3>1. PhaseOf(d) \in Promise!Phases \ {"none"} BY <2>4 DEF PhaseOf, Promise!Phases
    <3>2. PhaseOf(d)' = "off" BY <2>1, <2>2, <2>4 DEF PhaseOf
    <3> QED BY <2>2, <2>3, <3>1, <3>2, OnePhase DEF Promise!SwitchOff
  <2>5. CASE d \notin rows
    <3>1. PhaseOf(d)' = PhaseOf(d) BY <2>2, <2>5 DEF PhaseOf
    <3> QED BY <2>2, <2>3, <3>1, QuietPhases
  <2> QED BY <2>4, <2>5
<1>3. ASSUME PrepareRun(s), NEW d \in Crons, cur[s] = d
      PROVE  UNCHANGED Promise!vars \/ Promise!Fire(d)
  <2>1. \A c \in Crons : made'[c] = IF c = d /\ Fresh(s, d) THEN made[c] + 1 ELSE made[c]
    BY <1>1, <1>3, CopyFresh DEF PrepareRun, TypeOK
  <2>2. UNCHANGED <<rows, enabled, due, overran, touched, edits>> BY <1>3 DEF PrepareRun
  <2>3. \A c \in Crons \ {d} : PhaseOf(c)' = PhaseOf(c) BY <2>1, <2>2 DEF PhaseOf
  <2>4. made[d] \in Nat /\ (Fresh(s, d) => due[d] = 0) BY Types DEF Good, Present
  <2>5. CASE PhaseOf(d) = "due" /\ Fresh(s, d)
    <3>1. PhaseOf(d)' = "fired" BY <2>1, <2>2, <2>4, <2>5 DEF PhaseOf
    <3> QED BY <2>2, <2>3, <2>5, <3>1, OnePhase DEF Promise!Fire
  <2>6. CASE ~(PhaseOf(d) = "due" /\ Fresh(s, d))
    <3>1. PhaseOf(d)' = PhaseOf(d) BY <2>1, <2>2, <2>4, <2>6 DEF PhaseOf
    <3> QED BY <2>2, <2>3, <3>1, QuietPhases
  <2> QED BY <2>5, <2>6
<1>4. ASSUME Advance(s), NEW d \in Crons, cur[s] = d
      PROVE  UNCHANGED Promise!vars \/ Promise!Advance(d) \/ Promise!SwitchOff(d)
  <2>1. UNCHANGED <<rows, overran, touched, edits>> BY <1>4 DEF Advance
  <2>2. CASE UNCHANGED <<due, made>> /\ (Copy(s).ends = 0 \/ d \notin rows)
    <3>1. \A c \in Crons : /\ c # d => enabled'[c] = enabled[c]
                           /\ d \in rows => ~enabled'[d]
      BY <1>1, <1>4, <2>2, UpdateSame DEF Advance
    <3>2. \A c \in Crons \ {d} : PhaseOf(c)' = PhaseOf(c) BY <2>1, <2>2, <3>1 DEF PhaseOf
    <3>3. CASE d \in rows
      <4>1. PhaseOf(d) \in Promise!Phases \ {"none"} BY <3>3 DEF PhaseOf, Promise!Phases
      <4>2. PhaseOf(d)' = "off" BY <2>1, <3>1, <3>3 DEF PhaseOf
      <4> QED BY <2>1, <3>2, <4>1, <4>2, OnePhase DEF Promise!SwitchOff
    <3>4. CASE d \notin rows
      <4>1. PhaseOf(d)' = PhaseOf(d) BY <2>1, <3>4 DEF PhaseOf
      <4> QED BY <2>1, <3>2, <4>1, QuietPhases
    <3> QED BY <3>3, <3>4
  <2>3. CASE NewOccurrence(d, NextOccurrence(Copy(s).period), Without(s, d)) /\ Copy(s).ends # 0
    <3>1. enabled' = enabled BY <1>4, <2>3 DEF Advance
    <3>2. \A c \in Crons \ {d} : made'[c] = made[c] /\ due'[c] = due[c]
      BY <1>1, <2>3 DEF NewOccurrence, TypeOK
    <3>3. due'[d] > 0
      <4>1. Copy(s) \in Copies BY <1>1, <1>4, CopyType
      <4>2. NextOccurrence(Copy(s).period) \in Delays \ {0} BY <1>1, <4>1, DelayType DEF Copies
      <4>3. NextOccurrence(Copy(s).period) > 0 BY <4>2 DEF Delays
      <4>4. due'[d] = NextOccurrence(Copy(s).period) BY <1>1, <2>3 DEF NewOccurrence, TypeOK
      <4> QED BY <4>3, <4>4
    <3>4. \A c \in Crons \ {d} : PhaseOf(c)' = PhaseOf(c) BY <2>1, <3>1, <3>2 DEF PhaseOf
    <3>5. PhaseOf(d)' = IF PhaseOf(d) \in {"none", "off"} THEN PhaseOf(d) ELSE "waiting"
      BY <2>1, <3>1, <3>3 DEF PhaseOf
    <3>6. CASE PhaseOf(d) \in {"none", "off", "waiting"}
      <4>1. PhaseOf(d)' = PhaseOf(d) BY <3>5, <3>6
      <4> QED BY <2>1, <3>4, <4>1, QuietPhases
    <3>7. CASE PhaseOf(d) = "fired"
      <4>1. PhaseOf(d)' = "waiting" BY <3>5, <3>7
      <4> QED BY <2>1, <3>4, <3>7, <4>1, OnePhase DEF Promise!Advance
    <3>8. CASE PhaseOf(d) = "due"
      <4>1. PhaseOf(d)' = "waiting" BY <3>5, <3>8
      <4>2. d \in overran \cup touched
        <5> SUFFICES ASSUME d \notin overran \cup touched PROVE FALSE OBVIOUS
        <5>1. Has(s, d) BY <1>4, CopyFresh
        <5>2. Undisturbed(d) BY Types DEF Good
        <5>3. Created(s, d) BY <1>4 DEF Advance, Created
        <5>4. made[d] > 0 BY <5>1, <5>2, <5>3 DEF Undisturbed
        <5>5. made[d] = 0 BY <3>8 DEF PhaseOf
        <5> QED BY <5>4, <5>5
      <4> QED BY <2>1, <3>4, <3>8, <4>1, <4>2, OnePhase DEF Promise!Advance
    <3>9. PhaseOf(d) \in {"none", "off", "waiting", "fired", "due"} BY DEF PhaseOf
    <3> QED BY <3>6, <3>7, <3>8, <3>9
  <2>4. \/ UNCHANGED <<due, made>> /\ (Copy(s).ends = 0 \/ d \notin rows)
        \/ NewOccurrence(d, NextOccurrence(Copy(s).period), Without(s, d)) /\ Copy(s).ends # 0
    BY <1>4 DEF Advance
  <2> QED BY <2>2, <2>3, <2>4
<1>5. ASSUME UNCHANGED <<rows, enabled, due, made, overran, touched, edits>> PROVE UNCHANGED Promise!vars
  BY <1>5, SamePhase, QuietPhases
<1>6. CASE \E c \in Crons : Begin(s, c) BY <1>5, <1>6 DEF Begin
<1>7. CASE PrepareFails(s) BY <1>5, <1>7 DEF PrepareFails
<1>8. CASE Submit(s) BY <1>5, <1>8 DEF Submit
<1>9. CASE SubmitFails(s) BY <1>5, <1>9 DEF SubmitFails
<1>10. CASE Release(s) BY <1>5, <1>10 DEF Release
<1>11. CASE WriteFails(s) BY <1>5, <1>11 DEF WriteFails
<1>12. CASE PrepareRun(s)
  <2>1. PICK d \in Crons : cur[s] = d BY <1>1, <1>12 DEF PrepareRun, TypeOK
  <2> QED BY <1>3, <1>12, <2>1
<1>13. CASE Advance(s)
  <2>1. PICK d \in Crons : cur[s] = d BY <1>1, <1>13 DEF Advance, TypeOK
  <2> QED BY <1>4, <1>13, <2>1
<1> QED BY <1>2, <1>6, <1>7, <1>8, <1>9, <1>10, <1>11, <1>12, <1>13 DEF Fire

LEMMA OwnerPromise ==
    ASSUME TypeOK', NEW c \in Crons, Owner(c)
    PROVE  UNCHANGED Promise!vars \/ Promise!Edit
<1> USE DEF rowVars, runVars, histVars
<1>1. ASSUME UNCHANGED <<rows, enabled, due, made, overran, touched, edits>> PROVE UNCHANGED Promise!vars
  BY <1>1, SamePhase, QuietPhases
<1>2. ASSUME NEW C, Remove(C) PROVE Promise!Edit BY <1>2, EditPhases DEF Remove
<1>3. CASE CountCrons(c) \/ InsertFails(c) \/ FirstRun(c)
  BY <1>1, <1>3 DEF CountCrons, InsertFails, FirstRun
<1>4. CASE RollBack(c) BY <1>1, <1>2, <1>4 DEF RollBack
<1>5. CASE Delete(c) BY <1>2, <1>5 DEF Delete
<1>6. ASSUME NEW p \in Periods, NEW e \in {EndTicks, NoEnd}, NEW fires \in BOOLEAN, Insert(c, p, e, fires)
      PROVE  Promise!Edit
  BY <1>6, EditPhases DEF Insert
<1>7. ASSUME NEW p \in Periods \cup {None}, NEW on \in BOOLEAN \cup {None},
             NEW e \in {EndTicks, None}, Edit(c, p, on, e)
      PROVE  Promise!Edit
  <2>1. overran \subseteq overran' /\ touched \subseteq touched' /\ edits' = edits + 1 BY <1>7 DEF Edit
  <2> QED BY <2>1, EditPhases
<1> QED BY <1>3, <1>4, <1>5, <1>6, <1>7 DEF Owner

LEMMA PromiseStep == IInv /\ [Next]_vars => [Promise!Next]_(Promise!vars)
<1> SUFFICES ASSUME IInv, [Next]_vars PROVE [Promise!Next]_(Promise!vars) OBVIOUS
<1>1. TypeOK' BY Types, TypeStep
<1> USE DEF rowVars, runVars, histVars
<1>2. CASE Tick BY <1>1, <1>2, TickPromise DEF Promise!Next
<1>3. ASSUME NEW s \in Schedulers, Scheduler(s) PROVE [Promise!Next]_(Promise!vars)
  <2>1. CASE Fire(s) BY <2>1, FirePromise DEF Promise!Next
  <2>2. CASE Claim(s) \/ Die(s) \/ Start(s)
    <3>1. UNCHANGED <<rows, enabled, due, made, overran, touched, edits>>
      BY <2>2 DEF Claim, Die, Start
    <3> QED BY <3>1, SamePhase, QuietPhases
  <2> QED BY <1>3, <2>1, <2>2 DEF Scheduler
<1>4. ASSUME NEW c \in Crons, Owner(c) PROVE [Promise!Next]_(Promise!vars)
  BY <1>1, <1>4, OwnerPromise DEF Promise!Next
<1>5. CASE DeleteThread
  <2>1. Promise!Edit BY <1>1, <1>5, EditPhases DEF DeleteThread, Remove
  <2> QED BY <2>1 DEF Promise!Next
<1>6. CASE UNCHANGED vars
  <2>1. UNCHANGED <<rows, enabled, due, made, overran, touched, edits>> BY <1>6 DEF vars
  <2> QED BY <2>1, SamePhase, QuietPhases
<1> QED BY <1>2, <1>3, <1>4, <1>5, <1>6 DEF Next

LEMMA PromiseInit == Init => Promise!Init
BY DEF Init, Promise!Init, PhaseOf

-----------------------------------------------------------------------------
(* The limit per user *)

\* A request that has counted and has not been overtaken still finds room for
\* its cron among those that were not overtaken either.
CapInv ==
    /\ TypeOK /\ IsFiniteSet(rows)
    /\ MaxPerUser # 0 =>
           /\ Cardinality(rows \ overtaken) <= MaxPerUser
           /\ \A c \in Crons \ overtaken :
                  api[c] = "counted" => Cardinality(rows \ overtaken) < MaxPerUser

\* Fewer crons, and no new count.
LEMMA CapKept ==
    ASSUME CapInv, TypeOK', rows' \subseteq rows, UNCHANGED overtaken,
           \A c \in Crons : api'[c] = "counted" => api[c] = "counted"
    PROVE  CapInv'
<1>1. IsFiniteSet(rows) BY DEF CapInv
<1>2. IsFiniteSet(rows') BY <1>1, FS_Subset
<1>3. rows' \ overtaken \subseteq rows \ overtaken /\ IsFiniteSet(rows \ overtaken)
  BY <1>1, FS_Difference
<1>4. IsFiniteSet(rows' \ overtaken) /\ Cardinality(rows' \ overtaken) <= Cardinality(rows \ overtaken)
  BY <1>3, FS_Subset
<1>5. Cardinality(rows' \ overtaken) \in Nat /\ Cardinality(rows \ overtaken) \in Nat
  BY <1>3, <1>4, FS_CardinalityType
<1> QED BY <1>2, <1>4, <1>5, LimitsAssumption DEF CapInv

LEMMA CapCount == \A c \in Crons : CapInv /\ TypeOK' /\ CountCrons(c) => CapInv'
<1> SUFFICES ASSUME NEW c \in Crons, CapInv, TypeOK', CountCrons(c) PROVE CapInv' OBVIOUS
<1>1. IsFiniteSet(rows) /\ UNCHANGED <<rows, overtaken>> BY DEF CapInv, CountCrons, rowVars, histVars
<1>2. rows \ overtaken \in SUBSET rows OBVIOUS
<1>3. Cardinality(rows \ overtaken) <= Cardinality(rows) /\ IsFiniteSet(rows \ overtaken)
  BY <1>1, <1>2, FS_Subset
<1>4. Cardinality(rows \ overtaken) \in Nat /\ Cardinality(rows) \in Nat
  BY <1>1, <1>3, FS_CardinalityType
<1>5. MaxPerUser # 0 => Cardinality(rows \ overtaken) < MaxPerUser
  BY <1>3, <1>4, LimitsAssumption DEF CountCrons
<1> QED BY <1>1, <1>4, <1>5, LimitsAssumption DEF CapInv

LEMMA CapInsert ==
    ASSUME CapInv, TypeOK', NEW c \in Crons, NEW p \in Periods, NEW e \in {EndTicks, NoEnd},
           NEW fires \in BOOLEAN, Insert(c, p, e, fires)
    PROVE  CapInv'
<1>1. /\ IsFiniteSet(rows) /\ rows' = rows \cup {c}
      /\ overtaken' = overtaken \cup {d \in Crons \ {c} : api[d] = "counted"}
  BY DEF CapInv, Insert
<1>2. \A d \in Crons \ overtaken' : api'[d] # "counted"
  <2>1. api'[c] # "counted" /\ \A d \in Crons \ {c} : api'[d] = api[d]
    BY DEF CapInv, Insert, TypeOK
  <2> QED BY <1>1, <2>1
<1>3. IsFiniteSet(rows') BY <1>1, FS_AddElement
<1>4. IsFiniteSet(rows \ overtaken) BY <1>1, FS_Difference
<1>5. Cardinality(rows \ overtaken) \in Nat BY <1>4, FS_CardinalityType
<1>6. ASSUME MaxPerUser # 0 PROVE Cardinality(rows' \ overtaken') <= MaxPerUser
  <2>1. CASE c \in overtaken
    <3>1. rows' \ overtaken' \subseteq rows \ overtaken BY <1>1, <2>1
    <3>2. Cardinality(rows' \ overtaken') <= Cardinality(rows \ overtaken) /\ IsFiniteSet(rows' \ overtaken')
      BY <1>4, <3>1, FS_Subset
    <3>3. Cardinality(rows' \ overtaken') \in Nat BY <3>2, FS_CardinalityType
    <3> QED BY <1>5, <1>6, <3>2, <3>3, LimitsAssumption DEF CapInv
  <2>2. CASE c \notin overtaken
    <3>1. rows' \ overtaken' \subseteq (rows \ overtaken) \cup {c} BY <1>1
    <3>2. /\ IsFiniteSet((rows \ overtaken) \cup {c})
          /\ Cardinality((rows \ overtaken) \cup {c}) <= Cardinality(rows \ overtaken) + 1
      <4>1. /\ IsFiniteSet((rows \ overtaken) \cup {c})
            /\ Cardinality((rows \ overtaken) \cup {c}) =
                   IF c \in rows \ overtaken THEN Cardinality(rows \ overtaken)
                   ELSE Cardinality(rows \ overtaken) + 1
        BY <1>4, FS_AddElement
      <4> QED BY <1>5, <4>1
    <3>3. /\ IsFiniteSet(rows' \ overtaken')
          /\ Cardinality(rows' \ overtaken') <= Cardinality((rows \ overtaken) \cup {c})
      BY <3>1, <3>2, FS_Subset
    <3>4. Cardinality(rows' \ overtaken') \in Nat /\ Cardinality((rows \ overtaken) \cup {c}) \in Nat
      BY <3>2, <3>3, FS_CardinalityType
    <3>5. Cardinality(rows \ overtaken) < MaxPerUser BY <1>6, <2>2 DEF CapInv, Insert
    <3> QED BY <1>5, <3>2, <3>3, <3>4, <3>5, LimitsAssumption
  <2> QED BY <2>1, <2>2
<1> QED BY <1>2, <1>3, <1>6 DEF CapInv

LEMMA CapStep == CapInv /\ [Next]_vars => CapInv'
<1> SUFFICES ASSUME CapInv, [Next]_vars PROVE CapInv' OBVIOUS
<1>1. TypeOK BY DEF CapInv
<1>2. TypeOK' BY <1>1, TypeStep
<1> USE DEF rowVars, histVars
<1>3. ASSUME UNCHANGED <<rows, overtaken, api>> PROVE CapInv' BY <1>2, <1>3, CapKept
<1>4. ASSUME NEW step \in Requests \ {"counted"}, NEW c \in Crons, api' = [api EXCEPT ![c] = step]
      PROVE  \A d \in Crons : api'[d] = "counted" => api[d] = "counted"
  BY <1>1, <1>4 DEF TypeOK
<1>5. ASSUME NEW C, Remove(C), \A d \in Crons : api'[d] = "counted" => api[d] = "counted"
      PROVE  CapInv'
  BY <1>2, <1>5, CapKept DEF Remove
<1>6. CASE Tick BY <1>3, <1>6 DEF Tick
<1>7. ASSUME NEW s \in Schedulers, Scheduler(s) PROVE CapInv'
  <2>1. UNCHANGED <<rows, overtaken, api>>
    BY <1>7 DEF Scheduler, Claim, Fire, Die, Start, Begin, Revoke, PrepareRun, PrepareFails, Submit,
                SubmitFails, Advance, Release, WriteFails
  <2> QED BY <1>3, <2>1
<1>8. ASSUME NEW c \in Crons, Owner(c) PROVE CapInv'
  <2>1. CASE CountCrons(c) BY <1>2, <2>1, CapCount
  <2>2. CASE InsertFails(c)
    <3>1. api' = [api EXCEPT ![c] = "over"] /\ UNCHANGED <<rows, overtaken>> BY <2>2 DEF InsertFails
    <3> QED BY <1>2, <1>4, <3>1, CapKept DEF Requests
  <2>3. CASE FirstRun(c)
    <3>1. /\ api' = [api EXCEPT ![c] = "over"] \/ api' = [api EXCEPT ![c] = "rollback"]
          /\ UNCHANGED <<rows, overtaken>>
      BY <2>3 DEF FirstRun
    <3> QED BY <1>2, <1>4, <3>1, CapKept DEF Requests
  <2>4. CASE RollBack(c)
    <3>1. \A d \in Crons : api'[d] = "counted" => api[d] = "counted"
      BY <1>4, <2>4 DEF RollBack, Requests
    <3> QED BY <1>2, <1>5, <2>4, <3>1, CapKept DEF RollBack
  <2>5. CASE Delete(c) BY <1>5, <2>5 DEF Delete
  <2>6. ASSUME NEW p \in Periods, NEW e \in {EndTicks, NoEnd}, NEW fires \in BOOLEAN, Insert(c, p, e, fires)
        PROVE  CapInv'
    BY <1>2, <2>6, CapInsert
  <2>7. ASSUME NEW p \in Periods \cup {None}, NEW on \in BOOLEAN \cup {None},
               NEW e \in {EndTicks, None}, Edit(c, p, on, e)
        PROVE  CapInv'
    BY <1>3, <2>7 DEF Edit
  <2> QED BY <1>8, <2>1, <2>2, <2>3, <2>4, <2>5, <2>6, <2>7 DEF Owner
<1>9. CASE DeleteThread BY <1>5, <1>9 DEF DeleteThread
<1>10. CASE UNCHANGED vars BY <1>3, <1>10 DEF vars
<1> QED BY <1>6, <1>7, <1>8, <1>9, <1>10 DEF Next

LEMMA CapInit == Init => CapInv
<1> SUFFICES ASSUME Init PROVE CapInv OBVIOUS
<1>1. TypeOK BY InitInv DEF IInv, ClaimInv
<1>2. {} \ {} = {} /\ IsFiniteSet({}) /\ Cardinality({}) = 0 BY FS_EmptySet
<1> QED BY <1>1, <1>2, LimitsAssumption DEF Init, CapInv

-----------------------------------------------------------------------------
(* Theorems *)

LEMMA Invariance == Spec => []IInv
BY InitInv, IInvStep, PTL DEF Spec

\* Every variable keeps its type; a scheduler that fires a cron has a copy of
\* its row.
THEOREM TypeCorrect == Spec => []TypeOK
<1>1. IInv => TypeOK BY Types
<1> QED BY <1>1, Invariance, PTL

\* Two schedulers never hold the same cron, unless a firing outlived its claim:
\* whatever owners edit and delete, and wherever schedulers are killed.
THEOREM ClaimsExclude == Spec => []ClaimExcludes
<1>1. IInv => ClaimExcludes BY Types DEF ClaimExcludes, Holders, Exclusive
<1> QED BY <1>1, Invariance, PTL

\* As long as claims last, no occurrence is fired more than once but for the
\* firings that created a run and did not come to record it.
THEOREM DuplicatesHaveReasons == Spec => []DuplicatesAreExcused
<1>1. IInv => DuplicatesAreExcused BY Types DEF DuplicatesAreExcused, Good, Counted
<1> QED BY <1>1, Invariance, PTL

\* The schedulers, their claims and their crashes implement what a cron
\* promises its owner: no occurrence is passed by without a run.
THEOREM PromiseKept == Spec => CronPromise
BY PromiseInit, PromiseStep, Invariance, PTL DEF Spec, CronPromise, Promise!Spec

\* The limit of crons per user is exceeded by at most the creations that another
\* one overtook between their count and their insert.
THEOREM LimitHolds == Spec => []CapHoldsButForRaces
<1>1. CapInv => CapHoldsButForRaces
  <2> SUFFICES ASSUME CapInv, MaxPerUser # 0
               PROVE  Cardinality(rows) <= MaxPerUser + Cardinality(rows \cap overtaken)
    BY DEF CapHoldsButForRaces
  <2>1. IsFiniteSet(rows) /\ Cardinality(rows \ overtaken) <= MaxPerUser BY DEF CapInv
  <2>2. Cardinality(rows \ overtaken) = Cardinality(rows) - Cardinality(rows \cap overtaken)
    BY <2>1, FS_Difference
  <2>3. IsFiniteSet(rows \cap overtaken)
    <3>1. rows \cap overtaken \in SUBSET rows OBVIOUS
    <3> QED BY <2>1, <3>1, FS_Subset
  <2>4. Cardinality(rows) \in Nat /\ Cardinality(rows \cap overtaken) \in Nat
    BY <2>1, <2>3, FS_CardinalityType
  <2> QED BY <2>1, <2>2, <2>4, LimitsAssumption
<1> QED BY <1>1, CapInit, CapStep, PTL DEF Spec
=============================================================================
