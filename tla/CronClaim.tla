------------------------------ MODULE CronClaim ------------------------------
(***************************************************************************)
(* Crons and the schedulers that fire them: cron_scheduler.py,             *)
(* cron_service.py and api/crons.py.  Every server process polls the       *)
(* table, claims the due crons in one transaction, and then fires them one *)
(* after the other from the row copies it was returned, each in its own    *)
(* transactions, while owners create, change and delete crons.             *)
(*                                                                         *)
(* Instants are relative: due and claim count the ticks until              *)
(* next_run_date and claimed_until, 0 standing for "passed" (and for no    *)
(* claim).  A schedule, with its time zone, is a period: its occurrences   *)
(* are the multiples of the period on the wall clock, which is known       *)
(* modulo Cycle.                                                           *)
(***************************************************************************)
EXTENDS Integers, FiniteSets

CONSTANTS
    Crons,          \* ids of the crons that may be created
    Bound,          \* those bound to the one thread of the model
    Schedulers,     \* one CronScheduler per server process
    Periods,        \* the schedules owners use
    Cycle,          \* a common multiple of the periods
    ClaimTicks,     \* CRON_CLAIM_DURATION_SECONDS
    EndTicks,       \* the furthest end_time an owner sets
    BatchSize,      \* CRON_TICK_BATCH_SIZE
    MaxPerUser,     \* CRON_MAX_PER_USER, 0 for no limit
    None,           \* no cron
    Budget          \* model bound on each kind of disturbance

\* Kinds of disturbances; "any" bounds them all together.
Faults == {"any", "crash", "slow", "prepare", "submit", "db", "revoke", "edit", "drop"}

ASSUME CronsAssumption == None \notin Crons /\ Bound \subseteq Crons
ASSUME TimeAssumption ==
    /\ Cycle \in Nat \ {0}
    /\ Periods # {} /\ Periods \subseteq {p \in 1 .. Cycle : Cycle % p = 0}
    /\ ClaimTicks \in Nat \ {0}
    /\ EndTicks \in Nat
ASSUME LimitsAssumption ==
    /\ BatchSize \in Nat \ {0}
    /\ MaxPerUser \in Nat
    /\ Budget \in [Faults -> Nat]

NoEnd == EndTicks + 1       \* end_time is NULL
Ends == 0 .. NoEnd
Delays == 0 .. 2 * Cycle    \* two occurrences ahead at most

VARIABLES
    clock,                          \* wall clock modulo Cycle
    rows, enabled, period, due, claim, ends,    \* table of crons
    threadUp,                       \* the thread of the bound crons exists
    pc, batch, cur,                 \* of a scheduler: step, row copies left to fire, present cron
    api,                            \* progress of the request that creates a cron
    made, excuse,                   \* runs of the present occurrence, reasons for duplicates
    overran, touched, overtaken, edits, spent   \* history

rowVars  == <<rows, enabled, period, due, claim, ends>>
fireVars == <<pc, batch, cur>>
runVars  == <<made, excuse>>
histVars == <<overran, touched, overtaken, edits>>
vars == <<clock, rowVars, threadUp, fireVars, api, runVars, histVars, spent>>

Steps == {"down", "ready", "prepare", "submit", "advance", "release"}
Requests == {"unborn", "counted", "inserted", "rollback", "over"}

\* A row copy returned by `get_due_crons`: what is used of it, the end of the
\* claim, and whether next_run_date of the row has been replaced since.
Copies == [cron : Crons, period : Periods, ends : Ends, lease : 0 .. ClaimTicks, stale : BOOLEAN]

Has(s, c) == \E k \in batch[s] : k.cron = c

TypeOK ==
    /\ clock \in 0 .. Cycle - 1
    /\ rows \subseteq Crons
    /\ enabled \in [Crons -> BOOLEAN]
    /\ period \in [Crons -> Periods]
    /\ due \in [Crons -> Delays]
    /\ claim \in [Crons -> 0 .. ClaimTicks]
    /\ ends \in [Crons -> Ends]
    /\ threadUp \in BOOLEAN
    /\ pc \in [Schedulers -> Steps]
    /\ batch \in [Schedulers -> SUBSET Copies]
    /\ cur \in [Schedulers -> Crons \cup {None}]
    /\ \A s \in Schedulers :
           /\ cur[s] = None <=> pc[s] \in {"down", "ready"}
           /\ cur[s] # None => Has(s, cur[s])
           /\ pc[s] = "down" => batch[s] = {}
    /\ api \in [Crons -> Requests]
    /\ made \in [Crons -> Nat]
    /\ excuse \in [Crons -> Nat]
    /\ overran \subseteq Crons
    /\ touched \subseteq Crons
    /\ overtaken \subseteq Crons
    /\ edits \in Nat
    /\ spent \in [Faults -> Nat]

Init ==
    /\ clock = 0
    /\ rows = {}
    /\ enabled = [c \in Crons |-> FALSE]
    /\ period = [c \in Crons |-> CHOOSE p \in Periods : TRUE]
    /\ due = [c \in Crons |-> 0]
    /\ claim = [c \in Crons |-> 0]
    /\ ends = [c \in Crons |-> NoEnd]
    /\ threadUp = TRUE
    /\ pc = [s \in Schedulers |-> "ready"]
    /\ batch = [s \in Schedulers |-> {}]
    /\ cur = [s \in Schedulers |-> None]
    /\ api = [c \in Crons |-> "unborn"]
    /\ made = [c \in Crons |-> 0]
    /\ excuse = [c \in Crons |-> 0]
    /\ overran = {} /\ touched = {} /\ overtaken = {}
    /\ edits = 0
    /\ spent = [f \in Faults |-> 0]

\* The disturbance f happens, within its bound and the common one.
Spend(f) ==
    /\ spent[f] < Budget[f] /\ spent["any"] < Budget["any"]
    /\ spent' = [spent EXCEPT ![f] = @ + 1, !["any"] = @ + 1]

\* Ticks until the first occurrence of schedule p after the present instant.
NextOccurrence(p) == p - (clock % p)

Holders(c) == {s \in Schedulers : Has(s, c)}

\* next_run_date of c is replaced, and the copies of it in the batches B are
\* outdated; runs of the former occurrence are not those of the new one.
NewOccurrence(c, ticks, B) ==
    /\ due' = [due EXCEPT ![c] = ticks]
    /\ made' = [made EXCEPT ![c] = 0]
    /\ excuse' = [excuse EXCEPT ![c] = 0]
    /\ batch' = [s \in Schedulers |->
                    {[k EXCEPT !.stale = @ \/ k.cron = c] : k \in B[s]}]

\* An UPDATE by cron_id does nothing once the row is gone.
Update(col, c, val) == IF c \in rows THEN [col EXCEPT ![c] = val] ELSE col

-----------------------------------------------------------------------------
(* The clock *)

Less(n) == IF n = 0 THEN 0 ELSE n - 1
Nearer(e) == IF e = NoEnd THEN NoEnd ELSE Less(e)

\* Mutant of ClaimsLeft: get_due_crons asks for claimed_until IS NULL only.
ClaimsKept == claim

ClaimsLeft == [c \in Crons |-> Less(claim[c])]

\* Crons whose claim expires in the coming tick while they are being fired.
Expiring == {c \in Crons : \E s \in Schedulers : \E k \in batch[s] : k.cron = c  /\ k.lease = 1}

\* A tick of the wall clock.  That a claim expires while its scheduler is still
\* firing the batch is a disturbance: fires are slow.
Tick ==
    /\ IF Expiring = {} THEN UNCHANGED spent ELSE Spend("slow")
    /\ clock' = (clock + 1) % Cycle
    /\ due' = [c \in Crons |-> Less(due[c])]
    /\ claim' = ClaimsLeft
    /\ ends' = [c \in Crons |-> Nearer(ends[c])]
    /\ batch' = [s \in Schedulers |->
                    {[k EXCEPT !.ends = Nearer(@), !.lease = Less(@)] : k \in batch[s]}]
    /\ overran' = overran \cup Expiring
    /\ UNCHANGED <<rows, enabled, period, threadUp, pc, cur, api, runVars, touched, overtaken, edits>>

-----------------------------------------------------------------------------
(* A scheduler *)

\* Mutant of Claimable: whoever else claimed it.
DueCrons == {c \in rows : enabled[c] /\ due[c] = 0}

Claimable == {c \in rows : enabled[c] /\ due[c] = 0 /\ claim[c] = 0}

CopyOf(c) == [cron |-> c, period |-> period[c], ends |-> ends[c], lease |-> ClaimTicks, stale |-> FALSE]

\* `get_due_crons`: SELECT ... LIMIT ... FOR UPDATE SKIP LOCKED and UPDATE ...
\* RETURNING in one transaction.  The order among overdue crons is left open.
Claim(s) ==
    /\ pc[s] = "ready" /\ batch[s] = {}
    /\ \E C \in SUBSET Claimable :
        /\ C # {}
        /\ Cardinality(C) = BatchSize \/ (C = Claimable /\ Cardinality(C) < BatchSize)
        /\ claim' = [c \in Crons |-> IF c \in C THEN ClaimTicks ELSE claim[c]]
        /\ batch' = [batch EXCEPT ![s] = {CopyOf(c) : c \in C}]
    /\ UNCHANGED <<clock, rows, enabled, period, due, ends, threadUp, pc, cur, api, runVars, histVars, spent>>

\* The row copy that s is firing.
Copy(s) == CHOOSE k \in batch[s] : k.cron = cur[s]

Without(s, c) == [batch EXCEPT ![s] = {k \in @ : k.cron # c}]

\* The loop of `_tick` goes on with the next cron.
Loop(s) ==
    /\ pc' = [pc EXCEPT ![s] = "ready"]
    /\ cur' = [cur EXCEPT ![s] = None]

Goto(s, step) ==
    /\ pc' = [pc EXCEPT ![s] = step]
    /\ UNCHANGED <<batch, cur>>

\* The loop of `_tick` takes a cron; its owner passes `_validate_cron_user`.
Begin(s, c) ==
    /\ pc[s] = "ready" /\ Has(s, c)
    /\ pc' = [pc EXCEPT ![s] = "prepare"]
    /\ cur' = [cur EXCEPT ![s] = c]
    /\ UNCHANGED <<clock, rowVars, threadUp, batch, api, runVars, histVars, spent>>

\* The owner fails it: the cron is disabled.
Revoke(s, c) ==
    /\ pc[s] = "ready" /\ Has(s, c)
    /\ Spend("revoke")
    /\ enabled' = Update(enabled, c, FALSE)
    /\ claim' = Update(claim, c, 0)
    /\ batch' = Without(s, c)
    /\ UNCHANGED <<clock, rows, period, due, ends, threadUp, pc, cur, api, runVars, histVars>>

\* `_prepare_run` commits the run; it creates a thread that does not exist.
PrepareRun(s) ==
    /\ pc[s] = "prepare"
    /\ made' = IF Copy(s).stale THEN made ELSE [made EXCEPT ![cur[s]] = @ + 1]
    /\ threadUp' = (threadUp \/ cur[s] \in Bound)
    /\ Goto(s, "submit")
    /\ UNCHANGED <<clock, rowVars, api, excuse, histVars, spent>>

\* It fails before the commit of the run (graph gone, database error).
PrepareFails(s) ==
    /\ pc[s] = "prepare"
    /\ Spend("prepare")
    /\ threadUp' \in {threadUp, threadUp \/ cur[s] \in Bound}
    /\ Goto(s, "release")
    /\ UNCHANGED <<clock, rowVars, api, runVars, histVars>>

\* The run of s exists, but its cron will not move on.
Excuse(s) ==
    excuse' = IF Copy(s).stale THEN excuse ELSE [excuse EXCEPT ![cur[s]] = @ + 1]

\* Mutant of Submit: the run created is not handed on to `_fire_cron`.
SubmitForgets(s) ==
    /\ pc[s] = "submit"
    /\ Goto(s, "release")
    /\ UNCHANGED <<clock, rowVars, threadUp, api, runVars, histVars, spent>>

Submit(s) ==
    /\ pc[s] = "submit"
    /\ Goto(s, "advance")
    /\ UNCHANGED <<clock, rowVars, threadUp, api, runVars, histVars, spent>>

\* The run is committed but `executor.submit` raises: it counts as not created.
SubmitFails(s) ==
    /\ pc[s] = "submit"
    /\ Spend("submit")
    /\ Excuse(s)
    /\ Goto(s, "release")
    /\ UNCHANGED <<clock, rowVars, threadUp, api, made, histVars>>

\* `advance_next_run`, from the copy and whatever the row says by now.
Advance(s) ==
    LET c == cur[s]
        ended == Copy(s).ends = 0
        left == Without(s, c)
    IN
    /\ pc[s] = "advance"
    /\ Loop(s)
    /\ claim' = Update(claim, c, 0)
    /\ enabled' = IF ended THEN Update(enabled, c, FALSE) ELSE enabled
    /\ IF ended \/ c \notin rows
       THEN batch' = left /\ UNCHANGED <<due, runVars>>
       ELSE NewOccurrence(c, NextOccurrence(Copy(s).period), left)
    /\ UNCHANGED <<clock, rows, period, ends, threadUp, api, histVars, spent>>

\* Mutant of Release: the cron moves on whether its run was created or not.
MovesOn(s) ==
    /\ pc[s] = "release"
    /\ Loop(s)
    /\ claim' = Update(claim, cur[s], 0)
    /\ NewOccurrence(cur[s], NextOccurrence(Copy(s).period), Without(s, cur[s]))
    /\ UNCHANGED <<clock, rows, enabled, period, ends, threadUp, api, histVars, spent>>

\* The run could not be created: the claim is released, the cron stays due.
Release(s) ==
    /\ pc[s] = "release"
    /\ Loop(s)
    /\ batch' = Without(s, cur[s])
    /\ claim' = Update(claim, cur[s], 0)
    /\ UNCHANGED <<clock, rows, enabled, period, due, ends, threadUp, api, runVars, histVars, spent>>

\* The last transaction of a firing raises: `_tick` logs, and the claim stays.
WriteFails(s) ==
    /\ pc[s] \in {"advance", "release"}
    /\ Spend("db")
    /\ IF pc[s] = "advance" THEN Excuse(s) ELSE UNCHANGED excuse
    /\ Loop(s)
    /\ batch' = Without(s, cur[s])
    /\ UNCHANGED <<clock, rowVars, threadUp, api, made, histVars>>

\* The process is killed, or stop() cancels the loop, which may be anywhere.
Die(s) ==
    /\ pc[s] # "down"
    /\ Spend("crash")
    /\ IF pc[s] \in {"submit", "advance"} THEN Excuse(s) ELSE UNCHANGED excuse
    /\ pc' = [pc EXCEPT ![s] = "down"]
    /\ batch' = [batch EXCEPT ![s] = {}]
    /\ cur' = [cur EXCEPT ![s] = None]
    /\ UNCHANGED <<clock, rowVars, threadUp, api, made, histVars>>

Start(s) ==
    /\ pc[s] = "down"
    /\ pc' = [pc EXCEPT ![s] = "ready"]
    /\ UNCHANGED <<clock, rowVars, threadUp, batch, cur, api, runVars, histVars, spent>>

-----------------------------------------------------------------------------
(* Owners *)

\* Mutant of CountCrons: the limit itself still passes.
CountLoosely(c) ==
    /\ api[c] = "unborn"
    /\ MaxPerUser = 0 \/ Cardinality(rows) <= MaxPerUser
    /\ c \in Bound => threadUp
    /\ api' = [api EXCEPT ![c] = "counted"]
    /\ UNCHANGED <<clock, rowVars, threadUp, fireVars, runVars, histVars, spent>>

\* `create_cron` counts the crons of the user; a thread-bound cron needs its
\* thread (create_cron_for_thread).
CountCrons(c) ==
    /\ api[c] = "unborn"
    /\ MaxPerUser = 0 \/ Cardinality(rows) < MaxPerUser
    /\ c \in Bound => threadUp
    /\ api' = [api EXCEPT ![c] = "counted"]
    /\ UNCHANGED <<clock, rowVars, threadUp, fireVars, runVars, histVars, spent>>

\* It inserts the row.  An enabled cron fires at once, and its next_run_date is
\* then the second occurrence from now.
Insert(c, p, e, fires) ==
    LET first == NextOccurrence(p) IN
    /\ api[c] = "counted"
    /\ c \in Bound => threadUp
    /\ rows' = rows \cup {c}
    /\ enabled' = [enabled EXCEPT ![c] = fires]
    /\ period' = [period EXCEPT ![c] = p]
    /\ due' = [due EXCEPT ![c] = IF fires THEN first + p ELSE first]
    /\ ends' = [ends EXCEPT ![c] = e]
    /\ overtaken' = overtaken \cup {d \in Crons \ {c} : api[d] = "counted"}
    /\ api' = [api EXCEPT ![c] = IF fires THEN "inserted" ELSE "over"]
    /\ edits' = edits + 1
    /\ UNCHANGED <<clock, claim, threadUp, fireVars, runVars, overran, touched, spent>>

\* The thread went since the check: the foreign key refuses the row.
InsertFails(c) ==
    /\ api[c] = "counted"
    /\ c \in Bound /\ ~threadUp
    /\ api' = [api EXCEPT ![c] = "over"]
    /\ UNCHANGED <<clock, rowVars, threadUp, fireVars, runVars, histVars, spent>>

\* `_trigger_first_run`: as for a scheduler, a missing thread is created.
FirstRun(c) ==
    /\ api[c] = "inserted"
    /\ \/ /\ api' = [api EXCEPT ![c] = "over"]
          /\ threadUp' = (threadUp \/ c \in Bound)
          /\ UNCHANGED spent
       \/ /\ api' = [api EXCEPT ![c] = "rollback"]
          /\ threadUp' \in {threadUp, threadUp \/ c \in Bound}
          /\ Spend("prepare")
    /\ UNCHANGED <<clock, rowVars, fireVars, runVars, histVars>>

\* The rows C go; who holds one of them fires a cron that exists no more.
Remove(C) ==
    /\ rows' = rows \ C
    /\ enabled' = [c \in Crons |-> enabled[c] /\ c \notin C]
    /\ touched' = touched \cup {c \in C : Holders(c) # {}}
    /\ edits' = edits + 1
    /\ UNCHANGED <<clock, period, due, claim, ends, fireVars, runVars, overran, overtaken>>

\* A cron whose first run failed is deleted again, unless the delete fails too.
RollBack(c) ==
    /\ api[c] = "rollback"
    /\ api' = [api EXCEPT ![c] = "over"]
    /\ IF c \in rows
       THEN \/ Remove({c}) /\ UNCHANGED spent
            \/ Spend("db") /\ UNCHANGED <<clock, rowVars, fireVars, runVars, histVars>>
       ELSE UNCHANGED <<clock, rowVars, fireVars, runVars, histVars, spent>>
    /\ UNCHANGED threadUp

Delete(c) ==
    /\ c \in rows
    /\ Spend("drop")
    /\ Remove({c})
    /\ UNCHANGED <<threadUp, api>>

\* Deleting the thread takes its crons with it (ON DELETE CASCADE).
DeleteThread ==
    /\ threadUp
    /\ Spend("drop")
    /\ Remove(Bound)
    /\ threadUp' = FALSE
    /\ UNCHANGED api

\* `update_cron`, under a row lock: a schedule p, or enabling an overdue cron,
\* recomputes next_run_date; claimed_until stays.  None leaves a field alone.
Edit(c, p, on, e) ==
    LET Given(new, old) == IF new = None THEN old ELSE new IN
    /\ c \in rows
    /\ Spend("edit")
    /\ period' = [period EXCEPT ![c] = Given(p, @)]
    /\ enabled' = [enabled EXCEPT ![c] = Given(on, @)]
    /\ ends' = [ends EXCEPT ![c] = Given(e, @)]
    /\ IF p # None \/ (on = TRUE /\ due[c] = 0)
       THEN NewOccurrence(c, NextOccurrence(Given(p, period[c])), batch)
       ELSE UNCHANGED <<due, runVars, batch>>
    /\ touched' = IF Holders(c) = {} THEN touched ELSE touched \cup {c}
    /\ edits' = edits + 1
    /\ UNCHANGED <<clock, rows, claim, threadUp, pc, cur, api, overran, overtaken>>

-----------------------------------------------------------------------------
Fire(s) ==
    \/ \E c \in Crons : Begin(s, c) \/ Revoke(s, c)
    \/ PrepareRun(s) \/ PrepareFails(s) \/ Submit(s) \/ SubmitFails(s)
    \/ Advance(s) \/ Release(s) \/ WriteFails(s)

Scheduler(s) == Claim(s) \/ Fire(s) \/ Die(s) \/ Start(s)

Owner(c) ==
    \/ CountCrons(c) \/ InsertFails(c) \/ FirstRun(c) \/ RollBack(c) \/ Delete(c)
    \/ \E p \in Periods, e \in {EndTicks, NoEnd}, fires \in BOOLEAN : Insert(c, p, e, fires)
    \/ \E p \in Periods \cup {None}, on \in BOOLEAN \cup {None}, e \in {EndTicks, None} : Edit(c, p, on, e)

Next ==
    \/ Tick
    \/ \E s \in Schedulers : Scheduler(s)
    \/ \E c \in Crons : Owner(c)
    \/ DeleteThread

Spec == Init /\ [][Next]_vars

\* Time passes, every loop of a scheduler goes on, a process that died is
\* started again.  Nothing an owner does is forced.
FairSpec ==
    /\ Spec
    /\ WF_vars(Tick)
    /\ \A s \in Schedulers : WF_vars(Claim(s) \/ Fire(s) \/ Start(s))

-----------------------------------------------------------------------------
(* Properties *)

\* `claimed_until` keeps schedulers apart: as long as no firing of a cron has
\* outlived its claim, one scheduler at most has it in its batch.
ClaimExcludes ==
    \A c \in Crons \ overran : \A s, t \in Holders(c) : s = t

\* While claims last, an occurrence is fired again only for the reason the
\* docstring of get_due_crons admits: once more for every firing that created
\* its run and then died, or failed to enqueue it or to record it.
DuplicatesAreExcused == \A c \in Crons \ overran : made[c] <= 1 + excuse[c]

\* CRON_MAX_PER_USER is exceeded by at most the crons whose request was
\* overtaken by another between its count and its insert.
CapHoldsButForRaces ==
    MaxPerUser # 0 =>
        Cardinality(rows) <= MaxPerUser + Cardinality(rows \cap overtaken)

\* The next run of an enabled cron is an occurrence of its own schedule.
NextRunFollowsSchedule ==
    \A c \in rows : enabled[c] /\ due[c] > 0 => (clock + due[c]) % period[c] = 0

Unserved(c) == c \in rows /\ enabled[c] /\ due[c] = 0 /\ made[c] = 0

\* A due cron is fired, disabled, changed or deleted in the end, whatever
\* schedulers crash, and whatever claims they leave behind.
DueIsServed == \A c \in Crons : Unserved(c) ~> ~Unserved(c)

\* No occurrence is passed by without a run, and a cron that is off stays off,
\* unless its owner acts or a firing races with an edit or outlives its claim.
PhaseOf(c) ==
    IF c \notin rows THEN "none"
    ELSE IF ~enabled[c] THEN "off"
    ELSE IF due[c] > 0 THEN "waiting"
    ELSE IF made[c] = 0 THEN "due" ELSE "fired"

Promise == INSTANCE CronPromise WITH
    phase <- [c \in Crons |-> PhaseOf(c)],
    raced <- overran \cup touched

CronPromise == Promise!Spec
=============================================================================
