----------------------------- MODULE CronPromise -----------------------------
(***************************************************************************)
(* What a cron promises its owner, without schedulers, claims or clocks:   *)
(* an occurrence that comes due while the cron is enabled is fired at      *)
(* least once before the cron moves on, and a cron that is off stays off   *)
(* until its owner acts.  Only a race (an edit under a firing, a firing    *)
(* that outlived its claim) may pass an occurrence by.                     *)
(***************************************************************************)
EXTENDS Naturals

CONSTANT Crons

VARIABLES
    phase,      \* "none", "off", "waiting", "due" or "fired"
    raced,      \* crons for which a race has occurred
    edits       \* number of changes the owners have made

vars == <<phase, raced, edits>>

Phases == {"none", "off", "waiting", "due", "fired"}

Init == phase = [c \in Crons |-> "none"] /\ raced = {} /\ edits = 0

Become(c, from, to) ==
    /\ phase[c] \in from
    /\ phase' = [phase EXCEPT ![c] = to]
    /\ UNCHANGED <<raced, edits>>

MayRace == raced \subseteq raced' /\ raced' \subseteq Crons

\* Time passes: occurrences come due, firings may outlive their claims.
Pass ==
    /\ phase' \in [Crons -> Phases]
    /\ \A c \in Crons : phase'[c] = phase[c] \/ (phase[c] = "waiting" /\ phase'[c] = "due")
    /\ MayRace
    /\ UNCHANGED edits

\* A run is created for the occurrence; later ones are duplicates of it.
Fire(c) == Become(c, {"due"}, "fired")

\* The cron moves on to its next occurrence.
Advance(c) ==
    \/ Become(c, {"fired"}, "waiting")
    \/ Become(c, {"due"}, "waiting") /\ c \in raced

\* The cron ended, or its owner is not known any more.
SwitchOff(c) == Become(c, Phases \ {"none"}, "off")

\* The owner creates, changes or deletes crons.
Edit ==
    /\ phase' \in [Crons -> Phases]
    /\ MayRace
    /\ edits' = edits + 1

Next == Pass \/ Edit \/ \E c \in Crons : Fire(c) \/ Advance(c) \/ SwitchOff(c)

Spec == Init /\ [][Next]_vars
=============================================================================
