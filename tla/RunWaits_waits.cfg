SPECIFICATION FairSpec
CONSTANTS
    Waiters = {w1, w2}
    Reapers = {p}
    Retries = {0, 1}
    MaxAttempts = 2
    Budgets <- SomeMeet
INVARIANTS AnswerIsFinal
PROPERTIES CleanUpWaits EveryWaitEnds
CHECK_DEADLOCK FALSE
