SPECIFICATION Spec
CONSTANTS
    Waiters = {w1}
    Reapers = {p}
    Retries = {0, 1}
    MaxAttempts = 1
    Budgets <- OneCancel
INVARIANT CancelSettles
CHECK_DEADLOCK FALSE
