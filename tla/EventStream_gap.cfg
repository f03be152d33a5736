SPECIFICATION Spec
CONSTANTS
    Procs = {"p1", "p2"}
    Readers = {"r1"}
    ProcOf <- ServedByP1
    MaxEvents = 2
    MaxConns = 1
    BufCap = 10
    StampBase = 100
    Budgets <- Calm
INVARIANTS
    ClientMissesNothing
CHECK_DEADLOCK FALSE
