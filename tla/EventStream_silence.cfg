SPECIFICATION Spec
CONSTANTS
    Procs = {"p1", "p2"}
    Readers = {"r1"}
    ProcOf <- ServedByP1
    MaxEvents = 2
    MaxConns = 2
    BufCap = 2
    StampBase = 100
    Budgets <- Silence
PROPERTIES
    QuietRunsLoseNothing
CHECK_DEADLOCK FALSE
