SPECIFICATION FairSpec
CONSTANTS
    Procs = {"p1", "p2"}
    Readers = {"r1"}
    ProcOf <- ServedByP1
    MaxEvents = 1
    MaxConns = 2
    BufCap = 2
    StampBase = 100
    Budgets <- Silence
PROPERTIES
    LateResumeEnds
CHECK_DEADLOCK FALSE
