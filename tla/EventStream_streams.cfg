SPECIFICATION FairSpec
CONSTANTS
    Procs = {"p1", "p2"}
    Readers = {"r1"}
    ProcOf <- ServedByP1
    MaxEvents = 2
    MaxConns = 2
    BufCap = 2
    StampBase = 100
    Budgets <- Mixed
INVARIANTS
    InOrder
    EndMeansOver
PROPERTIES
    SkippedWasSent
    EveryStreamEnds
    StoredEndEndsStreams
CHECK_DEADLOCK FALSE
