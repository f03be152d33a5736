SPECIFICATION Spec
CONSTANTS
    Runs = {"r1"}
    Slots = {"s1", "s2"}
    Workers = {"w1", "w2"}
    Procs = {"p1"}
    Reapers = {"p1"}
    WorkerOf <- OneSlotEach
    ProcOf <- SharedProc
    None = None
    MaxRetries = 0
    PreMigration = {}
    QueueCap = 2
    Budgets <- PairsOfFaults
INVARIANTS
    HealthyLeaseExcludes
    RetriesBoundAttempts
    EntriesNameTheirRun
PROPERTIES
    ClaimEndsByOwnerOrExpiry
    CancelledInQueueNeverRuns
CHECK_DEADLOCK FALSE
