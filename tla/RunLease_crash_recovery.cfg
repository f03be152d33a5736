SPECIFICATION FairSpec
CONSTANTS
    Runs = {"r1"}
    Slots = {"s1", "s2"}
    Workers = {"w1", "w2"}
    Procs = {"p1", "p2"}
    Reapers = {"p1"}
    WorkerOf <- OneSlotEach
    ProcOf <- OneProcEach
    None = None
    MaxRetries = 1
    PreMigration = {"r1"}
    QueueCap = 2
    Budgets <- CrashAndOutage
INVARIANTS
    TypeOK
    PendingIsClaimable
    DoneMeansTerminal
PROPERTIES
    LifecycleSpec
    EveryRunSettles
CHECK_DEADLOCK FALSE
