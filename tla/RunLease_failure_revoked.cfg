SPECIFICATION Spec
CONSTANTS
    Runs = {"r1"}
    Slots = {"s1", "s2"}
    Workers = {"w1", "w2"}
    Procs = {"p1", "p2"}
    Reapers = {"p1"}
    WorkerOf <- OneSlotEach
    ProcOf <- OneProcEach
    None = None
    MaxRetries = 0
    PreMigration = {}
    QueueCap = 2
    Budgets <- OneCrash
PROPERTIES
    FailureIsPermanent
CHECK_DEADLOCK FALSE
