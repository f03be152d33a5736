SPECIFICATION Spec
CONSTANTS
    Runs = {"r1"}
    Slots = {"s1"}
    Workers = {"w1"}
    Procs = {"p1"}
    Reapers = {"p1"}
    WorkerOf <- SharedLoop
    ProcOf <- SharedProc
    None = None
    MaxRetries = 1
    PreMigration = {}
    QueueCap = 2
    Budgets <- OneTimeout
PROPERTIES
    TimedOutJobFails
CHECK_DEADLOCK FALSE
