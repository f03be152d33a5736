SPECIFICATION Spec
CONSTANTS
    Runs = {"r1"}
    Slots = {"s1", "s2"}
    Workers = {"w1"}
    Procs = {"p1"}
    Reapers = {"p1"}
    WorkerOf <- SharedLoop
    ProcOf <- SharedProc
    None = None
    MaxRetries = 1
    PreMigration = {}
    QueueCap = 2
    Budgets <- OneStall
INVARIANTS
    LeaseLossNeverInterrupts
CHECK_DEADLOCK FALSE
