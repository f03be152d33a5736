SPECIFICATION Spec
CONSTANTS
    Crons = {"c1"}
    Bound = {}
    Schedulers = {"s1"}
    Periods = {1, 2}
    Cycle = 2
    ClaimTicks = 2
    EndTicks = 1
    BatchSize = 1
    MaxPerUser = 1
    None = None
    Budget <- OneEdit
INVARIANTS
    NextRunFollowsSchedule
CHECK_DEADLOCK FALSE
