SPECIFICATION FairSpec
CONSTANTS
    Crons = {"c1", "c2"}
    Bound = {"c2"}
    Schedulers = {"s1", "s2"}
    Periods = {1}
    Cycle = 1
    ClaimTicks = 2
    EndTicks = 0
    BatchSize = 2
    MaxPerUser = 1
    None = None
    Budget <- AnyOne
INVARIANTS
    ClaimExcludes
    DuplicatesAreExcused
    CapHoldsButForRaces
PROPERTIES
    DueIsServed
    CronPromise
CHECK_DEADLOCK FALSE
