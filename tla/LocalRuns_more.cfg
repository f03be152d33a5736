SPECIFICATION FairSpec
CONSTANTS
    Runs = {1, 2}
    Streams = {k1}
    Threads = {t}
    Ephemeral = {e}
    None = None
    MaxEvents = 1
    Budgets <- Scenes
INVARIANTS
    TypeOK
    ExecutingMeansBusy
PROPERTIES
    EveryRunSettles
    CleanUpWaits
    SoleStreamSeesAll
    StreamsEnd
CHECK_DEADLOCK FALSE
