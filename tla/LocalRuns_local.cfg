SPECIFICATION FairSpec
CONSTANTS
    Runs = {1, 2}
    Streams = {k1}
    Threads = {t}
    Ephemeral = {e}
    None = None
    MaxEvents = 1
    Budgets <- Scenes
INVARIANTS
    BusyHasReason
    DeletedRunsStop
    EndTellsStatus
PROPERTIES
    EphemeralThreadsGo
CHECK_DEADLOCK FALSE
