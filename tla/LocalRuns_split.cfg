SPECIFICATION Spec
CONSTANTS
    Runs = {1}
    Streams = {k1, k2}
    Threads = {t}
    Ephemeral = {}
    None = None
    MaxEvents = 2
    Budgets <- TwoStreams
PROPERTY EveryStreamSeesAll
CHECK_DEADLOCK FALSE
