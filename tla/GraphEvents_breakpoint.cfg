SPECIFICATION StreamSpec
CONSTANTS
    Root = Root
    Nested = {n1}
    Messages = {m1, m2}
    None = None
    Requests <- Asks
    MaxChunks = 2
INVARIANT PausedMeansInterrupted
CHECK_DEADLOCK FALSE
