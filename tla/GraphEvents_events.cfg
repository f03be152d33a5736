SPECIFICATION StreamSpec
CONSTANTS
    Root = Root
    Nested = {n1}
    Messages = {m1, m2}
    None = None
    Requests <- Asks
    MaxChunks = 5
SYMMETRY Symmetry
INVARIANTS
    InterruptReachesClient
    MessagesBuildUp
CHECK_DEADLOCK FALSE
