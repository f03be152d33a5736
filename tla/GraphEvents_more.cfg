SPECIFICATION StreamSpec
CONSTANTS
    Root = Root
    Nested = {n1}
    Messages = {m1, m2}
    None = None
    Requests <- Asks
    MaxChunks = 5
SYMMETRY Symmetry
INVARIANTS
    StreamTypeOK
    OnlyAsked
    OutputIsTheLastState
CHECK_DEADLOCK FALSE
