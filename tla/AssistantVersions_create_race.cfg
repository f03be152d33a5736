SPECIFICATION Spec
CONSTANTS
    Ids = {"d", "a", "b"}
    Graphs = {"g"}
    Configs = {"empty", "x"}
    Default <- OneDefault
    Clients = {"c1", "c2"}
    Procs = {"p1"}
    None = None
    NoConfig = "empty"
    Unset = "null"
    Budget <- TwoRequests
INVARIANTS
    CreationIsIdempotent
CHECK_DEADLOCK FALSE
