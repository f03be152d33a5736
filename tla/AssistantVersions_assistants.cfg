SPECIFICATION Spec
CONSTANTS
    Ids = {"d", "a", "b"}
    Graphs = {"g"}
    Configs = {"empty", "x"}
    Default <- OneDefault
    Clients = {c1, c2}
    Procs = {"p1", "p2"}
    None = None
    NoConfig = "empty"
    Unset = "null"
    Budget <- FiveRequests
SYMMETRY Symmetry
INVARIANTS
    LatestIsRecorded
    VersionsAreNumbered
    RowIsNewest
    DefaultsStand
CHECK_DEADLOCK FALSE
