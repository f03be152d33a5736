SPECIFICATION Spec
CONSTANTS
    Requests = {r1, r2, r3, r4}
    None = None
    MaxCheckpoints = 2
    Limits = {1}
    Scenes <- Mixes
PROPERTIES
    EmptyMeansNoRuns
CHECK_DEADLOCK FALSE
