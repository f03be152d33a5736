SPECIFICATION Spec
CONSTANTS
    Requests = {r1, r2, r3, r4}
    None = None
    MaxCheckpoints = 3
    Limits = {1, 2}
    Scenes <- Mixes
SYMMETRY Symmetry
INVARIANTS
    MetadataStays
    StateSticks
    PagesAreComplete
CHECK_DEADLOCK FALSE
