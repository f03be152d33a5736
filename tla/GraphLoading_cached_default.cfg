SPECIFICATION Spec
CONSTANTS
    Requests = {r1, r2, r3}
    Users = {u1, u2}
    None = None
    MaxVersion = 2
INVARIANT OnlyStaticIsCached
