SPECIFICATION StoreSpec
CONSTANTS
    Commands = {c1, c2}
    Projects = {p1, p2}
    None = None
    MaxStamps = 3
    Concurrent = FALSE
CHECK_DEADLOCK FALSE
INVARIANTS
    Kept
    Logged
PROPERTY
    Atomic
