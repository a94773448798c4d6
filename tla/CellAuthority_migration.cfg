SPECIFICATION Spec
CONSTANTS
    Sessions = {a, b}
    None = None
    Setups <- LeasedFleet
    MaxCommits = 2
    MaxLost = 0
INVARIANT RecoveredRootOpens
SYMMETRY Interchangeable
CHECK_DEADLOCK FALSE
