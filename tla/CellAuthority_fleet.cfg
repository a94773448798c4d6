SPECIFICATION Spec
CONSTANTS
    Sessions = {a, b}
    None = None
    Setups <- AnyFleet
    MaxCommits = 2
    MaxLost = 1
SYMMETRY Interchangeable
CHECK_DEADLOCK FALSE
INVARIANTS AckedIsHeld LiveServerOwns
PROPERTIES DepartureIsRetained ImplementsLedger
