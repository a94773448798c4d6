SPECIFICATION Spec
CHECK_DEADLOCK FALSE
CONSTANTS
    c1 = c1
    c2 = c2
    c3 = c3
    l1 = l1
    d1 = d1
    d2 = d2
    q1 = q1
    m1 = m1
    Commands = {c1, c2, c3}
    LeaseCommands = {l1}
    Deliveries = {d1, d2}
    Queries = {q1}
    Migrations = {m1}
    Setups <- SafetySetups
INVARIANTS ReleasedHoldsAcked NoneStranded ServesAcked PublicationsAccounted MigrationAlone EffectsBelong
