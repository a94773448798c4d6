SPECIFICATION MovementSpec
CONSTANTS
  c1 = c1
  c2 = c2
  Controllers = {c1, c2}
  MaxEpoch = 3
  BoundCells = {1, 2}
  MaxTerms = 2
  MaxCaptures = 2
SYMMETRY Symmetry
CHECK_DEADLOCK FALSE
INVARIANTS AttemptEndsWhole EvidenceIsTrue ClosingIsQuiet SelectionReconstructs DepartsWhole FencedBootDrains
PROPERTIES ReleaseHasReceiver
