CONSTANTS
  Members = {m1}
  Cells = {x1, x2}
  Claimants = {c1, c2}
  MaxSeq = 2
  MaxFrames = 1
  MaxBatch = 2
  Pipeline = 2
  GrantWindow = 2
  MaxClaims = 2
SPECIFICATION TakeoverSpec
SYMMETRY Symmetry
CHECK_DEADLOCK FALSE
INVARIANTS AckedSurvivesTakeover LaneKeepsUncovered OverlayContinuesRoot IInv
