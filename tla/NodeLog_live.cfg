CONSTANTS
  Members = {m1, m2}
  Cells = {x1}
  Claimants = {c1}
  MaxSeq = 2
  MaxFrames = 1
  MaxBatch = 2
  Pipeline = 1
  GrantWindow = 2
  MaxClaims = 0
SPECIFICATION LiveSpec
PROPERTIES EveryCaptureSettles
CHECK_DEADLOCK FALSE
