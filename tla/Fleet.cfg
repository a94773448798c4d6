SPECIFICATION FleetSpec
CONSTANTS
  ShardOf <- MCShardOf
  Codes = {"a", "b"}
  Provisioners = {"p1", "p2"}
  PerPage = 2
  MaxPages = 2
  ScanLimit = 3
  MaxFlight = 1
  Fencers = {f1}
  Skews <- MCClocks
  Drifts <- MCClocks
  LeaseMs = 2
  MaxLeaseMs = 3
  StaleMs = 1
  Tries = 2
  SessHorizon = 4
  ClockSteps = 2
  LogChanges = 2
  RetCells = {c1}
  Digests = {d1, d2}
  Operators = {"a1", "a2"}
  PinIds = {1}
  MaxRoots = 1
  MaxRevision = 5
  MaxDeletes = 1
  Restorers = {"r1", "r2"}
  Pins = {"p", "q", "o"}
  PinRoots <- MCPinRoots
  PinRelease <- MCPinRelease
  PinShards <- MCPinShards
CHECK_DEADLOCK FALSE
INVARIANTS ProvedIsFound ReceiptIsOneInstant GuardEndsFirst NamedIsStored RestoredIsOnePin
PROPERTIES LateHeartbeatIsHarmless
