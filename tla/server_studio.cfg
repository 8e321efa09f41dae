SPECIFICATION Spec
CONSTANTS
  Clients = {c1, c2}
  MaxConnections = 1
  MaxPanics = 1
  Windows = {w1}
  Routes = {"page", "other", "insert", "update", "remove", "create", "drop", "find", "refused", "seed", "events"}
  d1 = d1
  d2 = d2
  x1 = x1
  Samples <- SampleDocs
  Indexes <- SampleIndexes
  RingCap = 1
  MaxOpen = 2
  MaxRequests = 2
  MaxEvents = 3
  MaxFailures = 1
SYMMETRY Symmetry
INVARIANTS
  PermitsExact
  ActiveAccounted
  StatementsTrue
  SeedComplete
  SseExact
CHECK_DEADLOCK FALSE
