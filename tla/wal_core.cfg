SPECIFICATION Spec
CONSTANTS
  Threads = {t1, t2}
  SyncModes = {"Always", "None"}
  SegmentSizeLimit = 6
  BufCapacity = 6
  NovaFaults = {"none"}
  IoErrors = {"write", "sync", "open", "truncate"}
  TornCuts = {2}
  Unreadable = {4}
  MaxSeq = 4
  MaxHalts = 2
SYMMETRY Symmetry
INVARIANT AckedDurable
INVARIANT SealedSegmentsDurable
INVARIANT ReplayRespectsOrder
INVARIANT SegmentSizeBound
PROPERTY ImplementsDurableLog
CHECK_DEADLOCK FALSE
