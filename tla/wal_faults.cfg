SPECIFICATION FairSpec
CONSTANTS
  Threads = {t1, t2}
  SyncModes = {"Always", "None"}
  SegmentSizeLimit = 3
  BufCapacity = 3
  NovaFaults = {"none", "partial_write", "crash_after_wal"}
  IoErrors = {"write", "sync", "open", "truncate"}
  TornCuts = {1, 2}
  Unreadable = {2}
  MaxSeq = 2
  MaxHalts = 2
INVARIANT SequencesUnique
PROPERTY AppendsReturn
INVARIANT CorruptOnlyBuried
CHECK_DEADLOCK FALSE
