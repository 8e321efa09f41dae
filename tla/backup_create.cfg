SPECIFICATION Spec
CONSTANTS
  Commands = {k1, k2}
  k1 = k1
  k2 = k2
  SnapIds = {s1, s2}
  s2 = s2
  s1 = s1
  Absent = Absent
  Torn = Torn
  Refused = Refused
  None = None
  SyncModes = {"Always", "None"}
  Odd = {2}
  Deep = {3}
  MayOverlapScans = FALSE
  MaxRecords = 3
  MaxSegments = 2
  MaxCommands = 2
SYMMETRY Symmetry
INVARIANTS
  SuccessRestorable
  SnapshotOfOneMoment
  RecoveredStays
CHECK_DEADLOCK FALSE
