SPECIFICATION FairSpec
CONSTANTS
  t1 = t1
  t2 = t2
  d1 = d1
  d2 = d2
  a = a
  b = b
  Tasks = {t1, t2}
  Ids = {d1, d2}
  Values = {a, b}
  Absent = Absent
  NoDoc = NoDoc
  InsertIds <- OwnIds
  Filters <- MixedFilters
  Assignments <- MixedAssignments
  Reread <- AParsesAsB
  WalMayFail = TRUE
  MaxStmts = 3
  MaxRestarts = 1
CHECK_DEADLOCK FALSE
INVARIANT NoPhantomDocuments
INVARIANT EventsAtMostOnce
PROPERTY StatementsAnswered
