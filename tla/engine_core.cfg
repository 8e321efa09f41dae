SPECIFICATION Spec
CONSTANTS
  t1 = t1
  t2 = t2
  d1 = d1
  d2 = d2
  a = a
  b = b
  Tasks = {t1, t2}
  Ids = {d1, d2}
  Values = {a, b}
  Absent = Absent
  NoDoc = NoDoc
  InsertIds <- OwnIds
  Filters <- PlainFilters
  Assignments <- ErrorAssignments
  Reread <- AParsesAsB
  WalMayFail = FALSE
  MaxStmts = 4
  MaxRestarts = 1
CHECK_DEADLOCK FALSE
INVARIANT TypeOK
INVARIANT MemoryMatchesLog
INVARIANT IndexComplete
INVARIANT FindExact
INVARIANT EventsOnce
