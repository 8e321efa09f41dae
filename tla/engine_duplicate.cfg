SPECIFICATION Spec
CONSTANTS
  t1 = t1
  t2 = t2
  d1 = d1
  d2 = d2
  a = a
  b = b
  Tasks = {t1, t2}
  Ids = {d1, d2}
  Values = {a, b}
  Absent = Absent
  NoDoc = NoDoc
  InsertIds <- SharedIds
  Filters <- PlainFilters
  Assignments <- OneAssignment
  Reread <- AParsesAsB
  WalMayFail = FALSE
  MaxStmts = 2
  MaxRestarts = 0
CHECK_DEADLOCK FALSE
INVARIANT MemoryMatchesLog
