SPECIFICATION FairSpec
CONSTANTS
  Callers = {c1}
  c1 = c1
  Kinds = {"query", "watch"}
  Topics = {p}
  p = p
  AuthSettings = {"open"}
  MayBreak = TRUE
  MayRefuse = TRUE
  QueueCap = 1
  RingCap = 1
  StreamCap = 1
  MaxReq = 2
  MaxEvents = 2
PROPERTIES
  CallsReturn
  EventsDelivered
CHECK_DEADLOCK FALSE
