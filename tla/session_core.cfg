SPECIFICATION Spec
CONSTANTS
  Callers = {c1, c2}
  c1 = c1
  c2 = c2
  Kinds = {"query", "nql_watch", "watch", "unwatch", "auth", "bad_auth", "ping"}
  Topics = {p, q}
  p = p
  q = q
  AuthSettings = {"open", "no"}
  MayBreak = TRUE
  MayRefuse = TRUE
  QueueCap = 2
  RingCap = 1
  StreamCap = 1
  MaxReq = 2
  MaxEvents = 2
SYMMETRY Symmetry
INVARIANTS
  AuthDecides
  AnswersMatch
  AnswersUnbroken
  StreamFaithful
CHECK_DEADLOCK FALSE
