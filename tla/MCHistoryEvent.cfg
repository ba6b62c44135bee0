SPECIFICATION EventSpec
CONSTANTS
  Paths = {"viewer"}
  v1 = v1
  v2 = v2
  c1 = c1
  o1 = o1
  o2 = o2
  u1 = u1
  s1 = s1
  q1 = q1
  p1 = p1
  p2 = p2
  Videos = {v1, v2}
  None = None
  MaxBatch = 1
  MaxPruned = 0
  Owners = {o1, o2}
  Channels = {c1}
  NoRow = NoRow
  Events <- MCEvents
  MaxOutbox = 3
  Users = {u1}
  Sessions = {s1}
  Queries = {q1}
  Stream <- MCSearchAndDeletion
  Requests = {}
  Procs = {p1}
  SessionMax = 1
  RedisFails = FALSE
INVARIANT ClearedIsNotOffered
CHECK_DEADLOCK FALSE
