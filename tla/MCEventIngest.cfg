SPECIFICATION EventSpec
CONSTANTS
  Paths = {"legacy", "viewer"}
  v1 = v1
  v2 = v2
  c1 = c1
  o1 = o1
  o2 = o2
  u1 = u1
  s1 = s1
  q1 = q1
  p1 = p1
  p2 = p2
  Videos = {v1, v2}
  None = None
  MaxBatch = 2
  MaxPruned = 1
  Owners = {o1, o2}
  Channels = {c1}
  NoRow = NoRow
  Events <- MCEvents
  MaxOutbox = 3
  Users = {u1}
  Sessions = {s1}
  Queries = {q1}
  Stream <- MCStream
  Requests <- MCRequests
  Procs = {p1, p2}
  SessionMax = 1
  RedisFails = TRUE
INVARIANTS
  LedgerExplainsDocuments
  AppliedOncePerReceipt
  UnlistingOnlyMasks
  AckedIsDurable
  SurvivorsAreOnThePage
  ListsRememberCommitted
PROPERTIES
  RowsComeWithReceipts
  DeletionTakesWhatItFound
SYMMETRY MCSymmetry
CHECK_DEADLOCK FALSE
