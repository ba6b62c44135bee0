SPECIFICATION FairAggregatesSpec
CONSTANTS
  q1 = q1
  q2 = q2
  u1 = u1
  subject1 = subject1
  session1 = session1
  session2 = session2
  Queries = {q1}
  Visits <- MCVisits
  NoVisitor = NoVisitor
  NoRow = NoRow
  MinUsers = 2
  MaxSearches = 2
  BatchSize = 1
  MaxBatches = 2
  MaxAborts = 1
INVARIANTS
  FloorWasCleared
PROPERTIES
  CountsFollowTheLog
  ReevaluationEnds
CHECK_DEADLOCK FALSE
