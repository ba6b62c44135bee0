SPECIFICATION FairAggregatesSpec
CONSTANTS
  q1 = q1
  q2 = q2
  u1 = u1
  subject1 = subject1
  session1 = session1
  session2 = session2
  Queries = {q1, q2}
  Visits <- MCOneVisit
  NoVisitor = NoVisitor
  NoRow = NoRow
  MinUsers = 1
  MaxSearches = 2
  BatchSize = 1
  MaxBatches = 2
  MaxAborts = 1
PROPERTY EverySearchIsAggregated
CHECK_DEADLOCK FALSE
