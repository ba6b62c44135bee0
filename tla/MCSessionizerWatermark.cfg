SPECIFICATION WorkerSpec
CONSTANTS
  Running = {"sessionizer"}
  u1 = u1
  subject1 = subject1
  session1 = session1
  session2 = session2
  q1 = q1
  q2 = q2
  v1 = v1
  v2 = v2
  None = None
  Events <- MCEvents
  MaxEvents = 4
  DayLength = 2
  MaxFailures = 1
  PairWindow = 1
  MinSubjects = 2
  TopM = 1
  MaxRollbacks = 1
  Searches <- MCSearches
  SessionOrder <- MCOrder
  MaxSubmitted = 3
  AbandonWindow = 1
  ReformulationGap = 1
  MaxTime = 3
  MaxRestarts = 1
  Items = {v1}
  Subjects = {u1, subject1}
  Bumpers = {session1, session2}
  TrendWindowDays = 1
  MinDistinct = 2
  WilsonPercent = 20
  TopK = 1
  MaxBumps = 4
  MaxDay = 1
  MaxExpiries = 1
INVARIANT WatermarkIsClean
CHECK_DEADLOCK FALSE
