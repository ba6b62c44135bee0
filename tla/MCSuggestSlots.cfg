SPECIFICATION ServingSpec
CONSTANTS
  Releases = {1, 2, 3}
  Migrators = {m1, m2}
  NoMigrator = NoMigrator
  MaxRuns = 4
  Watchers = {lb, w}
  Balancer = lb
  Requests = {q}
  CacheTTL = 2
  PollInterval = 2
  ProbeTimeout = 1
  FailThreshold = 2
  DrainDelay = 6
  ShutdownTimeout = 1
  RequestTimeout = 1
  NoWatcher = NoWatcher
  LastSignal = 3
  MaxTime = 12
  MaxOutages = 1
  r1 = r1
  r2 = r2
  p1 = p1
  p2 = p2
  good1 = good1
  good2 = good2
  s1 = s1
  s2 = s2
  Versions = {r1, r2}
  Paths = {p1, p2}
  Contents = {good1, good2}
  Loadable = {good1, good2}
  Subjects = {s1, s2}
  Bucket <- MCBucket
  Definitions <- MCDefinitions
  NoModel = NoModel
  HeuristicVersion = "heuristic"
  MaxChanges = 2
  RecallLimit = 2
  MaxBlocks = 2
  DefaultLimit = 2
  MaxLimit = 3
  Limits <- MCLimits
  MaxCorpus = 5
  StreamRows <- MCStreamRows
  TextOrder <- MCTextOrder
  NoVideo = NoVideo
  Callers = {u1}
  Anyone = Anyone
  PageSizes = {1, 2, 3}
  MaxAsked = 2
  v1 = v1
  v2 = v2
  v3 = v3
  v4 = v4
  c1 = c1
  Videos = {v1, v2, v3, v4}
  ChannelOf <- MCChannelOf
  NoChannel = NoChannel
  PopularOrder <- MCPopularOrder
  RecentOrder <- MCRecentOrder
  Similar <- MCSimilar
  CoWatched <- MCCoWatched
  TrendingList <- MCTrendingList
  LowViews = {v3, v4}
  FeedLimit = 3
  PerChannelCap = 2
  SameChannelCap = 2
  ExploreSlot = 1
  WatchedLimit = 1
  MaxCatalogChanges = 2
INVARIANTS
  SlotsAreReserved
CHECK_DEADLOCK FALSE
