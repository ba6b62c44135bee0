SPECIFICATION BoundarySpec
CONSTANTS
  Epochs = {e1, e2}
  NoEpoch = NoEpoch
  Unused = Unused
  Generations = {1, 2}
  v1 = v1
  v2 = v2
  m1 = m1
  Videos = {v1, v2}
  Metas = {m1}
  NoMeta = NoMeta
  Contents <- MCContents
  ContentBytes <- MCContentBytes
  Manifests <- MCManifests
  NoManifest = NoManifest
  NoPending = NoPending
  MaxPages = 1
  MaxDocuments = 1
  MaxSnapshotBytes = 1
  LegacyRows <- MCLegacyRows
  Readers = {r1}
  NoFence = NoFence
  MaxObservations = 2
  Sessions = {t1, t2}
  NoSession = NoSession
  MaxBatch = 2
INVARIANTS
  ServedFromOneObservation
PROPERTIES
  CommitsImplementAuthority
  TransactionsEnd
CHECK_DEADLOCK FALSE
