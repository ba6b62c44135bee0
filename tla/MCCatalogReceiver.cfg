SPECIFICATION Spec
CONSTANTS
  Epochs = {e1, e2}
  NoEpoch = NoEpoch
  Unused = Unused
  Generations = {1, 2, 3}
  v1 = v1
  v2 = v2
  m1 = m1
  m2 = m2
  Videos = {v1, v2}
  Metas = {m1, m2}
  NoMeta = NoMeta
  Contents <- MCContents
  ContentBytes <- MCContentBytes
  Manifests <- MCManifests
  NoManifest = NoManifest
  NoPending = NoPending
  MaxPages = 2
  MaxDocuments = 2
  MaxSnapshotBytes = 3
  LegacyRows <- MCLegacyRows
INVARIANTS
  ProjectionMatchesManifest
  PendingIsCurrent
  NoCompleteEvidenceWaits
  PendingLedger
  EpochsFormOneChain
PROPERTIES
  EvidenceIsImmutable
  ExpiredStaysExpired
  ProjectionMovesWithFence
  ImplementsAuthority
CHECK_DEADLOCK FALSE
