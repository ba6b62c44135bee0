-------------------------- MODULE CatalogReceiver ---------------------------
(***************************************************************************)
(* The v2 catalog receiver: epoch compare-and-swap, generation admission,  *)
(* page and manifest staging, verification, activation of a complete       *)
(* observation, expiry of pending evidence, and the legacy writes that the *)
(* first epoch shuts out.                                                  *)
(*                                                                         *)
(* Every writer holds one transaction-scoped advisory lock from its first  *)
(* read to its commit, so one event (with the completion check that runs   *)
(* in its savepoint) is one action here.  CatalogTransactions takes the    *)
(* lock, the batch, the statements and the commit apart.  A refused        *)
(* event rolls back its savepoint: an action whose guard is false.         *)
(*                                                                         *)
(* Digests are modelled as what they identify: a page's hash is its        *)
(* content, the membership hash is the set of ids, the pages hash is the   *)
(* indexed family of contents.                                             *)
(***************************************************************************)
EXTENDS Integers, FiniteSets, FiniteSetsExt

CONSTANTS
  Epochs,        \* epoch identities
  NoEpoch,       \* no row in catalog_scopes; also a nil expected_epoch
  Unused,        \* an epoch with no row in catalog_epochs
  Generations,   \* generations of the events that arrive
  Videos,        \* video ids
  Metas,         \* frozen metadata of one document (title, owner, tags, ...)
  NoMeta,        \* the metadata of a row that does not exist
  Contents,      \* page contents that arrive: sets of canonical documents
  ContentBytes,  \* canonical encoding length of each of them
  Manifests,     \* manifests that arrive
  NoManifest,    \* the manifest columns are NULL
  NoPending,     \* no row in catalog_snapshots
  MaxPages, MaxDocuments, MaxSnapshotBytes,  \* pending quotas
  LegacyRows     \* rows the legacy event stream may write

CanonicalDocuments == [id : Videos, meta : Metas]

PageIndexes == 0 .. MaxPages - 1

\* The hash of a page family; {} stands for a page that is not there.
PageFamilies == [PageIndexes -> Contents \cup {{}}]

NoPages == [i \in PageIndexes |-> {}]

ManifestRecords ==
  [pageCount : Nat, documentCount : Nat,
   membership : SUBSET Videos, pages : PageFamilies]

PendingRecords ==
  [epoch : Epochs, generation : Generations, fresh : BOOLEAN, bytes : Int,
   manifest : ManifestRecords \cup {NoManifest}, pages : PageFamilies]

Rows == [kind : {"local", "remote"}, meta : Metas, eligible : BOOLEAN]

NoRow == [kind |-> "none", meta |-> NoMeta, eligible |-> FALSE]

ASSUME EpochAssumption == NoEpoch \notin Epochs /\ Unused \notin Epochs /\ Unused # NoEpoch
ASSUME GenerationAssumption == Generations \subseteq Nat \ {0}
ASSUME MetaAssumption == NoMeta \notin Metas
ASSUME ContentAssumption ==
  /\ Contents \subseteq SUBSET CanonicalDocuments
  /\ {} \notin Contents
  /\ \A content \in Contents : IsFiniteSet(content)
  /\ ContentBytes \in [Contents -> Nat \ {0}]
ASSUME ManifestAssumption == Manifests \subseteq ManifestRecords /\ NoManifest \notin ManifestRecords
ASSUME PendingAssumption == NoPending \notin PendingRecords
ASSUME QuotaAssumption ==
  MaxPages \in Nat /\ MaxDocuments \in Nat /\ MaxSnapshotBytes \in Nat
ASSUME LegacyAssumption == LegacyRows \subseteq Rows

VARIABLES
  history,    \* catalog_epochs: the predecessor of every epoch ever installed
  epoch,      \* catalog_scopes.epoch
  highest,    \* catalog_scopes.highest_observed_generation
  completed,  \* catalog_scopes.completed_generation
  manifest,   \* catalog_scopes.completed_* manifest columns
  pending,    \* catalog_snapshots with its catalog_snapshot_pages
  documents   \* documents: the row of every video

authority == <<history, epoch, highest, completed, manifest>>

receiverVars == <<history, epoch, highest, completed, manifest, pending, documents>>
-----------------------------------------------------------------------------
(* Helpers on page contents and pending snapshots *)

IdsOf(content) == {d.id : d \in content}

\* parseCatalogPage and MembershipDigest refuse an empty or repeated id.
WellFormed(content) ==
  /\ content # {}
  /\ \A c, d \in content : c.id = d.id => c = d

StoredPages(s) == {i \in PageIndexes : s.pages[i] # {}}

DocumentsIn(s) == UNION {s.pages[i] : i \in PageIndexes}

MembersOf(s) == IdsOf(DocumentsIn(s))

\* MembershipDigest over the ids of all pages: no id occurs twice.
DistinctMembership(s) ==
  \A i, j \in PageIndexes : \A c \in s.pages[i], d \in s.pages[j] :
    c.id = d.id => i = j /\ c = d

\* sum(document_count) over the stored pages
DocumentCount(s) == MapThenSumSet(LAMBDA i : Cardinality(s.pages[i]), StoredPages(s))

\* the canonical bytes VerifySnapshot re-measures
MeasuredBytes(s) == MapThenSumSet(LAMBDA i : ContentBytes[s.pages[i]], StoredPages(s))

FreshSnapshot(g) ==
  [epoch |-> epoch, generation |-> g, fresh |-> TRUE, bytes |-> 0,
   manifest |-> NoManifest, pages |-> NoPages]

\* Manifest.Validate: an empty full has neither pages nor documents, and its
\* digests are those of nothing.
ValidManifest(m) ==
  /\ m.pageCount =< m.documentCount
  /\ (m.pageCount = 0) = (m.documentCount = 0)
  /\ m.pageCount = 0 => m.membership = {} /\ m.pages = NoPages
-----------------------------------------------------------------------------
Init ==
  /\ history = [e \in Epochs |-> Unused]
  /\ epoch = NoEpoch
  /\ highest = 0
  /\ completed = 0
  /\ manifest = NoManifest
  /\ pending = NoPending
  /\ documents = [v \in Videos |-> NoRow]

\* Mutation: the reset forgets the pending snapshot of the old epoch.
SetCatalogEpochKeepsPending(e, expected) ==
  /\ epoch # e /\ expected = epoch /\ history[e] = Unused
  /\ history' = [history EXCEPT ![e] = expected]
  /\ epoch' = e /\ highest' = 0 /\ completed' = 0 /\ manifest' = NoManifest
  /\ UNCHANGED <<pending, documents>>

\* Mutation: the expected epoch is not compared.
SetCatalogEpochBlindly(e, expected) ==
  /\ epoch # e /\ expected # e /\ history[e] = Unused
  /\ history' = [history EXCEPT ![e] = expected]
  /\ epoch' = e /\ highest' = 0 /\ completed' = 0 /\ manifest' = NoManifest
  /\ pending' = NoPending /\ UNCHANGED documents

\* Mutation: the completed columns survive the reset.
SetCatalogEpochKeepsCompletion(e, expected) ==
  /\ epoch # e /\ expected = epoch /\ history[e] = Unused
  /\ history' = [history EXCEPT ![e] = expected]
  /\ epoch' = e /\ pending' = NoPending
  /\ UNCHANGED <<highest, completed, manifest, documents>>

(* Epoch compare-and-swap.  Naming the current epoch again is an           *)
(* idempotent retry or a conflict: neither changes anything.               *)
SetCatalogEpoch(e, expected) ==
  /\ epoch # e
  /\ expected = epoch
  /\ history[e] = Unused
  /\ history' = [history EXCEPT ![e] = expected]
  /\ epoch' = e
  /\ highest' = 0
  /\ completed' = 0
  /\ manifest' = NoManifest
  /\ pending' = NoPending
  /\ UNCHANGED documents

\* Mutation: the age of the pending row is not checked.
AdmissibleAtAnyAge(e, g) ==
  /\ e = epoch /\ g # completed /\ g >= highest
  /\ g = highest => pending # NoPending

(* AdmitCatalogGeneration *)
Admissible(e, g) ==
  /\ e = epoch
  /\ g # completed
  /\ g >= highest
  /\ g = highest => pending # NoPending /\ pending.fresh

AdmittedSnapshot(g) == IF g > highest THEN FreshSnapshot(g) ELSE pending
-----------------------------------------------------------------------------
(* Verification and activation, run in the savepoint of every event *)

\* LoadVerifiedCatalogSnapshot goes on to verify only when all pages are in.
AllEvidence(s) ==
  s.manifest # NoManifest /\ Cardinality(StoredPages(s)) >= s.manifest.pageCount

Verified(s) ==
  /\ ValidManifest(s.manifest)
  /\ s.manifest.pageCount =< MaxPages
  /\ s.manifest.documentCount =< MaxDocuments
  /\ StoredPages(s) = 0 .. s.manifest.pageCount - 1
  /\ s.bytes = MeasuredBytes(s)
  /\ s.bytes =< MaxSnapshotBytes
  /\ DocumentCount(s) = s.manifest.documentCount
  /\ DistinctMembership(s)
  /\ MembersOf(s) = s.manifest.membership
  /\ s.pages = s.manifest.pages

ForeignOwned(ids) == \E v \in ids : documents[v].kind = "remote"

\* The two statements of an activation that write documents: every observed one
\* is upserted, then every other eligible local row is orphaned; foreign rows are
\* left alone.
WithIncoming(rows, s) ==
  [v \in Videos |->
     IF v \in MembersOf(s)
     THEN [kind |-> "local", eligible |-> TRUE,
           meta |-> (CHOOSE d \in DocumentsIn(s) : d.id = v).meta]
     ELSE rows[v]]

\* Mutation: documents that left the catalog are not orphaned.
WithOrphans(rows, s) == rows

WithoutOrphans(rows, s) ==
  [v \in Videos |->
     IF v \in MembersOf(s) \/ rows[v].kind # "local"
     THEN rows[v] ELSE [rows[v] EXCEPT !.eligible = FALSE]]

Activated(s) == WithoutOrphans(WithIncoming(documents, s), s)

\* Mutation: evidence that fails verification is kept instead of refused.
KeepPendingUnverified(s) ==
  /\ ~(AllEvidence(s) /\ Verified(s))
  /\ pending' = s
  /\ UNCHANGED <<completed, manifest, documents>>

KeepPending(s) ==
  /\ ~AllEvidence(s)
  /\ pending' = s
  /\ UNCHANGED <<completed, manifest, documents>>

CompleteCatalogSnapshot(s) ==
  /\ AllEvidence(s)
  /\ Verified(s)
  /\ ~ForeignOwned(MembersOf(s))
  /\ completed' = s.generation
  /\ manifest' = s.manifest
  /\ documents' = Activated(s)
  /\ pending' = NoPending

\* An event leaves pending evidence behind or completes it; evidence that is
\* all there but does not verify refuses the event that completed it.
Settle(s) ==
  /\ highest' = s.generation
  /\ KeepPending(s) \/ CompleteCatalogSnapshot(s)
  /\ UNCHANGED <<history, epoch>>
-----------------------------------------------------------------------------
(* catalog.snapshot_page *)

WithinQuota(s, content) ==
  /\ s.bytes + ContentBytes[content] =< MaxSnapshotBytes
  /\ DocumentCount(s) + Cardinality(content) =< MaxDocuments
  /\ Cardinality(StoredPages(s)) + 1 =< MaxPages

WithinManifest(s, i, content) ==
  s.manifest # NoManifest =>
    /\ i < s.manifest.pageCount
    /\ DocumentCount(s) + Cardinality(content) =< s.manifest.documentCount

NoCollision(s, content) ==
  /\ IdsOf(content) \cap MembersOf(s) = {}
  /\ ~ForeignOwned(IdsOf(content))

\* Mutation: a replayed page is charged again.
WithPageCharged(s, i, content) ==
  [s EXCEPT !.pages[i] = content, !.bytes = @ + ContentBytes[content]]

\* An identical stored page is a replay and charges nothing; any other
\* content under its index is refused.
WithPage(s, i, content) ==
  IF s.pages[i] = content THEN s
  ELSE [s EXCEPT !.pages[i] = content, !.bytes = @ + ContentBytes[content]]

\* Mutation: a page overwrites what was staged under its index.
StageCatalogPageOver(e, g, i, content) ==
  /\ i \in PageIndexes /\ WellFormed(content) /\ Admissible(e, g)
  /\ LET s == AdmittedSnapshot(g)
     IN  /\ WithinQuota(s, content) /\ WithinManifest(s, i, content) /\ NoCollision(s, content)
         /\ Settle(WithPage(s, i, content))

AcceptsPage(e, g, i, content) ==
  /\ i \in PageIndexes
  /\ WellFormed(content)
  /\ Admissible(e, g)
  /\ LET s == AdmittedSnapshot(g)
     IN  \/ s.pages[i] = content
         \/ /\ s.pages[i] = {}
            /\ WithinQuota(s, content)
            /\ WithinManifest(s, i, content)
            /\ NoCollision(s, content)

StageCatalogPage(e, g, i, content) ==
  /\ AcceptsPage(e, g, i, content)
  /\ Settle(WithPage(AdmittedSnapshot(g), i, content))

(* catalog.snapshot_end *)

PagesWithin(s, m) ==
  /\ Cardinality(StoredPages(s)) =< m.pageCount
  /\ DocumentCount(s) =< m.documentCount
  /\ \A i \in StoredPages(s) : i < m.pageCount

AcceptsEnd(e, g, m) ==
  /\ ValidManifest(m)
  /\ m.pageCount =< MaxPages /\ m.documentCount =< MaxDocuments
  /\ Admissible(e, g)
  /\ LET s == AdmittedSnapshot(g)
     IN  s.manifest = m \/ (s.manifest = NoManifest /\ PagesWithin(s, m))

WithManifest(s, m) == [s EXCEPT !.manifest = m]

StageCatalogEnd(e, g, m) ==
  /\ AcceptsEnd(e, g, m)
  /\ Settle(WithManifest(AdmittedSnapshot(g), m))

(* Time: a pending snapshot becomes older than 24 hours. *)
Expire ==
  /\ pending # NoPending
  /\ pending.fresh
  /\ pending' = [pending EXCEPT !.fresh = FALSE]
  /\ UNCHANGED <<authority, documents>>

PruneCatalogSnapshots ==
  /\ pending # NoPending
  /\ ~pending.fresh
  /\ pending' = NoPending
  /\ UNCHANGED <<authority, documents>>

\* Mutation: the authority is not consulted.
LegacyWriteAnytime(v, row) ==
  /\ documents' = [documents EXCEPT ![v] = row]
  /\ UNCHANGED <<authority, pending>>

(* Any legacy catalog mutation; blocked for good by the first epoch. *)
LegacyWrite(v, row) ==
  /\ epoch = NoEpoch
  /\ documents' = [documents EXCEPT ![v] = row]
  /\ UNCHANGED <<authority, pending>>

Next ==
  \/ \E e \in Epochs, expected \in Epochs \cup {NoEpoch} : SetCatalogEpoch(e, expected)
  \/ \E e \in Epochs, g \in Generations, i \in 0 .. MaxPages, content \in Contents :
       StageCatalogPage(e, g, i, content)
  \/ \E e \in Epochs, g \in Generations, m \in Manifests : StageCatalogEnd(e, g, m)
  \/ Expire
  \/ PruneCatalogSnapshots
  \/ \E v \in Videos, row \in LegacyRows : LegacyWrite(v, row)

Spec == Init /\ [][Next]_receiverVars
-----------------------------------------------------------------------------
LiveLocal == {v \in Videos : documents[v].kind = "local" /\ documents[v].eligible}

\* What discovery may serve, as canonical documents.
LiveCatalog == {[id |-> v, meta |-> documents[v].meta] : v \in LiveLocal}

Fence == [epoch |-> epoch, generation |-> completed]

Installed == {e \in Epochs : history[e] # Unused}
-----------------------------------------------------------------------------
(* Properties *)

TypeOK ==
  /\ history \in [Epochs -> Epochs \cup {NoEpoch, Unused}]
  /\ epoch \in Epochs \cup {NoEpoch}
  /\ highest \in Generations \cup {0}
  /\ completed \in Generations \cup {0}
  /\ manifest \in ManifestRecords \cup {NoManifest}
  /\ pending \in PendingRecords \cup {NoPending}
  /\ documents \in [Videos -> Rows \cup {NoRow}]

(* The documents discovery may serve are, one for one and with the frozen  *)
(* metadata, the content of the manifest published with the completed      *)
(* generation, whatever was staged, expired, replayed or refused meanwhile *)
(* (CompleteCatalogSnapshot).                                              *)
ProjectionMatchesManifest ==
  completed > 0 =>
    /\ LiveCatalog = UNION {manifest.pages[i] : i \in PageIndexes}
    /\ LiveLocal = manifest.membership

(* Pending evidence always belongs to the current epoch and to the highest *)
(* generation, which is then not the completed one: the queries that find  *)
(* pages and manifests by scope alone can never mix two observations       *)
(* (AdmitCatalogGeneration, SetCatalogEpoch).                              *)
PendingIsCurrent ==
  /\ completed =< highest
  /\ epoch = NoEpoch => highest = 0
  /\ pending # NoPending =>
       /\ pending.epoch = epoch
       /\ pending.generation = highest
       /\ completed < highest

(* Complete evidence never waits: the event that brings the last page or   *)
(* the manifest publishes it or is refused (applyCatalogOne).              *)
NoCompleteEvidenceWaits == pending # NoPending => ~AllEvidence(pending)

(* Accepted pages respect the quotas and the declared manifest, share no   *)
(* id with each other or with a foreign row, and are charged exactly once  *)
(* (StageCatalogPage, StageCatalogEnd).                                    *)
PendingLedger ==
  pending # NoPending =>
    /\ pending.bytes = MeasuredBytes(pending)
    /\ pending.bytes =< MaxSnapshotBytes
    /\ DocumentCount(pending) =< MaxDocuments
    /\ DistinctMembership(pending)
    /\ ~ForeignOwned(MembersOf(pending))
    /\ pending.manifest # NoManifest => PagesWithin(pending, pending.manifest)

(* The installed epochs form one chain that ends in the current epoch: two *)
(* competing compare-and-swaps never both succeed against one predecessor. *)
EpochsFormOneChain ==
  /\ epoch # NoEpoch => epoch \in Installed
  /\ \A e \in Installed : history[e] # epoch
  /\ \A e, f \in Installed : history[e] = history[f] => e = f

(* Authority only moves forward: an epoch is replaced by one never used    *)
(* before, and within an epoch a manifest is replaced only together with a *)
(* larger completed generation.                                            *)
AuthorityMovesForward ==
  [][IF epoch' = epoch
     THEN /\ highest' >= highest
          /\ completed' >= completed
          /\ completed' = completed => manifest' = manifest
     ELSE epoch' \notin Installed /\ completed' = 0]_receiverVars

(* Evidence is immutable: while a pending observation stays, its pages only *)
(* accumulate, its manifest is set once and its age never goes back.        *)
EvidenceIsImmutable ==
  [][(/\ pending # NoPending /\ pending' # NoPending
      /\ pending'.epoch = pending.epoch
      /\ pending'.generation = pending.generation) =>
        /\ \A i \in StoredPages(pending) : pending'.pages[i] = pending.pages[i]
        /\ pending.manifest # NoManifest => pending'.manifest = pending.manifest
        /\ pending'.fresh => pending.fresh]_receiverVars

(* A highest generation whose evidence expired or was pruned can neither be *)
(* staged again nor complete: only a larger generation or a new epoch can   *)
(* change anything (PruneCatalogSnapshots: a late replay cannot recreate    *)
(* an expired highest generation).                                          *)
ExpiredStaysExpired ==
  [][(/\ epoch # NoEpoch /\ highest > 0
      /\ pending = NoPending \/ ~pending.fresh
      /\ epoch' = epoch /\ highest' = highest) =>
        /\ completed' = completed
        /\ pending' \in {pending, NoPending}]_receiverVars

(* Once a scope is initialised the served documents change only in a step   *)
(* that also changes the fence a reader compares before and after its       *)
(* queries: no legacy write, staging, expiry or epoch change slips under it.*)
ProjectionMovesWithFence ==
  [][epoch # NoEpoch /\ documents' # documents => Fence' # Fence]_receiverVars

(* Activation of a local observation leaves every foreign row as it is.     *)
ForeignRowsPreserved ==
  [][\A v \in Videos :
       epoch # NoEpoch /\ documents[v].kind = "remote" => documents'[v] = documents[v]]_receiverVars

(* The receiver implements atomic publication of whole observations.        *)
Authority ==
  INSTANCE CatalogAuthority
    WITH used <- Installed, fence <- Fence, live <- LiveCatalog,
         FullDocuments <- CanonicalDocuments

ImplementsAuthority == Authority!Spec
=============================================================================
