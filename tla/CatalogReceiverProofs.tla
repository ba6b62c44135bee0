----------------------- MODULE CatalogReceiverProofs ------------------------
(***************************************************************************)
(* Proofs about CatalogReceiver for every set of epochs, generations,      *)
(* videos, page contents and manifests, and every quota.                   *)
(***************************************************************************)
EXTENDS CatalogReceiver, FoldLemmas, TLAPS

LEMMA ContentsTyped ==
  ASSUME NEW content \in Contents
  PROVE  content \subseteq CanonicalDocuments /\ content # {} /\ ContentBytes[content] \in Nat
BY ContentAssumption

LEMMA GenerationsArePositive == \A g \in Generations : g \in Nat /\ g > 0
BY GenerationAssumption

LEMMA CountersAreNaturals == TypeOK => highest \in Nat /\ completed \in Nat
BY GenerationsArePositive DEF TypeOK

(* Staging keeps a pending snapshot a pending snapshot. *)
LEMMA WithPageTyped ==
  ASSUME NEW s \in PendingRecords, NEW i \in PageIndexes, NEW content \in Contents
  PROVE  WithPage(s, i, content) \in PendingRecords
<1>1. s.pages \in PageFamilies /\ s.bytes \in Int /\ ContentBytes[content] \in Nat
  BY ContentsTyped DEF PendingRecords
<1> DEFINE pages == [s.pages EXCEPT ![i] = content]
           bytes == s.bytes + ContentBytes[content]
<1>2. pages \in PageFamilies
  BY <1>1 DEF PageFamilies
<1>3. bytes \in Int
  BY <1>1
<1>4. [s EXCEPT !.pages = pages, !.bytes = bytes] \in PendingRecords
  <2> HIDE DEF pages, bytes
  <2> QED BY <1>2, <1>3 DEF PendingRecords
<1>5. WithPage(s, i, content) \in {s, [s EXCEPT !.pages = pages, !.bytes = bytes]}
  BY DEF WithPage, PendingRecords
<1> QED BY <1>4, <1>5

LEMMA WithManifestTyped ==
  ASSUME NEW s \in PendingRecords, NEW m \in Manifests
  PROVE  [s EXCEPT !.manifest = m] \in PendingRecords
BY ManifestAssumption DEF PendingRecords

LEMMA AdmittedTyped ==
  ASSUME TypeOK, PendingIsCurrent, NEW e \in Epochs, NEW g \in Generations, Admissible(e, g)
  PROVE  /\ AdmittedSnapshot(g) \in PendingRecords
         /\ AdmittedSnapshot(g).generation = g
         /\ AdmittedSnapshot(g).epoch = epoch
<1>1. CASE g > highest
  <2>1. FreshSnapshot(g) \in PendingRecords
    BY DEF FreshSnapshot, PendingRecords, PageFamilies, NoPages, Admissible
  <2> QED BY <1>1, <2>1 DEF AdmittedSnapshot, FreshSnapshot
<1>2. CASE ~(g > highest)
  <2>1. g = highest
    BY <1>2, GenerationAssumption DEF Admissible, TypeOK
  <2>2. pending # NoPending /\ pending \in PendingRecords
    BY <2>1 DEF Admissible, TypeOK
  <2> QED BY <1>2, <2>1, <2>2 DEF AdmittedSnapshot, PendingIsCurrent
<1> QED BY <1>1, <1>2

(* The documents of a snapshot are canonical documents. *)
LEMMA DocumentsTyped ==
  ASSUME NEW s \in PendingRecords
  PROVE  DocumentsIn(s) \subseteq CanonicalDocuments
<1> SUFFICES ASSUME NEW i \in PageIndexes PROVE s.pages[i] \subseteq CanonicalDocuments
  BY DEF DocumentsIn
<1>1. s.pages \in PageFamilies
  BY DEF PendingRecords
<1>2. s.pages[i] \in Contents \cup {{}}
  BY <1>1 DEF PageFamilies
<1> QED BY <1>2, ContentsTyped

LEMMA ActivatedRows ==
  ASSUME NEW s
  PROVE  Activated(s) =
           [v \in Videos |->
              IF v \in MembersOf(s)
              THEN [kind |-> "local", eligible |-> TRUE,
                    meta |-> (CHOOSE d \in DocumentsIn(s) : d.id = v).meta]
              ELSE IF documents[v].kind = "local"
                   THEN [documents[v] EXCEPT !.eligible = FALSE]
                   ELSE documents[v]]
BY DEF Activated, WithIncoming, WithoutOrphans

LEMMA ActivatedTyped ==
  ASSUME NEW s \in PendingRecords, documents \in [Videos -> Rows \cup {NoRow}]
  PROVE  Activated(s) \in [Videos -> Rows \cup {NoRow}]
<1> SUFFICES ASSUME NEW v \in Videos PROVE Activated(s)[v] \in Rows \cup {NoRow}
  BY ActivatedRows
<1>1. CASE v \in MembersOf(s)
  <2>1. PICK d \in DocumentsIn(s) : d.id = v
    BY <1>1 DEF MembersOf, IdsOf
  <2>2. (CHOOSE c \in DocumentsIn(s) : c.id = v) \in DocumentsIn(s)
    BY <2>1
  <2>3. (CHOOSE c \in DocumentsIn(s) : c.id = v).meta \in Metas
    BY <2>2, DocumentsTyped DEF CanonicalDocuments
  <2> QED BY <1>1, <2>3, ActivatedRows DEF Rows
<1>2. CASE v \notin MembersOf(s) /\ documents[v].kind = "local"
  <2>1. documents[v] \in Rows
    BY <1>2 DEF NoRow
  <2>2. [documents[v] EXCEPT !.eligible = FALSE] \in Rows
    BY <2>1 DEF Rows
  <2> QED BY <1>2, <2>2, ActivatedRows
<1>3. CASE v \notin MembersOf(s) /\ documents[v].kind # "local"
  BY <1>3, ActivatedRows
<1> QED BY <1>1, <1>2, <1>3

LEMMA SettleTyped ==
  ASSUME TypeOK, NEW s \in PendingRecords, Settle(s)
  PROVE  TypeOK'
<1>1. highest' \in Generations \cup {0} /\ UNCHANGED <<history, epoch>>
  BY DEF Settle, PendingRecords
<1>2. CASE KeepPending(s)
  BY <1>1, <1>2 DEF KeepPending, TypeOK
<1>3. CASE CompleteCatalogSnapshot(s)
  <2>1. s.manifest \in ManifestRecords \cup {NoManifest} /\ s.generation \in Generations
    BY DEF PendingRecords
  <2>2. documents' \in [Videos -> Rows \cup {NoRow}]
    BY <1>3, ActivatedTyped DEF CompleteCatalogSnapshot, TypeOK
  <2> QED BY <1>1, <1>3, <2>1, <2>2 DEF CompleteCatalogSnapshot, TypeOK
<1> QED BY <1>2, <1>3 DEF Settle

-----------------------------------------------------------------------------
(* Type correctness and the fences *)

TypedFences == TypeOK /\ PendingIsCurrent

LEMMA InitTypedFences == Init => TypedFences
BY PendingAssumption, ManifestAssumption
   DEF Init, TypedFences, TypeOK, PendingIsCurrent, NoRow

(* What every accepted page or end settles: evidence of the current epoch    *)
(* that extends the fresh pending snapshot of its generation, if there is one. *)
Staged(s) ==
  /\ s \in PendingRecords
  /\ s.epoch = epoch /\ epoch # NoEpoch
  /\ s.generation >= highest /\ s.generation # completed
  /\ s.generation = highest =>
       /\ pending # NoPending /\ pending.fresh
       /\ \A i \in StoredPages(pending) : s.pages[i] = pending.pages[i]
       /\ pending.manifest # NoManifest => s.manifest = pending.manifest
  /\ Settle(s)

(* A settled event leaves the fences in order: what stays pending belongs   *)
(* to the current epoch and the highest generation.                         *)
LEMMA SettleFences ==
  ASSUME TypedFences, NEW s, Staged(s)
  PROVE  TypedFences'
<1>1. TypeOK'
  BY SettleTyped DEF TypedFences, Staged
<1>2. s.generation \in Nat /\ highest \in Nat /\ completed \in Nat
  BY GenerationsArePositive, CountersAreNaturals DEF PendingRecords, TypedFences, Staged
<1>3. completed < s.generation
  <2>1. completed =< highest
    BY DEF TypedFences, PendingIsCurrent
  <2> QED BY <1>2, <2>1 DEF Staged
<1>4. ASSUME KeepPending(s) PROVE PendingIsCurrent'
  BY <1>2, <1>3, <1>4 DEF KeepPending, Settle, Staged, PendingIsCurrent
<1>5. ASSUME CompleteCatalogSnapshot(s) PROVE PendingIsCurrent'
  BY <1>2, <1>5 DEF CompleteCatalogSnapshot, Settle, Staged, PendingIsCurrent
<1>6. PendingIsCurrent'
  BY <1>4, <1>5 DEF Settle, Staged
<1> QED BY <1>1, <1>6 DEF TypedFences

LEMMA PageStep ==
  ASSUME TypedFences, NEW e \in Epochs, NEW g \in Generations, NEW i \in 0 .. MaxPages,
         NEW content \in Contents, StageCatalogPage(e, g, i, content)
  PROVE  Staged(WithPage(AdmittedSnapshot(g), i, content))
<1> DEFINE a == AdmittedSnapshot(g)
           s == WithPage(a, i, content)
<1>1. /\ Admissible(e, g) /\ i \in PageIndexes /\ Settle(s)
      /\ a.pages[i] \in {content, {}}
  BY DEF StageCatalogPage, AcceptsPage
<1>2. a \in PendingRecords /\ a.generation = g /\ a.epoch = epoch
  BY <1>1, AdmittedTyped DEF TypedFences
<1>3. s \in PendingRecords
  BY <1>1, <1>2, WithPageTyped
<1>4. /\ s.generation = a.generation /\ s.epoch = a.epoch /\ s.manifest = a.manifest
      /\ \A j \in StoredPages(a) : s.pages[j] = a.pages[j]
  <2> HIDE DEF a
  <2>1. a.pages \in [PageIndexes -> Contents \cup {{}}]
    BY <1>2 DEF PendingRecords, PageFamilies
  <2>2. CASE a.pages[i] = content
    BY <2>2 DEF WithPage
  <2>3. CASE a.pages[i] # content
    <3>1. /\ s.pages = [a.pages EXCEPT ![i] = content] /\ s.generation = a.generation
          /\ s.epoch = a.epoch /\ s.manifest = a.manifest
      BY <2>3, <1>2 DEF WithPage, PendingRecords
    <3>2. i \notin StoredPages(a)
      BY <1>1, <2>3 DEF StoredPages
    <3> QED BY <3>1, <3>2, <2>1 DEF StoredPages
  <2> QED BY <2>2, <2>3
<1>5. g >= highest /\ g # completed /\ epoch # NoEpoch
  BY <1>1, EpochAssumption DEF Admissible
<1>6. g = highest => a = pending /\ pending # NoPending /\ pending.fresh
  BY <1>1, CountersAreNaturals DEF Admissible, AdmittedSnapshot, TypedFences
<1>7. Staged(s)
  <2> HIDE DEF a, s
  <2> QED BY <1>1, <1>2, <1>3, <1>4, <1>5, <1>6 DEF Staged
<1> QED BY <1>7

LEMMA EndStep ==
  ASSUME TypedFences, NEW e \in Epochs, NEW g \in Generations, NEW m \in Manifests,
         StageCatalogEnd(e, g, m)
  PROVE  Staged([AdmittedSnapshot(g) EXCEPT !.manifest = m])
<1> DEFINE a == AdmittedSnapshot(g)
           s == [a EXCEPT !.manifest = m]
<1>1. Admissible(e, g) /\ Settle(s) /\ a.manifest \in {m, NoManifest}
  BY DEF StageCatalogEnd, AcceptsEnd, WithManifest
<1>2. a \in PendingRecords /\ a.generation = g /\ a.epoch = epoch
  BY <1>1, AdmittedTyped DEF TypedFences
<1>3. s \in PendingRecords
  BY <1>2, WithManifestTyped
<1>4. s.generation = a.generation /\ s.epoch = a.epoch /\ s.pages = a.pages /\ s.manifest = m
  <2> HIDE DEF a
  <2> QED BY <1>2 DEF PendingRecords
<1>5. g >= highest /\ g # completed /\ epoch # NoEpoch
  BY <1>1, EpochAssumption DEF Admissible
<1>6. g = highest => a = pending /\ pending # NoPending /\ pending.fresh
  BY <1>1, CountersAreNaturals DEF Admissible, AdmittedSnapshot, TypedFences
<1>7. Staged(s)
  <2> HIDE DEF a, s
  <2> QED BY <1>1, <1>2, <1>3, <1>4, <1>5, <1>6 DEF Staged
<1> QED BY <1>7

(* The steps of the receiver, as the proofs below take them apart. *)
LEMMA StepCases ==
  ASSUME TypedFences, [Next]_receiverVars
  PROVE  \/ \E e \in Epochs, expected \in Epochs \cup {NoEpoch} : SetCatalogEpoch(e, expected)
         \/ \E s \in PendingRecords : Staged(s)
         \/ Expire
         \/ PruneCatalogSnapshots
         \/ \E v \in Videos, row \in LegacyRows : LegacyWrite(v, row)
         \/ UNCHANGED receiverVars
<1>1. ASSUME NEW e \in Epochs, NEW g \in Generations, NEW i \in 0 .. MaxPages,
             NEW content \in Contents, StageCatalogPage(e, g, i, content)
      PROVE  \E s \in PendingRecords : Staged(s)
  <2>1. Staged(WithPage(AdmittedSnapshot(g), i, content))
    BY <1>1, PageStep
  <2> QED BY <2>1 DEF Staged
<1>2. ASSUME NEW e \in Epochs, NEW g \in Generations, NEW m \in Manifests,
             StageCatalogEnd(e, g, m)
      PROVE  \E s \in PendingRecords : Staged(s)
  <2>1. Staged([AdmittedSnapshot(g) EXCEPT !.manifest = m])
    BY <1>2, EndStep
  <2> QED BY <2>1 DEF Staged
<1> QED BY <1>1, <1>2 DEF Next

LEMMA NextTypedFences == TypedFences /\ [Next]_receiverVars => TypedFences'
<1> SUFFICES ASSUME TypedFences, [Next]_receiverVars PROVE TypedFences'
  OBVIOUS
<1>1. ASSUME NEW e \in Epochs, NEW expected \in Epochs \cup {NoEpoch}, SetCatalogEpoch(e, expected)
      PROVE  TypedFences'
  BY <1>1, EpochAssumption
     DEF SetCatalogEpoch, TypedFences, TypeOK, PendingIsCurrent
<1>2. ASSUME NEW s \in PendingRecords, Staged(s) PROVE TypedFences'
  BY <1>2, SettleFences
<1>4. CASE Expire
  <2>1. pending \in PendingRecords /\ pending' = [pending EXCEPT !.fresh = FALSE]
    BY <1>4 DEF Expire, TypedFences, TypeOK
  <2>2. pending' \in PendingRecords /\ pending'.epoch = pending.epoch
        /\ pending'.generation = pending.generation
    BY <2>1 DEF PendingRecords
  <2>3. TypeOK'
    BY <1>4, <2>2 DEF Expire, authority, TypedFences, TypeOK
  <2>4. PendingIsCurrent'
    BY <1>4, <2>2 DEF Expire, authority, TypedFences, PendingIsCurrent
  <2> QED BY <2>3, <2>4 DEF TypedFences
<1>5. CASE PruneCatalogSnapshots
  BY <1>5 DEF PruneCatalogSnapshots, authority, TypedFences, TypeOK, PendingIsCurrent
<1>6. ASSUME NEW v \in Videos, NEW row \in LegacyRows, LegacyWrite(v, row)
      PROVE  TypedFences'
  BY <1>6, LegacyAssumption DEF LegacyWrite, authority, TypedFences, TypeOK, PendingIsCurrent
<1>7. CASE UNCHANGED receiverVars
  BY <1>7 DEF receiverVars, TypedFences, TypeOK, PendingIsCurrent
<1> QED BY StepCases, <1>1, <1>2, <1>4, <1>5, <1>6, <1>7

(* Every column holds a value of its type in every reachable state. *)
THEOREM TypeCorrect == Spec => []TypeOK
<1>1. Spec => []TypedFences
  BY InitTypedFences, NextTypedFences, PTL DEF Spec
<1>2. TypedFences => TypeOK
  BY DEF TypedFences
<1> QED BY <1>1, <1>2, PTL

(* Pending evidence always belongs to the current epoch and to the highest  *)
(* generation (AdmitCatalogGeneration, SetCatalogEpoch).                    *)
THEOREM PendingStaysCurrent == Spec => []PendingIsCurrent
<1>1. Spec => []TypedFences
  BY InitTypedFences, NextTypedFences, PTL DEF Spec
<1>2. TypedFences => PendingIsCurrent
  BY DEF TypedFences
<1> QED BY <1>1, <1>2, PTL
-----------------------------------------------------------------------------
(* The published projection *)

\* With distinct membership, activation makes exactly the observed documents
\* live, each with the metadata frozen on its page.
LEMMA ActivationIsExact ==
  ASSUME TypeOK, NEW s \in PendingRecords, DistinctMembership(s), documents' = Activated(s)
  PROVE  LiveLocal' = MembersOf(s) /\ LiveCatalog' = DocumentsIn(s)
<1>1. DocumentsIn(s) \subseteq CanonicalDocuments
  BY DocumentsTyped
<1>2. MembersOf(s) \subseteq Videos
  BY <1>1 DEF MembersOf, IdsOf, CanonicalDocuments
<1>3. ASSUME NEW d \in DocumentsIn(s)
      PROVE  d.id \in MembersOf(s) /\ \A c \in DocumentsIn(s) : c.id = d.id => c = d
  <2>1. d.id \in MembersOf(s)
    BY DEF MembersOf, IdsOf
  <2>2. \A c \in DocumentsIn(s) : c.id = d.id => c = d
    BY DEF DocumentsIn, DistinctMembership
  <2> QED BY <2>1, <2>2
<1>4. ASSUME NEW v \in MembersOf(s)
      PROVE  \E d \in DocumentsIn(s) : /\ d.id = v
                                      /\ documents'[v].kind = "local"
                                      /\ documents'[v].eligible
                                      /\ documents'[v].meta = d.meta
  <2>1. PICK d \in DocumentsIn(s) : d.id = v
    BY DEF MembersOf, IdsOf
  <2>2. (CHOOSE c \in DocumentsIn(s) : c.id = v) = d
    <3>1. \A c \in DocumentsIn(s) : c.id = v => c = d
      BY <1>3, <2>1
    <3> QED BY <2>1, <3>1
  <2>3. v \in Videos
    BY <1>2
  <2>4. documents'[v] = [kind |-> "local", eligible |-> TRUE, meta |-> d.meta]
    BY <2>2, <2>3, ActivatedRows
  <2> QED BY <2>1, <2>4
<1>5. ASSUME NEW v \in Videos, v \notin MembersOf(s)
      PROVE  ~(documents'[v].kind = "local" /\ documents'[v].eligible)
  <2>1. documents'[v] = IF documents[v].kind = "local"
                        THEN [documents[v] EXCEPT !.eligible = FALSE] ELSE documents[v]
    BY <1>5, ActivatedRows
  <2>2. documents[v] \in Rows \cup {NoRow}
    BY DEF TypeOK
  <2>3. CASE documents[v].kind = "local"
    <3>1. documents[v] \in Rows
      BY <2>2, <2>3 DEF NoRow
    <3> QED BY <2>1, <2>3, <3>1 DEF Rows
  <2> QED BY <2>1, <2>3
<1>6. LiveLocal' = MembersOf(s)
  BY <1>2, <1>4, <1>5 DEF LiveLocal
<1>7. ASSUME NEW v \in MembersOf(s)
      PROVE  [id |-> v, meta |-> documents'[v].meta] \in DocumentsIn(s)
  <2>1. PICK d \in DocumentsIn(s) : d.id = v /\ documents'[v].meta = d.meta
    BY <1>4
  <2>2. d = [id |-> v, meta |-> documents'[v].meta]
    BY <1>1, <2>1 DEF CanonicalDocuments
  <2> QED BY <2>2
<1>8. ASSUME NEW d \in DocumentsIn(s)
      PROVE  d = [id |-> d.id, meta |-> documents'[d.id].meta]
  <2>1. PICK c \in DocumentsIn(s) : c.id = d.id /\ documents'[d.id].meta = c.meta
    BY <1>3, <1>4
  <2>2. c = d
    BY <1>3, <2>1
  <2> QED BY <1>1, <2>1, <2>2 DEF CanonicalDocuments
<1>9. LiveCatalog' = DocumentsIn(s)
  BY <1>3, <1>6, <1>7, <1>8 DEF LiveCatalog
<1> QED BY <1>6, <1>9

Projected == TypedFences /\ ProjectionMatchesManifest

LEMMA SettleProjects ==
  ASSUME Projected, NEW s \in PendingRecords, Staged(s)
  PROVE  ProjectionMatchesManifest'
<1>1. ASSUME KeepPending(s) PROVE ProjectionMatchesManifest'
  BY <1>1 DEF KeepPending, Projected, ProjectionMatchesManifest, LiveCatalog, LiveLocal
<1>2. ASSUME CompleteCatalogSnapshot(s) PROVE ProjectionMatchesManifest'
  <2>1. LiveLocal' = MembersOf(s) /\ LiveCatalog' = DocumentsIn(s)
    BY <1>2, ActivationIsExact
       DEF CompleteCatalogSnapshot, Verified, Projected, TypedFences
  <2>2. manifest' = s.manifest /\ s.pages = s.manifest.pages /\ MembersOf(s) = s.manifest.membership
    BY <1>2 DEF CompleteCatalogSnapshot, Verified
  <2> QED BY <2>1, <2>2 DEF ProjectionMatchesManifest, DocumentsIn
<1> QED BY <1>1, <1>2 DEF Staged, Settle

LEMMA NextProjected == Projected /\ [Next]_receiverVars => Projected'
<1> SUFFICES ASSUME Projected, [Next]_receiverVars PROVE ProjectionMatchesManifest'
  BY NextTypedFences DEF Projected
<1>1. ASSUME NEW e \in Epochs, NEW expected \in Epochs \cup {NoEpoch}, SetCatalogEpoch(e, expected)
      PROVE  ProjectionMatchesManifest'
  BY <1>1 DEF SetCatalogEpoch, ProjectionMatchesManifest
<1>2. ASSUME NEW s \in PendingRecords, Staged(s) PROVE ProjectionMatchesManifest'
  BY <1>2, SettleProjects
<1>3. CASE Expire \/ PruneCatalogSnapshots \/ UNCHANGED receiverVars
  BY <1>3 DEF Expire, PruneCatalogSnapshots, receiverVars, authority, Projected,
              ProjectionMatchesManifest, LiveCatalog, LiveLocal
<1>4. ASSUME NEW v \in Videos, NEW row \in LegacyRows, LegacyWrite(v, row)
      PROVE  ProjectionMatchesManifest'
  <2>1. completed = 0
    BY <1>4, CountersAreNaturals
       DEF LegacyWrite, Projected, TypedFences, PendingIsCurrent
  <2> QED BY <1>4, <2>1 DEF LegacyWrite, authority, ProjectionMatchesManifest
<1> QED BY StepCases, <1>1, <1>2, <1>3, <1>4 DEF Projected

(* The documents discovery may serve are exactly the content of the         *)
(* completed manifest (CompleteCatalogSnapshot), in every reachable state.  *)
THEOREM ProjectionIsPublished == Spec => []ProjectionMatchesManifest
<1>1. Init => Projected
  BY InitTypedFences DEF Init, Projected, ProjectionMatchesManifest
<1>2. Projected => ProjectionMatchesManifest
  BY DEF Projected
<1> QED BY <1>1, <1>2, NextProjected, PTL DEF Spec
-----------------------------------------------------------------------------
(* Epochs and fences *)

\* Only the compare-and-swap touches the epoch history.
LEMMA HistoryKept ==
  ASSUME TypedFences, [Next]_receiverVars,
         ~ \E e \in Epochs, expected \in Epochs \cup {NoEpoch} : SetCatalogEpoch(e, expected)
  PROVE  UNCHANGED <<history, epoch>>
BY StepCases DEF Staged, Settle, Expire, PruneCatalogSnapshots, LegacyWrite, authority, receiverVars

EpochsInOrder ==
  /\ history \in [Epochs -> Epochs \cup {NoEpoch, Unused}]
  /\ epoch \in Epochs \cup {NoEpoch}
  /\ epoch = NoEpoch => Installed = {}
  /\ \A e \in Installed : history[e] = NoEpoch \/ history[e] \in Installed
  /\ EpochsFormOneChain

LEMMA SetCatalogEpochInOrder ==
  ASSUME EpochsInOrder, NEW e \in Epochs, NEW expected \in Epochs \cup {NoEpoch},
         SetCatalogEpoch(e, expected)
  PROVE  EpochsInOrder' /\ Installed' = Installed \cup {e} /\ e \notin Installed
<1>1. /\ history' = [history EXCEPT ![e] = epoch] /\ epoch' = e /\ history[e] = Unused
      /\ history \in [Epochs -> Epochs \cup {NoEpoch, Unused}] /\ epoch \in Epochs \cup {NoEpoch}
  BY DEF SetCatalogEpoch, EpochsInOrder
<1>2. e \notin Installed
  BY <1>1 DEF Installed
<1>3. Installed' = Installed \cup {e}
  BY <1>1, EpochAssumption DEF Installed
<1>4. epoch # NoEpoch => epoch \in Installed
  BY DEF EpochsInOrder, EpochsFormOneChain
<1>5. history'[e] = epoch /\ \A f \in Installed : history'[f] = history[f]
  BY <1>1, <1>2 DEF Installed
<1>6. history' \in [Epochs -> Epochs \cup {NoEpoch, Unused}] /\ epoch' \in Epochs
  BY <1>1
<1>7. epoch' # NoEpoch
  BY <1>1, EpochAssumption
<1>8. \A f \in Installed' : history'[f] = NoEpoch \/ history'[f] \in Installed'
  BY <1>3, <1>4, <1>5 DEF EpochsInOrder
<1>9. \A f \in Installed' : history'[f] # epoch'
  <2>1. \A f \in Installed : history[f] # e
    BY <1>2, EpochAssumption DEF EpochsInOrder
  <2>2. epoch # e
    BY DEF SetCatalogEpoch
  <2> QED BY <1>1, <1>3, <1>5, <2>1, <2>2
<1>10. \A f, g \in Installed' : history'[f] = history'[g] => f = g
  <2>1. \A f \in Installed : history[f] # epoch
    BY DEF EpochsInOrder, EpochsFormOneChain
  <2>2. \A f, g \in Installed : history[f] = history[g] => f = g
    BY DEF EpochsInOrder, EpochsFormOneChain
  <2> QED BY <1>3, <1>5, <2>1, <2>2
<1>11. EpochsFormOneChain'
  <2>1. epoch' \in Installed'
    BY <1>1, <1>3
  <2> QED BY <2>1, <1>9, <1>10 DEF EpochsFormOneChain
<1>12. EpochsInOrder'
  BY <1>6, <1>7, <1>8, <1>11 DEF EpochsInOrder
<1> QED BY <1>2, <1>3, <1>12

FencedEpochs == TypedFences /\ EpochsInOrder

LEMMA InitFencedEpochs == Init => FencedEpochs
<1> SUFFICES ASSUME Init PROVE EpochsInOrder
  BY InitTypedFences DEF FencedEpochs
<1>1. Installed = {}
  BY DEF Init, Installed
<1> QED BY <1>1 DEF Init, EpochsInOrder, EpochsFormOneChain

LEMMA NextFencedEpochs == FencedEpochs /\ [Next]_receiverVars => FencedEpochs'
<1> SUFFICES ASSUME FencedEpochs, [Next]_receiverVars PROVE EpochsInOrder'
  BY NextTypedFences DEF FencedEpochs
<1>1. CASE \E e \in Epochs, expected \in Epochs \cup {NoEpoch} : SetCatalogEpoch(e, expected)
  BY <1>1, SetCatalogEpochInOrder DEF FencedEpochs
<1>2. ASSUME UNCHANGED <<history, epoch>> PROVE EpochsInOrder'
  BY <1>2 DEF FencedEpochs, EpochsInOrder, EpochsFormOneChain, Installed
<1> QED BY <1>1, <1>2, HistoryKept DEF FencedEpochs

(* Competing compare-and-swaps never both succeed against one predecessor:  *)
(* the permanent epoch history stays one chain (SetCatalogEpoch).           *)
THEOREM EpochsStayOneChain == Spec => []EpochsFormOneChain
<1>1. FencedEpochs => EpochsFormOneChain
  BY DEF FencedEpochs, EpochsInOrder
<1> QED BY <1>1, InitFencedEpochs, NextFencedEpochs, PTL DEF Spec

(* What a step may do to the published fence. *)
LEMMA FenceSteps ==
  ASSUME FencedEpochs, [Next]_receiverVars
  PROVE  \/ /\ epoch' \in Epochs \ Installed /\ Installed' = Installed \cup {epoch'}
            /\ completed' = 0 /\ UNCHANGED documents
         \/ /\ epoch # NoEpoch /\ completed' > completed /\ completed' \in Generations
            /\ completed' >= highest /\ highest' = completed'
            /\ (completed' = highest => pending # NoPending /\ pending.fresh)
            /\ UNCHANGED <<history, epoch>>
         \/ /\ UNCHANGED <<history, epoch, completed, manifest>> /\ highest' >= highest
            /\ epoch # NoEpoch => UNCHANGED documents
<1>1. ASSUME NEW e \in Epochs, NEW expected \in Epochs \cup {NoEpoch}, SetCatalogEpoch(e, expected)
      PROVE  /\ epoch' \in Epochs \ Installed /\ Installed' = Installed \cup {epoch'}
             /\ completed' = 0 /\ UNCHANGED documents
  BY <1>1, SetCatalogEpochInOrder DEF SetCatalogEpoch, FencedEpochs
<1>2. highest \in Nat /\ completed \in Nat /\ completed =< highest
  BY CountersAreNaturals DEF FencedEpochs, TypedFences, PendingIsCurrent
<1>3. ASSUME NEW s \in PendingRecords, Staged(s), KeepPending(s)
      PROVE  /\ UNCHANGED <<history, epoch, completed, manifest, documents>>
             /\ highest' >= highest
  BY <1>3 DEF Staged, Settle, KeepPending
<1>4. ASSUME NEW s \in PendingRecords, Staged(s), CompleteCatalogSnapshot(s)
      PROVE  /\ epoch # NoEpoch /\ completed' > completed /\ completed' \in Generations
             /\ completed' >= highest /\ highest' = completed'
             /\ (completed' = highest => pending # NoPending /\ pending.fresh)
             /\ UNCHANGED <<history, epoch>>
  <2>1. s.generation \in Generations /\ s.generation \in Nat
    BY GenerationsArePositive DEF PendingRecords
  <2>2. completed' = s.generation /\ highest' = s.generation /\ UNCHANGED <<history, epoch>>
    BY <1>4 DEF Staged, Settle, CompleteCatalogSnapshot
  <2>3. /\ epoch # NoEpoch /\ s.generation >= highest /\ s.generation # completed
        /\ s.generation = highest => pending # NoPending /\ pending.fresh
    BY <1>4 DEF Staged
  <2> QED BY <1>2, <2>1, <2>2, <2>3
<1>5. CASE Expire \/ PruneCatalogSnapshots \/ UNCHANGED receiverVars
  BY <1>2, <1>5 DEF Expire, PruneCatalogSnapshots, receiverVars, authority
<1>6. ASSUME NEW v \in Videos, NEW row \in LegacyRows, LegacyWrite(v, row)
      PROVE  /\ UNCHANGED <<history, epoch, completed, manifest>> /\ highest' >= highest
             /\ epoch = NoEpoch
  BY <1>2, <1>6 DEF LegacyWrite, authority
<1>7. ASSUME NEW s \in PendingRecords, Staged(s)
      PROVE  KeepPending(s) \/ CompleteCatalogSnapshot(s)
  BY <1>7 DEF Staged, Settle
<1> QED BY StepCases, <1>1, <1>3, <1>4, <1>5, <1>6, <1>7 DEF FencedEpochs

(* An epoch is replaced only by one never used before, and within an epoch  *)
(* the completed generation and its manifest only move forward.             *)
THEOREM AuthorityOnlyMovesForward == Spec => AuthorityMovesForward
<1>1. ASSUME FencedEpochs, [Next]_receiverVars
      PROVE  [IF epoch' = epoch
              THEN /\ highest' >= highest
                   /\ completed' >= completed
                   /\ completed' = completed => manifest' = manifest
              ELSE epoch' \notin Installed /\ completed' = 0]_receiverVars
  <2>1. highest \in Nat /\ completed \in Nat
    BY <1>1, CountersAreNaturals DEF FencedEpochs, TypedFences
  <2>2. epoch # NoEpoch => epoch \in Installed
    BY <1>1 DEF FencedEpochs, EpochsInOrder, EpochsFormOneChain
  <2>3. completed' \in Generations => completed' \in Nat
    BY GenerationsArePositive
  <2> QED BY <1>1, <2>1, <2>2, <2>3, FenceSteps, EpochAssumption
<1> QED BY <1>1, InitFencedEpochs, NextFencedEpochs, PTL DEF Spec, AuthorityMovesForward

(* Once a scope is initialised, served documents change only together with  *)
(* the fence a reader compares (legacyCatalogBlocked, SetCatalogEpoch).     *)
THEOREM ProjectionOnlyMovesWithFence == Spec => ProjectionMovesWithFence
<1>1. ASSUME FencedEpochs, [Next]_receiverVars
      PROVE  [epoch # NoEpoch /\ documents' # documents => Fence' # Fence]_receiverVars
  <2>1. completed \in Nat
    BY <1>1, CountersAreNaturals DEF FencedEpochs, TypedFences
  <2> QED BY <1>1, <2>1, FenceSteps DEF Fence
<1> QED BY <1>1, InitFencedEpochs, NextFencedEpochs, PTL DEF Spec, ProjectionMovesWithFence

(* An expired or pruned highest generation never comes back: nothing but a  *)
(* larger generation or a new epoch changes the receiver (Admissible).      *)
THEOREM ExpiredNeverRevived == Spec => ExpiredStaysExpired
<1>1. ASSUME TypedFences, [Next]_receiverVars
      PROVE  [(/\ epoch # NoEpoch /\ highest > 0
               /\ pending = NoPending \/ ~pending.fresh
               /\ epoch' = epoch /\ highest' = highest) =>
                 /\ completed' = completed
                 /\ pending' \in {pending, NoPending}]_receiverVars
  <2> SUFFICES ASSUME epoch # NoEpoch, pending = NoPending \/ ~pending.fresh,
                      epoch' = epoch, highest' = highest
               PROVE  completed' = completed /\ pending' \in {pending, NoPending}
    OBVIOUS
  <2>1. ~ \E e \in Epochs, expected \in Epochs \cup {NoEpoch} : SetCatalogEpoch(e, expected)
    BY DEF SetCatalogEpoch
  <2>2. ~ \E s \in PendingRecords : Staged(s)
    BY DEF Staged, Settle
  <2> QED BY <1>1, <2>1, <2>2, StepCases
          DEF Expire, PruneCatalogSnapshots, LegacyWrite, receiverVars, authority
<1> QED BY <1>1, InitTypedFences, NextTypedFences, PTL DEF Spec, ExpiredStaysExpired

(* The pages and the manifest staged for a generation are written once, and *)
(* an expired snapshot is not fresh again (StageCatalogPage, CatalogEnd).   *)
THEOREM EvidenceIsWrittenOnce == Spec => EvidenceIsImmutable
<1> DEFINE SameSnapshot == /\ pending # NoPending /\ pending' # NoPending
                           /\ pending'.epoch = pending.epoch
                           /\ pending'.generation = pending.generation
           KeptEvidence == /\ \A i \in StoredPages(pending) : pending'.pages[i] = pending.pages[i]
                           /\ pending.manifest # NoManifest => pending'.manifest = pending.manifest
                           /\ pending'.fresh => pending.fresh
<1>1. ASSUME TypedFences, [Next]_receiverVars
      PROVE  [SameSnapshot => KeptEvidence]_receiverVars
  <2> SUFFICES ASSUME SameSnapshot PROVE KeptEvidence
    OBVIOUS
  <2>1. ~ \E e \in Epochs, expected \in Epochs \cup {NoEpoch} : SetCatalogEpoch(e, expected)
    BY DEF SetCatalogEpoch
  <2>2. ASSUME NEW s \in PendingRecords, Staged(s) PROVE KeptEvidence
    <3>1. pending.generation = highest
      BY <1>1 DEF TypedFences, PendingIsCurrent
    <3>2. pending' = s
      BY <2>2 DEF Staged, Settle, KeepPending, CompleteCatalogSnapshot
    <3> QED BY <2>2, <3>1, <3>2 DEF Staged
  <2>3. CASE Expire
    <3>1. pending \in PendingRecords /\ pending' = [pending EXCEPT !.fresh = FALSE]
      BY <1>1, <2>3 DEF Expire, TypedFences, TypeOK
    <3> QED BY <3>1 DEF PendingRecords
  <2>4. ASSUME UNCHANGED pending PROVE KeptEvidence
    BY <2>4
  <2>5. ~PruneCatalogSnapshots
    BY DEF PruneCatalogSnapshots
  <2> QED BY <1>1, <2>1, <2>2, <2>3, <2>4, <2>5, StepCases DEF LegacyWrite, receiverVars
<1> QED BY <1>1, InitTypedFences, NextTypedFences, PTL DEF Spec, EvidenceIsImmutable

(* No activation writes or orphans a row of another peer: its documents are *)
(* refused when one of them is foreign-owned, and the orphan sweep takes    *)
(* local rows only (CompleteCatalogSnapshot).                               *)
THEOREM ForeignRowsAreLeftAlone == Spec => ForeignRowsPreserved
<1>1. ASSUME TypedFences, [Next]_receiverVars
      PROVE  [\A v \in Videos : epoch # NoEpoch /\ documents[v].kind = "remote"
                                  => documents'[v] = documents[v]]_receiverVars
  <2> SUFFICES ASSUME NEW v \in Videos, epoch # NoEpoch, documents[v].kind = "remote"
               PROVE  documents'[v] = documents[v]
    OBVIOUS
  <2>1. ASSUME NEW s \in PendingRecords, Staged(s) PROVE documents'[v] = documents[v]
    <3>1. CASE UNCHANGED documents
      BY <3>1
    <3>2. CASE documents' = Activated(s) /\ ~ForeignOwned(MembersOf(s))
      BY <3>2, ActivatedRows DEF ForeignOwned
    <3> QED BY <2>1, <3>1, <3>2 DEF Staged, Settle, KeepPending, CompleteCatalogSnapshot
  <2> QED BY <1>1, <2>1, StepCases
          DEF SetCatalogEpoch, Expire, PruneCatalogSnapshots, LegacyWrite, receiverVars
<1> QED BY <1>1, InitTypedFences, NextTypedFences, PTL DEF Spec, ForeignRowsPreserved

(* Complete evidence is published or refused by the event that completes it; *)
(* it is never left pending (applyCatalogOne).                              *)
THEOREM CompleteEvidenceIsSettled == Spec => []NoCompleteEvidenceWaits
<1>1. Init => NoCompleteEvidenceWaits
  BY DEF Init, NoCompleteEvidenceWaits
<1>2. ASSUME TypedFences, NoCompleteEvidenceWaits, [Next]_receiverVars
      PROVE  NoCompleteEvidenceWaits'
  <2>1. ASSUME NEW s \in PendingRecords, Staged(s) PROVE NoCompleteEvidenceWaits'
    <3>1. CASE KeepPending(s)
      BY <3>1 DEF KeepPending, NoCompleteEvidenceWaits, AllEvidence, StoredPages
    <3>2. CASE CompleteCatalogSnapshot(s)
      BY <3>2 DEF CompleteCatalogSnapshot, NoCompleteEvidenceWaits
    <3> QED BY <2>1, <3>1, <3>2 DEF Staged, Settle
  <2>2. CASE Expire
    <3>1. pending \in PendingRecords /\ pending' = [pending EXCEPT !.fresh = FALSE]
      BY <1>2, <2>2 DEF Expire, TypedFences, TypeOK
    <3>2. pending'.manifest = pending.manifest /\ pending'.pages = pending.pages
      BY <3>1 DEF PendingRecords
    <3> QED BY <1>2, <2>2, <3>2 DEF Expire, NoCompleteEvidenceWaits, AllEvidence, StoredPages
  <2>3. ASSUME pending' \in {pending, NoPending} PROVE NoCompleteEvidenceWaits'
    BY <1>2, <2>3 DEF NoCompleteEvidenceWaits, AllEvidence, StoredPages
  <2> QED BY <1>2, <2>1, <2>2, <2>3, StepCases
          DEF SetCatalogEpoch, PruneCatalogSnapshots, LegacyWrite, receiverVars
<1> QED BY <1>1, <1>2, InitTypedFences, NextTypedFences, PTL DEF Spec
-----------------------------------------------------------------------------
(* The receiver implements atomic publication *)

LEMMA InitImplements == Init => Authority!Init
BY DEF Init, Authority!Init, Installed, Fence, LiveCatalog, LiveLocal, NoRow

LEMMA LiveCatalogTyped == TypeOK => LiveCatalog \subseteq CanonicalDocuments
<1> SUFFICES ASSUME TypeOK, NEW v \in LiveLocal
             PROVE  [id |-> v, meta |-> documents[v].meta] \in CanonicalDocuments
  BY DEF LiveCatalog
<1>1. v \in Videos /\ documents[v].kind = "local" /\ documents[v] \in Rows \cup {NoRow}
  BY DEF LiveLocal, TypeOK
<1>2. documents[v].meta \in Metas
  BY <1>1 DEF Rows, NoRow
<1> QED BY <1>1, <1>2 DEF CanonicalDocuments

LEMMA LiveCatalogStaysTyped == TypeOK' => (LiveCatalog \subseteq CanonicalDocuments)'
BY LiveCatalogTyped, PTL

\* Accepted evidence either stays invisible or is published whole.
LEMMA StagedImplements ==
  ASSUME TypedFences, NEW s \in PendingRecords, Staged(s)
  PROVE  [Authority!Next]_(Authority!abstractVars)
<1>1. ASSUME KeepPending(s) PROVE UNCHANGED Authority!abstractVars
  BY <1>1 DEF Staged, Settle, KeepPending, Authority!abstractVars, Installed, Fence,
              LiveCatalog, LiveLocal
<1>2. ASSUME CompleteCatalogSnapshot(s)
      PROVE  Authority!Publish(s.generation, DocumentsIn(s))
  <2>1. LiveCatalog' = DocumentsIn(s)
    BY <1>2, ActivationIsExact DEF CompleteCatalogSnapshot, Verified, TypedFences
  <2>2. s.generation \in Nat /\ highest \in Nat /\ completed \in Nat /\ completed =< highest
    BY CountersAreNaturals, GenerationsArePositive
       DEF PendingRecords, TypedFences, PendingIsCurrent
  <2>3. s.generation > completed /\ epoch # NoEpoch
    BY <2>2 DEF Staged
  <2>4. completed' = s.generation /\ UNCHANGED <<history, epoch>>
    BY <1>2 DEF CompleteCatalogSnapshot, Staged, Settle
  <2> QED BY <2>1, <2>3, <2>4 DEF Authority!Publish, Fence, Installed
<1>3. DocumentsIn(s) \in SUBSET CanonicalDocuments /\ s.generation \in Generations
  BY DocumentsTyped DEF PendingRecords
<1> QED BY <1>1, <1>2, <1>3 DEF Staged, Settle, Authority!Next

LEMMA StepImplements ==
  ASSUME FencedEpochs, FencedEpochs', [Next]_receiverVars
  PROVE  [Authority!Next]_(Authority!abstractVars)
<1>1. ASSUME NEW e \in Epochs, NEW expected \in Epochs \cup {NoEpoch}, SetCatalogEpoch(e, expected)
      PROVE  Authority!Open(e)
  <2>1. e \notin Installed /\ Installed' = Installed \cup {e}
    BY <1>1, SetCatalogEpochInOrder DEF FencedEpochs
  <2> QED BY <1>1, <2>1
          DEF SetCatalogEpoch, Authority!Open, Fence, LiveCatalog, LiveLocal
<1>2. ASSUME NEW s \in PendingRecords, Staged(s)
      PROVE  [Authority!Next]_(Authority!abstractVars)
  BY <1>2, StagedImplements DEF FencedEpochs
<1>3. CASE Expire \/ PruneCatalogSnapshots \/ UNCHANGED receiverVars
  BY <1>3 DEF Expire, PruneCatalogSnapshots, receiverVars, authority, Authority!abstractVars,
              Installed, Fence, LiveCatalog, LiveLocal
<1>4. ASSUME NEW v \in Videos, NEW row \in LegacyRows, LegacyWrite(v, row)
      PROVE  Authority!Curate
  <2>1. LiveCatalog' \subseteq CanonicalDocuments
    BY LiveCatalogStaysTyped DEF FencedEpochs, TypedFences
  <2> QED BY <1>4, <2>1 DEF LegacyWrite, authority, Authority!Curate, Installed, Fence
<1> QED BY StepCases, <1>1, <1>2, <1>3, <1>4 DEF FencedEpochs, Authority!Next

(* Every behaviour of the receiver is one of atomic publication: staging,   *)
(* replay, expiry and refusal are invisible, and a whole observation        *)
(* replaces the catalog in the step that moves the fence.                   *)
THEOREM ReceiverImplementsAuthority == Spec => ImplementsAuthority
<1>1. FencedEpochs /\ FencedEpochs' /\ [Next]_receiverVars
        => [Authority!Next]_(Authority!abstractVars)
  BY StepImplements
<1> QED BY <1>1, InitImplements, InitFencedEpochs, NextFencedEpochs, PTL
        DEF Spec, ImplementsAuthority, Authority!Spec
-----------------------------------------------------------------------------
(* The ledger of a pending snapshot *)

\* The document counts and canonical lengths of the pages.
Counts(s) == [i \in PageIndexes |-> Cardinality(s.pages[i])]
Lengths(s) == [i \in PageIndexes |-> ContentBytes[s.pages[i]]]

\* The ids a snapshot may hold, and what it was charged for them.
InOrderSoFar(s) ==
  /\ s.bytes = MeasuredBytes(s)
  /\ s.bytes =< MaxSnapshotBytes
  /\ DocumentCount(s) =< MaxDocuments
  /\ DistinctMembership(s)
  /\ ~ForeignOwned(MembersOf(s))
  /\ s.manifest # NoManifest => PagesWithin(s, s.manifest)

LEMMA StoredPagesTyped ==
  ASSUME NEW s \in PendingRecords
  PROVE  /\ StoredPages(s) \subseteq PageIndexes /\ IsFiniteSet(StoredPages(s))
         /\ \A i \in StoredPages(s) : s.pages[i] \in Contents
         /\ \A i \in StoredPages(s) : Counts(s)[i] \in Nat /\ Lengths(s)[i] \in Nat
<1>1. IsFiniteSet(PageIndexes)
  BY FS_Interval, QuotaAssumption DEF PageIndexes
<1>2. StoredPages(s) \in SUBSET PageIndexes
  BY DEF StoredPages
<1>3. IsFiniteSet(StoredPages(s))
  BY <1>1, <1>2, FS_Subset
<1>4. ASSUME NEW i \in StoredPages(s)
      PROVE  s.pages[i] \in Contents /\ Counts(s)[i] \in Nat /\ Lengths(s)[i] \in Nat
  <2>1. s.pages[i] \in Contents
    BY DEF StoredPages, PendingRecords, PageFamilies
  <2>2. IsFiniteSet(s.pages[i]) /\ ContentBytes[s.pages[i]] \in Nat
    BY <2>1, ContentAssumption, ContentsTyped
  <2>3. Cardinality(s.pages[i]) \in Nat
    BY <2>2, FS_CardinalityType
  <2> QED BY <1>2, <2>1, <2>2, <2>3 DEF Counts, Lengths
<1> QED BY <1>2, <1>3, <1>4

\* sum(document_count) and the re-measured bytes are sums over the stored pages.
LEMMA DocumentCountAdds ==
  ASSUME NEW s \in PendingRecords
  PROVE  SumsTo(DocumentCount(s), Counts(s), StoredPages(s))
<1> DEFINE S == StoredPages(s)
<1>1. IsFiniteSet(S) /\ S \subseteq PageIndexes /\ \A i \in S : Counts(s)[i] \in Nat
  BY StoredPagesTyped
<1>2. \A i \in S : Counts(s)[i] = Cardinality(s.pages[i])
  BY <1>1 DEF Counts
<1> HIDE DEF S
<1>3. PICK g \in [SUBSET S -> Nat] : Adds(g, Counts(s), S)
  BY <1>1, SumExists
<1>4. \A r \in SUBSET S : r # {} => (CHOOSE x \in r : TRUE) \in S
  BY AnyIsMember DEF AnyOf
<1>5. g = [r \in SUBSET S |->
             IF r = {} THEN 0
             ELSE Cardinality(s.pages[CHOOSE x \in r : TRUE]) + g[r \ {CHOOSE x \in r : TRUE}]]
  BY <1>2, <1>3, <1>4 DEF Adds, AnyOf
<1>6. PICK h : /\ h = [r \in SUBSET S |->
                         IF r = {} THEN 0
                         ELSE Cardinality(s.pages[CHOOSE x \in r : TRUE])
                                + h[r \ {CHOOSE x \in r : TRUE}]]
               /\ DocumentCount(s) = h[S]
  BY <1>5 DEF DocumentCount, MapThenSumSet, MapThenFoldSet, S
<1>7. \A r \in SUBSET S :
        h[r] = IF r = {} THEN 0
               ELSE Cardinality(s.pages[CHOOSE x \in r : TRUE]) + h[r \ {CHOOSE x \in r : TRUE}]
  BY <1>6
<1>8. Adds(h, Counts(s), S)
  BY <1>2, <1>4, <1>7 DEF Adds, AnyOf
<1> QED BY <1>6, <1>8 DEF SumsTo, S

LEMMA MeasuredBytesAdds ==
  ASSUME NEW s \in PendingRecords
  PROVE  SumsTo(MeasuredBytes(s), Lengths(s), StoredPages(s))
<1> DEFINE S == StoredPages(s)
<1>1. IsFiniteSet(S) /\ S \subseteq PageIndexes /\ \A i \in S : Lengths(s)[i] \in Nat
  BY StoredPagesTyped
<1>2. \A i \in S : Lengths(s)[i] = ContentBytes[s.pages[i]]
  BY <1>1 DEF Lengths
<1> HIDE DEF S
<1>3. PICK g \in [SUBSET S -> Nat] : Adds(g, Lengths(s), S)
  BY <1>1, SumExists
<1>4. \A r \in SUBSET S : r # {} => (CHOOSE x \in r : TRUE) \in S
  BY AnyIsMember DEF AnyOf
<1>5. g = [r \in SUBSET S |->
             IF r = {} THEN 0
             ELSE ContentBytes[s.pages[CHOOSE x \in r : TRUE]] + g[r \ {CHOOSE x \in r : TRUE}]]
  BY <1>2, <1>3, <1>4 DEF Adds, AnyOf
<1>6. PICK h : /\ h = [r \in SUBSET S |->
                         IF r = {} THEN 0
                         ELSE ContentBytes[s.pages[CHOOSE x \in r : TRUE]]
                                + h[r \ {CHOOSE x \in r : TRUE}]]
               /\ MeasuredBytes(s) = h[S]
  BY <1>5 DEF MeasuredBytes, MapThenSumSet, MapThenFoldSet, S
<1>7. \A r \in SUBSET S :
        h[r] = IF r = {} THEN 0
               ELSE ContentBytes[s.pages[CHOOSE x \in r : TRUE]] + h[r \ {CHOOSE x \in r : TRUE}]
  BY <1>6
<1>8. Adds(h, Lengths(s), S)
  BY <1>2, <1>4, <1>7 DEF Adds, AnyOf
<1> QED BY <1>6, <1>8 DEF SumsTo, S

\* Snapshots with the same pages hold and are charged the same.
LEMMA SamePages ==
  ASSUME NEW s \in PendingRecords, NEW t \in PendingRecords, t.pages = s.pages
  PROVE  /\ StoredPages(t) = StoredPages(s) /\ MembersOf(t) = MembersOf(s)
         /\ DocumentCount(t) = DocumentCount(s) /\ MeasuredBytes(t) = MeasuredBytes(s)
         /\ DistinctMembership(s) => DistinctMembership(t)
<1>1. StoredPages(t) = StoredPages(s)
  BY DEF StoredPages
<1>2. MembersOf(t) = MembersOf(s)
  BY DEF MembersOf, DocumentsIn
<1>3. DistinctMembership(s) => DistinctMembership(t)
  BY DEF DistinctMembership
<1>4. /\ IsFiniteSet(StoredPages(s))
      /\ \A i \in StoredPages(s) : Counts(s)[i] \in Nat /\ Lengths(s)[i] \in Nat
  BY StoredPagesTyped
<1>5. Counts(t) = Counts(s) /\ Lengths(t) = Lengths(s)
  BY DEF Counts, Lengths
<1>6. DocumentCount(t) = DocumentCount(s)
  BY <1>1, <1>4, <1>5, DocumentCountAdds, SumIsUnique
<1>7. MeasuredBytes(t) = MeasuredBytes(s)
  BY <1>1, <1>4, <1>5, MeasuredBytesAdds, SumIsUnique
<1> QED BY <1>1, <1>2, <1>3, <1>6, <1>7

\* A page stored under a free index adds its documents and its length, once.
LEMMA PageAdds ==
  ASSUME NEW s \in PendingRecords, NEW i \in PageIndexes, NEW content \in Contents,
         s.pages[i] = {}, NEW t, t = WithPage(s, i, content)
  PROVE  /\ t \in PendingRecords /\ t.manifest = s.manifest
         /\ t.bytes = s.bytes + ContentBytes[content]
         /\ t.pages = [s.pages EXCEPT ![i] = content]
         /\ StoredPages(t) = StoredPages(s) \cup {i} /\ i \notin StoredPages(s)
         /\ DocumentCount(s) \in Nat /\ MeasuredBytes(s) \in Nat
         /\ DocumentCount(t) = Cardinality(content) + DocumentCount(s)
         /\ MeasuredBytes(t) = ContentBytes[content] + MeasuredBytes(s)
<1>1. content # {} /\ ContentBytes[content] \in Nat /\ Cardinality(content) \in Nat
  BY ContentsTyped, ContentAssumption, FS_CardinalityType
<1>2. s.pages \in [PageIndexes -> Contents \cup {{}}]
  BY DEF PendingRecords, PageFamilies
<1>3. t = [s EXCEPT !.pages[i] = content, !.bytes = @ + ContentBytes[content]]
  BY <1>1 DEF WithPage
<1>4. /\ t.pages = [s.pages EXCEPT ![i] = content] /\ t.manifest = s.manifest
      /\ t.bytes = s.bytes + ContentBytes[content]
  BY <1>3 DEF PendingRecords
<1>5. t \in PendingRecords
  BY WithPageTyped
<1>6. /\ t.pages[i] = content /\ DOMAIN t.pages = PageIndexes
      /\ \A j \in PageIndexes : j # i => t.pages[j] = s.pages[j]
  BY <1>2, <1>4
<1>7. StoredPages(t) = StoredPages(s) \cup {i} /\ i \notin StoredPages(s)
  BY <1>1, <1>6 DEF StoredPages
<1> DEFINE S == StoredPages(s)
<1>8. /\ IsFiniteSet(S) /\ S \subseteq PageIndexes
      /\ \A j \in S : Counts(s)[j] \in Nat /\ Lengths(s)[j] \in Nat
  BY StoredPagesTyped
<1>9. /\ Counts(t)[i] = Cardinality(content) /\ Lengths(t)[i] = ContentBytes[content]
      /\ \A j \in S : Counts(t)[j] = Counts(s)[j] /\ Lengths(t)[j] = Lengths(s)[j]
  BY <1>6, <1>7, <1>8 DEF Counts, Lengths
<1>10. SumsTo(DocumentCount(s), Counts(s), S) /\ SumsTo(MeasuredBytes(s), Lengths(s), S)
  BY DocumentCountAdds, MeasuredBytesAdds
<1>11. SumsTo(DocumentCount(t), Counts(t), S \cup {i}) /\ SumsTo(MeasuredBytes(t), Lengths(t), S \cup {i})
  BY <1>5, <1>7, DocumentCountAdds, MeasuredBytesAdds
<1>12. i \notin S
  BY <1>7
<1> HIDE DEF S
<1>13. DocumentCount(s) \in Nat /\ DocumentCount(t) = Cardinality(content) + DocumentCount(s)
  <2>1. \A j \in S : Counts(t)[j] \in Nat /\ Counts(s)[j] = Counts(t)[j]
    BY <1>8, <1>9
  <2>2. Counts(t)[i] \in Nat
    BY <1>1, <1>9
  <2> DEFINE f == Counts(t)
             g == Counts(s)
             a == DocumentCount(t)
             b == DocumentCount(s)
  <2>3. /\ IsFiniteSet(S) /\ i \notin S /\ f[i] \in Nat
        /\ \A j \in S : f[j] \in Nat /\ g[j] = f[j]
        /\ SumsTo(a, f, S \cup {i}) /\ SumsTo(b, g, S)
    BY <1>8, <1>10, <1>11, <1>12, <2>1, <2>2
  <2> HIDE DEF f, g, a, b
  <2>4. b \in Nat /\ a = f[i] + b
    BY <2>3, SumOfOneMore
  <2>5. DocumentCount(s) \in Nat /\ DocumentCount(t) = Counts(t)[i] + DocumentCount(s)
    BY <2>4 DEF f, a, b
  <2> QED BY <1>9, <2>5
<1>14. MeasuredBytes(s) \in Nat /\ MeasuredBytes(t) = ContentBytes[content] + MeasuredBytes(s)
  <2>1. \A j \in S : Lengths(t)[j] \in Nat /\ Lengths(s)[j] = Lengths(t)[j]
    BY <1>8, <1>9
  <2>2. Lengths(t)[i] \in Nat
    BY <1>1, <1>9
  <2> DEFINE f == Lengths(t)
             g == Lengths(s)
             a == MeasuredBytes(t)
             b == MeasuredBytes(s)
  <2>3. /\ IsFiniteSet(S) /\ i \notin S /\ f[i] \in Nat
        /\ \A j \in S : f[j] \in Nat /\ g[j] = f[j]
        /\ SumsTo(a, f, S \cup {i}) /\ SumsTo(b, g, S)
    BY <1>8, <1>10, <1>11, <1>12, <2>1, <2>2
  <2> HIDE DEF f, g, a, b
  <2>4. b \in Nat /\ a = f[i] + b
    BY <2>3, SumOfOneMore
  <2>5. MeasuredBytes(s) \in Nat /\ MeasuredBytes(t) = Lengths(t)[i] + MeasuredBytes(s)
    BY <2>4 DEF f, a, b
  <2> QED BY <1>9, <2>5
<1> QED BY <1>4, <1>5, <1>7, <1>13, <1>14

\* A page that passes the checks keeps the snapshot in order (StageCatalogPage).
LEMMA PageInOrder ==
  ASSUME NEW s \in PendingRecords, NEW i \in PageIndexes, NEW content \in Contents,
         InOrderSoFar(s), s.pages[i] = {}, WellFormed(content),
         WithinQuota(s, content), WithinManifest(s, i, content), NoCollision(s, content)
  PROVE  InOrderSoFar(WithPage(s, i, content))
<1> DEFINE t == WithPage(s, i, content)
<1>1. /\ t \in PendingRecords /\ t.manifest = s.manifest
      /\ t.bytes = s.bytes + ContentBytes[content]
      /\ t.pages = [s.pages EXCEPT ![i] = content]
      /\ StoredPages(t) = StoredPages(s) \cup {i} /\ i \notin StoredPages(s)
      /\ DocumentCount(s) \in Nat /\ MeasuredBytes(s) \in Nat
      /\ DocumentCount(t) = Cardinality(content) + DocumentCount(s)
      /\ MeasuredBytes(t) = ContentBytes[content] + MeasuredBytes(s)
  BY PageAdds
<1> HIDE DEF t
<1>2. ContentBytes[content] \in Nat /\ Cardinality(content) \in Nat
  BY ContentsTyped, ContentAssumption, FS_CardinalityType
<1>3. /\ t.pages[i] = content
      /\ \A j \in PageIndexes : j # i => t.pages[j] = s.pages[j]
  <2>1. s.pages \in [PageIndexes -> Contents \cup {{}}]
    BY DEF PendingRecords, PageFamilies
  <2> QED BY <1>1, <2>1
<1>4. t.bytes = MeasuredBytes(t) /\ t.bytes =< MaxSnapshotBytes
  BY <1>1, <1>2 DEF InOrderSoFar, WithinQuota
<1>5. DocumentCount(t) =< MaxDocuments
  BY <1>1, <1>2, QuotaAssumption DEF WithinQuota
<1>6. MembersOf(t) = MembersOf(s) \cup IdsOf(content)
  <2>1. DocumentsIn(t) = DocumentsIn(s) \cup content
    BY <1>3 DEF DocumentsIn
  <2> QED BY <2>1 DEF MembersOf, IdsOf
<1>7. ~ForeignOwned(MembersOf(t))
  BY <1>6 DEF ForeignOwned, NoCollision, InOrderSoFar
<1>8. DistinctMembership(t)
  <2>1. SUFFICES ASSUME NEW j \in PageIndexes, NEW k \in PageIndexes,
                        NEW c \in t.pages[j], NEW d \in t.pages[k], c.id = d.id
                 PROVE  j = k /\ c = d
    BY DEF DistinctMembership
  <2>2. CASE j = i /\ k = i
    BY <1>3, <2>1, <2>2 DEF WellFormed
  <2>3. CASE j # i /\ k # i
    BY <1>3, <2>1, <2>3 DEF InOrderSoFar, DistinctMembership
  <2>4. \A n \in PageIndexes : \A e \in s.pages[n] : e.id \in MembersOf(s)
    BY DEF MembersOf, IdsOf, DocumentsIn
  <2>5. \A e \in content : e.id \notin MembersOf(s)
    BY DEF NoCollision, IdsOf
  <2>6. CASE j = i /\ k # i
    BY <1>3, <2>1, <2>4, <2>5, <2>6
  <2>7. CASE j # i /\ k = i
    BY <1>3, <2>1, <2>4, <2>5, <2>7
  <2> QED BY <2>2, <2>3, <2>6, <2>7
<1>9. ASSUME t.manifest # NoManifest PROVE PagesWithin(t, t.manifest)
  <2> DEFINE m == s.manifest
  <2>1. m # NoManifest /\ m \in ManifestRecords /\ t.manifest = m
    BY <1>1, <1>9 DEF PendingRecords
  <2>2. PagesWithin(s, m) /\ i < m.pageCount
        /\ DocumentCount(s) + Cardinality(content) =< m.documentCount
    BY <2>1 DEF InOrderSoFar, WithinManifest
  <2>3. m.pageCount \in Nat /\ m.documentCount \in Nat
    BY <2>1 DEF ManifestRecords
  <2>4. \A j \in StoredPages(t) : j < m.pageCount
    BY <1>1, <2>2 DEF PagesWithin
  <2>5. Cardinality(StoredPages(t)) =< m.pageCount
    <3> DEFINE all == 0 .. m.pageCount - 1
    <3>1. IsFiniteSet(all) /\ Cardinality(all) = m.pageCount
      <4> DEFINE n == m.pageCount
      <4>1. n \in Nat /\ n - 1 \in Int /\ 0 \in Int
        BY <2>3
      <4> HIDE DEF n
      <4>2. /\ IsFiniteSet(0 .. n - 1)
            /\ Cardinality(0 .. n - 1) = IF 0 > n - 1 THEN 0 ELSE (n - 1) - 0 + 1
        BY <4>1, FS_Interval
      <4>3. IsFiniteSet(0 .. n - 1) /\ Cardinality(0 .. n - 1) = n
        BY <4>1, <4>2
      <4> QED BY <4>3 DEF n
    <3>2. StoredPages(t) \in SUBSET all
      <4>1. \A j \in PageIndexes : j \in Nat
        BY QuotaAssumption DEF PageIndexes
      <4>2. ASSUME NEW j \in StoredPages(t) PROVE j \in 0 .. m.pageCount - 1
        <5> DEFINE n == m.pageCount
        <5>1. j \in Nat /\ j < n /\ n \in Nat
          BY <2>3, <2>4, <4>1 DEF StoredPages
        <5> HIDE DEF n
        <5>2. j \in 0 .. n - 1
          BY <5>1
        <5> QED BY <5>2 DEF n
      <4> QED BY <4>2
    <3> HIDE DEF all
    <3>3. Cardinality(StoredPages(t)) =< Cardinality(all)
      BY <3>1, <3>2, FS_Subset
    <3> QED BY <3>1, <3>3
  <2>6. DocumentCount(t) =< m.documentCount
    BY <1>1, <1>2, <2>2, <2>3
  <2> QED BY <2>1, <2>4, <2>5, <2>6 DEF PagesWithin
<1> QED BY <1>4, <1>5, <1>7, <1>8, <1>9 DEF InOrderSoFar, t

LEMMA FreshInOrder ==
  ASSUME NEW g \in Generations, FreshSnapshot(g) \in PendingRecords
  PROVE  InOrderSoFar(FreshSnapshot(g))
<1> DEFINE s == FreshSnapshot(g)
<1>1. s.bytes = 0 /\ s.manifest = NoManifest /\ \A i \in PageIndexes : s.pages[i] = {}
  BY DEF FreshSnapshot, NoPages
<1> HIDE DEF s
<1>2. StoredPages(s) = {} /\ DocumentsIn(s) = {}
  BY <1>1 DEF StoredPages, DocumentsIn
<1>3. SumsTo(DocumentCount(s), Counts(s), {}) /\ SumsTo(MeasuredBytes(s), Lengths(s), {})
  BY <1>2, DocumentCountAdds, MeasuredBytesAdds DEF s
<1>4. DocumentCount(s) = 0 /\ MeasuredBytes(s) = 0
  <2>1. \A h, f : Adds(h, f, {}) => h[{}] = 0
    BY DEF Adds
  <2> QED BY <1>3, <2>1 DEF SumsTo
<1>5. DistinctMembership(s)
  BY <1>1 DEF DistinctMembership
<1>6. ~ForeignOwned(MembersOf(s))
  BY <1>2 DEF MembersOf, IdsOf, ForeignOwned
<1>7. InOrderSoFar(s)
  BY <1>1, <1>4, <1>5, <1>6, QuotaAssumption DEF InOrderSoFar
<1> QED BY <1>7 DEF s

\* The ledger as an operator of the snapshot, so that a step can speak of both.
LedgerInv == TypedFences /\ (pending # NoPending => InOrderSoFar(pending))

\* What an admitted event starts from is in order.
LEMMA AdmittedInOrder ==
  ASSUME LedgerInv, NEW e \in Epochs, NEW g \in Generations, Admissible(e, g)
  PROVE  AdmittedSnapshot(g) \in PendingRecords /\ InOrderSoFar(AdmittedSnapshot(g))
<1>1. AdmittedSnapshot(g) \in PendingRecords
  BY AdmittedTyped DEF LedgerInv, TypedFences
<1>2. CASE g > highest
  <2>1. AdmittedSnapshot(g) = FreshSnapshot(g)
    BY <1>2 DEF AdmittedSnapshot
  <2> QED BY <1>1, <2>1, FreshInOrder
<1>3. CASE ~(g > highest)
  <2>1. g = highest
    BY <1>3, GenerationsArePositive, CountersAreNaturals DEF Admissible, LedgerInv, TypedFences
  <2>2. pending # NoPending /\ AdmittedSnapshot(g) = pending
    BY <1>3, <2>1 DEF Admissible, AdmittedSnapshot
  <2> QED BY <1>1, <2>2 DEF LedgerInv
<1> QED BY <1>2, <1>3

\* An event that settles on a snapshot in order leaves one in order, or none.
LEMMA SettleInOrder ==
  ASSUME NEW s, InOrderSoFar(s), Settle(s), pending' # NoPending
  PROVE  InOrderSoFar(pending)'
<1>1. KeepPending(s)
  BY DEF Settle, CompleteCatalogSnapshot
<1>2. pending' = s /\ documents' = documents
  BY <1>1 DEF KeepPending
<1>3. InOrderSoFar(pending)' = InOrderSoFar(s)
  BY <1>2 DEF InOrderSoFar, DistinctMembership, ForeignOwned, MembersOf, IdsOf, DocumentsIn,
             PagesWithin
<1> QED BY <1>3

LEMMA PageKeepsLedger ==
  ASSUME LedgerInv, NEW e \in Epochs, NEW g \in Generations, NEW i \in 0 .. MaxPages,
         NEW content \in Contents, StageCatalogPage(e, g, i, content), pending' # NoPending
  PROVE  InOrderSoFar(pending)'
<1> DEFINE a == AdmittedSnapshot(g)
           s == WithPage(a, i, content)
<1>1. /\ Admissible(e, g) /\ i \in PageIndexes /\ WellFormed(content) /\ Settle(s)
      /\ \/ a.pages[i] = content
         \/ /\ a.pages[i] = {}
            /\ WithinQuota(a, content)
            /\ WithinManifest(a, i, content)
            /\ NoCollision(a, content)
  BY DEF StageCatalogPage, AcceptsPage
<1>2. a \in PendingRecords /\ InOrderSoFar(a)
  BY <1>1, AdmittedInOrder
<1>3. CASE a.pages[i] = content
  <2>1. s = a
    BY <1>3 DEF WithPage
  <2> QED BY <1>1, <1>2, <2>1, SettleInOrder
<1>4. CASE a.pages[i] # content
  <2> HIDE DEF a
  <2>1. InOrderSoFar(s)
    BY <1>1, <1>2, <1>4, PageInOrder
  <2> HIDE DEF s
  <2> QED BY <1>1, <2>1, SettleInOrder
<1> QED BY <1>3, <1>4

LEMMA EndKeepsLedger ==
  ASSUME LedgerInv, NEW e \in Epochs, NEW g \in Generations, NEW m \in Manifests,
         StageCatalogEnd(e, g, m), pending' # NoPending
  PROVE  InOrderSoFar(pending)'
<1> DEFINE a == AdmittedSnapshot(g)
           s == [a EXCEPT !.manifest = m]
<1>1. /\ Admissible(e, g) /\ Settle(s)
      /\ a.manifest = m \/ (a.manifest = NoManifest /\ PagesWithin(a, m))
  BY DEF StageCatalogEnd, AcceptsEnd, WithManifest
<1>2. a \in PendingRecords /\ InOrderSoFar(a)
  BY <1>1, AdmittedInOrder
<1> HIDE DEF a
<1>3. s \in PendingRecords
  BY <1>2, WithManifestTyped
<1>4. s.pages = a.pages /\ s.manifest = m /\ s.bytes = a.bytes
  BY <1>2 DEF PendingRecords
<1> HIDE DEF s
<1>5. /\ StoredPages(s) = StoredPages(a) /\ MembersOf(s) = MembersOf(a)
      /\ DocumentCount(s) = DocumentCount(a) /\ MeasuredBytes(s) = MeasuredBytes(a)
      /\ DistinctMembership(a) => DistinctMembership(s)
  BY <1>2, <1>3, <1>4, SamePages
<1>6. m # NoManifest
  BY ManifestAssumption
<1>7. PagesWithin(a, m)
  BY <1>1, <1>2, <1>6 DEF InOrderSoFar
<1>8. PagesWithin(s, m)
  BY <1>5, <1>7 DEF PagesWithin
<1>9. InOrderSoFar(s)
  BY <1>2, <1>4, <1>5, <1>8 DEF InOrderSoFar
<1> QED BY <1>1, <1>9, SettleInOrder

\* A legacy write finds nothing pending: the scope was never initialised.
LEMMA NextLedger == LedgerInv /\ [Next]_receiverVars => LedgerInv'
<1> SUFFICES ASSUME LedgerInv, [Next]_receiverVars PROVE LedgerInv'
  OBVIOUS
<1>1. TypedFences /\ TypedFences'
  BY NextTypedFences DEF LedgerInv
<1>2. SUFFICES ASSUME pending' # NoPending PROVE InOrderSoFar(pending)'
  BY <1>1 DEF LedgerInv
<1>3. ASSUME NEW e \in Epochs, NEW g \in Generations, NEW i \in 0 .. MaxPages,
             NEW content \in Contents, StageCatalogPage(e, g, i, content)
      PROVE  InOrderSoFar(pending)'
  BY <1>2, <1>3, PageKeepsLedger
<1>4. ASSUME NEW e \in Epochs, NEW g \in Generations, NEW m \in Manifests,
             StageCatalogEnd(e, g, m)
      PROVE  InOrderSoFar(pending)'
  BY <1>2, <1>4, EndKeepsLedger
<1>5. CASE Expire
  <2>1. /\ pending \in PendingRecords /\ pending' = [pending EXCEPT !.fresh = FALSE]
        /\ InOrderSoFar(pending) /\ UNCHANGED documents
    BY <1>1, <1>5 DEF Expire, TypedFences, TypeOK, LedgerInv
  <2>2. /\ pending' \in PendingRecords /\ pending'.pages = pending.pages
        /\ pending'.bytes = pending.bytes /\ pending'.manifest = pending.manifest
    BY <2>1 DEF PendingRecords
  <2>3. /\ StoredPages(pending') = StoredPages(pending) /\ MembersOf(pending') = MembersOf(pending)
        /\ DocumentCount(pending') = DocumentCount(pending)
        /\ MeasuredBytes(pending') = MeasuredBytes(pending)
        /\ DistinctMembership(pending) => DistinctMembership(pending')
    BY <2>1, <2>2, SamePages
  <2> QED BY <2>1, <2>2, <2>3 DEF InOrderSoFar, ForeignOwned, PagesWithin
<1>6. ASSUME UNCHANGED <<pending, documents>> PROVE InOrderSoFar(pending)'
  BY <1>2, <1>6 DEF LedgerInv, InOrderSoFar, ForeignOwned
<1>7. ASSUME NEW v \in Videos, NEW row \in LegacyRows, LegacyWrite(v, row) PROVE FALSE
  <2>1. epoch = NoEpoch /\ pending' = pending
    BY <1>7 DEF LegacyWrite
  <2>2. completed < highest /\ highest = 0 /\ completed \in Nat
    BY <1>1, <1>2, <2>1, CountersAreNaturals DEF TypedFences, PendingIsCurrent
  <2> QED BY <2>2
<1>8. CASE UNCHANGED receiverVars
  BY <1>6, <1>8 DEF receiverVars
<1>9. ~PruneCatalogSnapshots /\ ~(\E e \in Epochs, x \in Epochs \cup {NoEpoch} : SetCatalogEpoch(e, x))
  BY <1>2 DEF PruneCatalogSnapshots, SetCatalogEpoch
<1> QED BY <1>3, <1>4, <1>5, <1>7, <1>8, <1>9 DEF Next

(* For any pages, manifests, quotas, redeliveries and expiries, what is     *)
(* pending respects the quotas and the manifest, repeats no id, takes none  *)
(* that is another server's, and was charged for once (StageCatalogPage).   *)
THEOREM LedgerIsExact == Spec => []PendingLedger
<1>1. Init => LedgerInv
  BY InitTypedFences DEF LedgerInv, Init
<1>2. LedgerInv => PendingLedger
  BY DEF LedgerInv, InOrderSoFar, PendingLedger
<1> QED BY <1>1, <1>2, NextLedger, PTL DEF Spec
=============================================================================
