----------------------- MODULE CatalogBoundaryProofs ------------------------
(***************************************************************************)
(* Proofs about the two boundaries of the receiver, for any number of      *)
(* handlers, sessions, epochs, generations, videos and cache contents.      *)
(* Reads: a fenced read is answered from one published observation; a fence *)
(* that has been left is never the fence again, so whatever a slow handler *)
(* read or cached under it can no longer be served.  Transactions: the     *)
(* committed catalog moves by whole publications; whatever the lock holder *)
(* has done so far is at most one step of the authority away from it.      *)
(***************************************************************************)
EXTENDS CatalogRead, CatalogTransactions, CatalogReceiverProofs

\* f is, or once was, the fence of a completed generation.
Reached(f) ==
  /\ f \in FenceValues
  /\ f.epoch \in Installed
  /\ f.epoch = epoch => f.generation =< completed

\* The fence names what it published.
FencePublishes ==
  epoch # NoEpoch /\ completed > 0 => published[Fence] = LiveCatalog

CacheIsCurrent ==
  \A f \in FenceValues :
    cache[f] # {} => /\ Reached(f)
                     /\ f = Fence => ~ForeignEligible /\ cache[f] \subseteq {Published(f)}

\* A handler under a fence either still sees that fence's documents, or the
\* fence is gone; what it has served stays true.
ReadersAreFenced ==
  \A r \in Readers :
    LET f == reader[r].before IN
      f # NoFence /\ reader[r].phase \in {"querying", "checking", "served"} =>
        /\ Reached(f) /\ f = reader[r].headers
        /\ f = Fence => ~ForeignEligible
        /\ f = Fence \/ reader[r].phase = "served" => reader[r].seen \subseteq {Published(f)}

ReadInv ==
  /\ FencedEpochs
  /\ ReadTypeOK
  /\ FencePublishes
  /\ CacheIsCurrent
  /\ ReadersAreFenced
-----------------------------------------------------------------------------
(* The writers *)

\* No catalog write makes a foreign row eligible once the scope is initialised.
LEMMA ForeignStaysOut ==
  ASSUME FencedEpochs, [Next]_receiverVars, epoch # NoEpoch, ~ForeignEligible
  PROVE  ~ForeignEligible'
<1>1. ASSUME UNCHANGED documents PROVE ~ForeignEligible'
  BY <1>1 DEF ForeignEligible
<1>2. ASSUME NEW s \in PendingRecords, Staged(s) PROVE ~ForeignEligible'
  <2>1. CASE KeepPending(s)
    BY <1>1, <2>1 DEF KeepPending
  <2>2. CASE CompleteCatalogSnapshot(s)
    <3>1. documents' = Activated(s) /\ documents \in [Videos -> Rows \cup {NoRow}]
      BY <2>2 DEF CompleteCatalogSnapshot, FencedEpochs, TypedFences, TypeOK
    <3>2. \A v \in Videos : documents'[v].kind = "local" \/ documents'[v] = documents[v]
      <4>1. SUFFICES ASSUME NEW v \in Videos
                     PROVE  Activated(s)[v].kind = "local" \/ Activated(s)[v] = documents[v]
        BY <3>1
      <4>2. CASE v \in MembersOf(s)
        BY <4>2, ActivatedRows
      <4>3. CASE v \notin MembersOf(s) /\ documents[v].kind = "local"
        <5>1. documents[v] \in Rows
          BY <3>1, <4>3 DEF NoRow
        <5> QED BY <4>3, <5>1, ActivatedRows DEF Rows
      <4>4. CASE v \notin MembersOf(s) /\ documents[v].kind # "local"
        BY <4>4, ActivatedRows
      <4> QED BY <4>2, <4>3, <4>4
    <3> QED BY <3>2 DEF ForeignEligible
  <2> QED BY <1>2, <2>1, <2>2 DEF Staged, Settle
<1> QED BY <1>1, <1>2, StepCases
        DEF FencedEpochs, SetCatalogEpoch, Expire, PruneCatalogSnapshots, LegacyWrite,
            authority, receiverVars

\* A fence that was reached stays reached, and once left it never comes back.
LEMMA FenceNeverReturns ==
  ASSUME FencedEpochs, [Next]_receiverVars, NEW f, Reached(f)
  PROVE  Reached(f)' /\ (f = Fence' => f = Fence)
<1>1. f \in FenceValues /\ f.epoch \in Installed /\ f.generation \in Nat
      /\ (f.epoch = epoch => f.generation =< completed)
  BY GenerationsArePositive DEF Reached, FenceValues
<1>2. completed \in Nat /\ f = [epoch |-> f.epoch, generation |-> f.generation]
  BY <1>1, CountersAreNaturals DEF FencedEpochs, TypedFences, FenceValues
<1>3. CASE epoch' \in Epochs \ Installed /\ Installed' = Installed \cup {epoch'}
  BY <1>1, <1>3 DEF Reached, Fence
<1>4. CASE /\ epoch # NoEpoch /\ completed' > completed /\ completed' \in Generations
           /\ UNCHANGED <<history, epoch>>
  <2>1. Installed' = Installed /\ completed' \in Nat
    BY <1>4, GenerationsArePositive DEF Installed
  <2> QED BY <1>1, <1>2, <1>4, <2>1 DEF Reached, Fence
<1>5. CASE UNCHANGED <<history, epoch, completed>>
  BY <1>1, <1>5 DEF Reached, Fence, Installed
<1> QED BY <1>3, <1>4, <1>5, FenceSteps

LEMMA FenceTyped ==
  ASSUME FencedEpochs, epoch # NoEpoch, completed > 0
  PROVE  Fence \in FenceValues /\ Reached(Fence)
<1>1. epoch \in Epochs /\ epoch \in Installed /\ completed \in Generations
  BY DEF FencedEpochs, EpochsInOrder, EpochsFormOneChain, TypedFences, TypeOK
<1>2. completed \in Nat
  BY <1>1, GenerationsArePositive
<1> QED BY <1>1, <1>2 DEF Fence, FenceValues, Reached

LEMMA FenceTypedNext ==
  ASSUME FencedEpochs', epoch' # NoEpoch, completed' > 0
  PROVE  Fence' \in FenceValues
<1>1. epoch' \in Epochs /\ completed' \in Generations
  BY DEF FencedEpochs, EpochsInOrder, TypedFences, TypeOK
<1> QED BY <1>1 DEF Fence, FenceValues

\* A step that publishes reaches a fence nobody has seen.
LEMMA PublishedFenceIsNew ==
  ASSUME FencedEpochs, [Next]_receiverVars, NEW f, Reached(f), Fence' # Fence
  PROVE  f # Fence'
<1>1. CASE f = Fence
  BY <1>1
<1>2. CASE f # Fence
  BY <1>2, FenceNeverReturns
<1> QED BY <1>1, <1>2

\* The documents served under a fence do not change while it is the fence.
LEMMA FenceFreezesCatalog ==
  ASSUME FencedEpochs, [Next]_receiverVars, epoch # NoEpoch, Fence' = Fence
  PROVE  LiveCatalog' = LiveCatalog
<1>1. completed \in Nat
  BY CountersAreNaturals DEF FencedEpochs, TypedFences
<1>2. epoch' = epoch /\ completed' = completed
  BY DEF Fence
<1>3. epoch \in Installed
  BY DEF FencedEpochs, EpochsInOrder, EpochsFormOneChain
<1>4. UNCHANGED documents
  BY <1>1, <1>2, <1>3, FenceSteps
<1> QED BY <1>4 DEF LiveCatalog, LiveLocal

LEMMA WriterKeepsInv ==
  ASSUME ReadInv, WriterStep
  PROVE  ReadInv'
<1>1. FencedEpochs /\ [Next]_receiverVars /\ UNCHANGED <<reader, cache>>
  BY DEF ReadInv, WriterStep
<1>2. FencedEpochs'
  BY <1>1, NextFencedEpochs
<1>3. \A f : Reached(f) =>
        Reached(f)' /\ (f = Fence' => f = Fence /\ Fence' = Fence)
  BY <1>1, FenceNeverReturns
<1>4. published \in [FenceValues -> SUBSET CanonicalDocuments]
  BY DEF ReadInv, ReadTypeOK
<1>5. \A f : Reached(f) => f \in FenceValues /\ published'[f] = published[f]
  <2>1. SUFFICES ASSUME NEW f, Reached(f), Fence' # Fence
                 PROVE  f # Fence'
    BY <1>4 DEF WriterStep, Reached
  <2> QED BY <1>1, <2>1, PublishedFenceIsNew
<1>6. ASSUME NEW f, Reached(f), f = Fence, f = Fence', ~ForeignEligible
      PROVE  ~ForeignEligible'
  <2>1. epoch # NoEpoch
    BY <1>6, EpochAssumption DEF Reached, Fence, FenceValues
  <2> QED BY <1>1, <1>6, <2>1, ForeignStaysOut
<1>7. ReadTypeOK'
  <2>1. TypeOK' /\ LiveCatalog' \subseteq CanonicalDocuments
    BY <1>2, LiveCatalogStaysTyped DEF FencedEpochs, TypedFences
  <2>2. published' \in [FenceValues -> SUBSET CanonicalDocuments]
    BY <1>4, <2>1 DEF WriterStep
  <2> QED BY <1>1, <2>1, <2>2 DEF ReadInv, ReadTypeOK
<1>8. FencePublishes'
  <2>1. SUFFICES ASSUME epoch' # NoEpoch, completed' > 0
                 PROVE  published'[Fence'] = LiveCatalog'
    BY DEF FencePublishes
  <2>2. CASE Fence' # Fence
    BY <1>2, <1>4, <2>1, <2>2, FenceTypedNext DEF WriterStep
  <2>3. CASE Fence' = Fence
    <3>1. epoch # NoEpoch /\ completed > 0 /\ published' = published
      BY <2>1, <2>3 DEF Fence, WriterStep
    <3> QED BY <1>1, <2>3, <3>1, FenceFreezesCatalog DEF ReadInv, FencePublishes
  <2> QED BY <2>2, <2>3
<1>9. CacheIsCurrent'
  <2>1. SUFFICES ASSUME NEW f \in FenceValues, cache[f] # {}
                 PROVE  /\ Reached(f)'
                        /\ f = Fence' => ~ForeignEligible' /\ cache[f] \subseteq {Published(f)'}
    BY <1>1 DEF CacheIsCurrent
  <2>2. Reached(f) /\ (f = Fence => ~ForeignEligible /\ cache[f] \subseteq {Published(f)})
    BY <2>1 DEF ReadInv, CacheIsCurrent
  <2> QED BY <1>3, <1>5, <1>6, <2>2 DEF Published
<1>10. ReadersAreFenced'
  <2>1. SUFFICES ASSUME NEW r \in Readers, reader[r].before # NoFence,
                        reader[r].phase \in {"querying", "checking", "served"}
                 PROVE  /\ Reached(reader[r].before)' /\ reader[r].before = reader[r].headers
                        /\ reader[r].before = Fence' => ~ForeignEligible'
                        /\ reader[r].before = Fence' \/ reader[r].phase = "served" =>
                             reader[r].seen \subseteq {Published(reader[r].before)'}
    BY <1>1 DEF ReadersAreFenced, Reached
  <2> PICK f : f = reader[r].before
    OBVIOUS
  <2>2. /\ Reached(f) /\ f = reader[r].headers
        /\ f = Fence => ~ForeignEligible
        /\ f = Fence \/ reader[r].phase = "served" => reader[r].seen \subseteq {Published(f)}
    BY <2>1 DEF ReadInv, ReadersAreFenced
  <2>3. Published(f)' = Published(f)
    BY <1>5, <2>2 DEF Published
  <2>4. Reached(f)' /\ (f = Fence' => f = Fence /\ ~ForeignEligible')
    BY <1>3, <1>6, <2>2
  <2> QED BY <1>1, <2>2, <2>3, <2>4 DEF Reached, Published
<1> QED BY <1>2, <1>7, <1>8, <1>9, <1>10 DEF ReadInv
-----------------------------------------------------------------------------
(* The readers *)

\* What may be read while f is the fence of a scope without foreign rows.
LEMMA ObservedUnderFence ==
  ASSUME ReadInv, epoch # NoEpoch, completed > 0, ~ForeignEligible
  PROVE  Observed = Published(Fence)
<1>1. ForeignEligible = FALSE
  BY DEF ForeignEligible
<1> QED BY <1>1 DEF ReadInv, FencePublishes, Observed, Published

LEMMA ReachedFenceIsOpen ==
  ASSUME ReadInv, Reached(Fence)
  PROVE  epoch # NoEpoch /\ completed > 0
BY GenerationsArePositive, EpochAssumption DEF Reached, Fence, FenceValues

\* The receiver does not move while a handler takes a step.
LEMMA ReceiverUnmoved ==
  ASSUME UNCHANGED receiverVars
  PROVE  /\ Fence' = Fence /\ LiveCatalog' = LiveCatalog /\ ForeignEligible' = ForeignEligible
         /\ Installed' = Installed /\ TypeOK' = TypeOK /\ FencedEpochs' = FencedEpochs
BY DEF receiverVars, Fence, LiveCatalog, LiveLocal, ForeignEligible, Installed, TypeOK,
       FencedEpochs, TypedFences, PendingIsCurrent, EpochsInOrder, EpochsFormOneChain

LEMMA ObservedTyped ==
  ASSUME TypeOK
  PROVE  Observed \in Observations
BY LiveCatalogTyped DEF Observed, Observations, ForeignEligible

\* A handler step keeps the invariant once the handler's own record and the
\* cache are accounted for.
LEMMA ReaderKeepsInv ==
  ASSUME ReadInv, UNCHANGED <<receiverVars, published>>, NEW r \in Readers,
         NEW s \in ReaderStates, reader' = [reader EXCEPT ![r] = s],
         cache' \in [FenceValues \cup {NoFence} -> SUBSET Observations], CacheIsCurrent',
         s.before # NoFence /\ s.phase \in {"querying", "checking", "served"} =>
           /\ Reached(s.before) /\ s.before = s.headers
           /\ s.before = Fence => ~ForeignEligible
           /\ s.before = Fence \/ s.phase = "served" => s.seen \subseteq {Published(s.before)}
  PROVE  ReadInv'
<1>1. /\ Fence' = Fence /\ LiveCatalog' = LiveCatalog /\ ForeignEligible' = ForeignEligible
      /\ Installed' = Installed /\ TypeOK' = TypeOK /\ FencedEpochs' = FencedEpochs
      /\ UNCHANGED <<epoch, completed, published>>
  BY ReceiverUnmoved DEF receiverVars
<1>2. FencedEpochs' /\ FencePublishes'
  BY <1>1 DEF ReadInv, FencePublishes
<1>3. reader \in [Readers -> ReaderStates]
  BY DEF ReadInv, ReadTypeOK
<1>4. ReadTypeOK'
  BY <1>1, <1>3 DEF ReadInv, ReadTypeOK
<1>5. ReadersAreFenced'
  <2>1. SUFFICES ASSUME NEW q \in Readers, NEW f, f = reader'[q].before, f # NoFence,
                        reader'[q].phase \in {"querying", "checking", "served"}
                 PROVE  /\ Reached(f)' /\ f = reader'[q].headers
                        /\ f = Fence' => ~ForeignEligible'
                        /\ f = Fence' \/ reader'[q].phase = "served" =>
                             reader'[q].seen \subseteq {Published(f)'}
    BY DEF ReadersAreFenced, Reached, Published
  <2>2. /\ Reached(f) /\ f = reader'[q].headers
        /\ f = Fence => ~ForeignEligible
        /\ f = Fence \/ reader'[q].phase = "served" => reader'[q].seen \subseteq {Published(f)}
    <3>1. CASE q = r
      BY <1>3, <2>1, <3>1
    <3>2. CASE q # r
      BY <1>3, <2>1, <3>2 DEF ReadInv, ReadersAreFenced
    <3> QED BY <3>1, <3>2
  <2> QED BY <1>1, <2>2 DEF Reached, Published
<1> QED BY <1>2, <1>4, <1>5 DEF ReadInv

LEMMA CacheUnmoved ==
  ASSUME ReadInv, UNCHANGED <<receiverVars, published, cache>>
  PROVE  /\ CacheIsCurrent'
         /\ cache' \in [FenceValues \cup {NoFence} -> SUBSET Observations]
<1>1. /\ Fence' = Fence /\ ForeignEligible' = ForeignEligible /\ Installed' = Installed
      /\ UNCHANGED <<epoch, completed, published>>
  BY ReceiverUnmoved DEF receiverVars
<1> QED BY <1>1 DEF ReadInv, ReadTypeOK, CacheIsCurrent, Reached, Published

LEMMA BeginKeepsInv ==
  ASSUME ReadInv, NEW r \in Readers, NEW headers \in FenceValues \cup {NoFence},
         BeginRead(r, headers)
  PROVE  ReadInv'
<1> DEFINE accepted == [phase |-> "querying", headers |-> headers, before |-> CurrentFence, seen |-> {}]
           refused == [phase |-> "refused", headers |-> headers, before |-> NoFence, seen |-> {}]
<1>1. UNCHANGED <<receiverVars, cache, published>>
  BY DEF BeginRead
<1>2. /\ CacheIsCurrent'
      /\ cache' \in [FenceValues \cup {NoFence} -> SUBSET Observations]
  BY <1>1, CacheUnmoved
<1>3. CASE Authorized(headers)
  <2>1. reader' = [reader EXCEPT ![r] = accepted]
    BY <1>3 DEF BeginRead
  <2>2. CASE epoch = NoEpoch
    <3>1. accepted \in ReaderStates /\ accepted.before = NoFence
      BY <2>2 DEF ReaderStates, CurrentFence
    <3> QED BY <1>1, <1>2, <2>1, <3>1, ReaderKeepsInv
  <2>3. CASE epoch # NoEpoch
    <3>1. completed > 0 /\ ~ForeignEligible /\ headers = Fence /\ CurrentFence = Fence
      BY <1>3, <2>3 DEF Authorized, CurrentFence
    <3>2. Fence \in FenceValues /\ Reached(Fence)
      BY <2>3, <3>1, FenceTyped DEF ReadInv
    <3>3. accepted \in ReaderStates
      BY <3>1, <3>2 DEF ReaderStates
    <3>4. /\ Reached(accepted.before) /\ accepted.before = accepted.headers
          /\ accepted.seen = {} /\ accepted.phase = "querying"
      BY <3>1, <3>2
    <3> QED
      <4> HIDE DEF accepted
      <4> QED BY <1>1, <1>2, <2>1, <3>1, <3>3, <3>4, ReaderKeepsInv
  <2> QED BY <2>2, <2>3
<1>4. CASE ~Authorized(headers)
  <2>1. reader' = [reader EXCEPT ![r] = refused] /\ refused \in ReaderStates
    BY <1>4 DEF BeginRead, ReaderStates
  <2> QED BY <1>1, <1>2, <2>1, ReaderKeepsInv
<1> QED BY <1>3, <1>4

\* Whatever a query returns under the fence is what the fence published.
LEMMA QueryKeepsInv ==
  ASSUME ReadInv, NEW r \in Readers, QueryDocuments(r)
  PROVE  ReadInv'
<1> DEFINE s == [reader[r] EXCEPT !.seen = @ \cup {Observed}]
<1>1. /\ UNCHANGED <<receiverVars, cache, published>> /\ reader[r].phase = "querying"
      /\ reader' = [reader EXCEPT ![r] = s] /\ reader[r] \in ReaderStates
  BY DEF QueryDocuments, ReadInv, ReadTypeOK
<1>2. /\ CacheIsCurrent'
      /\ cache' \in [FenceValues \cup {NoFence} -> SUBSET Observations]
  BY <1>1, CacheUnmoved
<1>3. /\ s \in ReaderStates /\ s.phase = "querying" /\ s.before = reader[r].before
      /\ s.headers = reader[r].headers /\ s.seen = reader[r].seen \cup {Observed}
  BY <1>1, ObservedTyped DEF ReaderStates, ReadInv, ReadTypeOK
<1>4. ASSUME reader[r].before # NoFence
      PROVE  /\ Reached(reader[r].before) /\ reader[r].before = reader[r].headers
             /\ reader[r].before = Fence =>
                  ~ForeignEligible /\ reader[r].seen \subseteq {Published(reader[r].before)}
  BY <1>1, <1>4 DEF ReadInv, ReadersAreFenced
<1>5. ASSUME reader[r].before # NoFence, reader[r].before = Fence
      PROVE  s.seen \subseteq {Published(reader[r].before)}
  BY <1>3, <1>4, <1>5, ReachedFenceIsOpen, ObservedUnderFence
<1> QED
  <2> HIDE DEF s
  <2> QED BY <1>1, <1>2, <1>3, <1>4, <1>5, ReaderKeepsInv

LEMMA HitKeepsInv ==
  ASSUME ReadInv, NEW r \in Readers, HitCache(r)
  PROVE  ReadInv'
<1> DEFINE s == [reader[r] EXCEPT !.seen = cache[CacheKey(r)], !.phase = "checking"]
<1>1. /\ UNCHANGED <<receiverVars, cache, published>> /\ reader[r].phase = "querying"
      /\ reader[r] \in ReaderStates /\ reader[r].before \in FenceValues \cup {NoFence}
      /\ cache[reader[r].before] \in SUBSET Observations /\ cache[reader[r].before] # {}
  BY DEF HitCache, CacheKey, ReadInv, ReadTypeOK, ReaderStates
<1>2. reader' = [reader EXCEPT ![r] = s]
  BY <1>1 DEF HitCache, ReadInv, ReadTypeOK
<1>3. /\ CacheIsCurrent'
      /\ cache' \in [FenceValues \cup {NoFence} -> SUBSET Observations]
  BY <1>1, CacheUnmoved
<1>4. /\ s \in ReaderStates /\ s.phase = "checking" /\ s.before = reader[r].before
      /\ s.headers = reader[r].headers /\ s.seen = cache[reader[r].before]
  BY <1>1 DEF ReaderStates, CacheKey
<1>5. ASSUME reader[r].before # NoFence
      PROVE  /\ Reached(reader[r].before) /\ reader[r].before = reader[r].headers
             /\ reader[r].before = Fence =>
                  ~ForeignEligible /\ cache[reader[r].before] \subseteq {Published(reader[r].before)}
  BY <1>1, <1>5 DEF ReadInv, ReadersAreFenced, CacheIsCurrent
<1> QED
  <2> HIDE DEF s
  <2> QED BY <1>1, <1>2, <1>3, <1>4, <1>5, ReaderKeepsInv

\* A response is cached before it is checked: under the fence it names it is
\* right, and under a fence that is gone nobody will ask for it.
LEMMA FinishQueriesKeepsInv ==
  ASSUME ReadInv, NEW r \in Readers, NEW cacheable \in BOOLEAN, FinishQueries(r, cacheable)
  PROVE  ReadInv'
<1> DEFINE s == [reader[r] EXCEPT !.phase = "checking"]
<1>1. /\ UNCHANGED <<receiverVars, published>> /\ reader[r].phase = "querying"
      /\ reader' = [reader EXCEPT ![r] = s] /\ reader[r] \in ReaderStates
      /\ reader[r].seen \in SUBSET Observations
      /\ cache \in [FenceValues \cup {NoFence} -> SUBSET Observations]
  BY DEF FinishQueries, ReadInv, ReadTypeOK, ReaderStates
<1>2. cache' \in {cache, [cache EXCEPT ![reader[r].before] = reader[r].seen]}
  BY DEF FinishQueries, CacheKey
<1>3. /\ s \in ReaderStates /\ s.phase = "checking" /\ s.before = reader[r].before
      /\ s.headers = reader[r].headers /\ s.seen = reader[r].seen
  BY <1>1 DEF ReaderStates
<1>4. ASSUME reader[r].before # NoFence
      PROVE  /\ Reached(reader[r].before) /\ reader[r].before = reader[r].headers
             /\ reader[r].before = Fence =>
                  ~ForeignEligible /\ reader[r].seen \subseteq {Published(reader[r].before)}
  BY <1>1, <1>4 DEF ReadInv, ReadersAreFenced
<1>5. cache' \in [FenceValues \cup {NoFence} -> SUBSET Observations]
  BY <1>1, <1>2
<1>6. CacheIsCurrent'
  <2>1. SUFFICES ASSUME NEW f \in FenceValues, cache'[f] # {}
                 PROVE  /\ Reached(f)
                        /\ f = Fence => ~ForeignEligible /\ cache'[f] \subseteq {Published(f)}
    <3>1. /\ Fence' = Fence /\ ForeignEligible' = ForeignEligible /\ Installed' = Installed
          /\ UNCHANGED <<epoch, completed, published>>
      BY <1>1, ReceiverUnmoved DEF receiverVars
    <3> QED BY <3>1 DEF CacheIsCurrent, Reached, Published
  <2>2. CASE f = reader[r].before /\ cache' = [cache EXCEPT ![reader[r].before] = reader[r].seen]
    BY <1>1, <1>4, <2>1, <2>2, NoFenceAssumption
  <2>3. CASE f # reader[r].before \/ cache' = cache
    <3>1. cache'[f] = cache[f]
      BY <1>1, <1>2, <2>3
    <3> QED BY <2>1, <3>1 DEF ReadInv, CacheIsCurrent
  <2> QED BY <1>2, <2>2, <2>3
<1> QED
  <2> HIDE DEF s
  <2> QED BY <1>1, <1>3, <1>4, <1>5, <1>6, ReaderKeepsInv

LEMMA DegradeKeepsInv ==
  ASSUME ReadInv, NEW r \in Readers, DegradeToEmpty(r)
  PROVE  ReadInv'
<1> DEFINE s == [reader[r] EXCEPT !.phase = "checking", !.seen = {}]
<1>1. /\ UNCHANGED <<receiverVars, cache, published>> /\ reader[r].phase = "querying"
      /\ reader[r] \in ReaderStates
  BY DEF DegradeToEmpty, ReadInv, ReadTypeOK
<1>2. reader' = [reader EXCEPT ![r] = s]
  BY <1>1 DEF DegradeToEmpty, ReadInv, ReadTypeOK
<1>3. /\ CacheIsCurrent'
      /\ cache' \in [FenceValues \cup {NoFence} -> SUBSET Observations]
  BY <1>1, CacheUnmoved
<1>4. /\ s \in ReaderStates /\ s.phase = "checking" /\ s.before = reader[r].before
      /\ s.headers = reader[r].headers /\ s.seen = {}
  BY <1>1 DEF ReaderStates
<1>5. ASSUME reader[r].before # NoFence
      PROVE  /\ Reached(reader[r].before) /\ reader[r].before = reader[r].headers
             /\ reader[r].before = Fence => ~ForeignEligible
  BY <1>1, <1>5 DEF ReadInv, ReadersAreFenced
<1> QED
  <2> HIDE DEF s
  <2> QED BY <1>1, <1>2, <1>3, <1>4, <1>5, ReaderKeepsInv

\* The final check answers only while the fence is still the one named, and
\* then everything read under it is what it published.
LEMMA FinishReadKeepsInv ==
  ASSUME ReadInv, NEW r \in Readers, FinishRead(r)
  PROVE  ReadInv'
<1> DEFINE answered == Authorized(reader[r].headers) /\ CurrentFence = reader[r].before
           s == [reader[r] EXCEPT !.phase = IF answered THEN "served" ELSE "refused"]
<1>1. /\ UNCHANGED <<receiverVars, cache, published>> /\ reader[r].phase = "checking"
      /\ reader[r] \in ReaderStates /\ reader' = [reader EXCEPT ![r] = s]
  BY DEF FinishRead, ReadInv, ReadTypeOK
<1>2. /\ CacheIsCurrent'
      /\ cache' \in [FenceValues \cup {NoFence} -> SUBSET Observations]
  BY <1>1, CacheUnmoved
<1>3. /\ s \in ReaderStates /\ s.before = reader[r].before
      /\ s.headers = reader[r].headers /\ s.seen = reader[r].seen
      /\ s.phase = IF answered THEN "served" ELSE "refused"
  BY <1>1 DEF ReaderStates
<1>4. ASSUME reader[r].before # NoFence
      PROVE  /\ Reached(reader[r].before) /\ reader[r].before = reader[r].headers
             /\ reader[r].before = Fence =>
                  ~ForeignEligible /\ reader[r].seen \subseteq {Published(reader[r].before)}
  BY <1>1, <1>4 DEF ReadInv, ReadersAreFenced
<1>5. answered /\ reader[r].before # NoFence => reader[r].before = Fence
  BY DEF CurrentFence
<1> QED
  <2> HIDE DEF s, answered
  <2> QED BY <1>1, <1>2, <1>3, <1>4, <1>5, ReaderKeepsInv

LEMMA FailReadKeepsInv ==
  ASSUME ReadInv, NEW r \in Readers, FailRead(r)
  PROVE  ReadInv'
<1> DEFINE s == [reader[r] EXCEPT !.phase = "refused"]
<1>1. /\ UNCHANGED <<receiverVars, cache, published>>
      /\ reader[r] \in ReaderStates /\ reader' = [reader EXCEPT ![r] = s]
  BY DEF FailRead, ReadInv, ReadTypeOK
<1>2. /\ CacheIsCurrent'
      /\ cache' \in [FenceValues \cup {NoFence} -> SUBSET Observations]
  BY <1>1, CacheUnmoved
<1>3. s \in ReaderStates /\ s.phase = "refused"
  BY <1>1 DEF ReaderStates
<1> QED
  <2> HIDE DEF s
  <2> QED BY <1>1, <1>2, <1>3, ReaderKeepsInv

LEMMA StutterKeepsInv ==
  ASSUME ReadInv, UNCHANGED <<receiverVars, reader, published>>,
         cache' \in [FenceValues \cup {NoFence} -> SUBSET Observations],
         \A f \in FenceValues : cache'[f] \in {cache[f], {}}
  PROVE  ReadInv'
<1>1. /\ Fence' = Fence /\ LiveCatalog' = LiveCatalog /\ ForeignEligible' = ForeignEligible
      /\ Installed' = Installed /\ TypeOK' = TypeOK /\ FencedEpochs' = FencedEpochs
      /\ UNCHANGED <<epoch, completed, published, reader>>
  BY ReceiverUnmoved DEF receiverVars
<1>2. FencedEpochs' /\ FencePublishes' /\ ReadTypeOK'
  BY <1>1 DEF ReadInv, FencePublishes, ReadTypeOK
<1>3. CacheIsCurrent'
  <2>1. SUFFICES ASSUME NEW f \in FenceValues, cache'[f] # {}
                 PROVE  /\ Reached(f)
                        /\ f = Fence => ~ForeignEligible /\ cache'[f] \subseteq {Published(f)}
    BY <1>1 DEF CacheIsCurrent, Reached, Published
  <2> QED BY <2>1 DEF ReadInv, CacheIsCurrent
<1>4. ReadersAreFenced'
  BY <1>1 DEF ReadInv, ReadersAreFenced, Reached, Published
<1> QED BY <1>2, <1>3, <1>4 DEF ReadInv

LEMMA ReadNextKeepsInv == ReadInv /\ [ReadNext]_readVars => ReadInv'
<1> SUFFICES ASSUME ReadInv, [ReadNext]_readVars PROVE ReadInv'
  OBVIOUS
<1>1. ASSUME NEW r \in Readers, ReaderStep(r) PROVE ReadInv'
  BY <1>1, BeginKeepsInv, QueryKeepsInv, HitKeepsInv, FinishQueriesKeepsInv, DegradeKeepsInv,
     FinishReadKeepsInv, FailReadKeepsInv DEF ReaderStep
<1>2. cache \in [FenceValues \cup {NoFence} -> SUBSET Observations]
  BY DEF ReadInv, ReadTypeOK
<1>3. ASSUME NEW f \in FenceValues \cup {NoFence}, DropCached(f) PROVE ReadInv'
  BY <1>2, <1>3, StutterKeepsInv DEF DropCached
<1>4. CASE UNCHANGED readVars
  BY <1>2, <1>4, StutterKeepsInv DEF readVars
<1> QED BY <1>1, <1>3, <1>4, WriterKeepsInv DEF ReadNext

LEMMA InitReadInv == ReadInit => ReadInv
<1> SUFFICES ASSUME ReadInit PROVE ReadInv
  OBVIOUS
<1>1. FencedEpochs /\ TypeOK /\ epoch = NoEpoch
  BY InitFencedEpochs DEF ReadInit, Init, FencedEpochs, TypedFences
<1>2. ReadTypeOK
  BY <1>1 DEF ReadInit, ReadTypeOK, IdleReader, ReaderStates
<1> QED BY <1>1, <1>2
        DEF ReadInit, ReadInv, FencePublishes, CacheIsCurrent, ReadersAreFenced, IdleReader

(* Every answered fenced read saw only the documents published under the    *)
(* fence its caller named (beginCatalogRead, finishCatalogRead, Suggest).   *)
THEOREM ReadsSeeOneObservation == ReadSpec => []ServedFromOneObservation
<1>1. ReadInv => ServedFromOneObservation
  BY DEF ReadInv, ReadersAreFenced, ServedFromOneObservation
<1> QED BY <1>1, InitReadInv, ReadNextKeepsInv, PTL DEF ReadSpec
-----------------------------------------------------------------------------
(* Transactions *)

\* What is proved of the receiver, about the rows of the lock holder.
Held ==
  INSTANCE CatalogReceiverProofs
    WITH history <- wHistory, epoch <- wEpoch, highest <- wHighest, completed <- wCompleted,
         manifest <- wManifest, pending <- wPending, documents <- wDocuments

(* The lock holder's operations are the receiver's, on its own rows.        *)
LEMMA SameCounts ==
  \A s : /\ Work!Cardinality(s) = Held!Cardinality(s)
         /\ Work!StoredPages(s) = Held!StoredPages(s)
         /\ Work!DocumentCount(s) = Held!DocumentCount(s)
         /\ Work!MeasuredBytes(s) = Held!MeasuredBytes(s)
BY DEF Work!DocumentCount, Held!DocumentCount, Work!MeasuredBytes, Held!MeasuredBytes,
       Work!MapThenSumSet, Held!MapThenSumSet, Work!MapThenFoldSet, Held!MapThenFoldSet,
       Work!StoredPages, Held!StoredPages, Work!PageIndexes, Held!PageIndexes,
       Work!Cardinality, Held!Cardinality

\* Helpers on documents say the same of the same content.
LEMMA SameDocuments ==
  \A s : /\ Work!DocumentsIn(s) = Held!DocumentsIn(s)
         /\ Work!MembersOf(s) = Held!MembersOf(s)
         /\ Work!IdsOf(s) = Held!IdsOf(s)
         /\ Work!WellFormed(s) <=> Held!WellFormed(s)
         /\ Work!ValidManifest(s) <=> Held!ValidManifest(s)
         /\ Work!DistinctMembership(s) <=> Held!DistinctMembership(s)
         /\ Work!ForeignOwned(s) <=> Held!ForeignOwned(s)
BY DEF Work!DocumentsIn, Held!DocumentsIn, Work!MembersOf, Held!MembersOf, Work!IdsOf, Held!IdsOf,
       Work!WellFormed, Held!WellFormed, Work!ValidManifest, Held!ValidManifest,
       Work!DistinctMembership, Held!DistinctMembership, Work!ForeignOwned, Held!ForeignOwned,
       Work!PageIndexes, Held!PageIndexes, Work!NoPages, Held!NoPages

\* So do verification and activation, on the holder's documents.
LEMMA SameSettle == \A s : Work!Settle(s) <=> Held!Settle(s)
<1>1. \A s : Work!AllEvidence(s) <=> Held!AllEvidence(s)
  BY SameCounts DEF Work!AllEvidence, Held!AllEvidence
<1>2. \A s : Work!Verified(s) <=> Held!Verified(s)
  BY SameCounts, SameDocuments DEF Work!Verified, Held!Verified
<1>3. \A s : Work!Activated(s) = Held!Activated(s)
  <2> TAKE s
  <2>1. Work!DocumentsIn(s) = Held!DocumentsIn(s) /\ Work!MembersOf(s) = Held!MembersOf(s)
    BY SameDocuments
  <2>2. \A rows : Work!WithIncoming(rows, s) = Held!WithIncoming(rows, s)
    BY <2>1 DEF Work!WithIncoming, Held!WithIncoming
  <2>3. \A rows : Work!WithoutOrphans(rows, s) = Held!WithoutOrphans(rows, s)
    BY <2>1 DEF Work!WithoutOrphans, Held!WithoutOrphans
  <2> QED BY <2>2, <2>3 DEF Work!Activated, Held!Activated
<1> QED BY <1>1, <1>2, <1>3, SameDocuments
        DEF Work!Settle, Held!Settle, Work!KeepPending, Held!KeepPending,
            Work!CompleteCatalogSnapshot, Held!CompleteCatalogSnapshot

\* So do the checks of a page or an end (StageCatalogPage, StageCatalogEnd).
LEMMA SameAdmission ==
  /\ \A e, g : Work!Admissible(e, g) <=> Held!Admissible(e, g)
  /\ \A g : Work!AdmittedSnapshot(g) = Held!AdmittedSnapshot(g)
  /\ \A s, i, content : Work!WithPage(s, i, content) = Held!WithPage(s, i, content)
  /\ \A s, content : Work!WithinQuota(s, content) <=> Held!WithinQuota(s, content)
  /\ \A s, i, content : Work!WithinManifest(s, i, content) <=> Held!WithinManifest(s, i, content)
  /\ \A s, content : Work!NoCollision(s, content) <=> Held!NoCollision(s, content)
  /\ \A s, m : Work!PagesWithin(s, m) <=> Held!PagesWithin(s, m)
<1>1. /\ \A e, g : Work!Admissible(e, g) <=> Held!Admissible(e, g)
      /\ \A g : Work!AdmittedSnapshot(g) = Held!AdmittedSnapshot(g)
      /\ \A s, i, content : Work!WithPage(s, i, content) = Held!WithPage(s, i, content)
  BY DEF Work!Admissible, Held!Admissible, Work!AdmittedSnapshot, Held!AdmittedSnapshot,
         Work!FreshSnapshot, Held!FreshSnapshot, Work!NoPages, Held!NoPages,
         Work!PageIndexes, Held!PageIndexes, Work!WithPage, Held!WithPage
<1>2. /\ \A s, content : Work!WithinQuota(s, content) <=> Held!WithinQuota(s, content)
      /\ \A s, i, content : Work!WithinManifest(s, i, content) <=> Held!WithinManifest(s, i, content)
      /\ \A s, content : Work!NoCollision(s, content) <=> Held!NoCollision(s, content)
      /\ \A s, m : Work!PagesWithin(s, m) <=> Held!PagesWithin(s, m)
  BY SameCounts, SameDocuments
     DEF Work!WithinQuota, Held!WithinQuota, Work!WithinManifest, Held!WithinManifest,
         Work!NoCollision, Held!NoCollision, Work!PagesWithin, Held!PagesWithin
<1> QED BY <1>1, <1>2

\* So do the operations themselves.
LEMMA SameStages ==
  /\ \A e, g, i, content :
       Work!StageCatalogPage(e, g, i, content) <=> Held!StageCatalogPage(e, g, i, content)
  /\ \A e, g, m : Work!StageCatalogEnd(e, g, m) <=> Held!StageCatalogEnd(e, g, m)
  /\ \A e, expected : Work!SetCatalogEpoch(e, expected) <=> Held!SetCatalogEpoch(e, expected)
  /\ Work!PruneCatalogSnapshots <=> Held!PruneCatalogSnapshots
  /\ Work!Init <=> Held!Init
<1>1. ASSUME NEW e, NEW g, NEW i, NEW content
      PROVE  Work!StageCatalogPage(e, g, i, content) <=> Held!StageCatalogPage(e, g, i, content)
  <2> DEFINE s == Held!AdmittedSnapshot(g)
  <2>1. Work!AdmittedSnapshot(g) = s /\ Work!WithPage(s, i, content) = Held!WithPage(s, i, content)
    BY SameAdmission
  <2>2. Work!Settle(Held!WithPage(s, i, content)) <=> Held!Settle(Held!WithPage(s, i, content))
    BY SameSettle
  <2>3. /\ Work!Admissible(e, g) <=> Held!Admissible(e, g)
        /\ Work!WithinQuota(s, content) <=> Held!WithinQuota(s, content)
        /\ Work!WithinManifest(s, i, content) <=> Held!WithinManifest(s, i, content)
        /\ Work!NoCollision(s, content) <=> Held!NoCollision(s, content)
        /\ Work!WellFormed(content) <=> Held!WellFormed(content)
        /\ Work!PageIndexes = Held!PageIndexes
    BY SameAdmission, SameDocuments DEF Work!PageIndexes, Held!PageIndexes
  <2> HIDE DEF s
  <2>4. /\ Held!StageCatalogPage(e, g, i, content) <=>
             /\ i \in Held!PageIndexes /\ Held!WellFormed(content) /\ Held!Admissible(e, g)
             /\ \/ s.pages[i] = content
                \/ /\ s.pages[i] = {} /\ Held!WithinQuota(s, content)
                   /\ Held!WithinManifest(s, i, content) /\ Held!NoCollision(s, content)
             /\ Held!Settle(Held!WithPage(s, i, content))
    BY DEF s, Held!StageCatalogPage, Held!AcceptsPage
  <2>5. /\ Work!StageCatalogPage(e, g, i, content) <=>
             /\ i \in Work!PageIndexes /\ Work!WellFormed(content) /\ Work!Admissible(e, g)
             /\ \/ s.pages[i] = content
                \/ /\ s.pages[i] = {} /\ Work!WithinQuota(s, content)
                   /\ Work!WithinManifest(s, i, content) /\ Work!NoCollision(s, content)
             /\ Work!Settle(Held!WithPage(s, i, content))
    BY <2>1 DEF Work!StageCatalogPage, Work!AcceptsPage
  <2> QED BY <2>2, <2>3, <2>4, <2>5
<1>2. ASSUME NEW e, NEW g, NEW m
      PROVE  Work!StageCatalogEnd(e, g, m) <=> Held!StageCatalogEnd(e, g, m)
  <2>1. Work!AdmittedSnapshot(g) = Held!AdmittedSnapshot(g)
    BY SameAdmission
  <2>2. /\ Work!Admissible(e, g) <=> Held!Admissible(e, g)
        /\ Work!PagesWithin(Held!AdmittedSnapshot(g), m) <=> Held!PagesWithin(Held!AdmittedSnapshot(g), m)
        /\ Work!ValidManifest(m) <=> Held!ValidManifest(m)
        /\ Work!Settle([Held!AdmittedSnapshot(g) EXCEPT !.manifest = m])
             <=> Held!Settle([Held!AdmittedSnapshot(g) EXCEPT !.manifest = m])
    BY SameAdmission, SameDocuments, SameSettle
  <2> QED BY <2>1, <2>2
          DEF Work!StageCatalogEnd, Held!StageCatalogEnd, Work!AcceptsEnd, Held!AcceptsEnd,
              Work!WithManifest, Held!WithManifest
<1>3. \A e, expected : Work!SetCatalogEpoch(e, expected) <=> Held!SetCatalogEpoch(e, expected)
  BY DEF Work!SetCatalogEpoch, Held!SetCatalogEpoch
<1>4. Work!PruneCatalogSnapshots <=> Held!PruneCatalogSnapshots
  BY DEF Work!PruneCatalogSnapshots, Held!PruneCatalogSnapshots, Work!authority, Held!authority
<1>5. Work!Init <=> Held!Init
  BY DEF Work!Init, Held!Init, Work!NoRow, Held!NoRow
<1> QED BY <1>1, <1>2, <1>3, <1>4, <1>5

(* The constants' assumptions, in the instance's terms.                     *)
LEMMA SameConstants ==
  /\ Held!CanonicalDocuments = CanonicalDocuments /\ Held!Rows = Rows
  /\ Held!ManifestRecords = ManifestRecords /\ Held!PendingRecords = PendingRecords
  /\ \A content \in Contents : Held!IsFiniteSet(content) <=> IsFiniteSet(content)
<1>1. /\ Held!CanonicalDocuments = CanonicalDocuments /\ Held!PageIndexes = PageIndexes
      /\ Held!Rows = Rows
  BY DEF Held!CanonicalDocuments, CanonicalDocuments, Held!PageIndexes, PageIndexes, Held!Rows, Rows
<1>2. Held!PageFamilies = PageFamilies
  BY <1>1 DEF Held!PageFamilies, PageFamilies
<1>3. Held!ManifestRecords = ManifestRecords
  BY <1>2 DEF Held!ManifestRecords, ManifestRecords
<1>4. Held!PendingRecords = PendingRecords
  BY <1>2, <1>3 DEF Held!PendingRecords, PendingRecords
<1>5. \A content \in Contents : Held!IsFiniteSet(content) <=> IsFiniteSet(content)
  BY DEF Held!IsFiniteSet, IsFiniteSet
<1> QED BY <1>1, <1>3, <1>4, <1>5

(* What is proved of the receiver holds of the lock holder's rows.          *)
LEMMA WorkingRows ==
  /\ Held!Init => Held!FencedEpochs /\ Held!Projected
  /\ Held!FencedEpochs /\ [Held!Next]_working => Held!FencedEpochs'
  /\ Held!Projected /\ [Held!Next]_working => Held!Projected'
<1> USE SameConstants, EpochAssumption, GenerationAssumption, MetaAssumption, ContentAssumption,
        ManifestAssumption, PendingAssumption, QuotaAssumption, LegacyAssumption
<1>1. Held!FencedEpochs /\ [Held!Next]_working => Held!FencedEpochs'
  BY Held!NextFencedEpochs DEF working, Held!receiverVars
<1>2. Held!Projected /\ [Held!Next]_working => Held!Projected'
  BY Held!NextProjected DEF working, Held!receiverVars
<1>3. Held!Init => Held!FencedEpochs
  BY Held!InitFencedEpochs
<1>4. Held!Init /\ Held!FencedEpochs => Held!Projected
  BY DEF Held!Init, Held!FencedEpochs, Held!Projected, Held!ProjectionMatchesManifest
<1> QED BY <1>1, <1>2, <1>3, <1>4

\* What a step may do to the holder's fence (FenceSteps).
LEMMA WorkingFence ==
  ASSUME Held!FencedEpochs, [Held!Next]_working
  PROVE  \/ wEpoch' \in Epochs \ Held!Installed
         \/ wEpoch # NoEpoch /\ wCompleted' > wCompleted /\ wCompleted' \in Generations
         \/ UNCHANGED wCompleted /\ (wEpoch # NoEpoch => UNCHANGED wDocuments)
BY SameConstants, EpochAssumption, GenerationAssumption, MetaAssumption, ContentAssumption,
   ManifestAssumption, PendingAssumption, QuotaAssumption, LegacyAssumption,
   Held!FenceSteps
DEF working, Held!receiverVars

\* An epoch the holder installs is new to its history (SetCatalogEpochInOrder).
LEMMA WorkingEpoch ==
  ASSUME Held!FencedEpochs, NEW e \in Epochs, NEW expected \in Epochs \cup {NoEpoch},
         Held!SetCatalogEpoch(e, expected)
  PROVE  Held!Installed' = Held!Installed \cup {e} /\ e \notin Held!Installed
BY SameConstants, EpochAssumption, GenerationAssumption, MetaAssumption, ContentAssumption,
   ManifestAssumption, PendingAssumption, QuotaAssumption, LegacyAssumption,
   Held!SetCatalogEpochInOrder
DEF Held!FencedEpochs
-----------------------------------------------------------------------------
SessionStates ==
  [kind : Kinds, phase : {"idle", "starting", "working"}, step : {1, 2, 3},
   left : 0 .. MaxBatch, blocked : BOOLEAN]

\* A session works only with the lock; it has it from its first step on.  A
\* legacy batch that was let through works on a scope that is not initialised.
SessionsHoldTheLock ==
  /\ session \in [Sessions -> SessionStates]
  /\ holder \in Sessions \cup {NoSession}
  /\ \A t \in Sessions :
       /\ session[t].phase = "working" => holder = t
       /\ session[t].phase = "starting" =>
            /\ (session[t].step = 1) = (holder # t)
            /\ session[t].step # 1 => session[t].step = 2 /\ session[t].kind = "legacy"
       /\ session[t].phase = "idle" => holder # t
       /\ session[t].phase # "idle" /\ session[t].kind = "epoch" => session[t].left =< 1
       /\ session[t].phase = "working" /\ session[t].kind = "legacy" /\ ~session[t].blocked
            => epoch = NoEpoch

\* A catalog event as one step of the receiver: what its savepoint releases.
CatalogEvent(t) ==
  /\ InEvent(t, "catalog")
  /\ \/ \E e \in Epochs, g \in Generations, i \in 0 .. MaxPages, content \in Contents :
          Work!StageCatalogPage(e, g, i, content)
     \/ \E e \in Epochs, g \in Generations, m \in Manifests : Work!StageCatalogEnd(e, g, m)

\* s is the snapshot an accepted page or end leaves behind on the holder's rows.
Accepted(s) ==
  \/ \E e \in Epochs, g \in Generations, i \in 0 .. MaxPages, content \in Contents :
       Work!AcceptsPage(e, g, i, content) /\ s = Work!WithPage(Work!AdmittedSnapshot(g), i, content)
  \/ \E e \in Epochs, g \in Generations, m \in Manifests :
       Work!AcceptsEnd(e, g, m) /\ s = Work!WithManifest(Work!AdmittedSnapshot(g), m)

SavepointRecord(n, s, d, c, m, p) ==
  [next |-> n, snapshot |-> s, documents |-> d, completed |-> c, manifest |-> m, pending |-> p]

\* The savepoint of s before it writes its scope, and after.
Projecting(s, next, rows) == SavepointRecord(next, s, rows, wCompleted, wManifest, s)

Publishing(s, next, row) ==
  SavepointRecord(next, s, Work!Activated(s), s.generation, s.manifest, row)

\* How far the savepoint of s has come, and what it has written by then.
Progress(s) ==
  \/ sub = Savepoint(s)
  \/ /\ Work!AllEvidence(s) /\ Work!Verified(s) /\ ~Work!ForeignOwned(Work!MembersOf(s))
     /\ \/ sub = Projecting(s, "sweep", Work!WithIncoming(wDocuments, s))
        \/ sub = Projecting(s, "publish", Work!Activated(s))
        \/ sub = Publishing(s, "clear", s)
        \/ sub = Publishing(s, "release", NoPending)

\* A savepoint belongs to an event of the holder's catalog batch.
SavepointInOrder ==
  sub # NoEvent =>
    /\ holder \in Sessions
    /\ session[holder].phase = "working" /\ session[holder].kind = "catalog"
    /\ session[holder].left > 0
    /\ Accepted(sub.snapshot) /\ Progress(sub.snapshot)

\* What the holder's rows may be ahead of the committed ones by.
Untouched == <<wHistory, wEpoch, wCompleted, wDocuments>> = <<history, epoch, completed, documents>>

PublishedAhead ==
  /\ wHistory = history /\ wEpoch = epoch /\ epoch # NoEpoch
  /\ wCompleted \in Generations /\ wCompleted > completed

OpenedAhead ==
  /\ wEpoch \in Epochs \ Installed /\ Held!Installed = Installed \cup {wEpoch}
  /\ wCompleted = 0 /\ wDocuments = documents

CuratedAhead ==
  /\ wHistory = history /\ wEpoch = epoch /\ wCompleted = completed /\ epoch = NoEpoch

AheadByOne(t) ==
  \/ Untouched
  \/ session[t].kind = "catalog" /\ PublishedAhead
  \/ session[t].kind = "epoch" /\ session[t].left = 0 /\ OpenedAhead
  \/ session[t].kind = "legacy" /\ CuratedAhead

WorkingIsAhead ==
  /\ holder = NoSession => working = receiverVars
  /\ holder # NoSession => AheadByOne(holder)

TransactionInv ==
  /\ FencedEpochs /\ Projected
  /\ Held!FencedEpochs /\ Held!Projected
  /\ SessionsHoldTheLock
  /\ SavepointInOrder
  /\ WorkingIsAhead

\* A savepoint record is what its fields say.
SavepointFields == {"next", "snapshot", "documents", "completed", "manifest", "pending"}

HasFields(q, n, s, d, c, m, p) ==
  /\ q = [i \in SavepointFields |-> q[i]]
  /\ q.next = n /\ q.snapshot = s /\ q.documents = d
  /\ q.completed = c /\ q.manifest = m /\ q.pending = p

LEMMA RecordHasFields ==
  ASSUME NEW q, NEW n, NEW s, NEW d, NEW c, NEW m, NEW p
  PROVE  HasFields(q, n, s, d, c, m, p) <=> q = SavepointRecord(n, s, d, c, m, p)
<1> DEFINE w == SavepointRecord(n, s, d, c, m, p)
<1>1. HasFields(w, n, s, d, c, m, p)
  BY DEF HasFields, SavepointFields, SavepointRecord
<1>2. ASSUME HasFields(q, n, s, d, c, m, p) PROVE q = w
  <2>1. w = [i \in SavepointFields |-> w[i]] /\ \A i \in SavepointFields : w[i] = q[i]
    BY <1>1, <1>2 DEF HasFields, SavepointFields
  <2> HIDE DEF w
  <2> QED BY <1>2, <2>1 DEF HasFields
<1> QED BY <1>1, <1>2

\* Releasing a savepoint is the event that it ran (KeepPending, CompleteCatalogSnapshot).
LEMMA ReleaseIsAnEvent ==
  ASSUME TransactionInv, NEW t \in Sessions, ReleaseSavepoint(t)
  PROVE  CatalogEvent(t)
<1>1. InEvent(t, "catalog") /\ Keep /\ sub.next = "release" /\ sub # NoEvent
  BY DEF ReleaseSavepoint, NoEvent
<1> PICK s : s = sub.snapshot
  OBVIOUS
<1>2. Accepted(s) /\ Progress(s)
  BY <1>1 DEF TransactionInv, SavepointInOrder
<1>3. Work!Settle(s)
  <2>1. CASE sub = Savepoint(s)
    <3>1. ~Work!AllEvidence(s)
      BY <1>1, <2>1 DEF Savepoint
    <3>2. /\ sub.documents = wDocuments /\ sub.completed = wCompleted
          /\ sub.manifest = wManifest /\ sub.pending = s
      BY <2>1 DEF Savepoint
    <3> QED BY <1>1, <3>1, <3>2 DEF Keep, Work!Settle, Work!KeepPending
  <2>2. CASE sub # Savepoint(s)
    <3>1. Work!AllEvidence(s) /\ Work!Verified(s) /\ ~Work!ForeignOwned(Work!MembersOf(s))
      BY <1>2, <2>2 DEF Progress
    <3>2. sub = Publishing(s, "release", NoPending)
      BY <1>1, <1>2, <2>2 DEF Progress, Projecting, Publishing, SavepointRecord
    <3>3. /\ sub.documents = Work!Activated(s) /\ sub.completed = s.generation
          /\ sub.manifest = s.manifest /\ sub.pending = NoPending
      BY <3>2 DEF Publishing, SavepointRecord
    <3> QED BY <1>1, <3>1, <3>3 DEF Keep, Work!Settle, Work!CompleteCatalogSnapshot
  <2> QED BY <2>1, <2>2
<1> QED BY <1>1, <1>2, <1>3
        DEF CatalogEvent, Accepted, Work!StageCatalogPage, Work!StageCatalogEnd

\* The checks of an event look at the holder's rows only.
LEMMA ChecksUnmoved ==
  ASSUME UNCHANGED working
  PROVE  /\ \A s : Accepted(s) <=> Accepted(s)'
         /\ \A s : Savepoint(s)' = Savepoint(s)
         /\ \A s : Work!ForeignOwned(Work!MembersOf(s))' = Work!ForeignOwned(Work!MembersOf(s))
         /\ \A s : Work!Activated(s)' = Work!Activated(s)
<1>1. UNCHANGED <<wEpoch, wHighest, wCompleted, wManifest, wPending, wDocuments>>
  BY DEF working
<1>2. \A e, g : Work!Admissible(e, g)' = Work!Admissible(e, g)
  BY <1>1 DEF Work!Admissible
<1>3. \A g : Work!AdmittedSnapshot(g)' = Work!AdmittedSnapshot(g)
  BY <1>1 DEF Work!AdmittedSnapshot, Work!FreshSnapshot
<1>4. \A ids : Work!ForeignOwned(ids)' = Work!ForeignOwned(ids)
  BY <1>1 DEF Work!ForeignOwned
<1>5. \A s, content : Work!NoCollision(s, content)' = Work!NoCollision(s, content)
  BY <1>4 DEF Work!NoCollision
<1>6. \A e, g, i, content : Work!AcceptsPage(e, g, i, content)' = Work!AcceptsPage(e, g, i, content)
  BY <1>2, <1>3, <1>5 DEF Work!AcceptsPage
<1>7. \A e, g, m : Work!AcceptsEnd(e, g, m)' = Work!AcceptsEnd(e, g, m)
  BY <1>2, <1>3 DEF Work!AcceptsEnd
<1>8. \A s : Accepted(s) <=> Accepted(s)'
  BY <1>3, <1>6, <1>7 DEF Accepted
<1>9. /\ \A s : Savepoint(s)' = Savepoint(s)
      /\ \A s : Work!Activated(s)' = Work!Activated(s)
  BY <1>1 DEF Savepoint, Work!Activated
<1> QED BY <1>4, <1>8, <1>9

\* A step that leaves the holder and its rows alone leaves the savepoint in order.
LEMMA SavepointUnmoved ==
  ASSUME SavepointInOrder, UNCHANGED <<working, sub>>,
         sub # NoEvent => holder' = holder /\ session'[holder] = session[holder]
  PROVE  SavepointInOrder'
<1>1. SUFFICES ASSUME sub # NoEvent
               PROVE  (Accepted(sub.snapshot) /\ Progress(sub.snapshot))'
  BY DEF SavepointInOrder
<1> PICK s : s = sub.snapshot
  OBVIOUS
<1>2. Accepted(s) /\ Progress(s)
  BY <1>1 DEF SavepointInOrder
<1>3. Accepted(s)'
  BY <1>2, ChecksUnmoved
<1>4. Progress(s)'
  <2>1. UNCHANGED <<wCompleted, wManifest, wDocuments>>
    BY DEF working
  <2> QED BY <1>2, <2>1, ChecksUnmoved DEF Progress, Projecting, Publishing
<1> QED BY <1>3, <1>4

\* One statement of an event (StageEvidence to ClearSnapshot).
LEMMA StatementStep ==
  ASSUME TransactionInv, NEW t \in Sessions,
         \/ StageEvidence(t) \/ ProjectDocuments(t) \/ SweepOrphans(t) \/ PublishScope(t)
         \/ ClearSnapshot(t)
  PROVE  SavepointInOrder'
<1>1. UNCHANGED <<working, holder, session>>
  BY DEF StageEvidence, ProjectDocuments, SweepOrphans, PublishScope, ClearSnapshot, Statement
<1>2. UNCHANGED <<wCompleted, wManifest, wDocuments>>
  BY <1>1 DEF working
<1>3. CASE StageEvidence(t)
  <2>1. session[t].phase = "working" /\ session[t].kind = "catalog" /\ session[t].left > 0
    BY <1>3 DEF StageEvidence
  <2>2. holder = t
    BY <2>1 DEF TransactionInv, SessionsHoldTheLock
  <2>3. PICK s : sub' = Savepoint(s) /\ Accepted(s)
    BY <1>3 DEF StageEvidence, Accepted
  <2>4. sub'.snapshot = s
    BY <2>3 DEF Savepoint
  <2>5. Accepted(s)' /\ sub' = Savepoint(s)'
    BY <1>1, <2>3, ChecksUnmoved
  <2> QED BY <1>1, <2>1, <2>2, <2>4, <2>5 DEF SavepointInOrder, Progress
<1>4. ASSUME NEW now, Statement(t, now), now # "none", NEW s, s = sub.snapshot
      PROVE  /\ holder \in Sessions /\ session[holder].phase = "working"
             /\ session[holder].kind = "catalog" /\ session[holder].left > 0
             /\ Accepted(s)' /\ Progress(s) /\ sub.next = now
  <2>1. sub # NoEvent
    BY <1>4 DEF Statement, NoEvent
  <2> QED BY <1>1, <1>4, <2>1, ChecksUnmoved DEF TransactionInv, SavepointInOrder, Statement
<1>5. ASSUME NEW s, s = sub.snapshot, sub'.snapshot = s, Progress(s)', NEW now, now # "none",
             Statement(t, now)
      PROVE  SavepointInOrder'
  BY <1>1, <1>4, <1>5 DEF SavepointInOrder
<1>6. CASE ~StageEvidence(t)
  <2> PICK s : s = sub.snapshot
    OBVIOUS
  <2>1. /\ Work!ForeignOwned(Work!MembersOf(s))' = Work!ForeignOwned(Work!MembersOf(s))
        /\ Work!Activated(s)' = Work!Activated(s)
    BY <1>1, ChecksUnmoved
  <2>2. CASE ProjectDocuments(t)
    <3>1. Statement(t, "project") /\ Progress(s)
      BY <1>4, <2>2 DEF ProjectDocuments
    <3>2. Work!AllEvidence(s) /\ sub = Projecting(s, "project", wDocuments)
      BY <3>1 DEF Statement, Progress, Projecting, Publishing, Savepoint, SavepointRecord
    <3>3. sub' = Projecting(s, "sweep", Work!WithIncoming(wDocuments, s))
      <4>1. HasFields(sub, "project", s, wDocuments, wCompleted, wManifest, s)
        BY <3>2, RecordHasFields DEF Projecting
      <4>2. sub' = [sub EXCEPT !.documents = Work!WithIncoming(wDocuments, s), !.next = "sweep"]
        BY <2>2, <4>1 DEF ProjectDocuments, HasFields
      <4>3. HasFields(sub', "sweep", s, Work!WithIncoming(wDocuments, s), wCompleted, wManifest, s)
        BY <4>1, <4>2 DEF HasFields, SavepointFields
      <4> QED BY <4>3, RecordHasFields DEF Projecting
    <3>4. Progress(s)' /\ sub'.snapshot = s
      BY <1>2, <2>1, <2>2, <3>2, <3>3 DEF Progress, Projecting, SavepointRecord, ProjectDocuments
    <3> QED BY <1>5, <3>1, <3>4
  <2>3. CASE SweepOrphans(t)
    <3>1. Statement(t, "sweep") /\ Progress(s)
      BY <1>4, <2>3 DEF SweepOrphans
    <3>2. /\ sub = Projecting(s, "sweep", Work!WithIncoming(wDocuments, s))
          /\ Work!AllEvidence(s) /\ Work!Verified(s) /\ ~Work!ForeignOwned(Work!MembersOf(s))
      BY <3>1 DEF Statement, Progress, Projecting, Publishing, Savepoint, SavepointRecord
    <3>3. sub' = Projecting(s, "publish", Work!Activated(s))
      <4>1. HasFields(sub, "sweep", s, Work!WithIncoming(wDocuments, s), wCompleted, wManifest, s)
        BY <3>2, RecordHasFields DEF Projecting
      <4>2. sub' = [sub EXCEPT !.documents = Work!Activated(s), !.next = "publish"]
        BY <2>3, <4>1 DEF SweepOrphans, Work!Activated, HasFields
      <4>3. HasFields(sub', "publish", s, Work!Activated(s), wCompleted, wManifest, s)
        BY <4>1, <4>2 DEF HasFields, SavepointFields
      <4> QED BY <4>3, RecordHasFields DEF Projecting
    <3>4. Progress(s)' /\ sub'.snapshot = s
      BY <1>2, <2>1, <3>2, <3>3 DEF Progress, Projecting, SavepointRecord
    <3> QED BY <1>5, <3>1, <3>4
  <2>4. CASE PublishScope(t)
    <3>1. Statement(t, "publish") /\ Progress(s)
      BY <1>4, <2>4 DEF PublishScope
    <3>2. /\ sub = Projecting(s, "publish", Work!Activated(s))
          /\ Work!AllEvidence(s) /\ Work!Verified(s) /\ ~Work!ForeignOwned(Work!MembersOf(s))
      BY <3>1 DEF Statement, Progress, Projecting, Publishing, Savepoint, SavepointRecord
    <3>3. sub' = Publishing(s, "clear", s)
      <4>1. HasFields(sub, "publish", s, Work!Activated(s), wCompleted, wManifest, s)
        BY <3>2, RecordHasFields DEF Projecting
      <4>2. sub' = [sub EXCEPT !.completed = s.generation, !.manifest = s.manifest, !.next = "clear"]
        BY <2>4 DEF PublishScope
      <4>3. HasFields(sub', "clear", s, Work!Activated(s), s.generation, s.manifest, s)
        BY <4>1, <4>2 DEF HasFields, SavepointFields
      <4> QED BY <4>3, RecordHasFields DEF Publishing
    <3>4. Progress(s)' /\ sub'.snapshot = s
      BY <1>2, <2>1, <3>2, <3>3 DEF Progress, Publishing, SavepointRecord
    <3> QED BY <1>5, <3>1, <3>4
  <2>5. CASE ClearSnapshot(t)
    <3>1. Statement(t, "clear") /\ Progress(s)
      BY <1>4, <2>5 DEF ClearSnapshot
    <3>2. /\ sub = Publishing(s, "clear", s)
          /\ Work!AllEvidence(s) /\ Work!Verified(s) /\ ~Work!ForeignOwned(Work!MembersOf(s))
      BY <3>1 DEF Statement, Progress, Projecting, Publishing, Savepoint, SavepointRecord
    <3>3. sub' = Publishing(s, "release", NoPending)
      <4>1. HasFields(sub, "clear", s, Work!Activated(s), s.generation, s.manifest, s)
        BY <3>2, RecordHasFields DEF Publishing
      <4>2. sub' = [sub EXCEPT !.pending = NoPending, !.next = "release"]
        BY <2>5 DEF ClearSnapshot
      <4>3. HasFields(sub', "release", s, Work!Activated(s), s.generation, s.manifest, NoPending)
        BY <4>1, <4>2 DEF HasFields, SavepointFields
      <4> QED BY <4>3, RecordHasFields DEF Publishing
    <3>4. Progress(s)' /\ sub'.snapshot = s
      BY <1>2, <2>1, <3>2, <3>3 DEF Progress, Publishing, SavepointRecord
    <3> QED BY <1>5, <3>1, <3>4
  <2> QED BY <1>6, <2>2, <2>3, <2>4, <2>5
<1> QED BY <1>3, <1>6

\* No other session touches the savepoint of the holder.
LEMMA SavepointStep ==
  ASSUME TransactionInv, [TransactionNext]_transactionVars
  PROVE  SavepointInOrder'
<1>1. SavepointInOrder /\ SessionsHoldTheLock /\ session \in [Sessions -> SessionStates]
  BY DEF TransactionInv, SessionsHoldTheLock
<1>2. sub # NoEvent =>
        /\ holder \in Sessions /\ session[holder].phase = "working"
        /\ session[holder].kind = "catalog" /\ session[holder].left > 0
  BY <1>1 DEF SavepointInOrder
<1>3. sub' = NoEvent => SavepointInOrder'
  BY DEF SavepointInOrder
<1>4. ASSUME NEW t \in Sessions,
             \/ \E kind \in Kinds, left \in 1 .. MaxBatch : Begin(t, kind, left)
             \/ CheckLegacy(t)
             \/ GiveUp(t)
      PROVE  SavepointInOrder'
  <2>1. UNCHANGED <<working, sub, holder>> /\ session[t].phase # "working"
    BY <1>4 DEF Begin, CheckLegacy, GiveUp
  <2>2. \A u \in Sessions \ {t} : session'[u] = session[u]
    BY <1>1, <1>4 DEF Begin, CheckLegacy, GiveUp
  <2> QED BY <1>1, <1>2, <2>1, <2>2, SavepointUnmoved
<1>5. ASSUME NEW t \in Sessions, Lock(t) PROVE SavepointInOrder'
  <2>1. sub = NoEvent /\ sub' = sub
    BY <1>2, <1>5, SessionAssumption DEF Lock
  <2> QED BY <1>3, <2>1
<1>6. ASSUME NEW t \in Sessions, NEW kind \in Kinds \ {"catalog"}, InEvent(t, kind), sub' = sub
      PROVE  SavepointInOrder'
  <2>1. session[t].phase = "working" /\ session[t].kind # "catalog"
    BY <1>6 DEF InEvent
  <2>2. holder = t
    BY <1>1, <2>1 DEF SessionsHoldTheLock
  <2> QED BY <1>2, <1>3, <1>6, <2>1, <2>2
<1>7. ASSUME NEW t \in Sessions, Commit(t) PROVE SavepointInOrder'
  <2>1. session[t].phase = "working" /\ holder = t
    BY <1>1, <1>7 DEF Commit, SessionsHoldTheLock
  <2>2. sub = NoEvent /\ sub' = sub
    BY <1>2, <1>7, <2>1 DEF Commit
  <2> QED BY <1>3, <2>2
<1>8. ASSUME NEW t \in Sessions,
             ReleaseSavepoint(t) \/ Rollback(t) \/ \E kind \in Kinds : RefusedEvent(t, kind)
      PROVE  SavepointInOrder'
  BY <1>3, <1>8 DEF ReleaseSavepoint, Rollback, RefusedEvent
<1>9. CASE Age
  BY <1>3, <1>9 DEF Age
<1>10. CASE UNCHANGED transactionVars
  BY <1>1, <1>10, SavepointUnmoved DEF transactionVars
<1>11. ASSUME NEW t \in Sessions, NEW v \in Videos, NEW row \in LegacyRows, LegacyEvent(t, v, row)
       PROVE  SavepointInOrder'
  BY <1>6, <1>11 DEF LegacyEvent, Kinds
<1>12. ASSUME NEW t \in Sessions, NEW e \in Epochs, NEW expected \in Epochs \cup {NoEpoch},
              ChangeEpoch(t, e, expected)
       PROVE  SavepointInOrder'
  BY <1>6, <1>12 DEF ChangeEpoch, Kinds
<1>13. ASSUME NEW t \in Sessions, Prune(t) PROVE SavepointInOrder'
  BY <1>6, <1>13 DEF Prune, Kinds
<1> QED BY <1>4, <1>5, <1>7, <1>8, <1>9, <1>10, <1>11, <1>12, <1>13, StatementStep
        DEF TransactionNext, SessionStep

\* The holder's step on its rows, as a step of the receiver.
LEMMA WorkIsAStep ==
  ASSUME TransactionInv, TransactionNext
  PROVE  [Held!Next]_working \/ (\E t \in Sessions : Rollback(t))
<1>1. ASSUME NEW t \in Sessions, ReleaseSavepoint(t) PROVE Held!Next
  BY <1>1, ReleaseIsAnEvent, SameStages DEF CatalogEvent, Held!Next
<1>2. ASSUME NEW t \in Sessions, NEW e \in Epochs, NEW expected \in Epochs \cup {NoEpoch},
             ChangeEpoch(t, e, expected)
      PROVE  Held!Next
  BY <1>2, SameStages DEF ChangeEpoch, Held!Next
<1>3. ASSUME NEW t \in Sessions, Prune(t) PROVE Held!Next
  BY <1>3, SameStages DEF Prune, Held!Next
<1>4. ASSUME NEW t \in Sessions, NEW v \in Videos, NEW row \in LegacyRows, LegacyEvent(t, v, row)
      PROVE  Held!Next
  <2>1. session[t].phase = "working" /\ session[t].kind = "legacy" /\ ~session[t].blocked
    BY <1>4 DEF LegacyEvent, InEvent
  <2>2. holder = t /\ epoch = NoEpoch
    BY <2>1 DEF TransactionInv, SessionsHoldTheLock
  <2>3. AheadByOne(t)
    BY <2>2, SessionAssumption DEF TransactionInv, WorkingIsAhead
  <2>4. wEpoch = NoEpoch
    BY <2>1, <2>2, <2>3 DEF AheadByOne, Untouched, PublishedAhead, CuratedAhead
  <2>5. Held!LegacyWrite(v, row)
    BY <1>4, <2>4 DEF LegacyEvent, Held!LegacyWrite, Held!authority
  <2> QED BY <2>5 DEF Held!Next
<1>5. CASE Age
  <2>1. wPending = NoPending \/ wPending \in Held!PendingRecords
    BY DEF TransactionInv, Held!FencedEpochs, Held!TypedFences, Held!TypeOK
  <2>2. CASE wPending # NoPending /\ wPending' = [wPending EXCEPT !.fresh = FALSE]
    <3>1. CASE wPending.fresh
      BY <1>5, <2>2, <3>1 DEF Age, Held!Next, Held!Expire, Held!authority
    <3>2. CASE ~wPending.fresh
      <4>1. wPending' = wPending
        BY <2>1, <2>2, <3>2 DEF Held!PendingRecords
      <4> QED BY <1>5, <4>1 DEF Age, working
    <3> QED BY <3>1, <3>2
  <2>3. CASE wPending' = wPending
    BY <1>5, <2>3 DEF Age, working
  <2> QED BY <1>5, <2>2, <2>3 DEF Age
<1>6. ASSUME NEW t \in Sessions,
             \/ \E kind \in Kinds, left \in 1 .. MaxBatch : Begin(t, kind, left)
             \/ Lock(t) \/ CheckLegacy(t) \/ Commit(t) \/ GiveUp(t)
             \/ \E kind \in Kinds : RefusedEvent(t, kind)
             \/ StageEvidence(t) \/ ProjectDocuments(t) \/ SweepOrphans(t) \/ PublishScope(t)
             \/ ClearSnapshot(t)
      PROVE  UNCHANGED working
  BY <1>6 DEF Begin, Lock, CheckLegacy, Commit, GiveUp, RefusedEvent, StageEvidence,
              ProjectDocuments, SweepOrphans, PublishScope, ClearSnapshot, Statement
<1> QED BY <1>1, <1>2, <1>3, <1>4, <1>5, <1>6 DEF TransactionNext, SessionStep

\* The committed rows are what they were, age, or become the holder's.
LEMMA CommittedSteps ==
  ASSUME TransactionInv, TransactionNext
  PROVE  \/ UNCHANGED receiverVars
         \/ Expire
         \/ \E t \in Sessions : Commit(t)
  BY DEF TransactionNext, SessionStep, Age, Begin, Lock, CheckLegacy, InEvent, StageEvidence,
         ProjectDocuments, SweepOrphans, PublishScope, ClearSnapshot, Statement, ReleaseSavepoint,
         LegacyEvent, RefusedEvent, ChangeEpoch, Prune, Rollback, GiveUp

\* A commit copies the holder's rows out, a rollback the committed ones back.
LEMMA CommitCopies ==
  ASSUME Held!FencedEpochs, Held!Projected, receiverVars' = working
  PROVE  (FencedEpochs /\ Projected)'
<1>1. /\ history' = wHistory /\ epoch' = wEpoch /\ highest' = wHighest /\ completed' = wCompleted
      /\ manifest' = wManifest /\ pending' = wPending /\ documents' = wDocuments
  BY DEF receiverVars, working
<1>2. TypeOK' /\ PendingIsCurrent'
  BY <1>1
     DEF Held!FencedEpochs, Held!TypedFences, TypeOK, Held!TypeOK, PendingIsCurrent,
         Held!PendingIsCurrent, ManifestRecords, Held!ManifestRecords, PendingRecords, Held!PendingRecords, PageFamilies,
         Held!PageFamilies, PageIndexes, Held!PageIndexes, Rows, Held!Rows, NoRow, Held!NoRow
<1>3. EpochsInOrder'
  BY <1>1
     DEF Held!FencedEpochs, EpochsInOrder, Held!EpochsInOrder, EpochsFormOneChain,
         Held!EpochsFormOneChain, Installed, Held!Installed
<1>4. ProjectionMatchesManifest'
  BY <1>1
     DEF Held!Projected, ProjectionMatchesManifest, Held!ProjectionMatchesManifest, LiveCatalog,
         Held!LiveCatalog, LiveLocal, Held!LiveLocal, PageIndexes, Held!PageIndexes
<1> QED BY <1>2, <1>3, <1>4 DEF FencedEpochs, TypedFences, Projected

LEMMA RollbackCopies ==
  ASSUME FencedEpochs, Projected, working' = receiverVars
  PROVE  (Held!FencedEpochs /\ Held!Projected)'
<1>1. /\ wHistory' = history /\ wEpoch' = epoch /\ wHighest' = highest /\ wCompleted' = completed
      /\ wManifest' = manifest /\ wPending' = pending /\ wDocuments' = documents
  BY DEF receiverVars, working
<1>2. Held!TypeOK' /\ Held!PendingIsCurrent'
  BY <1>1
     DEF FencedEpochs, TypedFences, TypeOK, Held!TypeOK, PendingIsCurrent,
         Held!PendingIsCurrent, ManifestRecords, Held!ManifestRecords, PendingRecords, Held!PendingRecords, PageFamilies,
         Held!PageFamilies, PageIndexes, Held!PageIndexes, Rows, Held!Rows, NoRow, Held!NoRow
<1>3. Held!EpochsInOrder'
  BY <1>1
     DEF FencedEpochs, EpochsInOrder, Held!EpochsInOrder, EpochsFormOneChain,
         Held!EpochsFormOneChain, Installed, Held!Installed
<1>4. Held!ProjectionMatchesManifest'
  BY <1>1
     DEF Projected, ProjectionMatchesManifest, Held!ProjectionMatchesManifest, LiveCatalog,
         Held!LiveCatalog, LiveLocal, Held!LiveLocal, PageIndexes, Held!PageIndexes
<1> QED BY <1>2, <1>3, <1>4 DEF Held!FencedEpochs, Held!TypedFences, Held!Projected

\* Both copies of the rows stay in order.
LEMMA RowsStayInOrder ==
  ASSUME TransactionInv, [TransactionNext]_transactionVars
  PROVE  (FencedEpochs /\ Projected /\ Held!FencedEpochs /\ Held!Projected)'
<1>1. (Held!FencedEpochs /\ Held!Projected)'
  <2>1. CASE \E t \in Sessions : Rollback(t)
    <3>1. working' = receiverVars
      BY <2>1 DEF Rollback, working, receiverVars
    <3> QED BY <3>1, RollbackCopies DEF TransactionInv
  <2>2. CASE [Held!Next]_working
    BY <2>2, WorkingRows DEF TransactionInv
  <2>3. UNCHANGED transactionVars => UNCHANGED working
    BY DEF transactionVars
  <2> QED BY <2>1, <2>2, <2>3, WorkIsAStep
<1>2. (FencedEpochs /\ Projected)'
  <2>1. CASE \E t \in Sessions : Commit(t)
    <3>1. receiverVars' = working
      BY <2>1 DEF Commit, working, receiverVars
    <3> QED BY <3>1, CommitCopies DEF TransactionInv
  <2>2. CASE [Next]_receiverVars
    BY <2>2, NextFencedEpochs, NextProjected DEF TransactionInv
  <2>3. UNCHANGED transactionVars => UNCHANGED receiverVars
    BY DEF transactionVars
  <2>4. Expire => Next
    BY DEF Next
  <2> QED BY <2>1, <2>2, <2>3, <2>4, CommittedSteps
<1> QED BY <1>1, <1>2

\* What a session's step does to the lock and to the sessions.
LEMMA LockStep ==
  ASSUME TransactionInv, [TransactionNext]_transactionVars
  PROVE  SessionsHoldTheLock'
<1> USE SessionAssumption DEF SessionStates, Kinds, IdleSession
<1>1. /\ session \in [Sessions -> SessionStates] /\ holder \in Sessions \cup {NoSession}
      /\ SessionsHoldTheLock
  BY DEF TransactionInv, SessionsHoldTheLock
<1>2. ASSUME NEW t \in Sessions, NEW kind \in Kinds, NEW left \in 1 .. MaxBatch, Begin(t, kind, left)
      PROVE  SessionsHoldTheLock'
  BY <1>1, <1>2 DEF Begin, SessionsHoldTheLock, receiverVars
<1>3. ASSUME NEW t \in Sessions, Lock(t) PROVE SessionsHoldTheLock'
  <2>1. session[t].phase = "starting" /\ holder = NoSession /\ session[t] \in SessionStates
    BY <1>1, <1>3 DEF Lock
  <2>2. session[t].step = 1
    BY <1>1, <2>1 DEF SessionsHoldTheLock
  <2>3. Len(Preamble(session[t].kind)) = IF session[t].kind = "legacy" THEN 2 ELSE 1
    <3>1. Len(<<"lock", "check">>) = 2 /\ Len(<<"lock">>) = 1
      OBVIOUS
    <3> QED BY <3>1 DEF Preamble
  <2>4. /\ Advanced(t) \in SessionStates /\ Advanced(t).step = 2
        /\ Advanced(t).kind = session[t].kind /\ Advanced(t).left = session[t].left
        /\ Advanced(t).phase = IF session[t].kind = "legacy" THEN "starting" ELSE "working"
    <3>1. CASE session[t].kind = "legacy"
      <4>1. Advanced(t) = [session[t] EXCEPT !.step = 2, !.phase = session[t].phase]
        BY <2>2, <2>3, <3>1 DEF Advanced
      <4> QED BY <2>1, <3>1, <4>1
    <3>2. CASE session[t].kind # "legacy"
      <4>1. Advanced(t) = [session[t] EXCEPT !.step = 2, !.phase = "working"]
        BY <2>2, <2>3, <3>2 DEF Advanced
      <4> QED BY <2>1, <3>2, <4>1
    <3> QED BY <3>1, <3>2
  <2>5. holder' = t /\ session' = [session EXCEPT ![t] = Advanced(t)] /\ epoch' = epoch
    BY <1>3 DEF Lock, receiverVars
  <2> HIDE DEF SessionStates
  <2> QED BY <1>1, <2>1, <2>4, <2>5 DEF SessionsHoldTheLock
<1>4. ASSUME NEW t \in Sessions, CheckLegacy(t) PROVE SessionsHoldTheLock'
  <2> DEFINE checked == [Advanced(t) EXCEPT !.blocked = epoch # NoEpoch]
  <2>1. session[t].phase = "starting" /\ session[t] \in SessionStates
    BY <1>1, <1>4 DEF CheckLegacy
  <2>2. session[t].step = 2 /\ session[t].kind = "legacy"
    <3>1. session[t].step # 1
      BY <1>4, <2>1 DEF CheckLegacy, Preamble
    <3> QED BY <1>1, <2>1, <3>1 DEF SessionsHoldTheLock
  <2>3. Advanced(t) = [session[t] EXCEPT !.step = 3, !.phase = "working"]
    BY <2>1, <2>2 DEF Advanced, Preamble
  <2>4. /\ checked \in SessionStates /\ checked.phase = "working" /\ checked.kind = "legacy"
        /\ checked.blocked = (epoch # NoEpoch)
    BY <2>1, <2>2, <2>3
  <2>5. holder' = holder /\ session' = [session EXCEPT ![t] = checked] /\ epoch' = epoch
    BY <1>4 DEF CheckLegacy, receiverVars
  <2>6. holder = t
    BY <1>1, <2>1, <2>2 DEF SessionsHoldTheLock
  <2> HIDE DEF SessionStates, checked
  <2> QED BY <1>1, <2>1, <2>4, <2>5, <2>6 DEF SessionsHoldTheLock
<1>5. ASSUME NEW t \in Sessions, NEW kind \in Kinds, InEvent(t, kind) PROVE SessionsHoldTheLock'
  BY <1>1, <1>5 DEF InEvent, SessionsHoldTheLock, receiverVars
<1>6. ASSUME NEW t \in Sessions, Commit(t) \/ Rollback(t) PROVE SessionsHoldTheLock'
  <2>1. holder = t /\ holder' = NoSession /\ session' = [session EXCEPT ![t] = IdleSession]
    BY <1>1, <1>6 DEF Commit, Rollback, Released, SessionsHoldTheLock
  <2>2. IdleSession \in SessionStates /\ IdleSession.phase = "idle"
    OBVIOUS
  <2>3. \A u \in Sessions \ {t} : session'[u] = session[u] /\ holder # u
    BY <1>1, <2>1
  <2>4. session'[t] = IdleSession
    BY <1>1, <2>1
  <2>5. session' \in [Sessions -> SessionStates]
    BY <1>1, <2>1, <2>2
  <2> HIDE DEF SessionStates, IdleSession
  <2> QED BY <1>1, <2>1, <2>2, <2>3, <2>4, <2>5 DEF SessionsHoldTheLock
<1>7. ASSUME NEW t \in Sessions, GiveUp(t) PROVE SessionsHoldTheLock'
  BY <1>1, <1>7 DEF GiveUp, SessionsHoldTheLock, receiverVars
<1>8. CASE UNCHANGED <<epoch, holder, session>>
  BY <1>1, <1>8 DEF SessionsHoldTheLock
<1>9. \/ Age \/ UNCHANGED transactionVars
      \/ \E t \in Sessions : \/ StageEvidence(t) \/ ProjectDocuments(t) \/ SweepOrphans(t)
                              \/ PublishScope(t) \/ ClearSnapshot(t)
      => UNCHANGED <<epoch, holder, session>>
  BY DEF Age, Expire, authority, transactionVars, receiverVars, StageEvidence, ProjectDocuments,
         SweepOrphans, PublishScope, ClearSnapshot, Statement
<1> QED BY <1>2, <1>3, <1>4, <1>5, <1>6, <1>7, <1>8, <1>9
        DEF TransactionNext, SessionStep, ReleaseSavepoint, LegacyEvent, RefusedEvent, ChangeEpoch,
            Prune

\* One event of the holder, as it moves its rows.
LEMMA EventMoves ==
  ASSUME TransactionInv, NEW t \in Sessions, CatalogEvent(t)
  PROVE  /\ UNCHANGED <<wHistory, wEpoch>>
         /\ \/ wEpoch # NoEpoch /\ wCompleted' \in Generations /\ wCompleted' > wCompleted
            \/ UNCHANGED <<wCompleted, wDocuments>>
<1>1. /\ UNCHANGED <<wHistory, wEpoch>> /\ wEpoch \in Epochs
  BY DEF CatalogEvent, Work!StageCatalogPage, Work!StageCatalogEnd, Work!AcceptsPage,
         Work!AcceptsEnd, Work!Settle, Work!Admissible
<1>2. [Held!Next]_working
  BY SameStages DEF CatalogEvent, Held!Next
<1>3. Held!FencedEpochs /\ wEpoch # NoEpoch
  BY <1>1, EpochAssumption DEF TransactionInv
<1>4. wEpoch \in Held!Installed
  BY <1>3 DEF Held!FencedEpochs, Held!EpochsInOrder, Held!EpochsFormOneChain
<1> QED BY <1>1, <1>2, <1>3, <1>4, WorkingFence

\* What the holder's rows are ahead by, across its steps.
LEMMA AheadStep ==
  ASSUME TransactionInv, SessionsHoldTheLock', [TransactionNext]_transactionVars
  PROVE  WorkingIsAhead'
<1>1. /\ SessionsHoldTheLock /\ WorkingIsAhead /\ FencedEpochs /\ Held!FencedEpochs
      /\ session \in [Sessions -> SessionStates]
  BY DEF TransactionInv, SessionsHoldTheLock
<1>2. working = receiverVars => Untouched
  BY DEF working, receiverVars, Untouched
<1>3. \A t \in Sessions : session[t].phase = "working" => holder = t /\ AheadByOne(t)
  BY <1>1, SessionAssumption DEF SessionsHoldTheLock, WorkingIsAhead
<1>4. ASSUME UNCHANGED <<receiverVars, working, holder>>,
             \A t \in Sessions : holder = t =>
               session'[t].kind = session[t].kind /\ session'[t].left =< session[t].left
      PROVE  WorkingIsAhead'
  <2>1. /\ UNCHANGED <<Untouched, PublishedAhead, OpenedAhead, CuratedAhead>>
        /\ (working = receiverVars) => (working = receiverVars)'
    BY <1>4
       DEF Untouched, PublishedAhead, OpenedAhead, CuratedAhead, working, receiverVars,
           Installed, Held!Installed
  <2>2. \A t \in Sessions : holder = t =>
          (session[t].left = 0 => session'[t].left = 0)
    BY <1>1, <1>4 DEF SessionsHoldTheLock, SessionStates
  <2> QED BY <1>1, <1>4, <2>1, <2>2 DEF WorkingIsAhead, AheadByOne, SessionsHoldTheLock
<1>5. ASSUME NEW t \in Sessions,
             \/ \E kind \in Kinds, left \in 1 .. MaxBatch : Begin(t, kind, left)
             \/ CheckLegacy(t)
             \/ GiveUp(t)
             \/ \E kind \in Kinds : RefusedEvent(t, kind)
      PROVE  WorkingIsAhead'
  <2>1. UNCHANGED <<receiverVars, working, holder>>
    BY <1>5 DEF Begin, CheckLegacy, GiveUp, RefusedEvent, InEvent
  <2>2. ASSUME NEW u \in Sessions, holder = u
        PROVE  session'[u].kind = session[u].kind /\ session'[u].left =< session[u].left
    <3>1. session[u] \in SessionStates /\ session[t] \in SessionStates
      BY <1>1
    <3>2. CASE u # t
      <4>1. session'[u] = session[u]
        BY <1>1, <1>5, <3>2 DEF Begin, CheckLegacy, GiveUp, RefusedEvent, InEvent
      <4> QED BY <3>1, <4>1 DEF SessionStates
    <3>3. CASE u = t
      <4>1. CASE CheckLegacy(t)
        BY <1>1, <3>1, <3>3, <4>1 DEF CheckLegacy, Advanced, SessionStates
      <4>2. CASE \E kind \in Kinds : RefusedEvent(t, kind)
        BY <1>1, <3>1, <3>3, <4>2 DEF RefusedEvent, InEvent, SessionStates
      <4>3. CASE GiveUp(t) \/ \E kind \in Kinds, left \in 1 .. MaxBatch : Begin(t, kind, left)
        BY <1>1, <2>2, <3>3, <4>3 DEF GiveUp, Begin, SessionsHoldTheLock
      <4> QED BY <1>5, <4>1, <4>2, <4>3
    <3> QED BY <3>2, <3>3
  <2> QED BY <1>4, <2>1, <2>2
<1>6. ASSUME NEW t \in Sessions, Lock(t) PROVE WorkingIsAhead'
  <2>1. Untouched
    BY <1>1, <1>2, <1>6 DEF Lock, WorkingIsAhead
  <2>2. Untouched' /\ holder' = t
    BY <1>6, <2>1 DEF Lock, Untouched, working, receiverVars
  <2> QED BY <2>2, SessionAssumption DEF WorkingIsAhead, AheadByOne
<1>7. ASSUME NEW t \in Sessions, Commit(t) \/ Rollback(t) PROVE WorkingIsAhead'
  <2>1. holder' = NoSession /\ (working = receiverVars)'
    BY <1>7 DEF Commit, Rollback, Released, working, receiverVars
  <2> QED BY <2>1 DEF WorkingIsAhead
<1>8. CASE Age
  <2>1. CASE holder = NoSession
    <3>1. working = receiverVars
      BY <1>1, <2>1 DEF WorkingIsAhead
    <3>2. (working = receiverVars)' /\ holder' = NoSession
      BY <1>8, <2>1, <3>1 DEF Age, Expire, authority, working, receiverVars
    <3> QED BY <3>2 DEF WorkingIsAhead
  <2>2. CASE holder # NoSession
    <3>1. AheadByOne(holder) /\ holder' = holder
      BY <1>1, <1>8, <2>2 DEF WorkingIsAhead, Age
    <3>2. AheadByOne(holder)'
      BY <1>8, <3>1
         DEF Age, Expire, authority, AheadByOne, Untouched, PublishedAhead, OpenedAhead,
             CuratedAhead, Installed, Held!Installed
    <3> QED BY <2>2, <3>1, <3>2 DEF WorkingIsAhead
  <2> QED BY <2>1, <2>2
<1>9. ASSUME NEW t \in Sessions, NEW kind \in Kinds, InEvent(t, kind)
      PROVE  /\ holder = t /\ holder' = t /\ AheadByOne(t)
             /\ session[t].kind = kind /\ session'[t].kind = kind
             /\ session[t].left \in Nat \ {0} /\ session'[t].left = session[t].left - 1
             /\ kind = "epoch" => session'[t].left = 0
             /\ UNCHANGED receiverVars
             /\ AheadByOne(t)' => WorkingIsAhead'
  <2>1. /\ session[t].phase = "working" /\ session[t].kind = kind /\ session[t].left > 0
        /\ session' = [session EXCEPT ![t].left = @ - 1] /\ UNCHANGED <<receiverVars, holder>>
    BY <1>9 DEF InEvent
  <2>2. holder = t /\ AheadByOne(t) /\ holder' = t
    BY <1>3, <2>1
  <2>3. session[t].left \in Nat /\ session'[t].left = session[t].left - 1
        /\ session'[t].kind = kind
    BY <1>1, <2>1 DEF SessionStates
  <2>4. kind = "epoch" => session[t].left =< 1
    BY <1>1, <2>1 DEF SessionsHoldTheLock
  <2>5. AheadByOne(t)' => WorkingIsAhead'
    BY <2>2, SessionAssumption DEF WorkingIsAhead
  <2> QED BY <2>1, <2>2, <2>3, <2>4, <2>5
<1>10. ASSUME NEW t \in Sessions, ReleaseSavepoint(t) PROVE WorkingIsAhead'
  <2>0. CatalogEvent(t)
    BY <1>10, ReleaseIsAnEvent
  <2>1. /\ AheadByOne(t) /\ session[t].kind = "catalog" /\ session'[t].kind = "catalog"
        /\ UNCHANGED receiverVars
        /\ AheadByOne(t)' => WorkingIsAhead'
    BY <1>9, <2>0 DEF CatalogEvent, Kinds
  <2>2. /\ UNCHANGED <<wHistory, wEpoch>>
        /\ \/ wEpoch # NoEpoch /\ wCompleted' \in Generations /\ wCompleted' > wCompleted
           \/ UNCHANGED <<wCompleted, wDocuments>>
    BY <2>0, EventMoves
  <2>3. wCompleted \in Nat /\ completed \in Nat /\ Generations \subseteq Nat
    BY GenerationAssumption
       DEF TransactionInv, Held!FencedEpochs, Held!TypedFences, Held!TypeOK, FencedEpochs, TypedFences,
           TypeOK
  <2>4. AheadByOne(t)'
    <3>1. Untouched \/ PublishedAhead
      BY <2>1 DEF AheadByOne
    <3>2. UNCHANGED <<history, epoch, completed, documents>>
      BY <2>1 DEF receiverVars
    <3>3. Untouched' \/ PublishedAhead'
      <4>1. CASE wEpoch # NoEpoch /\ wCompleted' \in Generations /\ wCompleted' > wCompleted
        <5>1. wHistory = history /\ wEpoch = epoch /\ wCompleted >= completed
          BY <2>3, <3>1 DEF Untouched, PublishedAhead
        <5>2. wCompleted' \in Nat /\ wCompleted' > completed
          BY <2>3, <4>1, <5>1
        <5> QED BY <2>2, <3>2, <4>1, <5>1, <5>2 DEF PublishedAhead
      <4>2. CASE UNCHANGED <<wCompleted, wDocuments>>
        BY <2>2, <3>1, <3>2, <4>2 DEF Untouched, PublishedAhead
      <4> QED BY <2>2, <4>1, <4>2
    <3> QED BY <2>1, <3>3 DEF AheadByOne
  <2> QED BY <2>1, <2>4
<1>11. ASSUME NEW t \in Sessions, NEW e \in Epochs, NEW expected \in Epochs \cup {NoEpoch},
              ChangeEpoch(t, e, expected)
       PROVE  WorkingIsAhead'
  <2>1. /\ AheadByOne(t) /\ session[t].kind = "epoch" /\ session'[t].kind = "epoch"
        /\ session[t].left # 0 /\ session'[t].left = 0
        /\ UNCHANGED receiverVars
        /\ AheadByOne(t)' => WorkingIsAhead'
    BY <1>9, <1>11 DEF ChangeEpoch, Kinds
  <2>2. Untouched
    BY <2>1 DEF AheadByOne
  <2>3. Held!SetCatalogEpoch(e, expected)
    BY <1>11, SameStages DEF ChangeEpoch
  <2>4. Held!Installed' = Held!Installed \cup {e} /\ e \notin Held!Installed
    BY <1>1, <2>3, WorkingEpoch
  <2>5. Held!Installed = Installed
    BY <2>2 DEF Untouched, Held!Installed, Installed
  <2>6. wEpoch' = e /\ wCompleted' = 0 /\ wDocuments' = wDocuments
    BY <2>3 DEF Held!SetCatalogEpoch
  <2>7. OpenedAhead'
    BY <2>1, <2>2, <2>4, <2>5, <2>6 DEF OpenedAhead, Untouched, receiverVars, Installed
  <2> QED BY <2>1, <2>7 DEF AheadByOne
<1>12. ASSUME NEW t \in Sessions, Prune(t) PROVE WorkingIsAhead'
  <2>1. /\ AheadByOne(t) /\ session[t].kind = "prune"
        /\ UNCHANGED receiverVars
        /\ AheadByOne(t)' => WorkingIsAhead'
    BY <1>9, <1>12 DEF Prune, Kinds
  <2>2. Untouched'
    BY <1>12, <2>1
       DEF AheadByOne, Prune, Work!PruneCatalogSnapshots, Work!authority, Untouched, receiverVars
  <2> QED BY <2>1, <2>2 DEF AheadByOne
<1>13. ASSUME NEW t \in Sessions, NEW v \in Videos, NEW row \in LegacyRows, LegacyEvent(t, v, row)
       PROVE  WorkingIsAhead'
  <2>1. /\ AheadByOne(t) /\ session[t].kind = "legacy" /\ session'[t].kind = "legacy"
        /\ UNCHANGED receiverVars
        /\ AheadByOne(t)' => WorkingIsAhead'
    BY <1>9, <1>13 DEF LegacyEvent, Kinds
  <2>2. epoch = NoEpoch
    BY <1>1, <1>13, <2>1 DEF LegacyEvent, InEvent, SessionsHoldTheLock
  <2>3. CuratedAhead'
    BY <1>13, <2>1, <2>2 DEF AheadByOne, LegacyEvent, Untouched, CuratedAhead, receiverVars
  <2> QED BY <2>1, <2>3 DEF AheadByOne
<1>14. CASE UNCHANGED transactionVars
  <2>1. \A t \in Sessions :
          session'[t].kind = session[t].kind /\ session'[t].left =< session[t].left
    BY <1>1, <1>14 DEF transactionVars, SessionStates
  <2> QED BY <1>4, <1>14, <2>1 DEF transactionVars
<1>15. ASSUME NEW t \in Sessions,
              \/ StageEvidence(t) \/ ProjectDocuments(t) \/ SweepOrphans(t) \/ PublishScope(t)
              \/ ClearSnapshot(t)
       PROVE  WorkingIsAhead'
  <2>1. UNCHANGED <<receiverVars, working, holder, session>>
    BY <1>15 DEF StageEvidence, ProjectDocuments, SweepOrphans, PublishScope, ClearSnapshot, Statement
  <2>2. \A u \in Sessions : session'[u].left =< session[u].left
    BY <1>1, <2>1 DEF SessionStates
  <2> QED BY <1>4, <2>1, <2>2
<1> QED BY <1>5, <1>6, <1>7, <1>8, <1>10, <1>11, <1>12, <1>13, <1>14, <1>15
        DEF TransactionNext, SessionStep

\* The service starts with nothing under way.
LEMMA InitTransactionInv == TransactionInit => TransactionInv
<1> SUFFICES ASSUME TransactionInit PROVE TransactionInv
  OBVIOUS
<1>1. FencedEpochs /\ Projected
  BY InitFencedEpochs DEF TransactionInit, Init, FencedEpochs, Projected, ProjectionMatchesManifest
<1>2. Held!FencedEpochs /\ Held!Projected
  BY WorkingRows, SameStages DEF TransactionInit
<1>3. working = receiverVars /\ holder = NoSession
  BY SameStages DEF TransactionInit, Init, Held!Init, NoRow, Held!NoRow, working, receiverVars
<1>4. SessionsHoldTheLock
  BY <1>3, SessionAssumption
     DEF TransactionInit, SessionsHoldTheLock, SessionStates, IdleSession, Kinds
<1> QED BY <1>1, <1>2, <1>3, <1>4
        DEF TransactionInit, TransactionInv, SavepointInOrder, WorkingIsAhead

\* Every step keeps the invariant (TransactionNext).
LEMMA NextTransactionInv ==
  TransactionInv /\ [TransactionNext]_transactionVars => TransactionInv'
BY RowsStayInOrder, LockStep, SavepointStep, AheadStep DEF TransactionInv

\* A commit is a step of the authority, or none; nothing else is visible.
LEMMA CommitIsAStep ==
  ASSUME TransactionInv, TransactionInv', [TransactionNext]_transactionVars
  PROVE  [Authority!Next]_(Authority!abstractVars)
<1>1. ASSUME NEW t \in Sessions, Commit(t) PROVE [Authority!Next]_(Authority!abstractVars)
  <2>1. holder = t /\ AheadByOne(t)
    BY <1>1, SessionAssumption DEF Commit, TransactionInv, SessionsHoldTheLock, WorkingIsAhead
  <2>2. /\ history' = wHistory /\ epoch' = wEpoch /\ completed' = wCompleted
        /\ documents' = wDocuments
    BY <1>1 DEF Commit
  <2>3. CASE Untouched
    BY <2>2, <2>3
       DEF Untouched, Authority!abstractVars, Installed, Fence, LiveCatalog, LiveLocal
  <2>4. LiveCatalog' \subseteq CanonicalDocuments
    BY LiveCatalogStaysTyped DEF TransactionInv, FencedEpochs, TypedFences
  <2>5. CASE PublishedAhead
    <3>1. Authority!Publish(wCompleted, LiveCatalog')
      BY <2>2, <2>5 DEF PublishedAhead, Authority!Publish, Fence, Installed
    <3> QED BY <2>4, <2>5, <3>1 DEF PublishedAhead, Authority!Next
  <2>6. CASE OpenedAhead
    <3>1. Installed' = Installed \cup {wEpoch}
      BY <2>2, <2>6 DEF OpenedAhead, Installed, Held!Installed
    <3>2. Authority!Open(wEpoch)
      BY <2>2, <2>6, <3>1 DEF OpenedAhead, Authority!Open, Fence, LiveCatalog, LiveLocal
    <3> QED BY <2>6, <3>2 DEF OpenedAhead, Authority!Next
  <2>7. CASE CuratedAhead
    BY <2>2, <2>4, <2>7 DEF CuratedAhead, Authority!Curate, Authority!Next, Fence, Installed
  <2> QED BY <2>1, <2>3, <2>5, <2>6, <2>7 DEF AheadByOne
<1>2. CASE Expire \/ UNCHANGED receiverVars
  BY <1>2 DEF Expire, receiverVars, authority, Authority!abstractVars, Installed, Fence,
              LiveCatalog, LiveLocal
<1>3. UNCHANGED transactionVars => UNCHANGED receiverVars
  BY DEF transactionVars
<1> QED BY <1>1, <1>2, <1>3, CommittedSteps

(* Whatever batches, epoch changes and cleanups race, fail or lose their    *)
(* answers, the committed catalog moves by whole publications, and the      *)
(* committed documents are those of the committed manifest (IngestCatalog,  *)
(* LockCatalog, legacyCatalogBlocked).                                      *)
THEOREM TransactionsImplementAuthority == TransactionSpec => CommitsImplementAuthority
<1>1. TransactionInit => Authority!Init
  BY InitImplements DEF TransactionInit
<1>2. TransactionInv /\ TransactionInv' /\ [TransactionNext]_transactionVars
        => [Authority!Next]_(Authority!abstractVars)
  BY CommitIsAStep
<1>3. TransactionInv' => [ProjectionMatchesManifest']_receiverVars
  BY DEF TransactionInv, Projected
<1>4. TransactionSpec => []TransactionInv
  BY InitTransactionInv, NextTransactionInv, PTL DEF TransactionSpec
<1>5. TransactionSpec => ImplementsAuthority
  BY <1>1, <1>2, <1>4, PTL DEF TransactionSpec, ImplementsAuthority, Authority!Spec
<1>6. TransactionSpec => [][ProjectionMatchesManifest']_receiverVars
  BY <1>3, <1>4, PTL
<1> QED BY <1>5, <1>6 DEF CommitsImplementAuthority
=============================================================================
