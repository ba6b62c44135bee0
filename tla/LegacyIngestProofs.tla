------------------------- MODULE LegacyIngestProofs -------------------------
(***************************************************************************)
(* Proofs about the legacy path, for any events, batches and redeliveries. *)
(*                                                                         *)
(* The inbox: every applied event has a receipt or had one that was swept, *)
(* and what was answered is committed.  The argument is about the batch in *)
(* progress: its receipts are those of the events it applied, but for the  *)
(* event whose savepoint is still open.                                    *)
(*                                                                         *)
(* The documents: they are the replay of the applied events, and owner     *)
(* events only mask them.  A replay is a fold, so both need the values of  *)
(* folds, by induction on their length (FoldLemmas): the documents a batch *)
(* holds are the replay of what it applied, plus the statements run so far *)
(* of the event whose savepoint is open.                                   *)
(***************************************************************************)
EXTENDS LegacyIngest, FoldLemmas, SequenceTheorems, TLAPS

TxFields ==
  {"open", "blocked", "todo", "step", "docs", "saved", "inbox", "applied", "landed"}

\* The event whose savepoint is open.
InSavepoint == IF ingest.step > 0 THEN {Current} ELSE {}

OnceUnlessSwept(ids, swept) ==
  \A i, j \in DOMAIN ids : i # j /\ ids[i] = ids[j] => ids[i] \in swept

TxTyped ==
  /\ DOMAIN ingest = TxFields
  /\ ingest.todo \in Seq(EventIds) /\ ingest.applied \in Seq(EventIds)
  /\ ingest.step \in Nat
  /\ ingest.inbox \subseteq EventIds
  /\ ingest.open \/ ingest.step = 0

\* What the batch in progress will commit.
TxLedger ==
  /\ ToSet(applied) \subseteq ToSet(ingest.applied)
  /\ inbox \subseteq ingest.inbox /\ InSavepoint \cap inbox = {}
  /\ ingest.inbox \cup pruned = ToSet(ingest.applied) \cup InSavepoint
  /\ InSavepoint \cap ToSet(ingest.applied) \subseteq pruned
  /\ ingest.landed \subseteq ToSet(ingest.applied)
  /\ OnceUnlessSwept(ingest.applied, pruned)

LegacyInv ==
  /\ LegacyTypeOK
  /\ TxTyped
  /\ AppliedOncePerReceipt
  /\ AckedIsDurable
  /\ ingest.open => TxLedger
-----------------------------------------------------------------------------
(* Sequences of ids *)

LEMMA AppendedIds ==
  ASSUME NEW S, NEW ids \in Seq(S), NEW id \in S
  PROVE  /\ Append(ids, id) \in Seq(S)
         /\ ToSet(Append(ids, id)) = ToSet(ids) \cup {id}
<1>1. Append(ids, id) \in Seq(S) /\ Len(Append(ids, id)) = Len(ids) + 1 /\ Len(ids) \in Nat
  OBVIOUS
<1>2. \A i \in 1 .. Len(ids) + 1 : Append(ids, id)[i] = IF i = Len(ids) + 1 THEN id ELSE ids[i]
  OBVIOUS
<1>3. DOMAIN ids = 1 .. Len(ids) /\ DOMAIN Append(ids, id) = 1 .. Len(ids) + 1
  BY <1>1
<1> QED BY <1>1, <1>2, <1>3 DEF ToSet

LEMMA AppendedOnce ==
  ASSUME NEW S, NEW ids \in Seq(S), NEW id \in S, NEW swept,
         OnceUnlessSwept(ids, swept), id \in ToSet(ids) => id \in swept
  PROVE  OnceUnlessSwept(Append(ids, id), swept)
<1>1. Len(ids) \in Nat /\ DOMAIN ids = 1 .. Len(ids)
      /\ DOMAIN Append(ids, id) = 1 .. Len(ids) + 1
  OBVIOUS
<1>2. \A i \in 1 .. Len(ids) + 1 : Append(ids, id)[i] = IF i = Len(ids) + 1 THEN id ELSE ids[i]
  OBVIOUS
<1>3. \A i \in 1 .. Len(ids) : ids[i] \in ToSet(ids)
  BY <1>1 DEF ToSet
<1> QED BY <1>1, <1>2, <1>3 DEF OnceUnlessSwept
-----------------------------------------------------------------------------
(* Documents stay documents *)

StatementShapes ==
       [type : {"video.upsert"}, doc : VideoDocs]
  \cup [type : {"video.suppress"}, video : Videos]
  \cup [type : {"channel.upsert"}, channel : Channels, owner : Owners \cup {None}]
  \cup [type : {"channel.delete"}, channel : Channels]
  \cup [type : {"user.suppress"}, owner : Owners, unlisted : BOOLEAN]

LEMMA StatementsAreTyped ==
  ASSUME NEW ev \in EventShapes, NEW i \in DOMAIN Statements(ev)
  PROVE  Statements(ev)[i] \in StatementShapes
<1>1. CASE ev \in [type : {"reconcile.page"}, docs : Seq(VideoDocs)]
  <2>1. Statements(ev)[i] = [type |-> "video.upsert", doc |-> ev.docs[i]] /\ i \in DOMAIN ev.docs
    BY <1>1 DEF Statements
  <2>2. ev.docs \in Seq(VideoDocs)
    BY <1>1
  <2>3. ev.docs[i] \in VideoDocs
    BY <2>1, <2>2
  <2> QED BY <2>1, <2>3 DEF StatementShapes
<1>2. CASE ev \in [type : {"reconcile.end"}]
  BY <1>2 DEF Statements
<1>3. CASE ev \in StatementShapes
  <2>1. ev.type # "reconcile.page" /\ ev.type # "reconcile.end"
    BY <1>3 DEF StatementShapes
  <2>2. Statements(ev) = <<ev>>
    BY <2>1 DEF Statements
  <2> QED BY <1>3, <2>2
<1> QED BY <1>1, <1>2, <1>3 DEF StatementShapes, EventShapes

LEMMA EffectIsTyped ==
  ASSUME NEW docs \in DocTables, NEW st \in StatementShapes
  PROVE  Effect(docs, st) \in DocTables
<1>1. \A v \in Videos : docs[v] # NoRow => docs[v] \in Rows
  BY DEF DocTables
<1>2. CASE st \in [type : {"video.upsert"}, doc : VideoDocs]
  <2>1. st.doc \in VideoDocs /\ Effect(docs, st) = VideoUpserted(docs, st.doc)
    BY <1>2 DEF Effect
  <2>2. SuppressedReason(st.doc) \in Reasons \cup {None}
    BY DEF SuppressedReason, Reasons
  <2>3. [owner |-> st.doc.owner, channel |-> st.doc.channel,
         eligible |-> SuppressedReason(st.doc) = None, reason |-> SuppressedReason(st.doc)] \in Rows
    BY <2>1, <2>2 DEF Rows, VideoDocs
  <2> QED BY <2>1, <2>3 DEF VideoUpserted, DocTables
<1>3. CASE st \in [type : {"video.suppress"}, video : Videos]
  <2>1. Effect(docs, st) = Suppressed(docs, st.video) /\ st.video \in Videos
    BY <1>3 DEF Effect
  <2>2. Placeholder \in Rows
    BY DEF Placeholder, Rows, Reasons
  <2>3. \A row \in Rows : [row EXCEPT !.eligible = FALSE, !.reason = "suppressed"] \in Rows
    BY DEF Rows, Reasons
  <2>4. PICK row \in Rows : Effect(docs, st) = [docs EXCEPT ![st.video] = row]
    <3>1. CASE docs[st.video] = NoRow
      BY <2>1, <2>2, <3>1 DEF Suppressed, DocTables
    <3>2. CASE docs[st.video] # NoRow
      <4>1. docs[st.video] \in Rows
        BY <1>1, <2>1, <3>2
      <4>2. Suppressed(docs, st.video) =
              [docs EXCEPT ![st.video] =
                 [docs[st.video] EXCEPT !.eligible = FALSE, !.reason = "suppressed"]]
        BY <2>1, <3>2 DEF Suppressed, DocTables
      <4> QED BY <2>1, <2>3, <4>1, <4>2
    <3> QED BY <3>1, <3>2
  <2> QED BY <2>4 DEF DocTables
<1>4. CASE st \in [type : {"channel.upsert"}, channel : Channels, owner : Owners \cup {None}]
  <2>1. Effect(docs, st) = ChannelUpserted(docs, st.channel, st.owner)
        /\ st.owner \in Owners \cup {None}
    BY <1>4 DEF Effect
  <2>2. \A row \in Rows : [row EXCEPT !.owner = st.owner] \in Rows
    BY <2>1 DEF Rows
  <2> QED BY <1>1, <2>1, <2>2 DEF ChannelUpserted, Update, DocTables
<1>5. CASE st \in [type : {"channel.delete"}, channel : Channels]
  <2>1. Effect(docs, st) = ChannelSuppressed(docs, st.channel)
    BY <1>5 DEF Effect
  <2>2. \A row \in Rows : [row EXCEPT !.eligible = FALSE, !.reason = "channel_deleted"] \in Rows
    BY DEF Rows, Reasons
  <2> QED BY <1>1, <2>1, <2>2 DEF ChannelSuppressed, Update, DocTables
<1>6. CASE st \in [type : {"user.suppress"}, owner : Owners, unlisted : BOOLEAN]
  <2>1. Effect(docs, st) = IF st.unlisted THEN OwnerSuppressed(docs, st.owner)
                                          ELSE OwnerRestored(docs, st.owner)
    BY <1>6 DEF Effect
  <2>2. \A row \in Rows :
          /\ [row EXCEPT !.eligible = FALSE, !.reason = "owner_unlisted"] \in Rows
          /\ [row EXCEPT !.eligible = TRUE, !.reason = None] \in Rows
    BY DEF Rows, Reasons
  <2>3. OwnerSuppressed(docs, st.owner) \in DocTables
    BY <1>1, <2>2 DEF OwnerSuppressed, Update, DocTables
  <2>4. OwnerRestored(docs, st.owner) \in DocTables
    BY <1>1, <2>2 DEF OwnerRestored, Update, DocTables
  <2> QED BY <2>1, <2>3, <2>4
<1> QED BY <1>2, <1>3, <1>4, <1>5, <1>6 DEF StatementShapes
-----------------------------------------------------------------------------
(* The steps *)

LEMMA NothingOpen ==
  /\ Closed.open = FALSE /\ Closed.todo = <<>> /\ Closed.step = 0
  /\ Closed.docs \in DocTables /\ Closed.saved \in DocTables
  /\ Closed.inbox = {} /\ Closed.applied = <<>> /\ Closed.landed = {}
  /\ DOMAIN Closed = TxFields
BY DEF Closed, NoDocuments, DocTables, TxFields

LEMMA InitHolds == LegacyInit => LegacyInv
<1> SUFFICES ASSUME LegacyInit PROVE LegacyInv
  OBVIOUS
<1>1. outbox \in Seq(Events)
  BY LegacyAssumption DEF LegacyInit
<1>2. documents \in DocTables /\ ingest = Closed
  BY DEF LegacyInit, NoDocuments, DocTables
<1>3. LegacyTypeOK
  <2>1. <<>> \in Seq(EventIds)
    OBVIOUS
  <2>2. /\ {} \subseteq EventIds /\ acked = {} /\ inbox = {} /\ pruned = {}
        /\ applied = <<>>
    BY DEF LegacyInit
  <2>3. initialized \in BOOLEAN
    BY DEF LegacyInit
  <2>4. ingest.docs \in DocTables /\ ingest.saved \in DocTables /\ ~(ingest.step > 0)
    BY <1>2, NothingOpen
  <2> QED BY <1>1, <1>2, <2>1, <2>2, <2>3, <2>4 DEF LegacyTypeOK
<1>4. TxTyped
  <2>1. <<>> \in Seq(EventIds)
    OBVIOUS
  <2> QED BY <1>2, <2>1, NothingOpen DEF TxTyped
<1>5. AppliedOncePerReceipt /\ AckedIsDurable
  BY DEF LegacyInit, AppliedOncePerReceipt, AckedIsDurable, ToSet
<1> QED BY <1>2, <1>3, <1>4, <1>5, NothingOpen DEF LegacyInv

\* A batch that ends leaves nothing behind.
LEMMA ClosedPreserves ==
  ASSUME LegacyInv, ingest' = Closed, UNCHANGED outbox, initialized' \in BOOLEAN,
         inbox' \subseteq EventIds, pruned' \subseteq EventIds, acked' \subseteq EventIds,
         documents' \in DocTables, applied' \in Seq(EventIds),
         AppliedOncePerReceipt', AckedIsDurable'
  PROVE  LegacyInv'
<1>1. EventIds' = EventIds
  BY DEF EventIds
<1>2. LegacyTypeOK'
  BY <1>1, NothingOpen DEF LegacyInv, LegacyTypeOK
<1>3. TxTyped'
  <2>1. <<>> \in Seq(EventIds)
    OBVIOUS
  <2> QED BY <1>1, <2>1, NothingOpen DEF TxTyped
<1> QED BY <1>2, <1>3, NothingOpen DEF LegacyInv

\* A batch that goes on changes nothing that is committed.
LEMMA BatchPreserves ==
  ASSUME LegacyInv, UNCHANGED <<outbox, acked, initialized, documents, inbox, pruned, applied>>,
         DOMAIN ingest' = TxFields, ingest'.todo \in Seq(EventIds), ingest'.applied \in Seq(EventIds),
         ingest'.step \in Nat, ingest'.inbox \subseteq EventIds, ingest'.open,
         ingest'.docs \in DocTables, ingest'.saved \in DocTables,
         ingest'.step > 0 => ingest'.todo # <<>> /\ Head(ingest'.todo) \in ingest'.inbox,
         TxLedger'
  PROVE  LegacyInv'
<1>1. LegacyTypeOK'
  BY DEF LegacyInv, LegacyTypeOK, EventIds, Current
<1>2. TxTyped'
  BY DEF TxTyped, EventIds
<1>3. AppliedOncePerReceipt' /\ AckedIsDurable'
  BY DEF LegacyInv, AppliedOncePerReceipt, AckedIsDurable
<1> QED BY <1>1, <1>2, <1>3 DEF LegacyInv

LEMMA OpenPreserves ==
  ASSUME LegacyInv, NEW n \in Nat, NEW batch \in [1 .. n -> EventIds], Open(batch)
  PROVE  LegacyInv'
<1>1. batch \in Seq(EventIds)
  OBVIOUS
<1>2. DOMAIN Closed = TxFields /\ Closed.step = 0 /\ Closed.saved \in DocTables /\ Closed.landed = {}
  BY NothingOpen
<1>3. /\ DOMAIN ingest' = TxFields /\ ingest'.open /\ ingest'.step = 0 /\ ingest'.todo = batch /\ ingest'.docs = documents
      /\ ingest'.inbox = inbox /\ ingest'.applied = applied /\ ingest'.saved = Closed.saved /\ ingest'.landed = {}
  BY <1>2 DEF Open, TxFields
<1>4. TxLedger'
  BY <1>3 DEF Open, LegacyInv, AppliedOncePerReceipt, TxLedger, InSavepoint, OnceUnlessSwept
<1> QED BY <1>1, <1>2, <1>3, <1>4, BatchPreserves DEF Open, LegacyInv, LegacyTypeOK

\* What every event of an open batch starts from.
LEMMA BatchFacts ==
  ASSUME LegacyInv, InBatch
  PROVE  /\ TxLedger /\ DOMAIN ingest = TxFields /\ ingest.open
         /\ ingest.todo \in Seq(EventIds) /\ ingest.todo # <<>> /\ Current \in EventIds
         /\ Tail(ingest.todo) \in Seq(EventIds)
         /\ ingest.applied \in Seq(EventIds) /\ ingest.step \in Nat /\ ingest.inbox \subseteq EventIds
         /\ ingest.docs \in DocTables /\ ingest.saved \in DocTables
         /\ ingest.step > 0 => Current \in ingest.inbox
<1>1. ingest.todo \in Seq(EventIds) /\ ingest.todo # <<>>
  BY DEF InBatch, LegacyInv, TxTyped
<1>2. Head(ingest.todo) \in EventIds /\ Tail(ingest.todo) \in Seq(EventIds)
  BY <1>1
<1> QED BY <1>1, <1>2 DEF InBatch, LegacyInv, TxTyped, LegacyTypeOK, Current

LEMMA SkippedPreserves ==
  ASSUME LegacyInv, Refuse \/ SkipDuplicate PROVE LegacyInv'
<1>1. InBatch /\ ingest.step = 0
  BY DEF Refuse, SkipDuplicate
<1>2. /\ DOMAIN ingest' = TxFields /\ ingest'.open = ingest.open /\ ingest'.todo = Tail(ingest.todo)
      /\ ingest'.step = 0 /\ ingest'.applied = ingest.applied /\ ingest'.inbox = ingest.inbox
      /\ ingest'.docs = ingest.docs /\ ingest'.saved = ingest.saved
      /\ ingest'.landed = ingest.landed \/ (ingest'.landed = ingest.landed \cup {Current} /\ Current \in ingest.inbox)
  BY <1>1, BatchFacts DEF Refuse, SkipDuplicate, TxFields
<1>3. Current \in ingest.inbox => Current \in ToSet(ingest.applied)
  BY <1>1, BatchFacts DEF TxLedger, InSavepoint
<1>4. TxLedger'
  BY <1>1, <1>2, <1>3, BatchFacts DEF TxLedger, InSavepoint, InBatch
<1> QED BY <1>1, <1>2, <1>4, BatchFacts, BatchPreserves DEF InBatch

LEMMA StartPreserves ==
  ASSUME LegacyInv, Start PROVE LegacyInv'
<1>1. InBatch /\ ingest.step = 0 /\ Current \notin ingest.inbox
  BY DEF Start
<1>2. /\ DOMAIN ingest' = TxFields /\ ingest'.open = ingest.open /\ ingest'.todo = ingest.todo
      /\ ingest'.step = 1 /\ ingest'.applied = ingest.applied /\ ingest'.inbox = ingest.inbox \cup {Current}
      /\ ingest'.docs = ingest.docs /\ ingest'.saved = ingest.docs /\ ingest'.landed = ingest.landed
  BY <1>1, BatchFacts DEF Start, TxFields
<1>3. InSavepoint = {} /\ InSavepoint' = {Current}
  BY <1>1, <1>2 DEF InSavepoint, Current
<1>4. TxLedger'
  BY <1>1, <1>2, <1>3, BatchFacts DEF TxLedger, InBatch
<1> QED BY <1>1, <1>2, <1>4, BatchFacts, BatchPreserves DEF InBatch, Current

LEMMA StatementPreserves ==
  ASSUME LegacyInv, RunStatement PROVE LegacyInv'
<1> DEFINE st == Statements(outbox[Current])[ingest.step]
<1>1. InBatch /\ ingest.step \in DOMAIN Statements(outbox[Current])
  BY DEF RunStatement
<1>2. outbox[Current] \in EventShapes
  <2>1. outbox \in Seq(Events) /\ Current \in DOMAIN outbox
    BY <1>1, BatchFacts DEF LegacyInv, LegacyTypeOK, EventIds
  <2>2. outbox[Current] \in Events
    BY <2>1
  <2> QED BY <2>2, LegacyAssumption
<1>3. st \in StatementShapes
  BY <1>1, <1>2, StatementsAreTyped
<1>4. /\ DOMAIN ingest' = TxFields /\ ingest'.open = ingest.open /\ ingest'.todo = ingest.todo
      /\ ingest'.step = ingest.step + 1 /\ ingest'.applied = ingest.applied /\ ingest'.inbox = ingest.inbox
      /\ ingest'.docs = Effect(ingest.docs, st) /\ ingest'.saved = ingest.saved /\ ingest'.landed = ingest.landed
  BY <1>1, BatchFacts DEF RunStatement, TxFields
<1>5. ingest'.docs \in DocTables
  BY <1>1, <1>3, <1>4, BatchFacts, EffectIsTyped
<1>6. ingest.step > 0
  <2>1. DOMAIN Statements(outbox[Current]) \subseteq Nat \ {0}
    BY <1>2 DEF Statements, EventShapes
  <2> QED BY <1>1, <2>1
<1>7. InSavepoint' = InSavepoint
  BY <1>1, <1>4, <1>6, BatchFacts DEF InSavepoint, Current
<1>8. TxLedger'
  BY <1>1, <1>4, <1>7, BatchFacts DEF TxLedger, InBatch
<1> QED BY <1>1, <1>4, <1>5, <1>6, <1>8, BatchFacts, BatchPreserves DEF InBatch, Current

LEMMA ReleasePreserves ==
  ASSUME LegacyInv, Release PROVE LegacyInv'
<1>1. InBatch /\ UNCHANGED <<inbox, applied, pruned>>
  BY DEF Release, InBatch
<1>2. ingest.step > 0
  <2>1. Len(Statements(outbox[Current])) \in Nat
    BY DEF Statements
  <2> QED BY <2>1 DEF Release
<1>3. /\ DOMAIN ingest' = TxFields /\ ingest'.open = ingest.open /\ ingest'.todo = Tail(ingest.todo)
      /\ ingest'.step = 0 /\ ingest'.applied = Append(ingest.applied, Current) /\ ingest'.inbox = ingest.inbox
      /\ ingest'.docs = ingest.docs /\ ingest'.saved = NoDocuments /\ ingest'.landed = ingest.landed \cup {Current}
  BY <1>1, BatchFacts DEF Release, TxFields
<1>4. /\ Append(ingest.applied, Current) \in Seq(EventIds)
      /\ ToSet(Append(ingest.applied, Current)) = ToSet(ingest.applied) \cup {Current}
  BY <1>1, BatchFacts, AppendedIds
<1>5. InSavepoint = {Current} /\ InSavepoint' = {}
  BY <1>2, <1>3 DEF InSavepoint
<1>6. OnceUnlessSwept(Append(ingest.applied, Current), pruned)
  BY <1>1, <1>5, BatchFacts, AppendedOnce DEF TxLedger
<1>7. TxLedger'
  BY <1>1, <1>3, <1>4, <1>5, <1>6, BatchFacts DEF TxLedger
<1>8. NoDocuments \in DocTables
  BY DEF NoDocuments, DocTables
<1> QED BY <1>1, <1>3, <1>4, <1>7, <1>8, BatchFacts, BatchPreserves DEF InBatch

\* A failed event takes its receipt with it, but not one that was swept before.
LEMMA FailPreserves ==
  ASSUME LegacyInv, Fail PROVE LegacyInv'
<1>1. InBatch /\ ingest.step > 0 /\ UNCHANGED <<inbox, applied, pruned>>
  BY DEF Fail, InBatch
<1>2. /\ DOMAIN ingest' = TxFields /\ ingest'.open = ingest.open /\ ingest'.todo = Tail(ingest.todo)
      /\ ingest'.step = 0 /\ ingest'.applied = ingest.applied /\ ingest'.inbox = ingest.inbox \ {Current}
      /\ ingest'.docs = ingest.saved /\ ingest'.saved = NoDocuments /\ ingest'.landed = ingest.landed
  BY <1>1, BatchFacts DEF Fail, TxFields
<1>3. InSavepoint = {Current} /\ InSavepoint' = {}
  BY <1>1, <1>2 DEF InSavepoint
<1>4. pruned \subseteq ToSet(ingest.applied)
  BY <1>1, BatchFacts DEF TxLedger, LegacyInv, AppliedOncePerReceipt
<1>5. TxLedger'
  BY <1>1, <1>2, <1>3, <1>4, BatchFacts DEF TxLedger
<1>6. NoDocuments \in DocTables
  BY DEF NoDocuments, DocTables
<1> QED BY <1>1, <1>2, <1>5, <1>6, BatchFacts, BatchPreserves DEF InBatch

LEMMA CommitPreserves ==
  ASSUME LegacyInv, CommitBatch PROVE LegacyInv'
<1>1. TxLedger /\ InSavepoint = {}
  BY DEF CommitBatch, LegacyInv, LegacyTypeOK, InSavepoint
<1>2. AppliedOncePerReceipt'
  BY <1>1 DEF CommitBatch, AppliedOncePerReceipt, TxLedger, OnceUnlessSwept
<1>3. AckedIsDurable'
  BY <1>1 DEF CommitBatch, AckedIsDurable, TxLedger, LegacyInv
<1>4. ToSet(ingest.applied) \subseteq EventIds
  BY DEF LegacyInv, TxTyped, ToSet
<1>5. acked' \subseteq EventIds
  BY <1>1, <1>4 DEF CommitBatch, TxLedger, LegacyInv, LegacyTypeOK
<1> QED BY <1>2, <1>3, <1>5, ClosedPreserves DEF CommitBatch, LegacyInv, LegacyTypeOK, TxTyped

LEMMA AbortPreserves ==
  ASSUME LegacyInv, AbortBatch PROVE LegacyInv'
<1>1. AppliedOncePerReceipt' /\ AckedIsDurable'
  BY DEF AbortBatch, LegacyInv, AppliedOncePerReceipt, AckedIsDurable
<1> QED BY <1>1, ClosedPreserves DEF AbortBatch, LegacyInv, LegacyTypeOK

LEMMA BootstrapPreserves ==
  ASSUME LegacyInv, Bootstrap PROVE LegacyInv'
BY DEF Bootstrap, LegacyInv, LegacyTypeOK, TxTyped, AppliedOncePerReceipt, AckedIsDurable,
       TxLedger, InSavepoint, Current, EventIds

\* A sweep takes committed receipts only, from under a batch too.
LEMMA SweepPreserves ==
  ASSUME LegacyInv, NEW n \in DOMAIN applied, SweepOldReceipts(n) PROVE LegacyInv'
<1> DEFINE swept == OldReceipts(n)
<1>1. swept \subseteq inbox /\ inbox' = inbox \ swept /\ pruned' = pruned \cup swept
      /\ ingest' = [ingest EXCEPT !.inbox = @ \ swept] /\ swept \cap pruned = {}
      /\ UNCHANGED <<outbox, acked, initialized, documents, applied>>
  BY DEF SweepOldReceipts, MaySweep
<1> HIDE DEF swept
<1>2. /\ DOMAIN ingest' = TxFields /\ ingest'.open = ingest.open /\ ingest'.todo = ingest.todo
      /\ ingest'.step = ingest.step /\ ingest'.applied = ingest.applied /\ ingest'.inbox = ingest.inbox \ swept
      /\ ingest'.docs = ingest.docs /\ ingest'.saved = ingest.saved /\ ingest'.landed = ingest.landed
  BY <1>1 DEF LegacyInv, TxTyped, TxFields
<1>3. AppliedOncePerReceipt' /\ AckedIsDurable'
  BY <1>1 DEF LegacyInv, AppliedOncePerReceipt, AckedIsDurable
<1>4. TxTyped'
  BY <1>1, <1>2 DEF LegacyInv, TxTyped, EventIds
<1>5. InSavepoint' = InSavepoint /\ Current' = Current
  BY <1>2 DEF InSavepoint, Current
<1>6. ingest.open => InSavepoint \cap swept = {}
  BY <1>1 DEF LegacyInv, TxLedger
<1>7. LegacyTypeOK'
  <2>1. ingest.step > 0 => Current \notin swept
    BY <1>6 DEF LegacyInv, TxTyped, InSavepoint
  <2> QED BY <1>1, <1>2, <1>5, <2>1 DEF LegacyInv, LegacyTypeOK, EventIds
<1>8. ingest.open => TxLedger'
  <2> SUFFICES ASSUME ingest.open PROVE TxLedger'
    OBVIOUS
  <2>1. swept \subseteq ToSet(ingest.applied)
    BY <1>1 DEF LegacyInv, TxLedger, AppliedOncePerReceipt
  <2>2. OnceUnlessSwept(ingest.applied, pruned')
    BY <1>1 DEF LegacyInv, TxLedger, OnceUnlessSwept
  <2> QED BY <1>1, <1>2, <1>5, <1>6, <2>1, <2>2 DEF LegacyInv, TxLedger
<1> QED BY <1>2, <1>3, <1>4, <1>7, <1>8 DEF LegacyInv

LEMMA StepPreserves == LegacyInv /\ [LegacyNext]_legacyVars => LegacyInv'
<1> SUFFICES ASSUME LegacyInv, [LegacyNext]_legacyVars PROVE LegacyInv'
  OBVIOUS
<1>1. CASE Bootstrap
  BY <1>1, BootstrapPreserves
<1>2. CASE \E n \in 1 .. MaxBatch : \E batch \in [1 .. n -> EventIds] : Open(batch)
  BY <1>2, OpenPreserves
<1>3. CASE Refuse \/ SkipDuplicate
  BY <1>3, SkippedPreserves
<1>4. CASE Start
  BY <1>4, StartPreserves
<1>5. CASE RunStatement
  BY <1>5, StatementPreserves
<1>6. CASE Release
  BY <1>6, ReleasePreserves
<1>7. CASE Fail
  BY <1>7, FailPreserves
<1>8. CASE CommitBatch
  BY <1>8, CommitPreserves
<1>9. CASE AbortBatch
  BY <1>9, AbortPreserves
<1>10. CASE \E n \in DOMAIN applied : SweepOldReceipts(n)
  BY <1>10, SweepPreserves
<1>11. CASE UNCHANGED legacyVars
  BY <1>11 DEF legacyVars, LegacyInv, LegacyTypeOK, TxTyped, AppliedOncePerReceipt,
               AckedIsDurable, TxLedger, InSavepoint, Current, EventIds
<1> QED BY <1>1, <1>2, <1>3, <1>4, <1>5, <1>6, <1>7, <1>8, <1>9, <1>10, <1>11 DEF LegacyNext
-----------------------------------------------------------------------------
THEOREM LegacyInvariantHolds == LegacySpec => []LegacyInv
BY InitHolds, StepPreserves, PTL DEF LegacySpec

(* The documents keep their shape and a savepoint its receipt, whatever     *)
(* events arrive, fail or are cut short (Ingest, applyOne, dispatch).       *)
THEOREM LegacyTypeCorrect == LegacySpec => []LegacyTypeOK
<1>1. LegacyInv => LegacyTypeOK
  BY DEF LegacyInv
<1> QED BY <1>1, LegacyInvariantHolds, PTL

(* For any batches, redeliveries, failures and sweeps, an event is applied  *)
(* again only after its receipt was swept (InsertInboxEvent, applyOne,      *)
(* PruneEventsInbox).                                                       *)
THEOREM AppliedOnceUnlessSwept == LegacySpec => []AppliedOncePerReceipt
<1>1. LegacyInv => AppliedOncePerReceipt
  BY DEF LegacyInv
<1> QED BY <1>1, LegacyInvariantHolds, PTL

(* Whatever an answer reports accepted or duplicate is applied and          *)
(* committed (Ingest).                                                      *)
THEOREM AnswersAreDurable == LegacySpec => []AckedIsDurable
<1>1. LegacyInv => AckedIsDurable
  BY DEF LegacyInv
<1> QED BY <1>1, LegacyInvariantHolds, PTL
-----------------------------------------------------------------------------
(* Replays are folds *)

LEMMA StatementsAreASequence ==
  ASSUME NEW ev \in EventShapes
  PROVE  Statements(ev) \in Seq(StatementShapes)
<1>1. CASE ev.type = "reconcile.page"
  <2>1. ev.docs \in Seq(VideoDocs)
    BY <1>1 DEF EventShapes
  <2>2. Len(ev.docs) \in Nat /\ DOMAIN ev.docs = 1 .. Len(ev.docs)
    BY <2>1
  <2>3. Statements(ev) = [i \in 1 .. Len(ev.docs) |-> [type |-> "video.upsert", doc |-> ev.docs[i]]]
    BY <1>1, <2>2 DEF Statements
  <2>4. \A i \in 1 .. Len(ev.docs) : [type |-> "video.upsert", doc |-> ev.docs[i]] \in StatementShapes
    BY <2>1 DEF StatementShapes
  <2> QED BY <2>2, <2>3, <2>4
<1>2. CASE ev.type = "reconcile.end"
  BY <1>2 DEF Statements
<1>3. CASE ev.type \notin {"reconcile.page", "reconcile.end"}
  <2>1. Statements(ev) = <<ev>>
    BY <1>3 DEF Statements
  <2>2. ev \in StatementShapes
    BY <1>3 DEF EventShapes, StatementShapes
  <2> QED BY <2>1, <2>2
<1> QED BY <1>1, <1>2, <1>3

\* The effects of a sequence of statements, one at a time.
LEMMA RunOfStatements ==
  ASSUME NEW docs \in DocTables, NEW sts \in Seq(StatementShapes)
  PROVE  \E r \in [0..Len(sts) -> DocTables] :
           /\ r[0] = docs /\ FoldLeft(Effect, docs, sts) = r[Len(sts)]
           /\ \A k \in 0..Len(sts)-1 : r[k+1] = Effect(r[k], sts[k+1])
<1> DEFINE n == Len(sts)
           H == [p \in DocTables \X (1..n) |-> Effect(p[1], sts[p[2]])]
<1>1. n \in Nat /\ DOMAIN sts = 1..n /\ \A i \in 1..n : sts[i] \in StatementShapes
  OBVIOUS
<1> HIDE DEF n
<1>2. \A d \in DocTables, i \in 1..n : H[<<d, i>>] = Effect(d, sts[i])
  OBVIOUS
<1> HIDE DEF H
<1>3. StepsIn(H, DocTables, n)
  BY <1>1, <1>2, EffectIsTyped DEF StepsIn
<1>4. FoldsTo(FoldLeft(Effect, docs, sts), n, DocTables, docs, H)
  <2>1. SUFFICES ASSUME NEW g \in [SUBSET (1..n) -> DocTables], LeftFolds(g, n, docs, H)
        PROVE  \E h : FoldsIn(h, FoldLeft(Effect, docs, sts), n, DocTables, docs, H)
    BY DEF FoldsTo
  <2>2. \A s \in SUBSET (1..n) : s # {} => Max(s) \in 1..n /\ g[s \ {Max(s)}] \in DocTables
    BY <1>1, LargestOf
  <2>3. g = [s \in SUBSET DOMAIN sts |->
               IF s = {} THEN docs ELSE Effect(g[s \ {Max(s)}], sts[Max(s)])]
    BY <1>1, <1>2, <2>1, <2>2 DEF LeftFolds
  <2>4. PICK h : /\ h = [s \in SUBSET DOMAIN sts |->
                           IF s = {} THEN docs ELSE Effect(h[s \ {Max(s)}], sts[Max(s)])]
                 /\ FoldLeft(Effect, docs, sts) = h[DOMAIN sts]
    BY <2>3 DEF FoldLeft, MapThenFoldSet
  <2>5. \A s \in SUBSET (1..n) :
          h[s] = IF s = {} THEN docs ELSE Effect(h[s \ {Max(s)}], sts[Max(s)])
    BY <1>1, <2>4
  <2>6. h[{}] = docs /\ FoldLeft(Effect, docs, sts) = h[1..n]
    BY <1>1, <2>4, <2>5
  <2>7. ASSUME NEW s \in SUBSET (1..n), s # {}, h[s \ {Max(s)}] \in DocTables
        PROVE  h[s] = H[<<h[s \ {Max(s)}], Max(s)>>]
    BY <1>2, <2>2, <2>5, <2>7
  <2> QED BY <2>6, <2>7 DEF FoldsIn
<1>5. PICK r \in [0..n -> DocTables] : IsRun(r, n, docs, H, FoldLeft(Effect, docs, sts))
  BY <1>1, <1>3, <1>4, LeftFoldRun
<1>6. \A k \in 0..n-1 : k + 1 \in 1..n /\ r[k] \in DocTables
  BY <1>1
<1>7. \A k \in 0..n-1 : r[k+1] = Effect(r[k], sts[k+1])
  BY <1>2, <1>5, <1>6 DEF IsRun
<1> QED BY <1>5, <1>7 DEF IsRun, n

LEMMA RunEventIsTyped ==
  ASSUME NEW docs \in DocTables, NEW ev \in EventShapes
  PROVE  RunEvent(docs, ev) \in DocTables
<1>1. Statements(ev) \in Seq(StatementShapes)
  BY StatementsAreASequence
<1>2. PICK r \in [0..Len(Statements(ev)) -> DocTables] : RunEvent(docs, ev) = r[Len(Statements(ev))]
  BY <1>1, RunOfStatements DEF RunEvent
<1>3. Len(Statements(ev)) \in 0..Len(Statements(ev))
  BY <1>1
<1> QED BY <1>2, <1>3

LEMMA OwnEffectIsTyped ==
  ASSUME NEW docs \in DocTables, NEW st \in StatementShapes
  PROVE  OwnEffect(docs, st) \in DocTables
BY EffectIsTyped DEF OwnEffect

\* The same without the owners' statements.
LEMMA RunOfOwnStatements ==
  ASSUME NEW docs \in DocTables, NEW sts \in Seq(StatementShapes)
  PROVE  \E r \in [0..Len(sts) -> DocTables] :
           /\ r[0] = docs /\ FoldLeft(OwnEffect, docs, sts) = r[Len(sts)]
           /\ \A k \in 0..Len(sts)-1 : r[k+1] = OwnEffect(r[k], sts[k+1])
<1> DEFINE n == Len(sts)
           H == [p \in DocTables \X (1..n) |-> OwnEffect(p[1], sts[p[2]])]
<1>1. n \in Nat /\ DOMAIN sts = 1..n /\ \A i \in 1..n : sts[i] \in StatementShapes
  OBVIOUS
<1> HIDE DEF n
<1>2. \A d \in DocTables, i \in 1..n : H[<<d, i>>] = OwnEffect(d, sts[i])
  OBVIOUS
<1> HIDE DEF H
<1>3. StepsIn(H, DocTables, n)
  BY <1>1, <1>2, OwnEffectIsTyped DEF StepsIn
<1>4. FoldsTo(FoldLeft(OwnEffect, docs, sts), n, DocTables, docs, H)
  <2>1. SUFFICES ASSUME NEW g \in [SUBSET (1..n) -> DocTables], LeftFolds(g, n, docs, H)
        PROVE  \E h : FoldsIn(h, FoldLeft(OwnEffect, docs, sts), n, DocTables, docs, H)
    BY DEF FoldsTo
  <2>2. \A s \in SUBSET (1..n) : s # {} => Max(s) \in 1..n /\ g[s \ {Max(s)}] \in DocTables
    BY <1>1, LargestOf
  <2>3. g = [s \in SUBSET DOMAIN sts |->
               IF s = {} THEN docs ELSE OwnEffect(g[s \ {Max(s)}], sts[Max(s)])]
    BY <1>1, <1>2, <2>1, <2>2 DEF LeftFolds
  <2>4. PICK h : /\ h = [s \in SUBSET DOMAIN sts |->
                           IF s = {} THEN docs ELSE OwnEffect(h[s \ {Max(s)}], sts[Max(s)])]
                 /\ FoldLeft(OwnEffect, docs, sts) = h[DOMAIN sts]
    BY <2>3 DEF FoldLeft, MapThenFoldSet
  <2>5. \A s \in SUBSET (1..n) :
          h[s] = IF s = {} THEN docs ELSE OwnEffect(h[s \ {Max(s)}], sts[Max(s)])
    BY <1>1, <2>4
  <2>6. h[{}] = docs /\ FoldLeft(OwnEffect, docs, sts) = h[1..n]
    BY <1>1, <2>4, <2>5
  <2>7. ASSUME NEW s \in SUBSET (1..n), s # {}, h[s \ {Max(s)}] \in DocTables
        PROVE  h[s] = H[<<h[s \ {Max(s)}], Max(s)>>]
    BY <1>2, <2>2, <2>5, <2>7
  <2> QED BY <2>6, <2>7 DEF FoldsIn
<1>5. PICK r \in [0..n -> DocTables] : IsRun(r, n, docs, H, FoldLeft(OwnEffect, docs, sts))
  BY <1>1, <1>3, <1>4, LeftFoldRun
<1>6. \A k \in 0..n-1 : k + 1 \in 1..n /\ r[k] \in DocTables
  BY <1>1
<1>7. \A k \in 0..n-1 : r[k+1] = OwnEffect(r[k], sts[k+1])
  BY <1>2, <1>5, <1>6 DEF IsRun
<1> QED BY <1>5, <1>7 DEF IsRun, n

LEMMA RunOwnIsTyped ==
  ASSUME NEW docs \in DocTables, NEW ev \in EventShapes
  PROVE  RunOwn(docs, ev) \in DocTables
<1>1. Statements(ev) \in Seq(StatementShapes)
  BY StatementsAreASequence
<1>2. PICK r \in [0..Len(Statements(ev)) -> DocTables] : RunOwn(docs, ev) = r[Len(Statements(ev))]
  BY <1>1, RunOfOwnStatements DEF RunOwn
<1>3. Len(Statements(ev)) \in 0..Len(Statements(ev))
  BY <1>1
<1> QED BY <1>2, <1>3

\* The replay of a sequence of events, one at a time.
LEMMA RunOfEvents ==
  ASSUME NEW docs \in DocTables, NEW events \in Seq(EventShapes)
  PROVE  \E r \in [0..Len(events) -> DocTables] :
           /\ r[0] = docs /\ FoldLeft(RunEvent, docs, events) = r[Len(events)]
           /\ \A k \in 0..Len(events)-1 : r[k+1] = RunEvent(r[k], events[k+1])
<1> DEFINE n == Len(events)
           H == [p \in DocTables \X (1..n) |-> RunEvent(p[1], events[p[2]])]
<1>1. n \in Nat /\ DOMAIN events = 1..n /\ \A i \in 1..n : events[i] \in EventShapes
  OBVIOUS
<1> HIDE DEF n
<1>2. \A d \in DocTables, i \in 1..n : H[<<d, i>>] = RunEvent(d, events[i])
  OBVIOUS
<1> HIDE DEF H
<1>3. StepsIn(H, DocTables, n)
  BY <1>1, <1>2, RunEventIsTyped DEF StepsIn
<1>4. FoldsTo(FoldLeft(RunEvent, docs, events), n, DocTables, docs, H)
  <2>1. SUFFICES ASSUME NEW g \in [SUBSET (1..n) -> DocTables], LeftFolds(g, n, docs, H)
        PROVE  \E h : FoldsIn(h, FoldLeft(RunEvent, docs, events), n, DocTables, docs, H)
    BY DEF FoldsTo
  <2>2. \A s \in SUBSET (1..n) : s # {} => Max(s) \in 1..n /\ g[s \ {Max(s)}] \in DocTables
    BY <1>1, LargestOf
  <2>3. g = [s \in SUBSET DOMAIN events |->
               IF s = {} THEN docs ELSE RunEvent(g[s \ {Max(s)}], events[Max(s)])]
    BY <1>1, <1>2, <2>1, <2>2 DEF LeftFolds
  <2>4. PICK h : /\ h = [s \in SUBSET DOMAIN events |->
                           IF s = {} THEN docs ELSE RunEvent(h[s \ {Max(s)}], events[Max(s)])]
                 /\ FoldLeft(RunEvent, docs, events) = h[DOMAIN events]
    BY <2>3 DEF FoldLeft, MapThenFoldSet
  <2>5. \A s \in SUBSET (1..n) :
          h[s] = IF s = {} THEN docs ELSE RunEvent(h[s \ {Max(s)}], events[Max(s)])
    BY <1>1, <2>4
  <2>6. h[{}] = docs /\ FoldLeft(RunEvent, docs, events) = h[1..n]
    BY <1>1, <2>4, <2>5
  <2>7. ASSUME NEW s \in SUBSET (1..n), s # {}, h[s \ {Max(s)}] \in DocTables
        PROVE  h[s] = H[<<h[s \ {Max(s)}], Max(s)>>]
    BY <1>2, <2>2, <2>5, <2>7
  <2> QED BY <2>6, <2>7 DEF FoldsIn
<1>5. PICK r \in [0..n -> DocTables] : IsRun(r, n, docs, H, FoldLeft(RunEvent, docs, events))
  BY <1>1, <1>3, <1>4, LeftFoldRun
<1>6. \A k \in 0..n-1 : k + 1 \in 1..n /\ r[k] \in DocTables
  BY <1>1
<1>7. \A k \in 0..n-1 : r[k+1] = RunEvent(r[k], events[k+1])
  BY <1>2, <1>5, <1>6 DEF IsRun
<1> QED BY <1>5, <1>7 DEF IsRun, n

\* The replay without the owners' events.
LEMMA RunOfOwnEvents ==
  ASSUME NEW docs \in DocTables, NEW events \in Seq(EventShapes)
  PROVE  \E r \in [0..Len(events) -> DocTables] :
           /\ r[0] = docs /\ FoldLeft(RunOwn, docs, events) = r[Len(events)]
           /\ \A k \in 0..Len(events)-1 : r[k+1] = RunOwn(r[k], events[k+1])
<1> DEFINE n == Len(events)
           H == [p \in DocTables \X (1..n) |-> RunOwn(p[1], events[p[2]])]
<1>1. n \in Nat /\ DOMAIN events = 1..n /\ \A i \in 1..n : events[i] \in EventShapes
  OBVIOUS
<1> HIDE DEF n
<1>2. \A d \in DocTables, i \in 1..n : H[<<d, i>>] = RunOwn(d, events[i])
  OBVIOUS
<1> HIDE DEF H
<1>3. StepsIn(H, DocTables, n)
  BY <1>1, <1>2, RunOwnIsTyped DEF StepsIn
<1>4. FoldsTo(FoldLeft(RunOwn, docs, events), n, DocTables, docs, H)
  <2>1. SUFFICES ASSUME NEW g \in [SUBSET (1..n) -> DocTables], LeftFolds(g, n, docs, H)
        PROVE  \E h : FoldsIn(h, FoldLeft(RunOwn, docs, events), n, DocTables, docs, H)
    BY DEF FoldsTo
  <2>2. \A s \in SUBSET (1..n) : s # {} => Max(s) \in 1..n /\ g[s \ {Max(s)}] \in DocTables
    BY <1>1, LargestOf
  <2>3. g = [s \in SUBSET DOMAIN events |->
               IF s = {} THEN docs ELSE RunOwn(g[s \ {Max(s)}], events[Max(s)])]
    BY <1>1, <1>2, <2>1, <2>2 DEF LeftFolds
  <2>4. PICK h : /\ h = [s \in SUBSET DOMAIN events |->
                           IF s = {} THEN docs ELSE RunOwn(h[s \ {Max(s)}], events[Max(s)])]
                 /\ FoldLeft(RunOwn, docs, events) = h[DOMAIN events]
    BY <2>3 DEF FoldLeft, MapThenFoldSet
  <2>5. \A s \in SUBSET (1..n) :
          h[s] = IF s = {} THEN docs ELSE RunOwn(h[s \ {Max(s)}], events[Max(s)])
    BY <1>1, <2>4
  <2>6. h[{}] = docs /\ FoldLeft(RunOwn, docs, events) = h[1..n]
    BY <1>1, <2>4, <2>5
  <2>7. ASSUME NEW s \in SUBSET (1..n), s # {}, h[s \ {Max(s)}] \in DocTables
        PROVE  h[s] = H[<<h[s \ {Max(s)}], Max(s)>>]
    BY <1>2, <2>2, <2>5, <2>7
  <2> QED BY <2>6, <2>7 DEF FoldsIn
<1>5. PICK r \in [0..n -> DocTables] : IsRun(r, n, docs, H, FoldLeft(RunOwn, docs, events))
  BY <1>1, <1>3, <1>4, LeftFoldRun
<1>6. \A k \in 0..n-1 : k + 1 \in 1..n /\ r[k] \in DocTables
  BY <1>1
<1>7. \A k \in 0..n-1 : r[k+1] = RunOwn(r[k], events[k+1])
  BY <1>2, <1>5, <1>6 DEF IsRun
<1> QED BY <1>5, <1>7 DEF IsRun, n

LEMMA NothingReplayed == Replay(<<>>) = NoDocuments
<1> DEFINE none == <<>>
<1>1. NoDocuments \in DocTables /\ none \in Seq(EventShapes)
  BY DEF NoDocuments, DocTables
<1>0. Len(none) = 0
  OBVIOUS
<1> HIDE DEF none
<1>2. PICK r \in [0..Len(none) -> DocTables] :
        /\ r[0] = NoDocuments /\ FoldLeft(RunEvent, NoDocuments, none) = r[Len(none)]
        /\ \A k \in 0..Len(none)-1 : r[k+1] = RunEvent(r[k], none[k+1])
  BY <1>1, RunOfEvents
<1> QED BY <1>0, <1>2 DEF Replay, none

LEMMA NoStatementsDone ==
  ASSUME NEW docs \in DocTables PROVE FoldLeft(Effect, docs, <<>>) = docs
<1> DEFINE none == <<>>
<1>1. none \in Seq(StatementShapes)
  OBVIOUS
<1>0. Len(none) = 0
  OBVIOUS
<1> HIDE DEF none
<1>2. PICK r \in [0..Len(none) -> DocTables] :
        /\ r[0] = docs /\ FoldLeft(Effect, docs, none) = r[Len(none)]
        /\ \A k \in 0..Len(none)-1 : r[k+1] = Effect(r[k], none[k+1])
  BY <1>1, RunOfStatements
<1> QED BY <1>0, <1>2 DEF none

\* One more event is one more run.
LEMMA ReplayAppends ==
  ASSUME NEW events \in Seq(EventShapes), NEW ev \in EventShapes
  PROVE  /\ Replay(events) \in DocTables
         /\ Replay(Append(events, ev)) = RunEvent(Replay(events), ev)
<1> DEFINE n == Len(events)
           longer == Append(events, ev)
<1>1. /\ n \in Nat /\ longer \in Seq(EventShapes)
      /\ Len(longer) = n + 1 /\ Len(longer) - 1 = n /\ longer[n + 1] = ev
      /\ \A k \in 0..n-1 : longer[k+1] = events[k+1]
  OBVIOUS
<1>2. NoDocuments \in DocTables
  BY DEF NoDocuments, DocTables
<1>3. PICK r \in [0..n -> DocTables] :
        /\ r[0] = NoDocuments /\ Replay(events) = r[n]
        /\ \A k \in 0..n-1 : r[k+1] = RunEvent(r[k], events[k+1])
  BY <1>2, RunOfEvents DEF Replay
<1> HIDE DEF n, longer
<1>4. PICK q \in [0..n+1 -> DocTables] :
        /\ q[0] = NoDocuments /\ Replay(longer) = q[n+1]
        /\ \A k \in 0..n : q[k+1] = RunEvent(q[k], longer[k+1])
  <2>1. PICK q \in [0..Len(longer) -> DocTables] :
          /\ q[0] = NoDocuments /\ Replay(longer) = q[Len(longer)]
          /\ \A k \in 0..Len(longer)-1 : q[k+1] = RunEvent(q[k], longer[k+1])
    BY <1>1, <1>2, RunOfEvents DEF Replay
  <2> QED BY <1>1, <2>1
<1>5. \A k \in 0..n-1 : r[k] = q[k] => r[k+1] = q[k+1]
  <2>1. \A k \in 0..n-1 : k \in 0..n
    BY <1>1
  <2>2. \A k \in 0..n-1 : q[k+1] = RunEvent(q[k], events[k+1])
    BY <1>1, <1>4, <2>1
  <2> QED BY <1>3, <2>2
<1>6. r[n] = q[n]
  <2>1. r[0] = q[0] /\ n \in Nat
    BY <1>1, <1>3, <1>4
  <2> QED BY <1>5, <2>1, RunsAgree
<1>7. q[n+1] = RunEvent(q[n], ev) /\ r[n] \in DocTables
  BY <1>1, <1>4
<1> QED BY <1>3, <1>4, <1>6, <1>7 DEF longer

\* One more statement is one more effect.
LEMMA EffectsAppend ==
  ASSUME NEW docs \in DocTables, NEW sts \in Seq(StatementShapes), NEW st \in StatementShapes
  PROVE  FoldLeft(Effect, docs, Append(sts, st)) = Effect(FoldLeft(Effect, docs, sts), st)
<1> DEFINE n == Len(sts)
           longer == Append(sts, st)
<1>1. /\ n \in Nat /\ longer \in Seq(StatementShapes)
      /\ Len(longer) = n + 1 /\ Len(longer) - 1 = n /\ longer[n + 1] = st
      /\ \A k \in 0..n-1 : longer[k+1] = sts[k+1]
  OBVIOUS
<1>2. PICK r \in [0..n -> DocTables] :
        /\ r[0] = docs /\ FoldLeft(Effect, docs, sts) = r[n]
        /\ \A k \in 0..n-1 : r[k+1] = Effect(r[k], sts[k+1])
  BY RunOfStatements
<1> HIDE DEF n, longer
<1>3. PICK q \in [0..n+1 -> DocTables] :
        /\ q[0] = docs /\ FoldLeft(Effect, docs, longer) = q[n+1]
        /\ \A k \in 0..n : q[k+1] = Effect(q[k], longer[k+1])
  <2>1. PICK q \in [0..Len(longer) -> DocTables] :
          /\ q[0] = docs /\ FoldLeft(Effect, docs, longer) = q[Len(longer)]
          /\ \A k \in 0..Len(longer)-1 : q[k+1] = Effect(q[k], longer[k+1])
    BY <1>1, RunOfStatements
  <2> QED BY <1>1, <2>1
<1>4. \A k \in 0..n-1 : r[k] = q[k] => r[k+1] = q[k+1]
  <2>1. \A k \in 0..n-1 : k \in 0..n
    BY <1>1
  <2>2. \A k \in 0..n-1 : q[k+1] = Effect(q[k], sts[k+1])
    BY <1>1, <1>3, <2>1
  <2> QED BY <1>2, <2>2
<1>5. r[n] = q[n]
  <2>1. r[0] = q[0] /\ n \in Nat
    BY <1>1, <1>2, <1>3
  <2> QED BY <1>4, <2>1, RunsAgree
<1>6. q[n+1] = Effect(q[n], st)
  BY <1>1, <1>3
<1> QED BY <1>2, <1>3, <1>5, <1>6 DEF longer
-----------------------------------------------------------------------------
(* The documents of the batch in progress *)

\* The events it applied.
TxEvents == [i \in DOMAIN ingest.applied |-> outbox[ingest.applied[i]]]

\* The statements run since the savepoint.
Done == [i \in 1 .. ingest.step - 1 |-> Statements(outbox[Current])[i]]

\* Inside a savepoint the documents are ahead by the statements run so far.
BatchIsExplained ==
  IF ingest.step = 0 THEN ingest.docs = Replay(TxEvents)
  ELSE ingest.saved = Replay(TxEvents) /\ ingest.docs = FoldLeft(Effect, ingest.saved, Done)

ReplayInv ==
  /\ LegacyInv
  /\ LedgerExplainsDocuments
  /\ ingest.open => BatchIsExplained

LEMMA EventsOfIds ==
  ASSUME LegacyInv, NEW ids \in Seq(EventIds)
  PROVE  [i \in DOMAIN ids |-> outbox[ids[i]]] \in Seq(EventShapes)
<1>1. \A id \in EventIds : outbox[id] \in EventShapes
  <2>1. outbox \in Seq(Events)
    BY DEF LegacyInv, LegacyTypeOK
  <2>2. \A id \in EventIds : outbox[id] \in Events
    BY <2>1 DEF EventIds
  <2> QED BY <2>2, LegacyAssumption
<1>2. Len(ids) \in Nat /\ DOMAIN ids = 1 .. Len(ids) /\ \A i \in 1 .. Len(ids) : ids[i] \in EventIds
  OBVIOUS
<1> QED BY <1>1, <1>2

LEMMA ReplayInit == LegacyInit => ReplayInv
<1> SUFFICES ASSUME LegacyInit PROVE ReplayInv
  OBVIOUS
<1>1. AppliedEvents = <<>>
  BY DEF AppliedEvents, LegacyInit
<1>2. documents = NoDocuments /\ ingest.open = FALSE
  BY NothingOpen DEF LegacyInit
<1> QED BY <1>1, <1>2, InitHolds, NothingReplayed DEF ReplayInv, LedgerExplainsDocuments

LEMMA OpenReplays ==
  ASSUME ReplayInv, NEW n \in Nat, NEW batch \in [1 .. n -> EventIds], Open(batch)
  PROVE  LedgerExplainsDocuments' /\ BatchIsExplained'
<1>1. DOMAIN Closed = TxFields /\ Closed.step = 0
  BY NothingOpen
<1>2. ingest'.step = 0 /\ ingest'.docs = documents /\ ingest'.applied = applied
  BY <1>1 DEF Open, TxFields
<1>3. UNCHANGED <<outbox, documents, applied>>
  BY DEF Open
<1>4. LedgerExplainsDocuments'
  BY <1>3 DEF ReplayInv, LedgerExplainsDocuments, AppliedEvents
<1>5. TxEvents' = AppliedEvents
  BY <1>2, <1>3 DEF TxEvents, AppliedEvents
<1> QED BY <1>2, <1>4, <1>5 DEF BatchIsExplained, ReplayInv, LedgerExplainsDocuments

LEMMA StatementReplays ==
  ASSUME ReplayInv, RunStatement
  PROVE  BatchIsExplained'
<1> DEFINE sts == Statements(outbox[Current])
<1>1. InBatch /\ ingest.step \in DOMAIN sts /\ LegacyInv
  BY DEF RunStatement, ReplayInv
<1>2. /\ ingest'.step = ingest.step + 1 /\ ingest'.docs = Effect(ingest.docs, sts[ingest.step])
      /\ ingest'.saved = ingest.saved /\ ingest'.applied = ingest.applied /\ ingest'.todo = ingest.todo
  BY <1>1, BatchFacts DEF RunStatement, TxFields
<1>3. UNCHANGED outbox
  BY <1>1 DEF InBatch
<1>4. TxEvents' = TxEvents /\ Current' = Current
  BY <1>2, <1>3 DEF TxEvents, Current
<1>5. sts \in Seq(StatementShapes)
  <2>1. outbox[Current] \in EventShapes
    BY <1>1, BatchFacts, LegacyAssumption DEF LegacyInv, LegacyTypeOK, EventIds
  <2> QED BY <2>1, StatementsAreASequence
<1>6. Len(sts) \in Nat /\ DOMAIN sts = 1 .. Len(sts)
      /\ \A i \in 1 .. Len(sts) : sts[i] \in StatementShapes
  BY <1>5
<1> HIDE DEF sts
<1>7. Done = [i \in 1 .. ingest.step - 1 |-> sts[i]]
  BY DEF Done, sts
<1>8. Done' = [i \in 1 .. ingest.step |-> sts[i]]
  BY <1>2, <1>3, <1>4, <1>1, <1>6 DEF Done, sts
<1>9. ingest.step \in Nat /\ ingest.step - 1 \in Nat /\ ingest.step =< Len(sts)
  BY <1>1, <1>6
<1>10. Done \in Seq(StatementShapes) /\ sts[ingest.step] \in StatementShapes
  BY <1>6, <1>7, <1>9
<1>11. Done' = Append(Done, sts[ingest.step])
  BY <1>7, <1>8, <1>9, <1>10
<1>12. ingest.open /\ ingest.saved \in DocTables /\ ingest.step # 0
  BY <1>1, <1>9, BatchFacts, <1>6
<1>13. ingest.saved = Replay(TxEvents) /\ ingest.docs = FoldLeft(Effect, ingest.saved, Done)
  BY <1>12 DEF ReplayInv, BatchIsExplained
<1>14. ingest'.docs = FoldLeft(Effect, ingest.saved, Done')
  BY <1>2, <1>10, <1>11, <1>12, <1>13, EffectsAppend
<1>15. ingest'.step # 0
  BY <1>2, <1>9
<1> QED BY <1>2, <1>4, <1>13, <1>14, <1>15 DEF BatchIsExplained

LEMMA ReleaseReplays ==
  ASSUME ReplayInv, Release
  PROVE  BatchIsExplained'
<1> DEFINE sts == Statements(outbox[Current])
<1>1. InBatch /\ ingest.step = Len(sts) + 1 /\ LegacyInv
  BY DEF Release, ReplayInv
<1>2. ingest'.step = 0 /\ ingest'.docs = ingest.docs /\ ingest'.applied = Append(ingest.applied, Current)
  BY <1>1, BatchFacts DEF Release, TxFields
<1>3. outbox[Current] \in EventShapes /\ outbox' = outbox
  BY <1>1, BatchFacts, LegacyAssumption DEF LegacyInv, LegacyTypeOK, EventIds, InBatch
<1>4. sts \in Seq(StatementShapes)
  BY <1>3, StatementsAreASequence
<1>5. Len(sts) \in Nat /\ sts = [i \in 1 .. Len(sts) |-> sts[i]]
  BY <1>4
<1>6. Done = [i \in 1 .. Len(sts) |-> sts[i]]
  BY <1>1, <1>5 DEF Done
<1> HIDE DEF sts
<1>7. Done = sts /\ ingest.step # 0
  BY <1>1, <1>5, <1>6
<1>8. ingest.docs = RunEvent(Replay(TxEvents), outbox[Current])
  BY <1>1, <1>7, BatchFacts DEF ReplayInv, BatchIsExplained, RunEvent, sts
<1>9. TxEvents' = Append(TxEvents, outbox[Current])
  <2>1. ingest.applied \in Seq(EventIds) /\ Current \in EventIds
    BY <1>1, BatchFacts
  <2>2. /\ DOMAIN ingest.applied = 1 .. Len(ingest.applied) /\ Len(ingest.applied) \in Nat
        /\ DOMAIN Append(ingest.applied, Current) = 1 .. Len(ingest.applied) + 1
        /\ \A i \in 1 .. Len(ingest.applied) + 1 :
             Append(ingest.applied, Current)[i] = IF i = Len(ingest.applied) + 1 THEN Current ELSE ingest.applied[i]
    BY <2>1
  <2>3. TxEvents \in Seq(EventShapes) /\ Len(TxEvents) = Len(ingest.applied)
    <3>1. TxEvents \in Seq(EventShapes)
      BY <1>1, <2>1, EventsOfIds DEF TxEvents
    <3>2. DOMAIN TxEvents = 1 .. Len(ingest.applied)
      BY <2>2 DEF TxEvents
    <3> QED BY <2>2, <3>1, <3>2
  <2>4. \A i \in 1 .. Len(ingest.applied) : TxEvents[i] = outbox[ingest.applied[i]]
    BY <2>2 DEF TxEvents
  <2>5. TxEvents' = [i \in 1 .. Len(ingest.applied) + 1 |->
                       outbox[IF i = Len(ingest.applied) + 1 THEN Current ELSE ingest.applied[i]]]
    BY <1>2, <1>3, <2>2 DEF TxEvents
  <2>6. Append(TxEvents, outbox[Current]) =
          [i \in 1 .. Len(ingest.applied) + 1 |->
             IF i = Len(ingest.applied) + 1 THEN outbox[Current] ELSE TxEvents[i]]
    BY <2>3, <2>2
  <2> QED BY <2>2, <2>4, <2>5, <2>6
<1>10. TxEvents \in Seq(EventShapes)
  BY <1>1, BatchFacts, EventsOfIds DEF TxEvents
<1> QED BY <1>2, <1>3, <1>8, <1>9, <1>10, ReplayAppends DEF BatchIsExplained

\* The other steps apply nothing, and a failure returns to the savepoint.
LEMMA OthersReplay ==
  ASSUME ReplayInv, Refuse \/ SkipDuplicate \/ Start \/ Fail
  PROVE  BatchIsExplained'
<1>1. InBatch /\ LegacyInv /\ BatchIsExplained
  BY BatchFacts DEF ReplayInv, Refuse, SkipDuplicate, Start, Fail, InBatch
<1>2. ingest'.applied = ingest.applied /\ outbox' = outbox
  BY <1>1, BatchFacts DEF Refuse, SkipDuplicate, Start, Fail, InBatch, TxFields
<1>3. TxEvents' = TxEvents
  BY <1>2 DEF TxEvents
<1>4. CASE Refuse \/ SkipDuplicate
  <2>1. ingest.step = 0 /\ ingest'.step = 0 /\ ingest'.docs = ingest.docs
    BY <1>1, <1>4, BatchFacts DEF Refuse, SkipDuplicate, TxFields
  <2> QED BY <1>1, <1>3, <2>1 DEF BatchIsExplained
<1>5. CASE Start
  <2>1. ingest.step = 0 /\ ingest'.step = 1 /\ ingest'.docs = ingest.docs /\ ingest'.saved = ingest.docs
    BY <1>1, <1>5, BatchFacts DEF Start, TxFields
  <2>2. Done' = <<>>
    BY <2>1 DEF Done
  <2>3. ingest.docs \in DocTables
    BY <1>1, BatchFacts
  <2>4. FoldLeft(Effect, ingest'.saved, Done') = ingest.docs
    BY <2>1, <2>2, <2>3, NoStatementsDone
  <2> QED BY <1>1, <1>3, <2>1, <2>4 DEF BatchIsExplained
<1>6. CASE Fail
  <2>1. ingest.step # 0 /\ ingest'.step = 0 /\ ingest'.docs = ingest.saved
    BY <1>1, <1>6, BatchFacts DEF Fail, TxFields
  <2> QED BY <1>1, <1>3, <2>1 DEF BatchIsExplained
<1> QED BY <1>4, <1>5, <1>6

LEMMA SweepReplays ==
  ASSUME ReplayInv, NEW n \in DOMAIN applied, SweepOldReceipts(n)
  PROVE  LedgerExplainsDocuments' /\ (ingest'.open => BatchIsExplained')
<1>1. /\ ingest' = [ingest EXCEPT !.inbox = @ \ OldReceipts(n)]
      /\ UNCHANGED <<outbox, documents, applied>>
  BY DEF SweepOldReceipts
<1>2. /\ ingest'.open = ingest.open /\ ingest'.todo = ingest.todo /\ ingest'.step = ingest.step /\ ingest'.docs = ingest.docs
      /\ ingest'.saved = ingest.saved /\ ingest'.applied = ingest.applied
  BY <1>1 DEF ReplayInv, LegacyInv, TxTyped, TxFields
<1>3. LedgerExplainsDocuments'
  BY <1>1 DEF ReplayInv, LedgerExplainsDocuments, AppliedEvents
<1>4. TxEvents' = TxEvents /\ Done' = Done
  BY <1>1, <1>2 DEF TxEvents, Done, Current
<1> QED BY <1>2, <1>3, <1>4 DEF ReplayInv, BatchIsExplained

LEMMA ReplayStep == ReplayInv /\ [LegacyNext]_legacyVars => ReplayInv'
<1> SUFFICES ASSUME ReplayInv, [LegacyNext]_legacyVars PROVE ReplayInv'
  OBVIOUS
<1>1. LegacyInv'
  BY StepPreserves DEF ReplayInv
<1>2. CASE \E n \in 1 .. MaxBatch : \E batch \in [1 .. n -> EventIds] : Open(batch)
  BY <1>1, <1>2, OpenReplays DEF ReplayInv
<1>3. CASE Refuse \/ SkipDuplicate \/ Start \/ RunStatement \/ Release \/ Fail
  <2>1. InBatch
    BY <1>3 DEF Refuse, SkipDuplicate, Start, RunStatement, Release, Fail
  <2>2. LedgerExplainsDocuments'
    BY <2>1 DEF InBatch, ReplayInv, LedgerExplainsDocuments, AppliedEvents
  <2>3. BatchIsExplained'
    BY <1>3, OthersReplay, StatementReplays, ReleaseReplays
  <2> QED BY <1>1, <2>2, <2>3 DEF ReplayInv
<1>4. CASE CommitBatch
  <2>1. ingest.step = 0 /\ ingest.open
    BY <1>4 DEF CommitBatch, ReplayInv, LegacyInv, LegacyTypeOK, TxTyped
  <2>2. documents' = ingest.docs /\ AppliedEvents' = TxEvents
    BY <1>4 DEF CommitBatch, AppliedEvents, TxEvents
  <2>3. ingest'.open = FALSE
    BY <1>4, NothingOpen DEF CommitBatch
  <2> QED BY <1>1, <2>1, <2>2, <2>3 DEF ReplayInv, BatchIsExplained, LedgerExplainsDocuments
<1>5. CASE AbortBatch
  <2>1. UNCHANGED <<outbox, documents, applied>> /\ ingest'.open = FALSE
    BY <1>5, NothingOpen DEF AbortBatch
  <2> QED BY <1>1, <2>1 DEF ReplayInv, LedgerExplainsDocuments, AppliedEvents
<1>6. CASE Bootstrap
  BY <1>1, <1>6 DEF Bootstrap, ReplayInv, LedgerExplainsDocuments, AppliedEvents,
                    BatchIsExplained, TxEvents, Done, Current
<1>7. CASE \E n \in DOMAIN applied : SweepOldReceipts(n)
  BY <1>1, <1>7, SweepReplays DEF ReplayInv
<1>8. CASE UNCHANGED legacyVars
  BY <1>1, <1>8 DEF legacyVars, ReplayInv, LedgerExplainsDocuments, AppliedEvents,
                    BatchIsExplained, TxEvents, Done, Current
<1> QED BY <1>2, <1>3, <1>4, <1>5, <1>6, <1>7, <1>8 DEF LegacyNext

-----------------------------------------------------------------------------
THEOREM ReplayInvariantHolds == LegacySpec => []ReplayInv
BY ReplayInit, ReplayStep, PTL DEF LegacySpec

(* The documents are those of the applied events, each of them whole, for   *)
(* any batches, redeliveries, failures and aborts (the savepoint around      *)
(* dispatch, applyOne).                                                      *)
THEOREM DocumentsAreReplayed == LegacySpec => []LedgerExplainsDocuments
<1>1. ReplayInv => LedgerExplainsDocuments
  BY DEF ReplayInv
<1> QED BY <1>1, ReplayInvariantHolds, PTL
-----------------------------------------------------------------------------
(* Owners only mask *)

\* A row, and the row its video would have without the owners' events.
MasksRow(d, o) ==
  /\ d # NoRow <=> o # NoRow
  /\ d # NoRow => /\ d.channel = o.channel
                  /\ d.eligible <=> o.eligible /\ d.reason # "owner_unlisted"
                  /\ d.reason = "owner_unlisted" => o.eligible

Masking == {pair \in DocTables \X DocTables : \A v \in Videos : MasksRow(pair[1][v], pair[2][v])}

LEMMA RowFields ==
  ASSUME NEW row \in Rows
  PROVE  /\ \A o : [row EXCEPT !.owner = o].channel = row.channel
                   /\ [row EXCEPT !.owner = o].eligible = row.eligible
                   /\ [row EXCEPT !.owner = o].reason = row.reason
         /\ \A e, r : [row EXCEPT !.eligible = e, !.reason = r].channel = row.channel
                      /\ [row EXCEPT !.eligible = e, !.reason = r].eligible = e
                      /\ [row EXCEPT !.eligible = e, !.reason = r].reason = r
         /\ row.eligible \in BOOLEAN /\ row # NoRow
BY LegacyAssumption DEF Rows

\* Every statement keeps the relation between the two tables.
LEMMA EffectsMask ==
  ASSUME NEW docs \in DocTables, NEW own \in DocTables, <<docs, own>> \in Masking,
         NEW st \in StatementShapes
  PROVE  <<Effect(docs, st), OwnEffect(own, st)>> \in Masking
<1>1. Effect(docs, st) \in DocTables /\ OwnEffect(own, st) \in DocTables
  BY EffectIsTyped, OwnEffectIsTyped
<1>2. SUFFICES ASSUME NEW v \in Videos
      PROVE  MasksRow(Effect(docs, st)[v], OwnEffect(own, st)[v])
  BY <1>1 DEF Masking
<1>3. MasksRow(docs[v], own[v])
  BY DEF Masking
<1>4. (docs[v] # NoRow => docs[v] \in Rows) /\ (own[v] # NoRow => own[v] \in Rows)
  BY DEF DocTables
<1>5. \A row \in Rows :
        /\ [row EXCEPT !.eligible = FALSE, !.reason = "suppressed"] \in Rows
        /\ [row EXCEPT !.eligible = FALSE, !.reason = "channel_deleted"] \in Rows
        /\ [row EXCEPT !.eligible = FALSE, !.reason = "owner_unlisted"] \in Rows
        /\ [row EXCEPT !.eligible = TRUE, !.reason = None] \in Rows
  BY DEF Rows, Reasons
<1>6. NoRow \notin Rows /\ None # "owner_unlisted"
  BY LegacyAssumption DEF Reasons
<1>7. CASE st \in [type : {"video.upsert"}, doc : VideoDocs]
  <2>1. Effect(docs, st) = VideoUpserted(docs, st.doc) /\ OwnEffect(own, st) = VideoUpserted(own, st.doc)
        /\ st.doc \in VideoDocs
    BY <1>7 DEF Effect, OwnEffect
  <2> DEFINE new == [owner |-> st.doc.owner, channel |-> st.doc.channel,
                     eligible |-> SuppressedReason(st.doc) = None,
                     reason |-> SuppressedReason(st.doc)]
  <2>2. SuppressedReason(st.doc) \in {"privacy", "state", None}
    BY DEF SuppressedReason
  <2>3. new \in Rows
    BY <2>1, <2>2 DEF Rows, VideoDocs, Reasons
  <2>4. MasksRow(new, new)
    BY <2>2, <1>6 DEF MasksRow
  <2>5. \A t \in DocTables : VideoUpserted(t, st.doc)[v] = IF v = st.doc.video THEN new ELSE t[v]
    BY DEF VideoUpserted, DocTables
  <2> HIDE DEF new
  <2> QED BY <2>1, <2>4, <2>5, <1>3
<1>8. CASE st \in [type : {"video.suppress"}, video : Videos]
  <2>1. Effect(docs, st) = Suppressed(docs, st.video) /\ OwnEffect(own, st) = Suppressed(own, st.video)
    BY <1>8 DEF Effect, OwnEffect
  <2>2. \A t \in DocTables : Suppressed(t, st.video)[v] =
          IF v = st.video
          THEN IF t[v] = NoRow THEN Placeholder
               ELSE [t[v] EXCEPT !.eligible = FALSE, !.reason = "suppressed"]
          ELSE t[v]
    BY DEF Suppressed, DocTables
  <2>3. Placeholder \in Rows /\ MasksRow(Placeholder, Placeholder)
    BY DEF Placeholder, Rows, Reasons, MasksRow
  <2>4. CASE v # st.video
    BY <2>1, <2>2, <2>4, <1>3
  <2>5. CASE v = st.video /\ docs[v] = NoRow
    BY <2>1, <2>2, <2>3, <2>5, <1>3 DEF MasksRow
  <2>6. CASE v = st.video /\ docs[v] # NoRow
    <3>1. own[v] # NoRow /\ docs[v] \in Rows /\ own[v] \in Rows
      BY <2>6, <1>3, <1>4 DEF MasksRow
    <3>2. Effect(docs, st)[v] = [docs[v] EXCEPT !.eligible = FALSE, !.reason = "suppressed"]
          /\ OwnEffect(own, st)[v] = [own[v] EXCEPT !.eligible = FALSE, !.reason = "suppressed"]
      BY <2>1, <2>2, <2>6, <3>1
    <3>3. Effect(docs, st)[v] \in Rows /\ OwnEffect(own, st)[v] \in Rows
      BY <3>1, <3>2, <1>5
    <3> QED BY <3>1, <3>2, <3>3, <1>3, <1>6, RowFields DEF MasksRow
  <2> QED BY <2>4, <2>5, <2>6
<1>9. CASE st \in [type : {"channel.upsert"}, channel : Channels, owner : Owners \cup {None}]
  <2>1. /\ Effect(docs, st) = ChannelUpserted(docs, st.channel, st.owner)
        /\ OwnEffect(own, st) = ChannelUpserted(own, st.channel, st.owner)
        /\ st.owner \in Owners \cup {None}
    BY <1>9 DEF Effect, OwnEffect
  <2>2. \A t : ChannelUpserted(t, st.channel, st.owner)[v] =
          IF t[v] # NoRow /\ t[v].channel = st.channel THEN [t[v] EXCEPT !.owner = st.owner] ELSE t[v]
    BY DEF ChannelUpserted, Update
  <2>3. CASE docs[v] = NoRow
    BY <2>1, <2>2, <2>3, <1>3 DEF MasksRow
  <2>4. CASE docs[v] # NoRow
    <3>1. own[v] # NoRow /\ docs[v] \in Rows /\ own[v] \in Rows /\ docs[v].channel = own[v].channel
      BY <2>4, <1>3, <1>4 DEF MasksRow
    <3>2. CASE docs[v].channel # st.channel
      BY <2>1, <2>2, <3>1, <3>2, <1>3
    <3>3. CASE docs[v].channel = st.channel
      <4>1. Effect(docs, st)[v] = [docs[v] EXCEPT !.owner = st.owner]
            /\ OwnEffect(own, st)[v] = [own[v] EXCEPT !.owner = st.owner]
        BY <2>1, <2>2, <3>1, <3>3, <2>4
      <4>2. Effect(docs, st)[v] \in Rows /\ OwnEffect(own, st)[v] \in Rows
        <5>1. \A row \in Rows : [row EXCEPT !.owner = st.owner] \in Rows
          BY <2>1 DEF Rows
        <5> QED BY <4>1, <3>1, <5>1
      <4> QED BY <4>1, <4>2, <3>1, <1>3, <1>6, RowFields DEF MasksRow
    <3> QED BY <3>2, <3>3
  <2> QED BY <2>3, <2>4
<1>10. CASE st \in [type : {"channel.delete"}, channel : Channels]
  <2>1. /\ Effect(docs, st) = ChannelSuppressed(docs, st.channel)
        /\ OwnEffect(own, st) = ChannelSuppressed(own, st.channel)
    BY <1>10 DEF Effect, OwnEffect
  <2>2. \A t : ChannelSuppressed(t, st.channel)[v] =
          IF t[v] # NoRow /\ t[v].channel = st.channel
          THEN [t[v] EXCEPT !.eligible = FALSE, !.reason = "channel_deleted"] ELSE t[v]
    BY DEF ChannelSuppressed, Update
  <2>3. CASE docs[v] = NoRow
    BY <2>1, <2>2, <2>3, <1>3 DEF MasksRow
  <2>4. CASE docs[v] # NoRow
    <3>1. own[v] # NoRow /\ docs[v] \in Rows /\ own[v] \in Rows /\ docs[v].channel = own[v].channel
      BY <2>4, <1>3, <1>4 DEF MasksRow
    <3>2. CASE docs[v].channel # st.channel
      BY <2>1, <2>2, <3>1, <3>2, <1>3
    <3>3. CASE docs[v].channel = st.channel
      <4>1. Effect(docs, st)[v] = [docs[v] EXCEPT !.eligible = FALSE, !.reason = "channel_deleted"]
            /\ OwnEffect(own, st)[v] = [own[v] EXCEPT !.eligible = FALSE, !.reason = "channel_deleted"]
        BY <2>1, <2>2, <3>1, <3>3, <2>4
      <4>2. Effect(docs, st)[v] \in Rows /\ OwnEffect(own, st)[v] \in Rows
        BY <4>1, <3>1, <1>5
      <4> QED BY <4>1, <4>2, <3>1, <1>3, <1>6, RowFields DEF MasksRow
    <3> QED BY <3>2, <3>3
  <2> QED BY <2>3, <2>4
<1>11. CASE st \in [type : {"user.suppress"}, owner : Owners, unlisted : BOOLEAN]
  <2>1. /\ Effect(docs, st) = IF st.unlisted THEN OwnerSuppressed(docs, st.owner)
                              ELSE OwnerRestored(docs, st.owner)
        /\ OwnEffect(own, st) = own
    BY <1>11 DEF Effect, OwnEffect
  <2>2. OwnerSuppressed(docs, st.owner)[v] =
          IF docs[v] # NoRow /\ docs[v].owner = st.owner /\ docs[v].eligible
          THEN [docs[v] EXCEPT !.eligible = FALSE, !.reason = "owner_unlisted"] ELSE docs[v]
    BY DEF OwnerSuppressed, Update
  <2>3. OwnerRestored(docs, st.owner)[v] =
          IF docs[v] # NoRow /\ docs[v].owner = st.owner /\ docs[v].reason = "owner_unlisted"
          THEN [docs[v] EXCEPT !.eligible = TRUE, !.reason = None] ELSE docs[v]
    BY DEF OwnerRestored, Update
  <2>4. CASE docs[v] = NoRow
    BY <2>1, <2>2, <2>3, <2>4, <1>3
  <2>5. CASE docs[v] # NoRow
    <3>1. own[v] # NoRow /\ docs[v] \in Rows /\ own[v] \in Rows
      BY <2>5, <1>3, <1>4 DEF MasksRow
    <3>2. [docs[v] EXCEPT !.eligible = FALSE, !.reason = "owner_unlisted"] \in Rows
          /\ [docs[v] EXCEPT !.eligible = TRUE, !.reason = None] \in Rows
      BY <3>1, <1>5
    <3>3. docs[v].eligible =>
            MasksRow([docs[v] EXCEPT !.eligible = FALSE, !.reason = "owner_unlisted"], own[v])
      BY <3>1, <3>2, <1>3, <1>6, RowFields DEF MasksRow
    <3>4. docs[v].reason = "owner_unlisted" =>
            MasksRow([docs[v] EXCEPT !.eligible = TRUE, !.reason = None], own[v])
      BY <3>1, <3>2, <1>3, <1>6, RowFields DEF MasksRow
    <3> QED BY <2>1, <2>2, <2>3, <3>3, <3>4, <1>3
  <2> QED BY <2>4, <2>5
<1> QED BY <1>7, <1>8, <1>9, <1>10, <1>11 DEF StatementShapes

LEMMA EventsMask ==
  ASSUME NEW docs \in DocTables, NEW own \in DocTables, <<docs, own>> \in Masking,
         NEW ev \in EventShapes
  PROVE  <<RunEvent(docs, ev), RunOwn(own, ev)>> \in Masking
<1> DEFINE sts == Statements(ev)
           n == Len(sts)
<1>1. sts \in Seq(StatementShapes) /\ n \in Nat
  BY StatementsAreASequence
<1>2. \A i \in 1 .. n : sts[i] \in StatementShapes
  BY <1>1
<1>3. PICK r \in [0..n -> DocTables] :
        /\ r[0] = docs /\ RunEvent(docs, ev) = r[n]
        /\ \A k \in 0..n-1 : r[k+1] = Effect(r[k], sts[k+1])
  BY <1>1, RunOfStatements DEF RunEvent
<1>4. PICK q \in [0..n -> DocTables] :
        /\ q[0] = own /\ RunOwn(own, ev) = q[n]
        /\ \A k \in 0..n-1 : q[k+1] = OwnEffect(q[k], sts[k+1])
  BY <1>1, RunOfOwnStatements DEF RunOwn
<1> HIDE DEF sts, n
<1>5. ASSUME NEW k \in 0..n-1, <<r[k], q[k]>> \in Masking
      PROVE  <<r[k+1], q[k+1]>> \in Masking
  <2>1. k + 1 \in 1 .. n /\ r[k] \in DocTables /\ q[k] \in DocTables
    BY <1>1
  <2> QED BY <2>1, <1>2, <1>3, <1>4, <1>5, EffectsMask
<1>6. <<r[0], q[0]>> \in Masking
  BY <1>3, <1>4
<1>7. <<r[n], q[n]>> \in Masking
  BY <1>1, <1>5, <1>6, RunsRelated
<1> QED BY <1>3, <1>4, <1>7

LEMMA ReplaysMask ==
  ASSUME NEW events \in Seq(EventShapes)
  PROVE  <<Replay(events), FoldLeft(RunOwn, NoDocuments, events)>> \in Masking
<1> DEFINE n == Len(events)
<1>1. n \in Nat /\ \A i \in 1 .. n : events[i] \in EventShapes
  OBVIOUS
<1>2. NoDocuments \in DocTables /\ <<NoDocuments, NoDocuments>> \in Masking
  BY DEF NoDocuments, DocTables, Masking, MasksRow
<1>3. PICK r \in [0..n -> DocTables] :
        /\ r[0] = NoDocuments /\ Replay(events) = r[n]
        /\ \A k \in 0..n-1 : r[k+1] = RunEvent(r[k], events[k+1])
  BY <1>2, RunOfEvents DEF Replay
<1>4. PICK q \in [0..n -> DocTables] :
        /\ q[0] = NoDocuments /\ FoldLeft(RunOwn, NoDocuments, events) = q[n]
        /\ \A k \in 0..n-1 : q[k+1] = RunOwn(q[k], events[k+1])
  BY <1>2, RunOfOwnEvents
<1> HIDE DEF n
<1>5. ASSUME NEW k \in 0..n-1, <<r[k], q[k]>> \in Masking
      PROVE  <<r[k+1], q[k+1]>> \in Masking
  <2>1. k + 1 \in 1 .. n /\ r[k] \in DocTables /\ q[k] \in DocTables
    BY <1>1
  <2> QED BY <2>1, <1>1, <1>3, <1>4, <1>5, EventsMask
<1>6. <<r[0], q[0]>> \in Masking
  BY <1>2, <1>3, <1>4
<1>7. <<r[n], q[n]>> \in Masking
  BY <1>1, <1>5, <1>6, RunsRelated
<1> QED BY <1>3, <1>4, <1>7

(* For any sequence of applied events: a video is visible exactly when its  *)
(* own last verdict says so and no unlisting masks it                        *)
(* (SuppressOwnerDocuments, RestoreOwnerDocuments).                          *)
THEOREM OwnersOnlyMask == LegacySpec => []UnlistingOnlyMasks
<1>1. ReplayInv => UnlistingOnlyMasks
  <2> SUFFICES ASSUME ReplayInv PROVE UnlistingOnlyMasks
    OBVIOUS
  <2>1. AppliedEvents \in Seq(EventShapes)
    BY EventsOfIds DEF AppliedEvents, ReplayInv, LegacyInv, LegacyTypeOK
  <2>2. <<documents, OwnDocuments>> \in Masking
    BY <2>1, ReplaysMask DEF ReplayInv, LedgerExplainsDocuments, OwnDocuments
  <2>3. \A v \in Videos : MasksRow(documents[v], OwnDocuments[v])
    BY <2>2 DEF Masking
  <2> QED BY <2>3 DEF UnlistingOnlyMasks, MasksRow
<1> QED BY <1>1, ReplayInvariantHolds, PTL
=============================================================================
