---------------------------- MODULE LegacyIngest ----------------------------
(***************************************************************************)
(* The legacy event path: batches of video, channel, owner and reconcile   *)
(* events, delivered at least once and in any order, applied one savepoint *)
(* each inside one transaction, deduplicated by the inbox.  One batch runs *)
(* at a time: a batch with a legacy catalog event holds the catalog lock   *)
(* from its first statement to its end.  The inbox forgets: a sweep of the  *)
(* retention job takes its oldest rows, and what it took is applied again   *)
(* when it is delivered again.                                              *)
(***************************************************************************)
EXTENDS EventIngest, Sequences, SequencesExt

CONSTANTS
  Owners, Channels,
  NoRow,      \* a video the index has no row for
  Events,     \* what the producer may emit
  MaxOutbox   \* bound: events of the producer

\* "suppressed" stands for whatever reason a video.suppress names.
Reasons == {"privacy", "state", "suppressed", "channel_deleted", "owner_unlisted"}

VideoDocs ==
  [video : Videos, owner : Owners \cup {None}, channel : Channels \cup {None},
   privacy : {"public", "private"}, state : {"published", "processing"}]

EventShapes ==
       [type : {"video.upsert"}, doc : VideoDocs]
  \cup [type : {"video.suppress"}, video : Videos]
  \cup [type : {"channel.upsert"}, channel : Channels, owner : Owners \cup {None}]
  \cup [type : {"channel.delete"}, channel : Channels]
  \cup [type : {"user.suppress"}, owner : Owners, unlisted : BOOLEAN]
  \cup [type : {"reconcile.page"}, docs : Seq(VideoDocs)]
  \cup [type : {"reconcile.end"}]

Rows ==
  [owner : Owners \cup {None}, channel : Channels \cup {None},
   eligible : BOOLEAN, reason : Reasons \cup {None}]

DocTables == [Videos -> Rows \cup {NoRow}]

ASSUME LegacyAssumption ==
  /\ MaxOutbox \in Nat
  /\ Events \subseteq EventShapes
  /\ None \notin Owners \cup Channels \cup Reasons
  /\ NoRow \notin Rows

VARIABLES
  outbox,       \* the producer's events, sent or still to be sent, in the
                \* order it emits them; an event's id is its position
  acked,        \* ids an answer, received or not, reports accepted or duplicate
  initialized,  \* a catalog epoch exists
  documents, inbox,
  pruned,       \* ids whose inbox row was ever swept
  applied,      \* the ids in the order their savepoints were released
  ingest            \* the batch in progress

legacyVars == <<outbox, acked, initialized, documents, inbox, pruned, applied, ingest>>

EventIds == DOMAIN outbox
-----------------------------------------------------------------------------
(* What the statements of an event do to the documents.                     *)

\* index.Eligible
SuppressedReason(doc) ==
  IF doc.privacy # "public" THEN "privacy"
  ELSE IF doc.state # "published" THEN "state" ELSE None

VideoUpserted(docs, doc) ==
  [docs EXCEPT ![doc.video] =
     [owner |-> doc.owner, channel |-> doc.channel,
      eligible |-> SuppressedReason(doc) = None, reason |-> SuppressedReason(doc)]]

Placeholder == [owner |-> None, channel |-> None, eligible |-> FALSE, reason |-> "suppressed"]

Suppressed(docs, v) ==
  [docs EXCEPT ![v] = IF @ = NoRow THEN Placeholder
                      ELSE [@ EXCEPT !.eligible = FALSE, !.reason = "suppressed"]]

\* UPDATE ... SET row = F(row) WHERE P(row)
Update(docs, P(_), F(_)) ==
  [v \in Videos |-> IF docs[v] # NoRow /\ P(docs[v]) THEN F(docs[v]) ELSE docs[v]]

ChannelUpserted(docs, c, o) ==
  Update(docs, LAMBDA row : row.channel = c, LAMBDA row : [row EXCEPT !.owner = o])

ChannelSuppressed(docs, c) ==
  Update(docs, LAMBDA row : row.channel = c,
         LAMBDA row : [row EXCEPT !.eligible = FALSE, !.reason = "channel_deleted"])

\* Mutation: the update lacks its AND eligible.
OwnerSuppressedUnguarded(docs, o) ==
  Update(docs, LAMBDA row : row.owner = o,
         LAMBDA row : [row EXCEPT !.eligible = FALSE, !.reason = "owner_unlisted"])

OwnerSuppressed(docs, o) ==
  Update(docs, LAMBDA row : row.owner = o /\ row.eligible,
         LAMBDA row : [row EXCEPT !.eligible = FALSE, !.reason = "owner_unlisted"])

OwnerRestored(docs, o) ==
  Update(docs, LAMBDA row : row.owner = o /\ row.reason = "owner_unlisted",
         LAMBDA row : [row EXCEPT !.eligible = TRUE, !.reason = None])

\* The statements dispatch runs for an event, in order.
Statements(ev) ==
  CASE ev.type = "video.upsert" -> <<ev>>
    [] ev.type = "reconcile.page" ->
         [i \in DOMAIN ev.docs |-> [type |-> "video.upsert", doc |-> ev.docs[i]]]
    [] ev.type = "reconcile.end" -> <<>>
    [] OTHER -> <<ev>>

Effect(docs, st) ==
  CASE st.type = "video.upsert" -> VideoUpserted(docs, st.doc)
    [] st.type = "video.suppress" -> Suppressed(docs, st.video)
    [] st.type = "channel.upsert" -> ChannelUpserted(docs, st.channel, st.owner)
    [] st.type = "channel.delete" -> ChannelSuppressed(docs, st.channel)
    [] st.type = "user.suppress" ->
         IF st.unlisted THEN OwnerSuppressed(docs, st.owner) ELSE OwnerRestored(docs, st.owner)

NoDocuments == [v \in Videos |-> NoRow]
-----------------------------------------------------------------------------
Closed ==
  [open |-> FALSE, blocked |-> FALSE, todo |-> <<>>, step |-> 0, docs |-> NoDocuments,
   saved |-> NoDocuments, inbox |-> {}, applied |-> <<>>, landed |-> {}]

LegacyInit ==
  /\ outbox \in [1 .. MaxOutbox -> Events]
  /\ acked = {} /\ initialized = FALSE
  /\ documents = NoDocuments /\ inbox = {} /\ pruned = {} /\ applied = <<>>
  /\ ingest = Closed

\* SetCatalogEpoch initialises the scope; it takes the same lock.
Bootstrap ==
  /\ ~ingest.open /\ ~initialized
  /\ initialized' = TRUE
  /\ UNCHANGED <<outbox, acked, documents, inbox, pruned, applied, ingest>>

\* A delivery or redelivery of some events, in any order; the lock is taken
\* and legacyCatalogBlocked read before the first event.
Open(batch) ==
  /\ ~ingest.open
  /\ ingest' = [Closed EXCEPT !.open = TRUE, !.blocked = initialized, !.todo = batch,
                          !.docs = documents, !.inbox = inbox, !.applied = applied]
  /\ UNCHANGED <<outbox, acked, initialized, documents, inbox, pruned, applied>>

InBatch ==
  /\ ingest.open /\ ingest.todo # <<>>
  /\ UNCHANGED <<outbox, acked, initialized, documents, inbox, pruned, applied>>

Current == Head(ingest.todo)

\* Rejected before deduplication, old receipts included.
Refuse ==
  /\ InBatch /\ ingest.step = 0 /\ ingest.blocked
  /\ ingest' = [ingest EXCEPT !.todo = Tail(@)]

SkipDuplicate ==
  /\ InBatch /\ ingest.step = 0 /\ ~ingest.blocked
  /\ Current \in ingest.inbox
  /\ ingest' = [ingest EXCEPT !.todo = Tail(@), !.landed = @ \cup {Current}]

\* Mutation: the inbox row exists already and the event is applied again.
StartAlways ==
  /\ InBatch /\ ingest.step = 0 /\ ~ingest.blocked
  /\ ingest' = [ingest EXCEPT !.step = 1, !.saved = ingest.docs, !.inbox = @ \cup {Current}]

\* The savepoint, and in it the inbox row.
Start ==
  /\ InBatch /\ ingest.step = 0 /\ ~ingest.blocked
  /\ Current \notin ingest.inbox
  /\ ingest' = [ingest EXCEPT !.step = 1, !.saved = ingest.docs, !.inbox = @ \cup {Current}]

RunStatement ==
  /\ InBatch /\ ingest.step \in DOMAIN Statements(outbox[Current])
  /\ ingest' = [ingest EXCEPT !.step = @ + 1,
                      !.docs = Effect(@, Statements(outbox[Current])[ingest.step])]

\* sub.Commit: the savepoint is released.
Release ==
  /\ InBatch /\ ingest.step = Len(Statements(outbox[Current])) + 1
  /\ ingest' = [ingest EXCEPT !.step = 0, !.todo = Tail(@), !.saved = NoDocuments,
                      !.applied = Append(@, Current), !.landed = @ \cup {Current}]

\* Mutation: an event that fails keeps what it wrote before failing.
FailKeepsWrites ==
  /\ InBatch /\ ingest.step > 0
  /\ ingest' = [ingest EXCEPT !.step = 0, !.todo = Tail(@), !.saved = NoDocuments,
                      !.inbox = @ \ {Current}]

\* Malformed payload or a failing statement: back to the savepoint, the inbox
\* row gone with it, and on to the next event of the batch.
Fail ==
  /\ InBatch /\ ingest.step > 0
  /\ ingest' = [ingest EXCEPT !.step = 0, !.todo = Tail(@), !.saved = NoDocuments,
                      !.docs = ingest.saved, !.inbox = @ \ {Current}]

\* The commit; its answer may be lost, and any event delivered again.
CommitBatch ==
  /\ ingest.open /\ ingest.todo = <<>>
  /\ documents' = ingest.docs /\ inbox' = ingest.inbox /\ applied' = ingest.applied
  /\ acked' = acked \cup ingest.landed
  /\ ingest' = Closed
  /\ UNCHANGED <<outbox, initialized, pruned>>

\* Mutation: the results are returned though the transaction is rolled back.
AbortAnswered ==
  /\ ingest.open
  /\ ingest' = Closed
  /\ acked' = acked \cup ingest.landed
  /\ UNCHANGED <<outbox, initialized, documents, inbox, pruned, applied>>

\* A failed commit, a deadline or a crash: nothing is kept or reported.
AbortBatch ==
  /\ ingest.open
  /\ ingest' = Closed
  /\ UNCHANGED <<outbox, acked, initialized, documents, inbox, pruned, applied>>

\* The retention job, without the lock: the rows of the oldest n receipts go,
\* also under a batch in progress.
OldReceipts(n) == {id \in inbox : \A i \in n + 1 .. Len(applied) : applied[i] # id}

SweepOldReceipts(n) ==
  /\ MaySweep(OldReceipts(n), inbox, pruned)
  /\ inbox' = inbox \ OldReceipts(n)
  /\ pruned' = pruned \cup OldReceipts(n)
  /\ ingest' = [ingest EXCEPT !.inbox = @ \ OldReceipts(n)]
  /\ UNCHANGED <<outbox, acked, initialized, documents, applied>>

LegacyNext ==
  \/ Bootstrap
  \/ \E n \in 1 .. MaxBatch : \E batch \in [1 .. n -> EventIds] : Open(batch)
  \/ Refuse \/ SkipDuplicate \/ Start \/ RunStatement \/ Release \/ Fail
  \/ CommitBatch \/ AbortBatch
  \/ \E n \in DOMAIN applied : SweepOldReceipts(n)

LegacySpec == LegacyInit /\ [][LegacyNext]_legacyVars
-----------------------------------------------------------------------------
(* The state the applied events explain.                                    *)

RunEvent(docs, ev) == FoldLeft(Effect, docs, Statements(ev))

Replay(events) == FoldLeft(RunEvent, NoDocuments, events)

AppliedEvents == [i \in DOMAIN applied |-> outbox[applied[i]]]

\* The same without the owner events: the videos' own verdicts.
OwnEffect(docs, st) == IF st.type = "user.suppress" THEN docs ELSE Effect(docs, st)

RunOwn(docs, ev) == FoldLeft(OwnEffect, docs, Statements(ev))

OwnDocuments == FoldLeft(RunOwn, NoDocuments, AppliedEvents)

LegacyTypeOK ==
  /\ outbox \in Seq(Events)
  /\ acked \subseteq EventIds /\ inbox \subseteq EventIds /\ pruned \subseteq EventIds
  /\ initialized \in BOOLEAN
  /\ documents \in DocTables
  /\ applied \in Seq(EventIds)
  /\ ingest.docs \in DocTables /\ ingest.saved \in DocTables
  /\ ingest.step > 0 => ingest.todo # <<>> /\ Current \in ingest.inbox

(* Whatever is redelivered, fails half way or is cut short, the documents   *)
(* are those of the applied events, each of them whole (the savepoint around *)
(* dispatch, applyOne).                                                      *)
LedgerExplainsDocuments == documents = Replay(AppliedEvents)

(* Every applied event leaves a receipt, and is applied a second time only   *)
(* when a sweep took that receipt before the redelivery (InsertInboxEvent    *)
(* inside the savepoint, PruneEventsInbox).                                  *)
AppliedOncePerReceipt ==
  /\ inbox \cup pruned = ToSet(applied)
  /\ \A i, j \in DOMAIN applied : i # j /\ applied[i] = applied[j] => applied[i] \in pruned

(* Owner events only mask visibility: a video is visible exactly when its   *)
(* own last verdict (upsert, suppress, channel deletion) says so and no     *)
(* unlisting masks it, so a relist revives nothing that was hidden for      *)
(* another reason (SuppressOwnerDocuments, RestoreOwnerDocuments).          *)
UnlistingOnlyMasks ==
  \A v \in Videos : documents[v] # NoRow =>
    /\ OwnDocuments[v] # NoRow
    /\ documents[v].eligible <=>
         OwnDocuments[v].eligible /\ documents[v].reason # "owner_unlisted"
    /\ documents[v].reason = "owner_unlisted" => OwnDocuments[v].eligible

(* What an answer reported accepted or duplicate has been applied and       *)
(* committed, so the producer may forget it (Ingest returns no result when   *)
(* its commit fails).                                                       *)
AckedIsDurable == acked \subseteq ToSet(applied)

(* documents.sql, SuppressDocument: "a suppress that races ahead of the     *)
(* upsert still hides the video once it arrives".                           *)
OutrunSuppressHides ==
  \A i, j \in DOMAIN applied :
    LET suppress == applied[i]
        upsert   == applied[j]
    IN  ( /\ i < j /\ upsert < suppress
          /\ outbox[suppress].type = "video.suppress"
          /\ outbox[upsert].type = "video.upsert"
          /\ outbox[upsert].doc.video = outbox[suppress].video
          /\ \A later \in suppress .. Len(outbox) :
               outbox[later].type \notin {"video.upsert", "reconcile.page"} )
        => ~documents[outbox[suppress].video].eligible
=============================================================================
