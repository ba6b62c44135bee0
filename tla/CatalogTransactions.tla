------------------------ MODULE CatalogTransactions -------------------------
(***************************************************************************)
(* The transactions around the receiver.  Catalog batches, legacy batches, *)
(* epoch changes and the cleanup job each run in one READ COMMITTED        *)
(* transaction under one advisory lock, which is taken before anything is  *)
(* read and released by the commit or the rollback.  The lock holder works *)
(* on rows only it can see; everybody else sees the committed ones.  Each  *)
(* catalog event runs in a savepoint, statement by statement: it stages its *)
(* evidence and, when that completes the observation, writes the documents, *)
(* the scope and the snapshot one after the other.  An event may fail, and *)
(* a batch be cut short by an error, a deadline or a crash, at any step,   *)
(* and the answer to a commit may be lost.                                 *)
(***************************************************************************)
EXTENDS CatalogReceiver, Sequences

CONSTANTS
  Sessions,   \* database connections that run catalog transactions
  NoSession,  \* nobody holds the lock
  MaxBatch    \* events of one batch

Kinds == {"catalog", "legacy", "epoch", "prune"}

NoEvent == [next |-> "none"]

IdleSession == [kind |-> "prune", phase |-> "idle", step |-> 1, left |-> 0, blocked |-> FALSE]

ASSUME SessionAssumption == NoSession \notin Sessions /\ MaxBatch \in Nat \ {0}

VARIABLES
  wHistory, wEpoch, wHighest, wCompleted, wManifest, wPending, wDocuments,
             \* the rows as the lock holder sees them; the committed rows when
             \* nobody holds the lock
  sub,       \* the savepoint of the catalog event under way: the statement it
             \* comes to next, the snapshot it staged and the rows it has written
  holder,    \* the session holding pg_advisory_xact_lock
  session    \* the transaction each session runs

working == <<wHistory, wEpoch, wHighest, wCompleted, wManifest, wPending, wDocuments>>

transactionVars == <<receiverVars, working, sub, holder, session>>

\* The receiver's operations on the rows of the lock holder.
Work ==
  INSTANCE CatalogReceiver
    WITH history <- wHistory, epoch <- wEpoch, highest <- wHighest, completed <- wCompleted,
         manifest <- wManifest, pending <- wPending, documents <- wDocuments
-----------------------------------------------------------------------------
TransactionInit ==
  /\ Init
  /\ Work!Init
  /\ sub = NoEvent
  /\ holder = NoSession
  /\ session = [t \in Sessions |-> IdleSession]

Begin(t, kind, left) ==
  /\ session[t].phase = "idle"
  /\ kind \in {"epoch", "prune"} => left = 1
  /\ session' = [session EXCEPT ![t] =
       [kind |-> kind, phase |-> "starting", step |-> 1, left |-> left, blocked |-> FALSE]]
  /\ UNCHANGED <<receiverVars, working, sub, holder>>

\* Mutation: authority is checked before the lock is waited for.
PreambleCheckFirst(kind) == IF kind = "legacy" THEN <<"check", "lock">> ELSE <<"lock">>

\* What a transaction does before its first event.  A legacy batch takes the
\* lock first, then looks whether the scope is initialised.
Preamble(kind) == IF kind = "legacy" THEN <<"lock", "check">> ELSE <<"lock">>

Advanced(t) ==
  [session[t] EXCEPT !.step = @ + 1,
     !.phase = IF session[t].step = Len(Preamble(session[t].kind)) THEN "working" ELSE @]

\* LockCatalog: a session waits here until the holder's transaction has ended,
\* and then reads what that transaction committed.
Lock(t) ==
  /\ session[t].phase = "starting"
  /\ Preamble(session[t].kind)[session[t].step] = "lock"
  /\ holder = NoSession
  /\ holder' = t
  /\ session' = [session EXCEPT ![t] = Advanced(t)]
  /\ UNCHANGED <<receiverVars, working, sub>>

\* legacyCatalogBlocked
CheckLegacy(t) ==
  /\ session[t].phase = "starting"
  /\ Preamble(session[t].kind)[session[t].step] = "check"
  /\ session' = [session EXCEPT ![t] = [Advanced(t) EXCEPT !.blocked = epoch # NoEpoch]]
  /\ UNCHANGED <<receiverVars, working, sub, holder>>

InEvent(t, kind) ==
  /\ session[t].phase = "working"
  /\ session[t].kind = kind
  /\ session[t].left > 0
  /\ session' = [session EXCEPT ![t].left = @ - 1]
  /\ UNCHANGED <<receiverVars, holder>>

-----------------------------------------------------------------------------
(* One catalog event in its savepoint: applyCatalogOne *)

\* The rows of the savepoint once its evidence is staged.  Evidence that is all
\* there goes on to completion.
Savepoint(s) ==
  [next |-> IF Work!AllEvidence(s) THEN "project" ELSE "release", snapshot |-> s,
   documents |-> wDocuments, completed |-> wCompleted, manifest |-> wManifest, pending |-> s]

StageEvidence(t) ==
  /\ session[t].phase = "working" /\ session[t].kind = "catalog" /\ session[t].left > 0
  /\ sub = NoEvent
  /\ \/ \E e \in Epochs, g \in Generations, i \in 0 .. MaxPages, content \in Contents :
          /\ Work!AcceptsPage(e, g, i, content)
          /\ sub' = Savepoint(Work!WithPage(Work!AdmittedSnapshot(g), i, content))
     \/ \E e \in Epochs, g \in Generations, m \in Manifests :
          /\ Work!AcceptsEnd(e, g, m)
          /\ sub' = Savepoint(Work!WithManifest(Work!AdmittedSnapshot(g), m))
  /\ UNCHANGED <<receiverVars, working, holder, session>>

Statement(t, now) ==
  /\ holder = t /\ sub.next = now
  /\ UNCHANGED <<receiverVars, working, holder, session>>

\* LoadVerifiedCatalogSnapshot and the ownership check, then the observed documents.
ProjectDocuments(t) ==
  /\ Statement(t, "project")
  /\ Work!Verified(sub.snapshot) /\ ~Work!ForeignOwned(Work!MembersOf(sub.snapshot))
  /\ sub' = [sub EXCEPT !.documents = Work!WithIncoming(@, sub.snapshot), !.next = "sweep"]

SweepOrphans(t) ==
  /\ Statement(t, "sweep")
  /\ sub' = [sub EXCEPT !.documents = Work!WithoutOrphans(@, sub.snapshot), !.next = "publish"]

\* The update of the scope is fenced by the generation it replaces.
PublishScope(t) ==
  /\ Statement(t, "publish")
  /\ sub.completed < sub.snapshot.generation
  /\ sub' = [sub EXCEPT !.completed = sub.snapshot.generation,
                        !.manifest = sub.snapshot.manifest, !.next = "clear"]

ClearSnapshot(t) ==
  /\ Statement(t, "clear")
  /\ sub' = [sub EXCEPT !.pending = NoPending, !.next = "release"]

\* sub.Commit: what the savepoint wrote becomes the holder's.
Keep ==
  /\ wHighest' = sub.snapshot.generation /\ wCompleted' = sub.completed
  /\ wManifest' = sub.manifest /\ wPending' = sub.pending /\ wDocuments' = sub.documents
  /\ UNCHANGED <<wHistory, wEpoch>>

ReleaseSavepoint(t) ==
  /\ InEvent(t, "catalog") /\ sub.next = "release"
  /\ Keep
  /\ sub' = NoEvent

\* Mutation: the savepoint of an event that fails is not rolled back.
RefusedEventKeeps(t, kind) ==
  /\ kind \in {"catalog", "legacy"}
  /\ InEvent(t, kind)
  /\ sub' = NoEvent
  /\ IF sub = NoEvent THEN UNCHANGED working ELSE Keep

\* An event that is refused, or fails at a statement: its savepoint is rolled
\* back, the batch goes on.
RefusedEvent(t, kind) ==
  /\ kind \in {"catalog", "legacy"}
  /\ InEvent(t, kind)
  /\ sub' = NoEvent
  /\ UNCHANGED working
-----------------------------------------------------------------------------
\* One legacy catalog event of a batch the guard let through.
LegacyEvent(t, v, row) ==
  /\ InEvent(t, "legacy")
  /\ ~session[t].blocked
  /\ wDocuments' = [wDocuments EXCEPT ![v] = row]
  /\ UNCHANGED <<wHistory, wEpoch, wHighest, wCompleted, wManifest, wPending, sub>>

ChangeEpoch(t, e, expected) ==
  /\ InEvent(t, "epoch")
  /\ Work!SetCatalogEpoch(e, expected)
  /\ UNCHANGED sub

Prune(t) ==
  /\ InEvent(t, "prune")
  /\ Work!PruneCatalogSnapshots
  /\ UNCHANGED sub

Released(t) ==
  /\ holder' = NoSession
  /\ session' = [session EXCEPT ![t] = IdleSession]

\* The batch commits whole, whether or not its answer reaches the caller.
Commit(t) ==
  /\ session[t].phase = "working"
  /\ session[t].kind \in {"catalog", "legacy"} => session[t].left = 0
  /\ Released(t)
  /\ history' = wHistory /\ epoch' = wEpoch /\ highest' = wHighest
  /\ completed' = wCompleted /\ manifest' = wManifest /\ pending' = wPending
  /\ documents' = wDocuments
  /\ UNCHANGED <<working, sub>>

\* Mutation: an error leaves the transaction, and its lock, behind.
RollbackKeepsLock(t) ==
  /\ holder = t
  /\ session' = [session EXCEPT ![t] = IdleSession]
  /\ wHistory' = history /\ wEpoch' = epoch /\ wHighest' = highest
  /\ wCompleted' = completed /\ wManifest' = manifest /\ wPending' = pending
  /\ wDocuments' = documents /\ sub' = NoEvent
  /\ UNCHANGED <<receiverVars, holder>>

\* An error, a deadline, a lost connection or a crash of the service.
Rollback(t) ==
  /\ holder = t
  /\ Released(t)
  /\ wHistory' = history /\ wEpoch' = epoch /\ wHighest' = highest
  /\ wCompleted' = completed /\ wManifest' = manifest /\ wPending' = pending
  /\ wDocuments' = documents /\ sub' = NoEvent
  /\ UNCHANGED receiverVars

\* A session gives up before it gets the lock.
GiveUp(t) ==
  /\ session[t].phase = "starting"
  /\ holder # t
  /\ session' = [session EXCEPT ![t] = IdleSession]
  /\ UNCHANGED <<receiverVars, working, sub, holder>>

\* The committed pending row ages, and with it the holder's copy of that row.
\* Only lock holders look at its age, so time that passes within an event is
\* counted before it or after it; an event that looks twice and finds the row
\* aged in between is refused.
Age ==
  /\ Expire /\ sub = NoEvent
  /\ wPending' = IF wPending # NoPending /\ wPending.epoch = pending.epoch
                    /\ wPending.generation = pending.generation
                 THEN [wPending EXCEPT !.fresh = FALSE] ELSE wPending
  /\ UNCHANGED <<wHistory, wEpoch, wHighest, wCompleted, wManifest, wDocuments, sub,
                 holder, session>>

SessionStep(t) ==
  \/ \E kind \in Kinds, left \in 1 .. MaxBatch : Begin(t, kind, left)
  \/ Lock(t)
  \/ CheckLegacy(t)
  \/ StageEvidence(t) \/ ProjectDocuments(t) \/ SweepOrphans(t) \/ PublishScope(t)
  \/ ClearSnapshot(t) \/ ReleaseSavepoint(t)
  \/ \E v \in Videos, row \in LegacyRows : LegacyEvent(t, v, row)
  \/ \E kind \in Kinds : RefusedEvent(t, kind)
  \/ \E e \in Epochs, expected \in Epochs \cup {NoEpoch} : ChangeEpoch(t, e, expected)
  \/ Prune(t)
  \/ Commit(t)
  \/ Rollback(t)
  \/ GiveUp(t)

TransactionNext == Age \/ \E t \in Sessions : SessionStep(t)

TransactionSpec == TransactionInit /\ [][TransactionNext]_transactionVars
-----------------------------------------------------------------------------
(* Committed state moves by atomic publication only: a batch of several     *)
(* events, an epoch change or a legacy batch is one step of the abstract    *)
(* authority, a legacy batch that began before initialisation cannot commit *)
(* after it (LockCatalog, legacyCatalogBlocked), and the committed documents *)
(* are those of the committed completed manifest, whatever batch was cut    *)
(* short and wherever (IngestCatalog).                                      *)
CommitsImplementAuthority == ImplementsAuthority /\ [][ProjectionMatchesManifest']_receiverVars

(* Every transaction that asks for the lock ends: the lock is never left    *)
(* behind by a batch that fails (the deferred Rollback of every caller).    *)
(* Postgres grants the lock in the order it was asked for, and the request  *)
(* deadline ends every transaction.                                         *)
TransactionsEnd ==
  \A t \in Sessions : session[t].phase = "starting" ~> session[t].phase = "idle"
=============================================================================
