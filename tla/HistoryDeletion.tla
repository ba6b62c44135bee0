-------------------------- MODULE HistoryDeletion --------------------------
(***************************************************************************)
(* What the service remembers of an account, and how it forgets: viewer    *)
(* behaviour is recorded by concurrent ingest transactions in two ledgers  *)
(* and the account's personal rows, and remembered in the session lists of *)
(* Redis after the commit; the history endpoints and the event             *)
(* user.history_deleted take it away again.  Transactions are READ         *)
(* COMMITTED: a statement sees the rows committed when it starts and those *)
(* of its own transaction, and waits for a row or a unique key that        *)
(* another open transaction has written.                                   *)
(***************************************************************************)
EXTENDS EventIngest, Sequences, SequencesExt

CONSTANTS
  Users, Sessions, Queries,
  Stream,      \* the events of the producer; an event's id is its position
  Requests,    \* what is asked of the history endpoints
  Procs,       \* requests the service handles at a time
  SessionMax,  \* sessionMax
  RedisFails   \* whether a Redis call may fail or a process die before it

Items == Queries \cup Videos

Behaviors ==
  [type : {"search.submitted", "video.play_started", "video.completed", "other"},
   user : Users \cup {None}, session : Sessions \cup {None},
   query : Queries \cup {None}, video : Videos \cup {None},
   allow_history : BOOLEAN, allow_personalization : BOOLEAN \cup {None}]

HistoryDeleted ==
  [type : {"user.history_deleted"}, user : Users, scope : {"watch", "search", "all"}]

Endpoints ==
       [path : {"search-history", "user"}, user : Users]
  \cup [path : {"entry"}, user : Users, query : Queries]

ASSUME HistoryAssumption ==
  /\ Stream \in Seq(Behaviors \cup HistoryDeleted)
  /\ Requests \subseteq Endpoints
  /\ SessionMax \in Nat \ {0}
  /\ RedisFails \in BOOLEAN
  /\ None \notin Users \cup Sessions \cup Items
  /\ Queries \cap Videos = {}

Ids == DOMAIN Stream

Keys == Users \X Items

VARIABLES
  receipts,      \* ids with a row in search.events_inbox
  swept,         \* ids whose receipt was ever swept
  queryLog,      \* ids with a row in search.query_log
  behavior,      \* ids with a row in search.behavior_events
  personal,      \* by account and item: use_count of user_search_history,
                 \* contributions to the weight of user_watch_projection
  recent,        \* the session lists sess:q and sess:v, newest first
  tx             \* what each process is doing

historyVars == <<receipts, swept, queryLog, behavior, personal, recent, tx>>
-----------------------------------------------------------------------------
(* What an event writes.                                                    *)

IsBehavior(id) == Stream[id].type # "user.history_deleted"

\* projectionConsent: an older producer sends no flag of its own
ProjectionConsent(ev) ==
  IF ev.allow_personalization # None THEN ev.allow_personalization = TRUE ELSE ev.allow_history

CollectsSearchHistory(ev) ==
  ev.type = "search.submitted" /\ ev.allow_history /\ ev.user # None /\ ev.query # None

FeedsWatchProjection(ev) ==
  /\ ev.type \in {"video.play_started", "video.completed"}
  /\ ProjectionConsent(ev) /\ ev.user # None /\ ev.video # None

\* The personal rows it upserts, at most one.
KeysOf(id) ==
  LET ev == Stream[id]
  IN  {key \in Keys : /\ key[1] = ev.user
                      /\ \/ CollectsSearchHistory(ev) /\ key[2] = ev.query
                         \/ FeedsWatchProjection(ev) /\ key[2] = ev.video}

EntersQueryLog(id) == Stream[id].type = "search.submitted" /\ Stream[id].query # None

\* What its effects push to the session's lists.
PushedItem(id) ==
  LET ev == Stream[id]
  IN  IF ev.session = None THEN None
      ELSE IF ev.type = "search.submitted" THEN ev.query
      ELSE IF ev.type = "video.play_started" THEN ev.video ELSE None
-----------------------------------------------------------------------------
(* Transactions as the statements they have left, grouped by savepoint.     *)

\* Mutation: the rows of no query escape.
AnyNamedQuery == Queries

\* What clearing everything names: with NULL, the rows of no query too.
AnyQuery == Queries \cup {None}

\* The statements; a deletion names the queries whose rows it matches.
DeleteHistory(user, queries) == [do |-> "delete_history", user |-> user, queries |-> queries]
DeleteQueryLog(user, queries) == [do |-> "delete_query_log", user |-> user, queries |-> queries]
DeleteBehavior(user, queries) == [do |-> "delete_behavior", user |-> user, queries |-> queries]
PurgeProjection(user) == [do |-> "purge_projection", user |-> user]
ListSessions(user) == [do |-> "list_sessions", user |-> user]

\* ClearAll: deleteSearchFootprint without the projection
ClearAll(user) ==
  <<ListSessions(user), DeleteHistory(user, AnyQuery),
    DeleteQueryLog(user, AnyQuery), DeleteBehavior(user, AnyQuery)>>

\* PurgeUser: deleteSearchFootprint with it
PurgeUser(user) ==
  <<ListSessions(user), DeleteHistory(user, AnyQuery), PurgeProjection(user),
    DeleteQueryLog(user, AnyQuery), DeleteBehavior(user, AnyQuery)>>

\* Mutation: the ledgers go first.
DeleteEntryLast(user, query) ==
  <<DeleteQueryLog(user, {query}), DeleteBehavior(user, {query}), DeleteHistory(user, {query})>>

DeleteEntry(user, query) ==
  <<DeleteHistory(user, {query}), DeleteQueryLog(user, {query}), DeleteBehavior(user, {query})>>

RequestStatements(request) ==
  CASE request.path = "search-history" -> ClearAll(request.user)
    [] request.path = "user" -> PurgeUser(request.user)
    [] request.path = "entry" -> DeleteEntry(request.user, request.query)

\* The receipt and the rows of an event, and the deletes of applyHistoryDeleted.
EventStatements(id) ==
  LET ev == Stream[id]
      record == [do |-> "record", id |-> id]
      history == DeleteHistory(ev.user, AnyQuery)
      log == DeleteQueryLog(ev.user, AnyQuery)
      ledger == DeleteBehavior(ev.user, AnyQuery)
  IN  CASE IsBehavior(id) -> <<record>>
        [] ~IsBehavior(id) /\ ev.scope = "watch" -> <<record, PurgeProjection(ev.user)>>
        [] ~IsBehavior(id) /\ ev.scope = "search" -> <<record, history, log, ledger>>
        [] ~IsBehavior(id) /\ ev.scope = "all" ->
             <<record, PurgeProjection(ev.user), history, log, ledger>>

Untouched == [key \in Keys |-> 0]

(* An open transaction: its statements, the ids it applied, its own rows and *)
(* upserts, the committed rows it deletes, the sessions it read, the ledger  *)
(* rows its request named when it began, and the Redis calls it defers until *)
(* it has committed.                                                         *)
Idle ==
  [phase |-> "idle", todo |-> <<>>, landed |-> <<>>,
   log |-> {}, behavior |-> {}, upserts |-> Untouched,
   goneLog |-> {}, goneBehavior |-> {}, gone |-> {},
   sessions |-> {}, found |-> {}, calls |-> <<>>]

Others(p) == {tx[q] : q \in Procs \ {p}}

Upserted(t) == {key \in Keys : t.upserts[key] > 0}

Stored == {key \in Keys : personal[key] > 0}

\* The rows that a user's deletion over some queries matches.
Matches(id, user, queries) ==
  IsBehavior(id) /\ Stream[id].user = user /\ Stream[id].query \in queries

Matching(ids, user, queries) == {id \in ids : Matches(id, user, queries)}
-----------------------------------------------------------------------------
NoList == [session \in Sessions |-> <<>>]

HistoryInit ==
  /\ receipts = {} /\ swept = {}
  /\ queryLog = {} /\ behavior = {} /\ personal = Untouched
  /\ recent = [q |-> NoList, v |-> NoList]
  /\ tx = [p \in Procs |-> Idle]

Tables == <<receipts, swept, queryLog, behavior, personal>>

\* Service.Ingest: a delivery or redelivery of some events, in any order.
BeginIngest(p, batch) ==
  /\ tx[p].phase = "idle"
  /\ tx' = [tx EXCEPT ![p] = [Idle EXCEPT
       !.phase = "open", !.todo = [i \in DOMAIN batch |-> EventStatements(batch[i])]]]
  /\ UNCHANGED <<Tables, recent>>

\* ClearAll, DeleteEntry, PurgeUser
BeginRequest(p, request) ==
  /\ tx[p].phase = "idle"
  /\ tx' = [tx EXCEPT ![p] = [Idle EXCEPT
       !.phase = "open", !.todo = <<RequestStatements(request)>>,
       !.found = {id \in queryLog \cup behavior :
         /\ Stream[id].user = request.user
         /\ request.path = "entry" => Stream[id].query = request.query}]]
  /\ UNCHANGED <<Tables, recent>>

Job(p) == Head(tx[p].todo)

Statement(p) == Head(Job(p))

\* The next statement of a transaction is of some kind.
Runs(p, do) ==
  /\ tx[p].phase = "open" /\ tx[p].todo # <<>>
  /\ Statement(p).do = do
  /\ UNCHANGED <<Tables, recent>>

Becomes(p, t) == tx' = [tx EXCEPT ![p] = t]

Left(t, todo) == [t EXCEPT !.todo = todo]

\* The statements left after the next one.
Rest(p) == LET left == Tail(Job(p))
           IN  (IF left = <<>> THEN <<>> ELSE <<left>>) \o Tail(tx[p].todo)

Receipts(t) == receipts \cup ToSet(t.landed)

\* Another open transaction holds the event's unique key.
Contended(p, id) == \E t \in Others(p) : id \in ToSet(t.landed)

\* InsertInboxEvent returns no row: the event is skipped with its statements.
Duplicate(p) ==
  /\ Runs(p, "record")
  /\ ~Contended(p, Statement(p).id)
  /\ Statement(p).id \in Receipts(tx[p])
  /\ Becomes(p, Left(tx[p], Tail(tx[p].todo)))

\* The event's savepoint is rolled back: nobody saw its statements.
FailEvent(p) ==
  /\ Runs(p, "record")
  /\ Becomes(p, Left(tx[p], Tail(tx[p].todo)))

\* A row another transaction has upserted or deleted is locked.
Locked(p, keys) == \E t \in Others(p) : (Upserted(t) \cup t.gone) \cap keys # {}

\* Its personal row is, or another transaction is deleting its ledger rows.
Blocked(p, id) ==
  Locked(p, KeysOf(id)) \/ \E t \in Others(p) : id \in t.goneLog \cup t.goneBehavior

\* What InsertBehaviorEvent, AppendQueryLog and the upserts add.
Recorded(t, id) ==
  [t EXCEPT
     !.landed = Append(@, id),
     !.calls = IF IsBehavior(id) /\ PushedItem(id) # None
               THEN Append(@, [do |-> "push", id |-> id]) ELSE @,
     !.log = IF EntersQueryLog(id) THEN @ \cup {id} ELSE @,
     !.behavior = IF IsBehavior(id) THEN @ \cup {id} ELSE @,
     !.upserts = [key \in Keys |-> IF IsBehavior(id) /\ key \in KeysOf(id)
                                   THEN @[key] + 1 ELSE @[key]]]

\* Mutation: no receipt is looked for.
RecordAlways(p) ==
  /\ Runs(p, "record")
  /\ ~Contended(p, Statement(p).id)
  /\ IsBehavior(Statement(p).id) => ~Blocked(p, Statement(p).id)
  /\ Becomes(p, Left(Recorded(tx[p], Statement(p).id), Rest(p)))

\* InsertInboxEvent, and for viewer behaviour applyBehavioral
Record(p) ==
  /\ Runs(p, "record")
  /\ ~Contended(p, Statement(p).id)
  /\ Statement(p).id \notin Receipts(tx[p])
  /\ IsBehavior(Statement(p).id) => ~Blocked(p, Statement(p).id)
  /\ Becomes(p, Left(Recorded(tx[p], Statement(p).id), Rest(p)))

\* Only the endpoints list sessions: there are no own rows to see, only deletes.
SessionsOf(t, user) ==
  LET rows == (queryLog \ t.goneLog) \cup (behavior \ t.goneBehavior)
  IN  {Stream[id].session : id \in Matching(rows, user, AnyQuery)} \ {None}

ListUserSessionIDs(p) ==
  /\ Runs(p, "list_sessions")
  /\ LET sessions == SessionsOf(tx[p], Statement(p).user)
     IN  Becomes(p, Left([tx[p] EXCEPT !.sessions = sessions], Rest(p)))

\* Personal rows are deleted: the committed ones and the transaction's own.
WithoutPersonal(t, keys) ==
  [t EXCEPT !.gone = @ \cup (keys \cap Stored),
            !.upserts = [key \in Keys |-> IF key \in keys THEN 0 ELSE @[key]]]

DeletePersonal(p, keys) ==
  /\ ~Locked(p, keys \cap Stored)
  /\ Becomes(p, Left(WithoutPersonal(tx[p], keys), Rest(p)))

\* DeleteUserSearchHistory, DeleteUserSearchHistoryEntry
DeleteUserSearchHistory(p) ==
  /\ Runs(p, "delete_history")
  /\ DeletePersonal(p, {Statement(p).user} \X (Statement(p).queries \cap Queries))

PurgeUserWatchProjection(p) ==
  /\ Runs(p, "purge_projection")
  /\ DeletePersonal(p, {Statement(p).user} \X Videos)

Named(p, ids) == Matching(ids, Statement(p).user, Statement(p).queries)

WithoutLog(p, t) ==
  [t EXCEPT !.goneLog = @ \cup Named(p, queryLog), !.log = @ \ Named(p, @)]

\* DeleteQueryLogForUser, DeleteQueryLogForUserQuery
DeleteQueryLogRows(p) ==
  /\ Runs(p, "delete_query_log")
  /\ \A t \in Others(p) : t.goneLog \cap Named(p, queryLog) = {}
  /\ Becomes(p, Left(WithoutLog(p, tx[p]), Rest(p)))

WithoutBehavior(p, t) ==
  [t EXCEPT !.goneBehavior = @ \cup Named(p, behavior), !.behavior = @ \ Named(p, @)]

\* DeleteBehaviorEventsForUser, DeleteBehaviorEventsForUserQuery
DeleteBehaviorRows(p) ==
  /\ Runs(p, "delete_behavior")
  /\ \A t \in Others(p) : t.goneBehavior \cap Named(p, behavior) = {}
  /\ Becomes(p, Left(WithoutBehavior(p, tx[p]), Rest(p)))

\* What is left to do in Redis: the effects of the events, in their order, or
\* the removal of the lists of the sessions that were read.
Committed(t) ==
  [Idle EXCEPT !.phase = "committed",
               !.calls = IF t.sessions = {} THEN t.calls
                         ELSE Append(t.calls, [do |-> "drop", sessions |-> t.sessions])]

Commit(p) ==
  LET t == tx[p]
  IN  /\ t.phase = "open" /\ t.todo = <<>>
      /\ receipts' = receipts \cup ToSet(t.landed)
      /\ queryLog' = (queryLog \ t.goneLog) \cup t.log
      /\ behavior' = (behavior \ t.goneBehavior) \cup t.behavior
      /\ personal' = [key \in Keys |->
           (IF key \in t.gone THEN 0 ELSE personal[key]) + t.upserts[key]]
      /\ tx' = [tx EXCEPT ![p] = Committed(t)]
      /\ UNCHANGED <<swept, recent>>

\* Mutation: the effects are flushed though the commit failed.
AbortAnnounced(p) ==
  /\ tx[p].phase = "open"
  /\ tx' = [tx EXCEPT ![p] = Committed(tx[p])]
  /\ UNCHANGED <<Tables, recent>>

\* A failing statement, a deadline, a deadlock Postgres resolves, a crash.
Abort(p) ==
  /\ tx[p].phase = "open"
  /\ tx' = [tx EXCEPT ![p] = Idle]
  /\ UNCHANGED <<Tables, recent>>

HasCall(p) ==
  /\ tx[p].phase = "committed" /\ tx[p].calls # <<>>
  /\ UNCHANGED Tables

Call(p) == Head(tx[p].calls)

Called(p) == Becomes(p, [tx[p] EXCEPT !.calls = Tail(@)])

\* LPUSH and LTRIM
Pushed(list, item) ==
  LET longer == <<item>> \o list
  IN  SubSeq(longer, 1, IF Len(longer) < SessionMax THEN Len(longer) ELSE SessionMax)

\* flush: one deferred push
PushSession(p) ==
  /\ HasCall(p) /\ Call(p).do = "push" /\ Called(p)
  /\ LET id == Call(p).id
         session == Stream[id].session
     IN  recent' = IF Stream[id].type = "search.submitted"
                   THEN [recent EXCEPT !.q[session] = Pushed(@, PushedItem(id))]
                   ELSE [recent EXCEPT !.v[session] = Pushed(@, PushedItem(id))]

\* dropSessionRecency: both lists of every session read
DropSessionRecency(p) ==
  /\ HasCall(p) /\ Call(p).do = "drop" /\ Called(p)
  /\ LET Without(lists) ==
           [s \in Sessions |-> IF s \in Call(p).sessions THEN <<>> ELSE lists[s]]
     IN  recent' = [q |-> Without(recent.q), v |-> Without(recent.v)]

\* Redis is best effort.
LoseCall(p) ==
  /\ RedisFails
  /\ HasCall(p) /\ Called(p)
  /\ UNCHANGED recent

Finish(p) ==
  /\ tx[p].phase = "committed" /\ tx[p].calls = <<>>
  /\ tx' = [tx EXCEPT ![p] = Idle]
  /\ UNCHANGED <<Tables, recent>>

\* sessionTTL runs out for one list.
Expire(session) ==
  /\ \/ recent' = [recent EXCEPT !.q[session] = <<>>]
     \/ recent' = [recent EXCEPT !.v[session] = <<>>]
  /\ UNCHANGED <<Tables, tx>>

\* A receipt gets older than the inbox keeps them.
SweepReceipt(id) ==
  /\ MaySweep({id}, receipts, swept)
  /\ receipts' = receipts \ {id} /\ swept' = swept \cup {id}
  /\ UNCHANGED <<queryLog, behavior, personal, recent, tx>>

ProcStep(p) ==
  \/ \E n \in 1 .. MaxBatch : \E batch \in [1 .. n -> Ids] : BeginIngest(p, batch)
  \/ \E request \in Requests : BeginRequest(p, request)
  \/ Duplicate(p) \/ FailEvent(p) \/ Record(p)
  \/ ListUserSessionIDs(p) \/ DeleteUserSearchHistory(p) \/ PurgeUserWatchProjection(p)
  \/ DeleteQueryLogRows(p) \/ DeleteBehaviorRows(p)
  \/ Commit(p) \/ Abort(p)
  \/ PushSession(p) \/ DropSessionRecency(p) \/ LoseCall(p) \/ Finish(p)

HistoryNext ==
  \/ \E p \in Procs : ProcStep(p)
  \/ \E session \in Sessions : Expire(session)
  \/ \E id \in Ids : SweepReceipt(id)

HistorySpec == HistoryInit /\ [][HistoryNext]_historyVars
-----------------------------------------------------------------------------
HistoryTypeOK ==
  /\ receipts \subseteq Ids /\ swept \subseteq Ids
  /\ queryLog \subseteq {id \in Ids : EntersQueryLog(id)}
  /\ behavior \subseteq {id \in Ids : IsBehavior(id)}
  /\ personal \in [Keys -> Nat]
  /\ recent \in [q : [Sessions -> Seq(Queries)], v : [Sessions -> Seq(Videos)]]
  /\ \A s \in Sessions : Len(recent.q[s]) <= SessionMax /\ Len(recent.v[s]) <= SessionMax
  /\ \A p \in Procs : tx[p].phase = "committed" => tx[p].todo = <<>>

(* A ledger row appears only for an event that had no receipt, so a         *)
(* redelivery resurrects deleted behaviour only once its receipt was swept   *)
(* (InsertInboxEvent before the inserts of applyBehavioral).                 *)
RowsComeWithReceipts ==
  [][(queryLog' \ queryLog) \cup (behavior' \ behavior) \subseteq receipts' \ receipts]_historyVars

(* Whatever deletions ran into whatever batches, a consented search that     *)
(* still has a ledger row is on the account's history page: nothing is kept  *)
(* that the account can neither see nor delete by its entry (the statement   *)
(* order of deleteSearchFootprint, DeleteEntry and applyHistoryDeleted).     *)
SurvivorsAreOnThePage ==
  \A id \in queryLog \cup behavior : EntersQueryLog(id) => KeysOf(id) \subseteq Stored

(* The lists hold only what committed events of their session pushed: a     *)
(* rolled back batch leaves no trace in Redis (Ingest flushes after its      *)
(* commit).                                                                  *)
ListsRememberCommitted ==
  \A s \in Sessions : \A item \in ToSet(recent.q[s]) \cup ToSet(recent.v[s]) :
    \E id \in receipts \cup swept :
      IsBehavior(id) /\ Stream[id].session = s /\ PushedItem(id) = item

(* A deletion request that commits has taken every ledger row it named that *)
(* was there when it began; only a swept receipt brings one back             *)
(* (deleteSearchFootprint, DeleteEntry).                                     *)
DeletionTakesWhatItFound ==
  [][\A p \in Procs : Commit(p) =>
       tx[p].found \cap (queryLog' \cup behavior') \subseteq swept]_historyVars

(* cache/session.go, DropSessionRecency: the lists are dropped so that a     *)
(* user is not offered the queries they just cleared.  With nothing going    *)
(* on, every item of a list has a surviving row of its session.              *)
ClearedIsNotOffered ==
  (\A p \in Procs : tx[p].phase = "idle") =>
     \A s \in Sessions : \A item \in ToSet(recent.q[s]) \cup ToSet(recent.v[s]) :
       \E id \in queryLog \cup behavior : Stream[id].session = s /\ PushedItem(id) = item
=============================================================================
