--------------------------- MODULE QueryAggregates ---------------------------
(***************************************************************************)
(* The query log and the aggregates rolled up from it: searches are        *)
(* inserted by concurrent ingest transactions, deleted by users and by     *)
(* retention, folded by the minute rollup and recounted by the daily       *)
(* re-evaluation, while moderators ban and unban.  Every transaction is    *)
(* READ COMMITTED: a statement computes from the rows committed when it    *)
(* starts and writes later, over whatever was committed in between.        *)
(***************************************************************************)
EXTENDS Naturals, Sequences, FiniteSets

CONSTANTS
  Queries,       \* normalized queries
  Visits,        \* who searches: [user, subject, session]
  NoVisitor,          \* a NULL user or subject
  NoRow,         \* a query without an aggregate row
  MinUsers,      \* minimum_query_user_count
  MaxSearches,   \* searches ever submitted
  BatchSize,     \* reevalBatchSize
  MaxBatches,    \* reevalMaxBatches
  MaxAborts      \* passes that time out, fail or crash

(* A query_log row is in flight until its ingest transaction commits or is  *)
(* rolled back, live inside the retention window and old outside it, and    *)
(* finally deleted.                                                         *)
Statuses == {"inflight", "live", "old", "deleted", "aborted"}

LogRows == [query : Queries, visit : Visits, status : Statuses]

AggregateRows ==
  [total : Nat, users : Nat, suggestible : BOOLEAN, banned : BOOLEAN]

ASSUME AggregatesAssumption ==
  /\ MinUsers \in Nat \ {0} /\ MaxSearches \in Nat
  /\ BatchSize \in Nat \ {0} /\ MaxBatches \in Nat \ {0} /\ MaxAborts \in Nat
  /\ NoRow \notin AggregateRows
  /\ \A visit \in Visits : {"user", "subject", "session"} \subseteq DOMAIN visit

VARIABLES
  log,        \* search.query_log; a row's id is its position
  aggregates, \* search.query_aggregates
  cursor,     \* search.worker_cursors, "aggregates"
  rollup,     \* aggregates_rollup
  reeval,     \* suggestible_reeval
  aborts      \* passes of the two that were cut short

aggregateVars == <<log, aggregates, cursor, rollup, reeval, aborts>>
-----------------------------------------------------------------------------
Committed == {i \in DOMAIN log : log[i].status \in {"live", "old"}}

Window == {i \in DOMAIN log : log[i].status = "live"}

SearchesFor(q) == {i \in Window : log[i].query = q}

\* COALESCE(subject_id, session_id)
Pseudonym(visit) == IF visit.subject # NoVisitor THEN visit.subject ELSE visit.session

\* Mutation: an anonymous search counts under its session.
DistinctSessions(visits) ==
    Cardinality({visit.user : visit \in {x \in visits : x.user # NoVisitor}})
  + Cardinality({visit.session : visit \in {x \in visits : x.user = NoVisitor}})

\* count(DISTINCT user_id) and the distinct pseudonyms of anonymous rows
DistinctUsers(visits) ==
    Cardinality({visit.user : visit \in {x \in visits : x.user # NoVisitor}})
  + Cardinality({Pseudonym(visit) : visit \in {x \in visits : x.user = NoVisitor}})

VisitsOf(ids) == {log[i].visit : i \in ids}

Users(q) == DistinctUsers(VisitsOf(SearchesFor(q)))

Total(q) == Cardinality(SearchesFor(q))

IsBanned(q) == aggregates[q] # NoRow /\ aggregates[q].banned

\* What both passes write for a query: the floor is applied to the recount.
Recounted(q) ==
  [total |-> Total(q), users |-> Users(q),
   suggestible |-> Users(q) >= MinUsers /\ ~IsBanned(q), banned |-> IsBanned(q)]
-----------------------------------------------------------------------------
\* The rows a pass has computed and not yet written.
NoPlan == [q \in {} |-> NoRow]

RollupIdle == [phase |-> "idle", maxid |-> 0, plan |-> NoPlan]

ReevalIdle == [phase |-> "idle", batches |-> 0, plan |-> NoPlan]

AggregatesInit ==
  /\ log = <<>>
  /\ aggregates = [q \in Queries |-> NoRow]
  /\ cursor = 0
  /\ rollup = RollupIdle
  /\ reeval = ReevalIdle
  /\ aborts = 0

\* AppendQueryLog takes the next id in its ingest transaction; ids are handed
\* out at once, rows appear when their transactions commit.
AppendQueryLog(q, visit) ==
  /\ Len(log) < MaxSearches
  /\ log' = Append(log, [query |-> q, visit |-> visit, status |-> "inflight"])
  /\ UNCHANGED <<aggregates, cursor, rollup, reeval, aborts>>

EndSearch(i, status) ==
  /\ log[i].status = "inflight"
  /\ status \in {"live", "aborted"}
  /\ log' = [log EXCEPT ![i].status = status]
  /\ UNCHANGED <<aggregates, cursor, rollup, reeval, aborts>>

\* DeleteQueryLogForUser, and with one query DeleteQueryLogForUserQuery
ClearHistory(user, queries) ==
  /\ user # NoVisitor
  /\ log' = [i \in DOMAIN log |->
       IF i \in Committed /\ log[i].visit.user = user /\ log[i].query \in queries
       THEN [log[i] EXCEPT !.status = "deleted"] ELSE log[i]]
  /\ UNCHANGED <<aggregates, cursor, rollup, reeval, aborts>>

\* A row leaves the retention window.
AgeOut(i) ==
  /\ log[i].status = "live"
  /\ log' = [log EXCEPT ![i].status = "old"]
  /\ UNCHANGED <<aggregates, cursor, rollup, reeval, aborts>>

DeleteOldQueryLog ==
  /\ \E i \in DOMAIN log : log[i].status = "old"
  /\ log' = [i \in DOMAIN log |->
       IF log[i].status = "old" THEN [log[i] EXCEPT !.status = "deleted"] ELSE log[i]]
  /\ UNCHANGED <<aggregates, cursor, rollup, reeval, aborts>>

BanSuggestion(q) ==
  /\ aggregates' = [aggregates EXCEPT ![q] =
       IF @ = NoRow THEN [total |-> 0, users |-> 0, suggestible |-> FALSE, banned |-> TRUE]
       ELSE [@ EXCEPT !.suggestible = FALSE, !.banned = TRUE]]
  /\ UNCHANGED <<log, cursor, rollup, reeval, aborts>>

\* Mutation: an unban puts the query back into the suggestions.
UnbanRestores(q) ==
  /\ aggregates' = [aggregates EXCEPT ![q] =
       IF @ = NoRow THEN @ ELSE [@ EXCEPT !.banned = FALSE, !.suggestible = TRUE]]
  /\ UNCHANGED <<log, cursor, rollup, reeval, aborts>>

UnbanSuggestion(q) ==
  /\ aggregates' = [aggregates EXCEPT ![q] =
       IF @ = NoRow THEN @ ELSE [@ EXCEPT !.banned = FALSE]]
  /\ UNCHANGED <<log, cursor, rollup, reeval, aborts>>

\* The rows of a plan overwrite the rows that are there when it is written.
Written(plan) == [q \in Queries |-> IF q \in DOMAIN plan THEN plan[q] ELSE aggregates[q]]

\* MaxQueryLogID
IsMaxId(id) == id \in Committed /\ \A i \in Committed : i <= id

\* getCursor and the largest id; a pass with nothing new ends here.
RollupRead ==
  /\ rollup.phase = "idle"
  /\ \E maxid \in Committed :
       /\ IsMaxId(maxid) /\ maxid > cursor
       /\ rollup' = [phase |-> "read", maxid |-> maxid, plan |-> NoPlan]
  /\ UNCHANGED <<log, aggregates, cursor, reeval, aborts>>

\* RollupQueryAggregates computes its rows: the queries of the batch that have
\* a row left in the window.
RollupCompute ==
  /\ rollup.phase = "read"
  /\ LET batch == {log[i].query : i \in {j \in Committed : cursor < j /\ j <= rollup.maxid}}
         recount == {q \in batch : SearchesFor(q) # {}}
     IN  rollup' = [phase |-> "computed", maxid |-> rollup.maxid,
                    plan |-> [q \in recount |-> Recounted(q)]]
  /\ UNCHANGED <<log, aggregates, cursor, reeval, aborts>>

\* ... and overwrites, and the transaction commits with its cursor.
RollupCommit ==
  /\ rollup.phase = "computed"
  /\ aggregates' = Written(rollup.plan)
  /\ cursor' = rollup.maxid
  /\ rollup' = RollupIdle
  /\ UNCHANGED <<log, reeval, aborts>>

RollupAbort ==
  /\ rollup.phase # "idle" /\ aborts < MaxAborts
  /\ rollup' = RollupIdle /\ aborts' = aborts + 1
  /\ UNCHANGED <<log, aggregates, cursor, reeval>>

\* QueryLogHasRowsInWindow: the pass refuses to run on an empty window.
ReevalStart ==
  /\ reeval.phase = "idle"
  /\ Window # {}
  /\ reeval' = [phase |-> "looping", batches |-> 0, plan |-> NoPlan]
  /\ UNCHANGED <<log, aggregates, cursor, rollup, aborts>>

Lesser(m, n) == IF m <= n THEN m ELSE n

\* Mutation: only a moving flag makes a row worth rewriting.
FlagMoves(q) == aggregates[q] # NoRow /\ aggregates[q].suggestible # Recounted(q).suggestible

Changed(q) ==
  /\ aggregates[q] # NoRow
  /\ \/ aggregates[q].suggestible # Recounted(q).suggestible
     \/ aggregates[q].total # Recounted(q).total
     \/ aggregates[q].users # Recounted(q).users

\* ReevaluateSuggestible selects a batch of the rows that moved.
ReevalCompute ==
  /\ reeval.phase = "looping"
  /\ LET changed == {q \in Queries : Changed(q)}
     IN  \E batch \in SUBSET changed :
           /\ Cardinality(batch) = Lesser(BatchSize, Cardinality(changed))
           /\ reeval' = [phase |-> "computed", batches |-> reeval.batches,
                         plan |-> [q \in batch |-> Recounted(q)]]
  /\ UNCHANGED <<log, aggregates, cursor, rollup, aborts>>

\* Mutation: only an incomplete batch ends a pass.
ReevalWriteUncapped ==
  /\ reeval.phase = "computed"
  /\ aggregates' =
       Written([q \in DOMAIN reeval.plan |->
                  [reeval.plan[q] EXCEPT !.banned = aggregates[q].banned]])
  /\ reeval' = IF Cardinality(DOMAIN reeval.plan) < BatchSize
               THEN ReevalIdle ELSE [reeval EXCEPT !.phase = "looping", !.plan = NoPlan]
  /\ UNCHANGED <<log, cursor, rollup, aborts>>

\* ... and updates them; banned is not in its SET list.  A full batch asks for
\* another, up to MaxBatches.
ReevalWrite ==
  /\ reeval.phase = "computed"
  /\ aggregates' =
       Written([q \in DOMAIN reeval.plan |->
                  [reeval.plan[q] EXCEPT !.banned = aggregates[q].banned]])
  /\ reeval' = IF Cardinality(DOMAIN reeval.plan) < BatchSize
                  \/ reeval.batches + 1 = MaxBatches
               THEN ReevalIdle
               ELSE [phase |-> "looping", batches |-> reeval.batches + 1, plan |-> NoPlan]
  /\ UNCHANGED <<log, cursor, rollup, aborts>>

ReevalAbort ==
  /\ reeval.phase # "idle" /\ aborts < MaxAborts
  /\ reeval' = ReevalIdle /\ aborts' = aborts + 1
  /\ UNCHANGED <<log, aggregates, cursor, rollup>>

AggregatesNext ==
  \/ \E q \in Queries, visit \in Visits : AppendQueryLog(q, visit)
  \/ \E i \in DOMAIN log, status \in {"live", "aborted"} : EndSearch(i, status)
  \/ \E visit \in Visits, queries \in {Queries} \cup {{q} : q \in Queries} :
       ClearHistory(visit.user, queries)
  \/ \E i \in DOMAIN log : AgeOut(i)
  \/ DeleteOldQueryLog
  \/ \E q \in Queries : BanSuggestion(q) \/ UnbanSuggestion(q)
  \/ RollupRead \/ RollupCompute \/ RollupCommit \/ RollupAbort
  \/ ReevalStart \/ ReevalCompute \/ ReevalWrite \/ ReevalAbort

AggregatesSpec == AggregatesInit /\ [][AggregatesNext]_aggregateVars

RollupPass == RollupRead \/ RollupCompute \/ RollupCommit

ReevalPass == ReevalStart \/ ReevalCompute \/ ReevalWrite

(* The tickers start both jobs again and again, and a pass that is not cut  *)
(* short goes on.                                                           *)
FairAggregatesSpec ==
  /\ AggregatesSpec
  /\ WF_aggregateVars(RollupPass) /\ WF_aggregateVars(ReevalPass)
-----------------------------------------------------------------------------
IsPlan(plan) == DOMAIN plan \subseteq Queries /\ plan \in [DOMAIN plan -> AggregateRows]

AggregatesTypeOK ==
  /\ log \in Seq(LogRows) /\ Len(log) <= MaxSearches
  /\ aggregates \in [Queries -> AggregateRows \cup {NoRow}]
  /\ cursor \in 0 .. Len(log)
  /\ rollup.maxid \in 0 .. Len(log)
  /\ reeval.batches \in 0 .. MaxBatches - 1
  /\ IsPlan(rollup.plan) /\ IsPlan(reeval.plan)

EverSearchedFor(q) ==
  {i \in DOMAIN log : log[i].query = q /\ log[i].status \in {"live", "old", "deleted"}}

Accounts(q) == {x.user : x \in {y \in VisitsOf(EverSearchedFor(q)) : y.user # NoVisitor}}

Machines(q) == {Pseudonym(x) : x \in {y \in VisitsOf(EverSearchedFor(q)) : y.user = NoVisitor}}

(* A string is never suggested to everybody unless enough different people  *)
(* did search for it: not by rotated sessions, not by an unban, not by a    *)
(* stale plan (the k-anonymity floor, RollupQueryAggregates, UnbanSuggestion). *)
FloorWasCleared ==
  \A q \in Queries :
    aggregates[q] # NoRow /\ aggregates[q].suggestible =>
      Cardinality(Accounts(q)) + Cardinality(Machines(q)) >= MinUsers

CountsAreCurrent ==
  \A q \in Queries : aggregates[q] # NoRow =>
    aggregates[q].total = Total(q) /\ aggregates[q].users = Users(q)

(* Once searches, deletions and expiry stop, every aggregate ends up        *)
(* counting exactly the surviving searches, whatever stale plan a pass      *)
(* wrote, unless none survives at all (ReevaluateSuggestible).              *)
CountsFollowTheLog == <>[](Window = {} \/ CountsAreCurrent)

(* A pass of the re-evaluation ends although moderators and rollups keep     *)
(* moving rows behind it, and without counting on the job timeout           *)
(* (reevalMaxBatches).                                                       *)
ReevaluationEnds == reeval.phase # "idle" ~> reeval.phase = "idle"

(* docs/operations.md, "A ban does not decay": it survives every            *)
(* aggregates_rollup pass.                                                  *)
BanSurvivesRollup ==
  [][\A q \in Queries : IsBanned(q) /\ ~IsBanned(q)' => UnbanSuggestion(q)]_aggregateVars

(* docs/operations.md, aggregates_rollup: the pass refreshes the aggregates *)
(* of the queries carrying new query_log rows; with the rollup caught up,   *)
(* every live search has an aggregate that counts it.                       *)
EverySearchIsAggregated ==
  <>[](\A i \in Window : aggregates[log[i].query] # NoRow)
=============================================================================
