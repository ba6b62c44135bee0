----------------------------- MODULE MCWorkerJobs -----------------------------
(* The rollups and sweeps of the worker, one of them per behaviour: `job` is  *)
(* the name RunOnce looks up, or the loop that Start runs for it.  Each job    *)
(* runs beside the writers of its own input, on the events chosen for it.     *)
EXTENDS EngagementRollup, Covisitation, Sessionizer, Trending

CONSTANTS
  Running,  \* the jobs of the run
  u1, subject1, session1, session2, q1, q2, v1, v2

VARIABLES job

Behavior(type, user, session, query, video, at, long) ==
  [type |-> type, user |-> user, subject |-> IF user = None THEN subject1 ELSE None,
   session |-> session, query |-> query, video |-> video, at |-> at, long |-> long,
   history |-> TRUE]

\* A click, a long watch of the account and one without an account.
EngagementEvents ==
  {Behavior("clicked", u1, session1, q1, v1, 0, FALSE),
   Behavior("progress", u1, session1, None, v1, 1, TRUE),
   Behavior("progress", None, session1, None, v1, 2, TRUE)}

\* One account in two sessions and one pseudonym, on one pair of videos.
CovisEvents ==
  {Behavior("play_started", u1, s, None, v1, 0, FALSE) : s \in {session1, session2}}
    \cup {Behavior("play_started", u1, s, None, v2, 1, FALSE) : s \in {session1, session2}}
    \cup {Behavior("play_started", None, session1, None, v2, 1, FALSE),
          Behavior("clicked", u1, session1, q1, v1, 0, FALSE),
          Behavior("clicked", None, session1, q1, v2, 1, FALSE)}

SessionEvents == {Behavior("clicked", u1, session1, q1, v1, 1, FALSE)}

Jobs == {"engagement", "covisitation", "sessionizer", "trending"}
EventsOf == [j \in Jobs |-> CASE j = "engagement"   -> EngagementEvents
                              [] j = "covisitation" -> CovisEvents
                              [] j = "sessionizer"  -> SessionEvents
                              [] j = "trending"     -> {}]
MCEvents == UNION {EventsOf[j] : j \in Jobs}
RowsFor == [j \in Jobs |-> CASE j = "engagement"   -> 2 [] j = "covisitation" -> 4
                             [] j = "sessionizer"  -> 1 [] j = "trending"     -> 0]

\* Two queries of one session, and one of another session in between.
Searched(query, session, at) == [query |-> query, user |-> u1, session |-> session, at |-> at]
MCSearches == {Searched(q1, session1, 0), Searched(q2, session1, 1), Searched(q1, session2, 1)}
MCOrder == <<session1, session2>>
-----------------------------------------------------------------------------
engagementOwn == <<table, position, watch, forgotten, bumped, pass>>
covisOwn      == <<neighbors, covis>>
sessionOwn    == <<queryLog, clock, settled, batch>>
workerVars    == <<job, ledgerVars, engagementOwn, covisOwn, sessionOwn, trendVars>>

\* A row that appears is one of the job's events, within its bound, or derived.
OfItsEvents ==
  /\ \A i \in DOMAIN ledger' \ DOMAIN ledger :
       "derived" \in DOMAIN ledger'[i].event \/ ledger'[i].event \in EventsOf[job]
  /\ Cardinality(Ingested') <= RowsFor[job]

\* Each search is a fact of its own: it is submitted once.
SearchesAreDistinct == \A i, j \in DOMAIN queryLog' : Sr(i)' = Sr(j)' => i = j

WorkerInit ==
  /\ job \in Running
  /\ EngagementInit /\ CovisInit /\ SessionizerInit /\ TrendInit

WorkerNext ==
  /\ UNCHANGED job
  /\ \/ job = "engagement" /\ EngagementNext /\ UNCHANGED <<covisOwn, sessionOwn, trendVars>>
     \/ job = "covisitation" /\ CovisNext /\ UNCHANGED <<engagementOwn, sessionOwn, trendVars>>
     \/ job = "sessionizer" /\ SessionizerNext /\ UNCHANGED <<engagementOwn, covisOwn, trendVars>>
     \/ /\ job = "trending" /\ TrendNext
        /\ UNCHANGED <<ledgerVars, engagementOwn, covisOwn, sessionOwn>>
  /\ OfItsEvents /\ SearchesAreDistinct

\* A periodic job comes round again: the pass of the job goes on. Nothing is fair
\* about ingest beyond each open transaction ending, nor about failures.
WorkerSpec ==
  /\ WorkerInit /\ [][WorkerNext]_workerVars
  /\ WF_workerVars(job = "engagement" /\ EngagementPass /\ UNCHANGED <<job, covisOwn, sessionOwn, trendVars>>)
  /\ WF_workerVars(/\ job = "covisitation" /\ (CovisRebuild \/ CovisCommit)
                   /\ UNCHANGED <<job, engagementOwn, sessionOwn, trendVars>>)
-----------------------------------------------------------------------------
\* While the engagement job comes round, the counters end as a recount of the
\* rows that are left, whatever deletions and retention took (engagementRollup).
EngagementCountsSettle == job = "engagement" => CountersFollowTheLedger

\* While the co-visitation job comes round, no edge outlives its evidence for good
\* (covisRollup).
NeighborsSettle == job = "covisitation" => NeighborsLoseTheirSupport
=============================================================================
