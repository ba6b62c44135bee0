------------------------------ MODULE Covisitation ------------------------------
(***************************************************************************)
(* The co-visitation rollup: one transaction drops the index of neighbouring *)
(* videos and rebuilds it from the pairs of events the ledger still holds.  *)
(* A pair is published for a source only when enough distinct subjects are   *)
(* behind it; what is published never outlives its evidence for long.        *)
(***************************************************************************)
EXTENDS BehaviorLedger

CONSTANTS
  PairWindow,    \* CovisWindowSeconds
  MinSubjects,   \* minimum_query_user_count
  TopM,          \* neighbours kept per video
  MaxRollbacks   \* passes that fail or crash

ASSUME CovisAssumption ==
  PairWindow \in Nat /\ MinSubjects \in Nat /\ TopM \in Nat /\ MaxRollbacks \in Nat

VARIABLES
  neighbors,   \* search.item_neighbors: the directed edges served
  covis        \* the pass under way

covisVars == <<ledger, horizon, neighbors, covis>>
-----------------------------------------------------------------------------
Sources == {"watch", "search"}

\* watch_ev and search_ev
EventsFor(source, ids) ==
  {i \in ids :
     /\ Ev(i).session # None /\ Ev(i).video # None
     /\ \/ source = "watch" /\ Ev(i).type \in {"play_started", "meaningful_watch"}
        \/ source = "search" /\ Ev(i).type = "clicked" /\ Ev(i).query # None}

Distance(m, n) == IF m <= n THEN n - m ELSE m - n

\* An event and an earlier one of the same session, inside the window; a
\* co-search has the same query.
IsPair(source, p, n) ==
  /\ p < n
  /\ Ev(p).session = Ev(n).session
  /\ Ev(p).video # Ev(n).video
  /\ Distance(Ev(p).at, Ev(n).at) <= PairWindow
  /\ source = "search" => Ev(p).query = Ev(n).query

\* The pair-instances behind an unordered pair of videos (watch_pairs, search_pairs).
Instances(source, ids, videos) ==
  {pair \in EventsFor(source, ids) \X EventsFor(source, ids) :
     /\ IsPair(source, pair[1], pair[2])
     /\ {Ev(pair[1]).video, Ev(pair[2]).video} = videos}

\* COALESCE(subject_id, session_id)
PseudonymOf(e) == IF e.subject # None THEN e.subject ELSE e.session

\* The distinct people behind a pair, read off the anchors: accounts, and
\* pseudonyms of events without one.
SubjectsBehind(source, ids, videos) ==
  LET anchors == {Ev(pair[2]) : pair \in Instances(source, ids, videos)}
  IN   Cardinality({e.user : e \in {a \in anchors : a.user # None}})
     + Cardinality({PseudonymOf(e) : e \in {a \in anchors : a.user = None}})

VideosOf(ids) == {Ev(i).video : i \in ids} \ {None}

VideoPairs(ids) == {{a, b} : a, b \in VideosOf(ids)} \ {{v} : v \in VideosOf(ids)}

\* Mutation: the floor is applied to both sources together.
FloorOnTheBlend(ids, videos) ==
  /\ \E source \in Sources : Instances(source, ids, videos) # {}
  /\ SubjectsBehind("watch", ids, videos) + SubjectsBehind("search", ids, videos) >= MinSubjects

\* cw_pair and cs_pair: each source is floored on its own.  A pair below the
\* floor on both scores 0 and is dropped.
ClearsFloor(ids, videos) ==
  \E source \in Sources :
    /\ Instances(source, ids, videos) # {}
    /\ SubjectsBehind(source, ids, videos) >= MinSubjects

Publishable(ids) ==
  {edge \in VideosOf(ids) \X VideosOf(ids) :
     edge[1] # edge[2] /\ ClearsFloor(ids, {edge[1], edge[2]})}

\* The TopM best neighbours of each video; the scores are not modelled.
TopNeighbors(edges) ==
  {kept \in SUBSET edges :
     \A i \in {edge[1] : edge \in edges} :
       LET of(set) == Cardinality({edge \in set : edge[1] = i})
       IN of(kept) = IF of(edges) <= TopM THEN of(edges) ELSE TopM}
-----------------------------------------------------------------------------
CovisIdle(rollbacks) == [phase |-> "idle", edges |-> {}, rollbacks |-> rollbacks]

CovisInit ==
  /\ LedgerInit
  /\ neighbors = {}
  /\ covis = CovisIdle(0)

\* ClearCovisNeighbors and RebuildCovisNeighbors in one transaction
CovisRebuild ==
  /\ covis.phase = "idle"
  /\ \E edges \in TopNeighbors(Publishable(Live)) :
       covis' = [covis EXCEPT !.phase = "commit", !.edges = edges]
  /\ UNCHANGED <<ledger, horizon, neighbors>>

\* Mutation: the old index is not dropped first.
CovisMerge ==
  /\ covis.phase = "commit"
  /\ neighbors' = neighbors \cup covis.edges
  /\ covis' = CovisIdle(covis.rollbacks)
  /\ UNCHANGED <<ledger, horizon>>

CovisCommit ==
  /\ covis.phase = "commit"
  /\ neighbors' = covis.edges
  /\ covis' = CovisIdle(covis.rollbacks)
  /\ UNCHANGED <<ledger, horizon>>

\* A crash leaves the previous index in place.
CovisFails ==
  /\ covis.phase = "commit"
  /\ covis.rollbacks < MaxRollbacks
  /\ covis' = CovisIdle(covis.rollbacks + 1)
  /\ UNCHANGED <<ledger, horizon, neighbors>>

CovisLedgerStep ==
  /\ \/ \E e \in Events : IngestBehaviorEvent(e)
     \/ \E day \in {e.at : e \in Events} : DeleteOldBehaviorEvents(day)
  /\ UNCHANGED <<neighbors, covis>>

\* ClearAll, PurgeUser and DeleteEntry, and their event
CovisForget(user) ==
  /\ \/ DeleteBehaviorEventsForUser(user)
     \/ \E query \in {e.query : e \in Events} \ {None} :
          DeleteBehaviorEventsForUserQuery(user, query)
  /\ UNCHANGED <<neighbors, covis>>

CovisNext ==
  \/ CovisLedgerStep
  \/ \E user \in {e.user : e \in Events} \ {None} : CovisForget(user)
  \/ CovisRebuild \/ CovisCommit \/ CovisFails

CovisSpec == CovisInit /\ [][CovisNext]_covisVars
-----------------------------------------------------------------------------
\* The rows that were ever committed.
EverCommitted == {i \in DOMAIN ledger : ledger[i].status \in {"live", "deleted", "expired"}}

(* An edge is served only for a pair that enough distinct subjects visited   *)
(* through one source: a person, with however many sessions or clicks, never *)
(* publishes an association alone (covisitation.sql.go:356-386).             *)
PublishedHadTheFloor ==
  \A edge \in neighbors :
    \E source \in Sources :
      SubjectsBehind(source, EverCommitted, {edge[1], edge[2]}) >= MinSubjects

(* Once the ledger is quiet the index holds only pairs the rows that are left *)
(* still support (covisitation.sql.go:21-43, 350-354).                          *)
NeighborsLoseTheirSupport == <>[](neighbors \subseteq Publishable(Live))
=============================================================================
