------------------------------- MODULE Sessionizer -------------------------------
(***************************************************************************)
(* The sessionizer: once the abandon window of a batch of searches has     *)
(* closed, one transaction derives search.reformulated and                 *)
(* search.abandoned events from them and moves a cursor.  Times are the    *)
(* producer's; ids are handed out in the order the inserts arrive.         *)
(***************************************************************************)
EXTENDS BehaviorLedger, SequencesExt, Listings

CONSTANTS
  Searches,          \* searches core may report: [query, user, session, at]
  MaxSubmitted,      \* searches ever submitted
  AbandonWindow,     \* time a search has to be answered by a click or a play
  ReformulationGap,  \* largest gap between a search and its reformulation
  MaxTime,           \* the clock stops here
  MaxRestarts,       \* passes that fail or crash
  SessionOrder       \* the sessions as the sort orders them

ASSUME SessionizerAssumption ==
  /\ {MaxSubmitted, AbandonWindow, ReformulationGap, MaxTime, MaxRestarts} \subseteq Nat
  /\ SessionOrder \in Seq(Range(SessionOrder))
  /\ \A s \in Searches : s.at \in Nat /\ s.session \in Range(SessionOrder) \cup {None}

VARIABLES
  queryLog,    \* search.query_log: rows of [search, status]
  clock,
  settled,     \* search.worker_cursors, "sessionizer"
  batch        \* the pass under way

sessionVars == <<ledger, horizon, queryLog, clock, settled, batch>>
-----------------------------------------------------------------------------
(* late rows are committed too, after a pass had listed the ids around them. *)
Settleable == {i \in DOMAIN queryLog : queryLog[i].status \in {"live", "late"}}

Sr(i) == queryLog[i].search

NoBatch(restarts) ==
  [phase |-> "idle", maxid |-> 0, rows |-> {}, signals |-> {}, restarts |-> restarts]

SessionizerInit ==
  /\ LedgerInit
  /\ queryLog = <<>>
  /\ clock = 0
  /\ settled = 0
  /\ batch = NoBatch(0)

\* MaxSettledQueryLogID
MaxSettled(cutoff) ==
  LET old == {i \in Settleable : Sr(i).at <= cutoff}
  IN IF old = {} THEN 0 ELSE CHOOSE i \in old : \A j \in old : j <= i

\* Sessionize sorts by session, then time, then id.
SessionRank(s) == CHOOSE n \in DOMAIN SessionOrder : SessionOrder[n] = s

Before(i, j) ==
  LET a == Sr(i) b == Sr(j)
  IN IF a.session # b.session THEN SessionRank(a.session) < SessionRank(b.session)
     ELSE IF a.at # b.at THEN a.at < b.at ELSE i < j

\* A click on the same query, or any play, inside the window
HasEngagement(signals, i) ==
  \E s \in signals :
    /\ Ev(s).session = Sr(i).session
    /\ Ev(s).at >= Sr(i).at /\ Ev(s).at <= Sr(i).at + AbandonWindow
    /\ Ev(s).query \in {None, Sr(i).query}

\* A verdict names the search it is about, so its event_id is deterministic.
Verdict(type, i, from) == [type |-> type, source |-> i, from |-> from]

Reformulates(prev, q) ==
  /\ Sr(prev).session = Sr(q).session
  /\ Sr(prev).query # Sr(q).query
  /\ Sr(prev).at <= Sr(q).at
  /\ Sr(q).at - Sr(prev).at <= ReformulationGap

\* The two rules of Sessionize, applied to the n-th row of the sorted batch.
VerdictsAt(sorted, n, signals) ==
       (IF n > 1 /\ Reformulates(sorted[n - 1], sorted[n])
        THEN {Verdict("reformulated", sorted[n], Sr(sorted[n - 1]).query)} ELSE {})
  \cup (IF HasEngagement(signals, sorted[n])
        THEN {} ELSE {Verdict("abandoned", sorted[n], None)})

Sessionize(rows, signals) ==
  LET sorted == InOrder(rows, Before)
  IN UNION {VerdictsAt(sorted, n, signals) : n \in DOMAIN sorted}
-----------------------------------------------------------------------------
\* AppendQueryLog in an ingest transaction, and the end of that transaction
SubmitSearch(s) ==
  /\ Len(queryLog) < MaxSubmitted
  /\ s.at <= clock
  /\ queryLog' = Append(queryLog, [search |-> s, status |-> "inflight"])
  /\ UNCHANGED <<ledger, horizon, clock, settled, batch>>

PassedBy(i) ==
  i <= settled \/ (batch.phase = "commit" /\ i <= batch.maxid)

EndSubmit(i) ==
  /\ queryLog[i].status = "inflight"
  /\ queryLog' = [queryLog EXCEPT ![i].status = IF PassedBy(i) THEN "late" ELSE "live"]
  /\ UNCHANGED <<ledger, horizon, clock, settled, batch>>

\* PurgeUser and ClearAll: the rows of query_log and behavior_events go together.
SessionForget(user) ==
  /\ queryLog' = [i \in DOMAIN queryLog |->
       IF i \in Settleable /\ Sr(i).user = user
       THEN [queryLog[i] EXCEPT !.status = "deleted"] ELSE queryLog[i]]
  /\ DeleteBehaviorEventsForUser(user)
  /\ UNCHANGED <<clock, settled, batch>>

\* A click or a play is ingested.
Engage(e) ==
  /\ e.at <= clock
  /\ IngestBehaviorEvent(e)
  /\ UNCHANGED <<queryLog, clock, settled, batch>>

SessionTick ==
  /\ clock < MaxTime
  /\ clock' = clock + 1
  /\ UNCHANGED <<ledger, horizon, queryLog, settled, batch>>

\* getCursor and MaxSettledQueryLogID; a pass with nothing settled ends here.
SessionizerRead ==
  /\ batch.phase = "idle"
  /\ clock >= AbandonWindow
  /\ LET cutoff == clock - AbandonWindow
     IN /\ MaxSettled(cutoff) > settled
        /\ batch' = [batch EXCEPT !.phase = "list", !.maxid = MaxSettled(cutoff)]
  /\ UNCHANGED <<ledger, horizon, queryLog, clock, settled>>

\* ListQueryLogRange and ListEngagementSignals, from the first search on
SessionizerList ==
  /\ batch.phase = "list"
  /\ LET rows == {i \in Settleable : i > settled /\ i <= batch.maxid /\ Sr(i).session # None}
         signals == {i \in Live : /\ Ev(i).type \in {"clicked", "play_started"}
                                  /\ \E r \in rows : Sr(r).at <= Ev(i).at
                                  /\ Ev(i).session # None /\ Ev(i).at <= clock}
     IN batch' = [batch EXCEPT !.phase = "commit", !.rows = rows, !.signals = signals]
  /\ UNCHANGED <<ledger, horizon, queryLog, clock, settled>>

\* A derived row; a verdict that is in the ledger already is not inserted again.
DerivedEvent(v) ==
  Row([type |-> v.type, user |-> Sr(v.source).user, session |-> Sr(v.source).session,
       query |-> Sr(v.source).query, video |-> None, at |-> Sr(v.source).at, derived |-> v],
      "live")

InLedger(v) == \E i \in Live : "derived" \in DOMAIN Ev(i) /\ Ev(i).derived = v

\* InsertDerivedBehaviorEvent for each verdict, SetWorkerCursor and the commit
SessionizerCommit ==
  /\ batch.phase = "commit"
  /\ LET fresh == {v \in Sessionize(batch.rows, batch.signals) : ~InLedger(v)}
     IN ledger' = ledger \o SetToSeq({DerivedEvent(v) : v \in fresh})
  /\ settled' = batch.maxid
  /\ batch' = NoBatch(batch.restarts)
  /\ UNCHANGED <<horizon, queryLog, clock>>

\* Mutation: the cursor is saved outside the transaction.
FailureKeepsCursor ==
  /\ batch.phase \in {"list", "commit"}
  /\ batch.restarts < MaxRestarts
  /\ settled' = batch.maxid
  /\ batch' = NoBatch(batch.restarts + 1)
  /\ UNCHANGED <<ledger, horizon, queryLog, clock>>

\* An error or a crash rolls the derived rows and the cursor back together.
SessionizerFails ==
  /\ batch.phase \in {"list", "commit"}
  /\ batch.restarts < MaxRestarts
  /\ batch' = NoBatch(batch.restarts + 1)
  /\ UNCHANGED <<ledger, horizon, queryLog, clock, settled>>

SessionizerNext ==
  \/ \E s \in Searches : SubmitSearch(s)
  \/ \E i \in DOMAIN queryLog : EndSubmit(i)
  \/ \E e \in Events : Engage(e)
  \/ \E user \in {s.user : s \in Searches} \ {None} : SessionForget(user)
  \/ SessionTick
  \/ SessionizerRead \/ SessionizerList \/ SessionizerCommit \/ SessionizerFails

SessionizerSpec == SessionizerInit /\ [][SessionizerNext]_sessionVars
-----------------------------------------------------------------------------
(* A search the cursor has passed was judged: it was engaged, or the ledger   *)
(* has recorded that it was abandoned.  A pass that dies judges nothing and   *)
(* moves no cursor (worker.go, sessionizer).                                  *)
PassedSearchesWereJudged ==
  \A i \in DOMAIN queryLog :
    queryLog[i].status = "live" /\ i <= settled /\ Sr(i).session # None =>
      \/ HasEngagement(Ingested, i)
      \/ \E n \in DOMAIN ledger : /\ "derived" \in DOMAIN Ev(n)
                                  /\ Ev(n).derived = Verdict("abandoned", i, None)

(* rollups.sql, MaxSettledQueryLogID: "Because id and submitted_at rise      *)
(* together, this is a clean high-water mark below which every row is        *)
(* settled".  The window of every search up to the mark of a pass has closed. *)
WatermarkIsClean ==
  batch.phase # "idle" =>
    \A i \in Settleable : i <= batch.maxid => Sr(i).at + AbandonWindow <= clock
=============================================================================
