----------------------------- MODULE BehaviorLedger -----------------------------
(***************************************************************************)
(* search.behavior_events, the ledger the rollups read: ingest transactions *)
(* and worker transactions append to it, users and retention delete from    *)
(* it.  A row's id is its position: ids are handed out when a row is        *)
(* inserted, rows appear when their transaction commits.                    *)
(***************************************************************************)
EXTENDS Naturals, Sequences, FiniteSets

CONSTANTS
  Events,     \* the events core may send
  None,       \* an absent user, subject, session, query or video
  MaxEvents   \* rows ever inserted by ingest

(* inflight rows belong to an open ingest transaction and derived rows to an *)
(* open worker transaction; live rows are committed.                         *)
RowStatuses == {"inflight", "derived", "live", "aborted", "deleted", "expired"}

EventFields == {"type", "user", "subject", "session", "query", "video", "at",
                "long", "history"}

\* Types that only the workers write (types.go:67-71): ingest records an event of
\* isBehavioral's types and none of these is one.
DerivedTypes == {"meaningful_watch", "reformulated", "abandoned"}

ASSUME LedgerAssumption ==
  /\ MaxEvents \in Nat
  /\ \A e \in Events :
       DOMAIN e = EventFields /\ e.at \in Nat /\ e.type \notin DerivedTypes

VARIABLES
  ledger,   \* search.behavior_events: rows of [event, status]
  horizon   \* rows before it have left the retention window

ledgerVars == <<ledger, horizon>>
-----------------------------------------------------------------------------
Row(e, status) == [event |-> e, status |-> status]

Live == {i \in DOMAIN ledger : ledger[i].status = "live"}

\* What a worker's transaction sees: committed rows and its own.
Visible == {i \in DOMAIN ledger : ledger[i].status \in {"live", "derived"}}

Ev(i) == ledger[i].event

\* MaxBehaviorEventID: the largest committed id, 0 for an empty ledger
MaxEventId ==
  IF Live = {} THEN 0 ELSE CHOOSE i \in Live : \A j \in Live : j <= i

\* The rows of `ids` move to a status.
Marked(ids, status) ==
  [i \in DOMAIN ledger |-> IF i \in ids THEN [ledger[i] EXCEPT !.status = status]
                           ELSE ledger[i]]

Ingested == {i \in DOMAIN ledger : "derived" \notin DOMAIN Ev(i)}
-----------------------------------------------------------------------------
LedgerInit == ledger = <<>> /\ horizon = 0

\* InsertBehaviorEvent in an ingest transaction
InsertBehaviorEvent(e) ==
  /\ Cardinality(Ingested) < MaxEvents
  /\ e.at >= horizon
  /\ ledger' = Append(ledger, Row(e, "inflight"))
  /\ UNCHANGED horizon

\* An insertion and its commit, where no reader can tell them apart.
IngestBehaviorEvent(e) ==
  /\ Cardinality(Ingested) < MaxEvents
  /\ e.at >= horizon
  /\ ledger' = Append(ledger, Row(e, "live"))
  /\ UNCHANGED horizon

EndIngest(i, status) ==
  /\ ledger[i].status = "inflight"
  /\ status \in {"live", "aborted"}
  /\ ledger' = Marked({i}, status)
  /\ UNCHANGED horizon

RowsOf(user) == {i \in Live : Ev(i).user = user}

\* DeleteBehaviorEventsForUser: the search and all scopes of a deletion
DeleteBehaviorEventsForUser(user) ==
  /\ ledger' = Marked(RowsOf(user), "deleted")
  /\ UNCHANGED horizon

\* DeleteBehaviorEventsForUserQuery: one entry of the history
DeleteBehaviorEventsForUserQuery(user, query) ==
  /\ ledger' = Marked({i \in RowsOf(user) : Ev(i).query = query}, "deleted")
  /\ UNCHANGED horizon

\* Time passes a retention boundary and DeleteOldBehaviorEvents runs.
DeleteOldBehaviorEvents(day) ==
  /\ day > horizon
  /\ horizon' = day
  /\ ledger' = Marked({i \in Live : Ev(i).at < day}, "expired")
=============================================================================
