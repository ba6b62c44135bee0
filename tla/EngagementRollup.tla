---------------------------- MODULE EngagementRollup ----------------------------
(***************************************************************************)
(* The engagement rollup: one transaction that derives meaningful watches  *)
(* from watch progress, recounts query_video_engagement from the retained  *)
(* ledger, adds the derived watches to the users' projections and moves a  *)
(* cursor; after the commit each derived watch is bumped into the trending *)
(* counters.  Every statement reads what is committed when it starts.      *)
(***************************************************************************)
EXTENDS BehaviorLedger, SequencesExt, Listings

CONSTANTS
  DayLength,    \* a day, in the time units of Events
  MaxFailures   \* passes that fail or crash

ASSUME EngagementAssumption == DayLength \in Nat \ {0} /\ MaxFailures \in Nat

VARIABLES
  table,      \* search.query_video_engagement
  position,   \* search.worker_cursors, "engagement"
  watch,      \* search.user_watch_projection: the rows weighed, by <<user, video>>
  forgotten,  \* rows whose weight a deletion took
  bumped,     \* rows bumped into the trending counters
  pass        \* the pass under way

engagementVars == <<ledger, horizon, table, position, watch, forgotten, bumped, pass>>
-----------------------------------------------------------------------------
NoTable == [key \in {} |-> 0]

IdlePass(failures) ==
  [phase |-> "idle", maxid |-> 0, rows |-> {}, table |-> NoTable, failures |-> failures]

EngagementInit ==
  /\ LedgerInit
  /\ table = NoTable
  /\ position = 0
  /\ watch = [key \in {} |-> <<>>]
  /\ forgotten = {}
  /\ bumped = {}
  /\ pass = IdlePass(0)

OfType(type, ids) == {i \in ids : Ev(i).type = type}

\* COALESCE(user_id, session_id, 'anon')
Owner(e) == IF e.user # None THEN e.user ELSE e.session

\* The deterministic event_id of a derived watch: one per owner, video and day.
WatchKey(e) == <<Owner(e), e.video, e.at \div DayLength>>

\* event_id is unique: committed and uncommitted rows both hold theirs.
TakenKeys == {WatchKey(Ev(i)) : i \in OfType("meaningful_watch", Visible)}

\* The rows DeriveMeaningfulWatch selects.
Qualifying(from, to) ==
  {i \in OfType("progress", Visible) :
     i > from /\ i <= to /\ Ev(i).video # None /\ Ev(i).long}

\* The latest query of the session that led to the video.
SearchContexts(e) ==
  {i \in OfType("clicked", Visible) \cup OfType("play_started", Visible) :
     /\ Ev(i).session = e.session /\ Ev(i).video = e.video
     /\ Ev(i).query # None /\ Ev(i).at <= e.at}

Attributions(e) ==
  LET latest == {i \in SearchContexts(e) :
                   \A j \in SearchContexts(e) : Ev(j).at <= Ev(i).at}
  IN IF latest = {} THEN {None} ELSE {Ev(i).query : i \in latest}

\* A derived row carries its progress row's owner and time, and of its props
\* allow_history and subject_id; derived is the id of the progress row.
DerivedRow(i, query) ==
  Row([Ev(i) EXCEPT !.type = "meaningful_watch", !.query = query] @@ [derived |-> i],
      "derived")

Counted == {"impression", "clicked", "meaningful_watch"}

\* RebuildQueryVideoEngagement over the rows a statement sees
Recount(ids) ==
  LET counted == {i \in ids : /\ Ev(i).type \in Counted
                              /\ Ev(i).query # None /\ Ev(i).video # None}
      keys == {<<Ev(i).query, Ev(i).video>> : i \in counted}
  IN [key \in keys |->
        [type \in Counted |->
           Cardinality({i \in OfType(type, counted) : <<Ev(i).query, Ev(i).video>> = key})]]
-----------------------------------------------------------------------------
\* getCursor and MaxBehaviorEventID
EngagementRead ==
  /\ pass.phase = "idle"
  /\ pass' = [pass EXCEPT !.phase = "derive", !.maxid = MaxEventId]
  /\ UNCHANGED <<ledger, horizon, table, position, watch, forgotten, bumped>>

\* One row of each new key is inserted (ON CONFLICT DO NOTHING).
OnePerKey(rows, candidates) ==
  /\ \A i \in rows : WatchKey(Ev(i)) \notin TakenKeys
  /\ \A i, j \in rows : WatchKey(Ev(i)) = WatchKey(Ev(j)) => i = j
  /\ \A i \in candidates :
       WatchKey(Ev(i)) \in TakenKeys \cup {WatchKey(Ev(j)) : j \in rows}

\* DeriveMeaningfulWatch runs only when there is something new.
DeriveMeaningfulWatch ==
  /\ pass.phase = "derive"
  /\ LET candidates == Qualifying(position, pass.maxid)
     IN \E rows \in SUBSET candidates :
          /\ OnePerKey(rows, candidates)
          /\ \E query \in [rows -> UNION {Attributions(Ev(i)) : i \in rows}] :
               /\ \A i \in rows : query[i] \in Attributions(Ev(i))
               /\ LET new == InOrder(rows, <)
                  IN ledger' = ledger \o [n \in DOMAIN new |-> DerivedRow(new[n], query[new[n]])]
          /\ pass' = [pass EXCEPT !.phase = "rebuild",
                        !.rows = (Len(ledger) + 1)..(Len(ledger) + Cardinality(rows))]
  /\ UNCHANGED <<horizon, table, position, watch, forgotten, bumped>>

\* Mutation: the counters are recounted only when there are new events.
RebuildOnNewEvents ==
  /\ pass.phase = "rebuild"
  /\ pass' = [pass EXCEPT !.phase = "commit",
                !.table = IF pass.maxid > position THEN Recount(Visible) ELSE table]
  /\ UNCHANGED <<ledger, horizon, table, position, watch, forgotten, bumped>>

\* ClearQueryVideoEngagement, RebuildQueryVideoEngagement and the projection
\* upserts; they show when the transaction commits.
RebuildQueryVideoEngagement ==
  /\ pass.phase = "rebuild"
  /\ pass' = [pass EXCEPT !.phase = "commit", !.table = Recount(Visible)]
  /\ UNCHANGED <<ledger, horizon, table, position, watch, forgotten, bumped>>

\* The rows UpsertWatchProjection is called for.
Weighed == {i \in pass.rows : Ev(i).user # None /\ Ev(i).history}

WatchRow(i) == <<Ev(i).user, Ev(i).video>>

\* The projection once the weights of `rows` are added.
UpsertWatchProjection(rows) ==
  LET keys == DOMAIN watch \cup {WatchRow(i) : i \in rows}
  IN [key \in keys |->
        (IF key \in DOMAIN watch THEN watch[key] ELSE <<>>)
          \o InOrder({i \in rows : WatchRow(i) = key}, <)]

\* The cursor only moves forward; the bumps wait for the commit.
EngagementCommit ==
  /\ pass.phase = "commit"
  /\ ledger' = Marked(pass.rows, "live")
  /\ table' = pass.table
  /\ watch' = UpsertWatchProjection(Weighed)
  /\ position' = IF pass.maxid > position THEN pass.maxid ELSE position
  /\ pass' = [pass EXCEPT !.phase = "flush"]
  /\ UNCHANGED <<horizon, forgotten, bumped>>

\* Mutation: a failed pass keeps the weights it added outside its transaction.
FailureKeepsWeights ==
  /\ pass.phase \in {"derive", "rebuild", "commit"}
  /\ pass.failures < MaxFailures
  /\ ledger' = Marked(pass.rows, "aborted")
  /\ watch' = UpsertWatchProjection(Weighed)
  /\ pass' = IdlePass(pass.failures + 1)
  /\ UNCHANGED <<horizon, table, position, forgotten, bumped>>

\* A statement fails or the process dies: the transaction leaves nothing.
EngagementFails ==
  /\ pass.phase \in {"derive", "rebuild", "commit"}
  /\ pass.failures < MaxFailures
  /\ ledger' = Marked(pass.rows, "aborted")
  /\ pass' = IdlePass(pass.failures + 1)
  /\ UNCHANGED <<horizon, table, position, watch, forgotten, bumped>>

\* Mutation: a row is bumped as soon as it is derived.
BumpBeforeCommit ==
  \E i \in pass.rows :
    /\ pass.phase \in {"rebuild", "commit", "flush"}
    /\ bumped' = bumped \cup {i}
    /\ pass' = IF pass.phase = "flush" THEN [pass EXCEPT !.rows = @ \ {i}] ELSE pass
    /\ UNCHANGED <<ledger, horizon, table, position, watch, forgotten>>

\* TrendBump for one derived row; a failure is logged and skipped.
TrendBumpFlush ==
  \E i \in pass.rows, bump \in BOOLEAN :
    /\ pass.phase = "flush"
    /\ Ev(i).video # None
    /\ bumped' = IF bump THEN bumped \cup {i} ELSE bumped
    /\ pass' = [pass EXCEPT !.rows = @ \ {i}]
    /\ UNCHANGED <<ledger, horizon, table, position, watch, forgotten>>

\* The pass ends when every bump was tried; a process that stops ends it early.
EngagementEnds ==
  /\ pass.phase = "flush"
  /\ pass.rows = {} \/ pass.failures < MaxFailures
  /\ pass' = IdlePass(IF pass.rows = {} THEN pass.failures ELSE pass.failures + 1)
  /\ UNCHANGED <<ledger, horizon, table, position, watch, forgotten, bumped>>
-----------------------------------------------------------------------------
\* An open pass holds the locks of the projection rows it has written.
HeldByPass(user) ==
  pass.phase = "commit" /\ \E i \in Weighed : Ev(i).user = user /\ WatchRow(i) \in DOMAIN watch

\* applyHistoryDeleted by scope: search takes the ledger rows, watch the
\* projection, all both.
ForgetUser(user, scope) ==
  /\ \/ scope = "search" /\ UNCHANGED <<watch, forgotten>>
     \/ /\ scope \in {"watch", "all"}
        /\ ~HeldByPass(user)
        /\ watch' = [key \in {k \in DOMAIN watch : k[1] # user} |-> watch[key]]
        /\ forgotten' = forgotten \cup
             UNION {Range(watch[key]) : key \in {k \in DOMAIN watch : k[1] = user}}
  /\ IF scope \in {"search", "all"} THEN DeleteBehaviorEventsForUser(user)
     ELSE UNCHANGED ledgerVars
  /\ UNCHANGED <<table, position, bumped, pass>>

LedgerStep ==
  /\ \/ \E e \in Events : InsertBehaviorEvent(e)
     \/ \E i \in DOMAIN ledger, status \in {"live", "aborted"} : EndIngest(i, status)
     \/ \E day \in {e.at : e \in Events} : DeleteOldBehaviorEvents(day)
  /\ UNCHANGED <<table, position, watch, forgotten, bumped, pass>>

EngagementPass ==
  \/ EngagementRead \/ DeriveMeaningfulWatch \/ RebuildQueryVideoEngagement
  \/ EngagementCommit \/ TrendBumpFlush \/ EngagementEnds

EngagementNext ==
  \/ LedgerStep
  \/ \E user \in {e.user : e \in Events} \ {None}, scope \in {"search", "watch", "all"} :
       ForgetUser(user, scope)
  \/ EngagementPass
  \/ EngagementFails

EngagementSpec == EngagementInit /\ [][EngagementNext]_engagementVars
-----------------------------------------------------------------------------
(* The counters of search.query_video_engagement are, once the ledger is     *)
(* quiet, the counts of the rows that are left: deletions and retention      *)
(* lower them although no new event arrives (worker.go, engagementRollup).   *)
CountersFollowTheLedger == <>[](table = Recount(Live))

(* Each projection weight of a derived watch comes from one row that was     *)
(* committed and consented to history, each such row is weighed once, and a  *)
(* weight is missing only after a deletion took it (worker.go:403-419).      *)
WeightsMatchRows ==
  /\ \A key \in DOMAIN watch :
       /\ IsInjective(watch[key])
       /\ \A i \in Range(watch[key]) :
            /\ ledger[i].status \notin {"derived", "aborted"}
            /\ WatchRow(i) = key /\ Ev(i).history
  /\ \A i \in OfType("meaningful_watch", Live) :
       Ev(i).user # None /\ Ev(i).history =>
         i \in forgotten \cup UNION {Range(watch[key]) : key \in DOMAIN watch}

(* The trending counters never count a watch whose row was rolled back: a    *)
(* crash loses bumps and never invents one (worker.go:438-448).              *)
BumpedRowsAreCommitted ==
  \A i \in bumped : ledger[i].status \notin {"derived", "aborted"}

(* What a pass does besides its table matches the derived rows it commits,   *)
(* whichever passes failed or crashed in between.                            *)
DerivedWatchesAreExact == WeightsMatchRows /\ BumpedRowsAreCommitted
=============================================================================
