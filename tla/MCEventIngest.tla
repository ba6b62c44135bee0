---------------------------- MODULE MCEventIngest ----------------------------
(* The two event paths of Service.Ingest, one of them per behaviour: the     *)
(* legacy catalog events, on two videos of one channel whose owner may       *)
(* change, and the viewer's, of one account that searches and watches.       *)
EXTENDS LegacyIngest, HistoryDeletion, TLC

CONSTANTS
  Paths,  \* the event paths of the run
  v1, v2, c1, o1, o2, u1, s1, q1, p1, p2

VARIABLES path

Video(v, privacy) ==
  [video |-> v, owner |-> o1, channel |-> c1, privacy |-> privacy, state |-> "published"]

\* What the producer of the legacy path emits; the counterexample needs three.
MCEventList ==
  <<[type |-> "video.upsert", doc |-> Video(v1, "public")],
    [type |-> "video.suppress", video |-> v1],
    [type |-> "user.suppress", owner |-> o1, unlisted |-> TRUE],
    [type |-> "user.suppress", owner |-> o1, unlisted |-> FALSE],
    [type |-> "channel.upsert", channel |-> c1, owner |-> o2],
    [type |-> "channel.delete", channel |-> c1],
    [type |-> "reconcile.page", docs |-> <<Video(v1, "private"), Video(v2, "public")>>]>>

MCEvents == ToSet(MCEventList)

MCVisibilityEvents == ToSet(SubSeq(MCEventList, 1, 3))

Rank(ev) == CHOOSE n \in DOMAIN MCEventList : MCEventList[n] = ev

Behavior(type, session, query, video, history, personalization) ==
  [type |-> type, user |-> u1, session |-> session, query |-> query, video |-> video,
   allow_history |-> history, allow_personalization |-> personalization]

Search(session, query, history) ==
  Behavior("search.submitted", session, query, None, history, None)

Deletion(scope) == [type |-> "user.history_deleted", user |-> u1, scope |-> scope]

\* A consented search, a watch under the old consent rule and with no session (so
\* that one list is filled), a deletion.
MCStream ==
  <<Search(s1, q1, TRUE),
    Behavior("video.play_started", None, None, v1, TRUE, None),
    Deletion("all")>>

MCRequests ==
  {[path |-> "user", user |-> u1], [path |-> "entry", user |-> u1, query |-> q1]}

MCSearchAndDeletion == <<Search(s1, q1, TRUE), Deletion("search")>>

MCSymmetry == Permutations({p1, p2})
-----------------------------------------------------------------------------
eventVars == <<path, legacyVars, historyVars>>

\* Batches name ids in any order, so an outbox stands for its permutations; the
\* producer of the other path stays silent.
EventInit ==
  /\ path \in Paths
  /\ LegacyInit /\ HistoryInit
  /\ \A i \in 2 .. MaxOutbox : Rank(outbox[i - 1]) <= Rank(outbox[i])
  /\ path = "viewer" => Rank(outbox[MaxOutbox]) = 1

\* A batch that repeats an id is the legacy path's: the inbox is the same.
NoRepeats == \A p \in Procs : IsInjective(tx'[p].todo)

EventNext ==
  /\ UNCHANGED path
  /\ \/ path = "legacy" /\ LegacyNext /\ UNCHANGED historyVars
     \/ path = "viewer" /\ HistoryNext /\ NoRepeats /\ UNCHANGED legacyVars

EventSpec == EventInit /\ [][EventNext]_eventVars
=============================================================================
