--------------------------- MODULE Recommendation ---------------------------
(***************************************************************************)
(* The related and home feeds. A feed is put together from several reads   *)
(* of a catalog that goes on changing between them, and from lists that    *)
(* were computed earlier (co-visitation neighbours, gated trending) and    *)
(* may name videos the catalog has withdrawn since. The simple feeds fill  *)
(* a composer read by read; the advanced ones collect candidates, filter   *)
(* them by one read of their documents, reorder them and compose at last.  *)
(*                                                                         *)
(* Scores are abstracted: a query returns its rows in the given order of   *)
(* the catalog, the advanced reranker may return any order. "eligible"     *)
(* includes the caller's hide_sensitive filter.                            *)
(***************************************************************************)
EXTENDS Naturals, FiniteSets, Sequences, SequencesExt, FiniteSetsExt, Listings

CONSTANTS
    Videos,
    ChannelOf,        \* [Videos -> channels], NoChannel for none
    NoChannel,
    PopularOrder,     \* the videos by views, most viewed first
    RecentOrder,      \* the videos by publication, newest first
    Similar,          \* [Videos -> SUBSET Videos]: shared tag, category or language
    CoWatched,        \* [Videos -> SUBSET Videos]: item_neighbors, possibly stale
    TrendingList,     \* the gated Redis list, possibly stale
    LowViews,         \* the videos FreshLowViewEligible may return
    FeedLimit,        \* the page asked for
    PerChannelCap,    \* perChannelCap
    SameChannelCap,   \* sameChannelCap
    ExploreSlot,      \* position of the exploration slot
    WatchedLimit,     \* rows RecentlyWatchedVideos returns
    MaxCatalogChanges \* bound on eligibility churn and watches

ASSUME RecommendationAssumption ==
    /\ ChannelOf \in [Videos -> {ChannelOf[v] : v \in Videos}]
    /\ {PopularOrder, RecentOrder, TrendingList} \subseteq Seq(Videos)
    /\ ToSet(PopularOrder) = Videos /\ ToSet(RecentOrder) = Videos
    /\ {Similar, CoWatched} \subseteq [Videos -> SUBSET Videos] /\ LowViews \subseteq Videos
    /\ {FeedLimit, PerChannelCap, SameChannelCap, WatchedLimit} \subseteq Nat \ {0}
    /\ {ExploreSlot, MaxCatalogChanges} \subseteq Nat

VARIABLES
    eligible,   \* search.documents.eligible
    watches,    \* the caller's watch projection, most recent first
    churn,      \* catalog changes and watches so far
    feed,       \* idle, related or home
    advanced,   \* search_mode, read once per request
    seed,       \* the video of a related request, else any
    step,       \* the read the request comes to next
    hidden,     \* the composer's excludes, or the candidate set's
    streams,    \* the lists homeSimple interleaves
    candidates, \* the candidate set: channel by video
    order,      \* the reranked ids
    picks,      \* the composer
    sinceStart  \* every video eligible at some time of this request

requestVars == <<feed, advanced, seed, step, hidden, streams, candidates, order, picks>>
recommendationVars == <<eligible, watches, churn, requestVars, sinceStart>>

Take(s, n)    == SubSeq(s, 1, IF n < Len(s) THEN n ELSE Len(s))
Rows(s, S, n) == Take(Within(s, S), n)
NoCandidates  == [v \in {} |-> NoChannel]

(***************************************************************************)
(* The composer: no repeats, no excluded video, at most PerChannelCap of   *)
(* one channel, at most FeedLimit in all.                                  *)
(***************************************************************************)
OfChannel(s, c, channel) == Cardinality({i \in DOMAIN s : channel[s[i]] = c})
Full == Len(picks) >= FeedLimit

Fits(s, v, channel, excluded) ==
    /\ Len(s) < FeedLimit /\ v \notin excluded \cup ToSet(s)
    /\ channel[v] # NoChannel => OfChannel(s, channel[v], channel) < PerChannelCap
Compose(s, rows, channel, excluded) ==
    FoldLeft(LAMBDA kept, v : IF Fits(kept, v, channel, excluded) THEN Append(kept, v) ELSE kept,
             s, rows)

(***************************************************************************)
(* Requests.                                                               *)
(***************************************************************************)
RecommendationInit ==
    /\ eligible \in SUBSET Videos /\ watches = <<>> /\ churn = 0
    /\ feed = "idle" /\ advanced = FALSE /\ seed \in Videos /\ step = "none"
    /\ hidden = {} /\ streams = <<>> /\ candidates = NoCandidates
    /\ order = <<>> /\ picks = <<>> /\ sinceStart = {}

Begin(kind, mode, v) ==
    /\ feed = "idle"
    /\ feed' = kind /\ advanced' = mode /\ seed' = v
    /\ step' = CASE kind = "related" /\ mode  -> "neighbors"
                 [] kind = "related" /\ ~mode -> "same channel"
                 [] kind = "home" /\ mode     -> "watched"
                 [] kind = "home" /\ ~mode    -> "trending"
    /\ hidden' = IF kind = "related" THEN {v} ELSE {}
    /\ streams' = <<>> /\ candidates' = NoCandidates /\ order' = <<>> /\ picks' = <<>>
    /\ sinceStart' = eligible
    /\ UNCHANGED <<eligible, watches, churn>>

\* candidateSet.add: a hidden video is dropped, the first channel given stays.
WithCandidates(S, channel) ==
    LET new == S \ (hidden \cup DOMAIN candidates) IN
    candidates' = [v \in DOMAIN candidates \cup new |->
                      IF v \in new THEN channel[v] ELSE candidates[v]]
Unlabelled == [v \in Videos |-> NoChannel]

\* One read: rows go to the composer, to a stream or to the candidate set.
Pick(rows) == picks' = Compose(picks, rows, ChannelOf, hidden) /\ UNCHANGED <<streams, candidates>>
Stream(rows) == streams' = Append(streams, rows) /\ UNCHANGED <<picks, candidates>>
Collect(S, channel) == WithCandidates(S, channel) /\ UNCHANGED <<picks, streams>>

catalogVars == <<eligible, watches, churn, sinceStart>>
Read(now, next) ==
    /\ feed # "idle" /\ step = now /\ step' = next
    /\ UNCHANGED <<catalogVars, feed, advanced, seed, order>>

\* Co-visitation neighbours carry no channel.
ReadNeighbors ==
    /\ Read("neighbors", "same channel")
    /\ Collect(CoWatched[seed], Unlabelled)
    /\ UNCHANGED hidden

\* A seed without a channel skips this read.
ReadSameChannel ==
    /\ Read("same channel", "overlap")
    /\ LET rows == Rows(RecentOrder,
                        {v \in eligible : v # seed /\ ChannelOf[seed] # NoChannel
                                          /\ ChannelOf[v] = ChannelOf[seed]},
                        SameChannelCap)
       IN IF advanced THEN Collect(ToSet(rows), ChannelOf) ELSE Pick(rows)
    /\ UNCHANGED hidden

ReadOverlap ==
    /\ Read("overlap", IF advanced THEN "session" ELSE "popular")
    /\ LET rows == Rows(PopularOrder, (eligible \cap Similar[seed]) \ {seed}, FeedLimit * 3)
       IN IF advanced THEN Collect(ToSet(rows), ChannelOf)
          ELSE Pick(IF Full THEN <<>> ELSE rows)
    /\ UNCHANGED hidden

\* Neighbors: what was watched with some videos, without these.
WatchedWith(videos) == (UNION {CoWatched[v] : v \in videos}) \ videos

\* Recently watched videos are hidden from the home feed.
ReadWatched(personalized) ==
    /\ Read("watched", IF personalized THEN "taste" ELSE "trending")
    /\ hidden' = IF personalized THEN ToSet(Take(watches, WatchedLimit)) ELSE hidden
    /\ UNCHANGED <<picks, streams, candidates>>

\* A second read of the watches proposes what was watched with them.
ReadTaste ==
    /\ Read("taste", "trending")
    /\ Collect(WatchedWith(ToSet(watches)), Unlabelled)
    /\ UNCHANGED hidden

\* The gated list, filtered by one read; when it is out of reach, or nothing of it
\* is left, the SQL gravity query is asked, and the advanced feed goes on without.
ReadTrending(list) ==
    LET gated == Within(list, eligible) IN
    /\ Read("trending", IF gated = <<>> THEN "gravity" ELSE "recent")
    /\ IF gated = <<>> THEN UNCHANGED <<picks, streams, candidates>>
       ELSE IF advanced THEN Collect(ToSet(gated), ChannelOf) ELSE Stream(gated)
    /\ UNCHANGED hidden

ReadGravity ==
    /\ Read("gravity", "recent")
    /\ LET rows == Rows(PopularOrder, eligible, FeedLimit * 2)
       IN IF advanced THEN Collect(ToSet(rows), ChannelOf) \/ Collect({}, ChannelOf)
          ELSE Stream(rows)
    /\ UNCHANGED hidden

ReadRecent ==
    /\ Read("recent", "popular")
    /\ LET rows == Rows(RecentOrder, eligible, FeedLimit * 2)
       IN IF advanced THEN Collect(ToSet(rows), ChannelOf) ELSE Stream(rows)
    /\ UNCHANGED hidden

\* Related fills up with what is popular and neither hidden nor picked yet.
PopularRows ==
    IF feed = "home" THEN Rows(PopularOrder, eligible, FeedLimit * 2)
    ELSE IF Full THEN <<>>
    ELSE Rows(PopularOrder, eligible \ (hidden \cup ToSet(picks)), FeedLimit)
ReadPopular ==
    /\ Read("popular", CASE advanced /\ feed = "home" -> "session"
                         [] advanced /\ feed = "related" -> "features"
                         [] ~advanced /\ feed = "home" -> "interleave"
                         [] ~advanced /\ feed = "related" -> "done")
    /\ CASE advanced -> Collect(ToSet(PopularRows), ChannelOf)
         [] ~advanced /\ feed = "home" -> Stream(PopularRows)
         [] ~advanced /\ feed = "related" -> Pick(PopularRows)
    /\ UNCHANGED hidden

\* What was watched with the session's videos; a failed read adds nothing.
ReadSession(videos) ==
    /\ Read("session", IF feed = "home" THEN "features" ELSE "popular")
    /\ Collect(WatchedWith(videos), Unlabelled)
    /\ UNCHANGED hidden

\* homeSimple takes the streams in turn: the i-th of each before the next of any.
Interleaved ==
    FoldLeft(LAMBDA s, i : s \o FoldLeft(LAMBDA row, rows :
                  IF i \in DOMAIN rows THEN Append(row, rows[i]) ELSE row, <<>>, streams),
             <<>>, [i \in 1..Max({Len(rows) : rows \in ToSet(streams)}) |-> i])
ComposeStreams ==
    /\ Read("interleave", "done")
    /\ Pick(Interleaved)
    /\ UNCHANGED hidden

(***************************************************************************)
(* composeAdvanced: one read of the candidates' documents filters them and *)
(* gives their channels; then reranking, the exploration slot and the      *)
(* composer.                                                               *)
(***************************************************************************)
\* A feature row gives the channel, whichever list proposed the video.
ProposedChannel(v) == candidates[v]
FeatureChannel(v)  == ChannelOf[v]
AnyCandidate(v)    == TRUE
Survives(v)        == v \in eligible
\* MMR selects every video once, in an order of its own.
Reordered(found) == SetToSeqs(found)
ReadFeatures ==
    /\ step = "features"
    /\ LET found == {v \in DOMAIN candidates : Survives(v)} IN
       /\ candidates' = [v \in found |-> FeatureChannel(v)]
       /\ order' \in Reordered(found)
       /\ step' = IF found = {} THEN "done" ELSE "explore"
    /\ UNCHANGED <<catalogVars, feed, advanced, seed, hidden, streams, picks>>

\* The exploration slot: when it fires for the caller, a fresh video of few views
\* that is neither hidden nor a candidate joins the order at a fixed place.
PoolWithHidden ==
    {v \in ToSet(Rows(RecentOrder, eligible \cap LowViews, FeedLimit * 2)) :
        v \notin DOMAIN candidates}
ExplorationPool ==
    {v \in ToSet(Rows(RecentOrder, eligible \cap LowViews, FeedLimit * 2)) :
        v \notin hidden \cup DOMAIN candidates}
Explore ==
    /\ step = "explore" /\ step' = "compose"
    /\ \/ UNCHANGED <<candidates, order>>
       \/ \E v \in ExplorationPool :
             LET slot == IF ExploreSlot < Len(order) THEN ExploreSlot ELSE Len(order) IN
             /\ order' = InsertAt(order, slot + 1, v)
             /\ candidates' = [w \in DOMAIN candidates \cup {v} |->
                                  IF w = v THEN ChannelOf[v] ELSE candidates[w]]
    /\ UNCHANGED <<catalogVars, feed, advanced, seed, hidden, streams, picks>>

\* The last composer is a fresh one: it excludes nothing by itself.
ComposeAdvanced ==
    /\ step = "compose" /\ step' = "done"
    /\ picks' = Compose(<<>>, order, candidates, {})
    /\ UNCHANGED <<catalogVars, feed, advanced, seed, hidden, streams, candidates, order>>

\* The answer is sent, or a read failed and the request with it.
Finish ==
    /\ feed # "idle" /\ feed' = "idle" /\ step' = "none"
    /\ hidden' = {} /\ streams' = <<>> /\ candidates' = NoCandidates
    /\ order' = <<>> /\ picks' = <<>>
    /\ UNCHANGED <<catalogVars, advanced, seed>>

(***************************************************************************)
(* Meanwhile: documents are withdrawn or return, and the caller watches.   *)
(***************************************************************************)
CatalogChanges(v) ==
    /\ churn < MaxCatalogChanges /\ churn' = churn + 1
    /\ eligible' = IF v \in eligible THEN eligible \ {v} ELSE eligible \cup {v}
    /\ sinceStart' = IF feed = "idle" THEN sinceStart ELSE sinceStart \cup eligible'
    /\ UNCHANGED <<watches, requestVars>>

CallerWatches(v) ==
    /\ churn < MaxCatalogChanges /\ churn' = churn + 1
    /\ watches' = <<v>> \o Within(watches, Videos \ {v})
    /\ UNCHANGED <<eligible, sinceStart, requestVars>>

RecommendationNext ==
    \/ \E kind \in {"related", "home"}, mode \in BOOLEAN, v \in Videos : Begin(kind, mode, v)
    \/ \E personalized \in BOOLEAN : ReadWatched(personalized)
    \/ \E v \in Videos : ReadSession({v}) \/ CatalogChanges(v) \/ CallerWatches(v)
    \/ ReadSession({})
    \/ ReadNeighbors \/ ReadSameChannel \/ ReadOverlap
    \/ ReadTaste
    \/ \E list \in {TrendingList, <<>>} : ReadTrending(list)
    \/ ReadGravity \/ ReadRecent \/ ReadPopular \/ ComposeStreams
    \/ ReadFeatures \/ Explore \/ ComposeAdvanced
    \/ Finish

(***************************************************************************)
(* What a feed promises.                                                   *)
(***************************************************************************)
FeedWasEligible == ToSet(picks) \subseteq sinceStart

FeedIsSpread ==
    /\ \A i, j \in DOMAIN picks : picks[i] = picks[j] => i = j
    /\ \A v \in ToSet(picks) :
          ChannelOf[v] # NoChannel => OfChannel(picks, ChannelOf[v], ChannelOf) <= PerChannelCap

FeedHidesSeen == ToSet(picks) \cap hidden = {}

\* However stale the lists that proposed its videos and whichever of them knew
\* their channels, a feed shows no video that was not eligible at some time of its
\* own request, repeats none, holds at most PerChannelCap of a channel, and offers
\* neither its own seed nor, when personalised, a watched video it read, not even
\* through the exploration slot.
FeedIsFit == FeedWasEligible /\ FeedIsSpread /\ FeedHidesSeen
=============================================================================
