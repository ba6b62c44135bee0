----------------------------- MODULE Suggestions -----------------------------
(***************************************************************************)
(* The autosuggest pipeline: candidates gathered from the document, global *)
(* query, personal history and session streams (and a typo fallback when   *)
(* they fall short), merged by text, ranked, cut to the limit with a slot  *)
(* reserved for history and one for documents, and cached for the callers  *)
(* to come when the request was impersonal.                                *)
(*                                                                         *)
(* One prefix and one catalog fence; a candidate is a record whose score   *)
(* stands for the blend of its popularity, quality and boosts.             *)
(***************************************************************************)
EXTENDS Naturals, Sequences, SequencesExt, FiniteSetsExt, Listings

CONSTANTS
    StreamRows,   \* every candidate a stream may return, in gathering order
    TextOrder,    \* [texts -> Nat], lexical order
    NoVideo,
    Callers,      \* signed-in users
    Anyone,       \* a caller without user or session
    PageSizes,    \* the limits asked for
    MaxAsked      \* bound on requests

\* What the streams hand to the blend, and the blend hands on
CandidateRows ==
    [text : DOMAIN TextOrder, source : {"doc", "query", "history"}, personal : BOOLEAN,
     exact : BOOLEAN, video : {c.video : c \in ToSet(StreamRows)}, score : Nat]

ASSUME SuggestionsAssumption ==
    /\ TextOrder \in [DOMAIN TextOrder -> Nat] /\ IsInjective(TextOrder)
    /\ StreamRows \in Seq(CandidateRows)
    /\ \A c \in ToSet(StreamRows) : c.personal = (c.source = "history")
    /\ PageSizes \subseteq Nat \ {0} /\ MaxAsked \in Nat /\ Anyone \notin Callers

VARIABLES
    shared,     \* the short-prefix cache: NoList or a list of suggestions
    asking,     \* the request under way
    gathered,   \* its candidates
    offered,    \* its answer
    asked       \* requests so far

suggestionsVars == <<shared, asking, gathered, offered, asked>>

NoList    == [found |-> FALSE, list |-> <<>>]
NoAsk == [phase |-> "idle", caller |-> Anyone, limit |-> 1]

(***************************************************************************)
(* ranking.Blend.                                                          *)
(***************************************************************************)
\* The total order: exact prefixes above typos, then score, then text.
Better(a, b) ==
    IF a.exact # b.exact THEN a.exact
    ELSE IF a.score # b.score THEN a.score > b.score
    ELSE TextOrder[a.text] < TextOrder[b.text]

\* Whichever variant of a text wins keeps what the other established about it.
VideoOfWinner(winner, loser) == winner.video
VideoOf(winner, loser) == IF winner.video = NoVideo THEN loser.video ELSE winner.video
Merged(winner, loser) ==
    [winner EXCEPT !.personal = winner.personal \/ loser.personal,
                   !.video = VideoOf(winner, loser)]
Merge(best, c) ==
    LET known == {b \in best : b.text = c.text} IN
    (best \ known) \cup
        {IF known = {} THEN c
         ELSE LET cur == CHOOSE b \in known : TRUE
              IN IF Better(c, cur) THEN Merged(c, cur) ELSE Merged(cur, c)}
Ranked(candidates) == InOrder(FoldLeft(Merge, {}, candidates), Better)

\* Promote the best candidate of a missing class over the weakest picked one that
\* is not of that class.
Ensure(source, picked, ranked) ==
    LET outside == {i \in DOMAIN ranked : i > Len(picked) /\ ranked[i].source = source}
        others  == {i \in DOMAIN picked : picked[i].source # source}
    IN IF (\E i \in DOMAIN picked : picked[i].source = source) \/ outside = {}
       THEN picked
       ELSE [picked EXCEPT ![Max(others)] = ranked[Min(outside)]]

ReserveSlots(ranked, limit) ==
    IF Len(ranked) <= limit THEN ranked
    ELSE LET top == SubSeq(ranked, 1, limit)
             withHistory == Ensure("history", top, ranked)
             withDoc == Ensure("doc", withHistory, ranked)
         IN InOrder(ToSet(withDoc), Better)

Blend(candidates, limit) == ReserveSlots(Ranked(candidates), limit)

(***************************************************************************)
(* Suggest: the cache, the streams, the answer.                            *)
(***************************************************************************)
SuggestionsInit ==
    /\ shared = NoList /\ asking = NoAsk /\ gathered = <<>> /\ offered = <<>>
    /\ asked = 0

Ask(caller, limit) ==
    /\ asking.phase = "idle" /\ asked < MaxAsked
    /\ asking' = [phase |-> "asked", caller |-> caller, limit |-> limit]
    /\ asked' = asked + 1
    /\ gathered' = <<>> /\ offered' = <<>>
    /\ UNCHANGED shared

Cacheable == asking.caller = Anyone

\* A cached list is the answer as it stands.
AnswerFromCache ==
    /\ asking.phase = "asked" /\ Cacheable /\ shared.found
    /\ offered' = shared.list
    /\ asking' = NoAsk
    /\ UNCHANGED <<shared, gathered, asked>>

\* The streams return some of their rows: history only to its own caller, typos
\* only when the exact candidates fall short of the limit.
Gather(rows) ==
    /\ asking.phase = "asked" /\ ~(Cacheable /\ shared.found)
    /\ LET heard == Within(StreamRows,
                        {c \in rows : c.source = "history" => asking.caller \in Callers})
           exact == Within(heard, {c \in ToSet(heard) : c.exact})
       IN gathered' = IF Len(exact) < asking.limit THEN heard ELSE exact
    /\ asking' = [asking EXCEPT !.phase = "gathered"]
    /\ UNCHANGED <<shared, offered, asked>>

AnswerBlended ==
    /\ asking.phase = "gathered"
    /\ offered' = Blend(gathered, asking.limit)
    /\ shared' = IF Cacheable THEN [found |-> TRUE, list |-> offered'] ELSE shared
    /\ asking' = [asking EXCEPT !.phase = "answered"]
    /\ UNCHANGED <<gathered, asked>>

\* A failed read degrades the answer to an empty list, which is not cached.
Degrade ==
    /\ asking.phase = "asked" /\ ~(Cacheable /\ shared.found)
    /\ asking' = NoAsk /\ offered' = <<>>
    /\ UNCHANGED <<shared, gathered, asked>>

NextCaller ==
    /\ asking.phase = "answered" /\ asking' = NoAsk
    /\ gathered' = <<>> /\ offered' = <<>>
    /\ UNCHANGED <<shared, asked>>

\* The entry expires, is evicted, or the fence in its key moves on.
ForgetShared ==
    /\ shared.found /\ shared' = NoList
    /\ UNCHANGED <<asking, gathered, offered, asked>>

SuggestionsNext ==
    \/ \E caller \in Callers \cup {Anyone}, limit \in PageSizes : Ask(caller, limit)
    \/ \E rows \in SUBSET ToSet(StreamRows) : Gather(rows)
    \/ AnswerFromCache \/ AnswerBlended \/ Degrade \/ NextCaller \/ ForgetShared

(***************************************************************************)
(* What the pipeline promises.                                             *)
(***************************************************************************)
\* A text that any document stream proposed carries a video id the gateway can
\* check, whichever variant of the text won the merge.
TitlesKeepTheirVideo ==
    asking.phase = "answered" =>
        \A i \in DOMAIN offered :
            (\E c \in ToSet(gathered) : c.text = offered[i].text /\ c.video # NoVideo)
                => offered[i].video # NoVideo

\* The reserved slots as documented: history and documents each keep at least one
\* suggestion when they have a candidate and there is room for both.
SlotsAreReserved ==
    (asking.phase = "answered" /\ asking.limit >= 2) =>
        \A source \in {"history", "doc"} :
            (\E c \in ToSet(Ranked(gathered)) : c.source = source)
                => \E i \in DOMAIN offered : offered[i].source = source
=============================================================================
