-------------------------------- MODULE Trending --------------------------------
(***************************************************************************)
(* The trending counters of one domain in Redis.  A bump is three round     *)
(* trips (the day's counters, the once-per-window guard, the score script), *)
(* each atomic, any of which may fail, and bumps of several ingests and of   *)
(* the engagement worker interleave with each other and with the sweep that  *)
(* decays the scores, gates the best items and writes the list.              *)
(***************************************************************************)
EXTENDS Integers, FiniteSets, FiniteSetsExt

CONSTANTS
  Items, Subjects, Bumpers,
  TrendWindowDays,  \* days a count stays in the window
  MinDistinct,      \* minimum_query_user_count
  WilsonPercent,    \* WilsonFloor, in percent
  TopK,             \* TrendingTopK
  MaxBumps, MaxDay, MaxExpiries

ASSUME TrendingAssumption ==
  /\ {TrendWindowDays, MinDistinct, TopK, MaxBumps, MaxDay, MaxExpiries} \subseteq Nat
  /\ WilsonPercent \in 0..100
  /\ IsFiniteSet(Subjects) /\ IsFiniteSet(Bumpers)
  /\ Items # {} /\ Subjects # {}

VARIABLES
  day,
  counted,    \* hll: the subjects seen, by item and day
  totals,     \* cnt: the contributions, by item and day
  guards,     \* the <<subject, item>> guards that stand
  lapses,     \* how often each guard has expired
  score,      \* trend: the increments of each item, by subject
  ranked,     \* the members of the sorted set
  bump,       \* the bumps under way, by bumper
  sweep,      \* the sweep under way
  listed      \* trend:top, the items of the cached list

trendVars == <<day, counted, totals, guards, lapses, score, ranked, bump, sweep, listed>>
-----------------------------------------------------------------------------
Days == 0..MaxDay

Keys == Subjects \X Items

NoBump == [phase |-> "idle", key |-> CHOOSE key \in Keys : TRUE]

NoSweep == [phase |-> "idle", todo |-> {}, item |-> CHOOSE item \in Items : TRUE,
            distinct |-> 0, gated |-> {}]

TrendInit ==
  /\ day = 0
  /\ counted = [item \in Items |-> [d \in Days |-> {}]]
  /\ totals = [item \in Items |-> [d \in Days |-> 0]]
  /\ guards = {}
  /\ lapses = [key \in Keys |-> 0]
  /\ score = [item \in Items |-> [s \in Subjects |-> 0]]
  /\ ranked = {}
  /\ bump = [b \in Bumpers |-> NoBump]
  /\ sweep = NoSweep
  /\ listed = {}

Cap(m, n) == IF m <= n THEN m ELSE n

SumOver(f, set) == MapThenSumSet(LAMBDA d : f[d], set)

\* dayKeys: today and the days before it
WindowDays == {d \in Days : d <= day /\ d > day - TrendWindowDays}

Bumped == MapThenSumSet(LAMBDA item : SumOver(totals[item], Days), Items)

\* TrendBump: the pipeline counts the contribution and its subject.
BumpCounters(b, key) ==
  /\ bump[b].phase = "idle"
  /\ Bumped < MaxBumps
  /\ totals' = [totals EXCEPT ![key[2]][day] = @ + 1]
  /\ counted' = [counted EXCEPT ![key[2]][day] = @ \cup {key[1]}]
  /\ bump' = [bump EXCEPT ![b] = [phase |-> "guard", key |-> key]]
  /\ UNCHANGED <<day, guards, lapses, score, ranked, sweep, listed>>

\* Mutation: the guard is looked up first and set with the score.
LookUpGuard(b) ==
  /\ bump[b].phase = "guard"
  /\ bump' = [bump EXCEPT ![b] =
       IF bump[b].key \in guards THEN NoBump ELSE [@ EXCEPT !.phase = "score"]]
  /\ UNCHANGED <<day, counted, totals, guards, lapses, score, ranked, sweep, listed>>

\* SETNX: the first of a window goes on to the score, the others are done.
TakeGuard(b) ==
  /\ bump[b].phase = "guard"
  /\ guards' = guards \cup {bump[b].key}
  /\ bump' = [bump EXCEPT ![b] =
       IF bump[b].key \in guards THEN NoBump ELSE [@ EXCEPT !.phase = "score"]]
  /\ UNCHANGED <<day, counted, totals, lapses, score, ranked, sweep, listed>>

\* trendBumpScript
BumpScore(b) ==
  LET subject == bump[b].key[1] item == bump[b].key[2]
  IN /\ bump[b].phase = "score"
     /\ score' = [score EXCEPT ![item][subject] = @ + 1]
     /\ ranked' = ranked \cup {item}
     /\ bump' = [bump EXCEPT ![b] = NoBump]
     /\ UNCHANGED <<day, counted, totals, guards, lapses, sweep, listed>>

\* A round trip fails or the process stops: what was written before it stays.
BumpFails(b) ==
  /\ bump[b].phase # "idle"
  /\ bump' = [bump EXCEPT ![b] = NoBump]
  /\ UNCHANGED <<day, counted, totals, guards, lapses, score, ranked, sweep, listed>>

GuardExpires(key) ==
  /\ key \in guards
  /\ lapses[key] < MaxExpiries
  /\ guards' = guards \ {key}
  /\ lapses' = [lapses EXCEPT ![key] = @ + 1]
  /\ UNCHANGED <<day, counted, totals, score, ranked, bump, sweep, listed>>

NextDay ==
  /\ day < MaxDay
  /\ day' = day + 1
  /\ UNCHANGED <<counted, totals, guards, lapses, score, ranked, bump, sweep, listed>>

ListExpires ==
  /\ listed # {}
  /\ listed' = {}
  /\ UNCHANGED <<day, counted, totals, guards, lapses, score, ranked, bump, sweep>>
-----------------------------------------------------------------------------
(* WilsonLowerBound(d, n, 1.96) >= f, solved for the counts: the score        *)
(* interval of d of n excludes the proportions below f.                       *)
WilsonClears(d, n) ==
  /\ n > 0 /\ d > 0
  /\ 100 * d >= WilsonPercent * n
  /\ 10000 * (100 * d - WilsonPercent * n) * (100 * d - WilsonPercent * n)
       >= 38416 * WilsonPercent * (100 - WilsonPercent) * n

\* Mutation: the confidence bound is the only gate.
GateWithoutFloor(distinct, total) == WilsonClears(distinct, total)

\* EvaluateGate
Gate(distinct, total) == distinct >= MinDistinct /\ WilsonClears(distinct, total)

\* TrendSweep drops the members that have decayed below the floor, and TrendTop
\* takes the best of the rest; the scores' decay is not modelled.
SweepAndTop ==
  /\ sweep.phase = "idle"
  /\ \E kept \in SUBSET ranked :
       /\ ranked' = kept
       /\ score' = [item \in Items |-> IF item \in kept THEN score[item]
                                       ELSE [s \in Subjects |-> 0]]
       /\ \E top \in SUBSET kept :
            /\ Cardinality(top) = Cap(Cardinality(kept), TopK)
            /\ sweep' = [NoSweep EXCEPT !.phase = "distinct", !.todo = top]
  /\ UNCHANGED <<day, counted, totals, guards, lapses, bump, listed>>

\* TrendDistinctUsers
SweepDistinct ==
  \E item \in sweep.todo :
    /\ sweep.phase = "distinct"
    /\ sweep' = [sweep EXCEPT !.phase = "total", !.item = item, !.todo = @ \ {item},
           !.distinct = Cardinality(UNION {counted[item][d] : d \in WindowDays})]
    /\ UNCHANGED <<day, counted, totals, guards, lapses, score, ranked, bump, listed>>

\* TrendTotal and EvaluateGate
SweepTotal ==
  LET item == sweep.item
  IN /\ sweep.phase = "total"
     /\ sweep' = [sweep EXCEPT !.phase = "distinct",
          !.gated = IF Gate(sweep.distinct, SumOver(totals[item], WindowDays))
                    THEN @ \cup {item} ELSE @]
     /\ UNCHANGED <<day, counted, totals, guards, lapses, score, ranked, bump, listed>>

\* WriteTrendingList replaces the list, with an empty one too.
SweepWrite ==
  /\ sweep.phase = "distinct" /\ sweep.todo = {}
  /\ listed' = sweep.gated
  /\ sweep' = NoSweep
  /\ UNCHANGED <<day, counted, totals, guards, lapses, score, ranked, bump>>

\* A failed read ends the sweep; the list stays as it is until it expires.
SweepFails ==
  /\ sweep.phase # "idle"
  /\ sweep' = NoSweep
  /\ UNCHANGED <<day, counted, totals, guards, lapses, score, ranked, bump, listed>>

TrendNext ==
  \/ \E b \in Bumpers :
       \/ \E key \in Keys : BumpCounters(b, key)
       \/ TakeGuard(b) \/ BumpScore(b) \/ BumpFails(b)
  \/ \E key \in Keys : GuardExpires(key)
  \/ NextDay \/ ListExpires
  \/ SweepAndTop \/ SweepDistinct \/ SweepTotal \/ SweepWrite \/ SweepFails

TrendSpec == TrendInit /\ [][TrendNext]_trendVars
-----------------------------------------------------------------------------
(* A subject counts towards an item's rank at most once per guard, however    *)
(* many bumps race and whichever of them fail (cache/trending.go:78-83).      *)
OneContributionPerGuard ==
  \A key \in Keys : score[key[2]][key[1]] <= 1 + lapses[key]

(* A listed item was contributed to by enough distinct subjects: bumps of one *)
(* subject list nothing, however the sweep's reads interleave with bumps.     *)
ListedHadTheFloor ==
  \A item \in listed : Cardinality(UNION {counted[item][d] : d \in Days}) >= MinDistinct
=============================================================================
