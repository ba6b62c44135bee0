----------------------------- MODULE WorkerProofs -----------------------------
(***************************************************************************)
(* Proofs about the worker's jobs, for any events, items, people and       *)
(* interleaving, whatever fails, expires or is deleted.  Trending: a bump  *)
(* on its way to the score has spent a guard nobody else can spend, and    *)
(* the subjects seen only grow.  Covisitation: a row once committed keeps  *)
(* its event, so whoever was behind a pair when it was computed is still   *)
(* among those who ever were when it is served.  EngagementRollup: the     *)
(* rows of an open pass are the ones it derived, and a weight is a list of *)
(* different committed rows.  Sessionizer: what a pass listed is still all *)
(* there is to judge when it commits, and the commit writes a verdict for  *)
(* every search of the list that nothing answered.                         *)
(***************************************************************************)
EXTENDS Trending, Covisitation, EngagementRollup, Sessionizer, FoldLemmas,
        FiniteSetTheorems, TLAPS

Bumps == [phase : {"idle", "guard", "score"}, key : Keys]

Sweeps == [phase : {"idle", "distinct", "total"}, todo : SUBSET Items, item : Items,
           distinct : Nat, gated : SUBSET Items]

TrendTypeOK ==
  /\ day \in Days
  /\ counted \in [Items -> [Days -> SUBSET Subjects]]
  /\ guards \subseteq Keys
  /\ lapses \in [Keys -> Nat]
  /\ score \in [Items -> [Subjects -> Nat]]
  /\ ranked \subseteq Items
  /\ bump \in [Bumpers -> Bumps]
  /\ sweep \in Sweeps
  /\ listed \subseteq Items

\* The bumps that have taken the guard of a key and not yet scored it.
Scoring(key) == {b \in Bumpers : bump[b].phase = "score" /\ bump[b].key = key}

\* What was scored, and what is about to be, was paid for by a guard.
GuardsAreSpent ==
  \A key \in Keys :
    score[key[2]][key[1]] + Cardinality(Scoring(key))
      =< lapses[key] + (IF key \in guards THEN 1 ELSE 0)

\* The subjects ever seen to contribute to an item.
SeenOf(item) == UNION {counted[item][d] : d \in Days}

\* The sweep counts no more subjects than were seen, and gates on that count.
SweepSawThem ==
  /\ sweep.phase = "total" => sweep.distinct =< Cardinality(SeenOf(sweep.item))
  /\ \A item \in sweep.gated \cup listed : Cardinality(SeenOf(item)) >= MinDistinct

TrendInv == TrendTypeOK /\ GuardsAreSpent /\ SweepSawThem
-----------------------------------------------------------------------------
(* A key names a subject and an item, and some key exists (Keys, NoBump).    *)
LEMMA KeysAreThere ==
  /\ (CHOOSE key \in Keys : TRUE) \in Keys
  /\ (CHOOSE item \in Items : TRUE) \in Items
  /\ \A key \in Keys : key[1] \in Subjects /\ key[2] \in Items
  /\ NoBump \in Bumps /\ NoSweep \in Sweeps
<1>1. PICK item \in Items : TRUE
  BY TrendingAssumption
<1>2. PICK subject \in Subjects : TRUE
  BY TrendingAssumption
<1>3. <<subject, item>> \in Keys
  BY DEF Keys
<1>4. (CHOOSE key \in Keys : TRUE) \in Keys
  BY <1>3
<1>5. (CHOOSE i \in Items : TRUE) \in Items
  BY <1>1
<1>6. \A key \in Keys : key[1] \in Subjects /\ key[2] \in Items
  BY DEF Keys
<1>7. NoBump \in Bumps /\ NoSweep \in Sweeps
  BY <1>4, <1>5 DEF NoBump, NoSweep, Bumps, Sweeps
<1> QED BY <1>4, <1>5, <1>6, <1>7

(* The subjects seen of an item are finitely many, those of any days are     *)
(* among them, and they stay seen while the counters only grow.              *)
LEMMA SeenGrows ==
  ASSUME TrendTypeOK, TrendTypeOK', NEW item \in Items,
         \A d \in Days : counted[item][d] \subseteq counted'[item][d]
  PROVE  /\ IsFiniteSet(SeenOf(item)) /\ Cardinality(SeenOf(item)) \in Nat
         /\ Cardinality(SeenOf(item)') \in Nat
         /\ Cardinality(SeenOf(item)) =< Cardinality(SeenOf(item)')
<1>1. SeenOf(item) \subseteq SeenOf(item)'
  BY DEF SeenOf
<1>2. SeenOf(item) \subseteq Subjects
  BY DEF SeenOf, TrendTypeOK
<1>3. SeenOf(item)' \subseteq Subjects
  BY DEF SeenOf, TrendTypeOK
<1>4. IsFiniteSet(Subjects)
  BY TrendingAssumption
<1>5. IsFiniteSet(SeenOf(item)) /\ IsFiniteSet(SeenOf(item)')
  BY <1>2, <1>3, <1>4, FS_Subset
<1>6. Cardinality(SeenOf(item)) =< Cardinality(SeenOf(item)')
  BY <1>1, <1>5, FS_Subset
<1> QED BY <1>5, <1>6, FS_CardinalityType

(* The days of the window have seen no more subjects than all days           *)
(* (SweepDistinct).                                                          *)
LEMMA WindowSawFewer ==
  ASSUME TrendTypeOK, NEW item \in Items
  PROVE  LET seen == UNION {counted[item][d] : d \in WindowDays}
         IN Cardinality(seen) \in Nat /\ Cardinality(seen) =< Cardinality(SeenOf(item))
<1> DEFINE seen == UNION {counted[item][d] : d \in WindowDays}
<1>1. seen \subseteq SeenOf(item)
  BY DEF SeenOf, WindowDays
<1>2. SeenOf(item) \subseteq Subjects
  BY DEF SeenOf, TrendTypeOK
<1>3. IsFiniteSet(SeenOf(item))
  BY <1>2, FS_Subset, TrendingAssumption
<1> HIDE DEF seen
<1>4. IsFiniteSet(seen) /\ Cardinality(seen) =< Cardinality(SeenOf(item))
  BY <1>1, <1>3, FS_Subset
<1>5. Cardinality(seen) \in Nat
  BY <1>4, FS_CardinalityType
<1> QED BY <1>4, <1>5 DEF seen

(* Moving one bumper moves it in or out of those about to score a key.       *)
LEMMA ScoringMoves ==
  ASSUME TrendTypeOK, NEW b \in Bumpers, NEW r \in Bumps,
         bump' = [bump EXCEPT ![b] = r], NEW key \in Keys
  PROVE  /\ Cardinality(Scoring(key)) \in Nat
         /\ Cardinality(Scoring(key)') \in Nat
         /\ Cardinality(Scoring(key)') =< Cardinality(Scoring(key)) + 1
         /\ ~(r.phase = "score" /\ r.key = key) =>
              Cardinality(Scoring(key)') =
                IF b \in Scoring(key) THEN Cardinality(Scoring(key)) - 1
                ELSE Cardinality(Scoring(key))
<1>1. bump'[b] = r /\ \A c \in Bumpers \ {b} : bump'[c] = bump[c]
  BY DEF TrendTypeOK
<1>2. IsFiniteSet(Scoring(key))
  BY FS_Subset, TrendingAssumption DEF Scoring
<1>3. Cardinality(Scoring(key)) \in Nat
  BY <1>2, FS_CardinalityType
<1>4. CASE r.phase = "score" /\ r.key = key
  <2>1. Scoring(key)' = Scoring(key) \cup {b}
    BY <1>1, <1>4 DEF Scoring
  <2>2. /\ IsFiniteSet(Scoring(key) \cup {b})
        /\ Cardinality(Scoring(key) \cup {b}) =
             IF b \in Scoring(key) THEN Cardinality(Scoring(key))
             ELSE Cardinality(Scoring(key)) + 1
    BY <1>2, FS_AddElement
  <2> QED BY <1>3, <1>4, <2>1, <2>2
<1>5. CASE ~(r.phase = "score" /\ r.key = key)
  <2>1. Scoring(key)' = Scoring(key) \ {b}
    BY <1>1, <1>5 DEF Scoring
  <2>2. /\ IsFiniteSet(Scoring(key) \ {b})
        /\ Cardinality(Scoring(key) \ {b}) =
             IF b \in Scoring(key) THEN Cardinality(Scoring(key)) - 1
             ELSE Cardinality(Scoring(key))
    BY <1>2, FS_RemoveElement
  <2>3. Cardinality(Scoring(key) \ {b}) \in Nat
    BY <2>2, FS_CardinalityType
  <2> QED BY <1>3, <1>5, <2>1, <2>2, <2>3
<1> QED BY <1>4, <1>5

(* A step that keeps the counters and the guards of keys, and lowers scores  *)
(* if it changes them, changes nothing of what the guards paid for.          *)
LEMMA MovesOfOneBumper ==
  ASSUME TrendInv, NEW b \in Bumpers, NEW r \in Bumps,
         bump' = [bump EXCEPT ![b] = r],
         r.phase # "score",
         bump[b].phase # "score",
         UNCHANGED <<score, lapses, guards>>
  PROVE  GuardsAreSpent'
<1> SUFFICES ASSUME NEW key \in Keys
             PROVE  (score[key[2]][key[1]] + Cardinality(Scoring(key))
                       =< lapses[key] + (IF key \in guards THEN 1 ELSE 0))'
  BY DEF GuardsAreSpent
<1>1. TrendTypeOK
  BY DEF TrendInv
<1>2. b \notin Scoring(key)
  BY DEF Scoring
<1>3. Cardinality(Scoring(key)') = Cardinality(Scoring(key))
  BY <1>1, <1>2, ScoringMoves
<1> QED BY <1>3 DEF TrendInv, GuardsAreSpent

(* Every step keeps the variables in their types (TrendNext).                *)
LEMMA TrendTypeStep ==
  ASSUME TrendTypeOK, [TrendNext]_trendVars PROVE TrendTypeOK'
<1> USE DEF TrendTypeOK
<1>1. CASE \E b \in Bumpers, key \in Keys : BumpCounters(b, key)
  <2>1. PICK b \in Bumpers, key \in Keys : BumpCounters(b, key)
    BY <1>1
  <2>2. key[1] \in Subjects /\ key[2] \in Items
    BY KeysAreThere
  <2>3. [phase |-> "guard", key |-> key] \in Bumps
    BY DEF Bumps
  <2>4. bump' \in [Bumpers -> Bumps]
    BY <2>1, <2>3 DEF BumpCounters
  <2>5. counted' \in [Items -> [Days -> SUBSET Subjects]]
    BY <2>1, <2>2 DEF BumpCounters
  <2> QED BY <2>1, <2>4, <2>5 DEF BumpCounters
<1>2. CASE \E b \in Bumpers : TakeGuard(b)
  <2>1. PICK b \in Bumpers : TakeGuard(b)
    BY <1>2
  <2>2. bump[b] \in Bumps /\ [bump[b] EXCEPT !.phase = "score"] \in Bumps /\ NoBump \in Bumps
    BY KeysAreThere DEF Bumps
  <2>3. bump' \in [Bumpers -> Bumps]
    BY <2>1, <2>2 DEF TakeGuard
  <2>4. guards' \subseteq Keys
    BY <2>1, <2>2 DEF TakeGuard, Bumps
  <2> QED BY <2>1, <2>3, <2>4 DEF TakeGuard
<1>3. CASE \E b \in Bumpers : BumpScore(b)
  <2>1. PICK b \in Bumpers : BumpScore(b)
    BY <1>3
  <2>2. bump[b].key \in Keys /\ NoBump \in Bumps
    BY KeysAreThere DEF Bumps
  <2>3. bump[b].key[1] \in Subjects /\ bump[b].key[2] \in Items
    BY <2>2, KeysAreThere
  <2>4. score' \in [Items -> [Subjects -> Nat]]
    BY <2>1, <2>3 DEF BumpScore
  <2>5. bump' \in [Bumpers -> Bumps] /\ ranked' \subseteq Items
    BY <2>1, <2>2, <2>3 DEF BumpScore
  <2> QED BY <2>1, <2>4, <2>5 DEF BumpScore
<1>4. CASE \E b \in Bumpers : BumpFails(b)
  BY <1>4, KeysAreThere DEF BumpFails
<1>5. CASE \E key \in Keys : GuardExpires(key)
  BY <1>5 DEF GuardExpires
<1>6. CASE NextDay
  BY <1>6, TrendingAssumption DEF NextDay, Days
<1>7. CASE ListExpires
  BY <1>7 DEF ListExpires
<1>8. CASE SweepAndTop
  <2>1. PICK kept \in SUBSET ranked :
          /\ ranked' = kept
          /\ score' = [item \in Items |-> IF item \in kept THEN score[item]
                                          ELSE [s \in Subjects |-> 0]]
          /\ \E top \in SUBSET kept :
               sweep' = [NoSweep EXCEPT !.phase = "distinct", !.todo = top]
    BY <1>8 DEF SweepAndTop
  <2>5. PICK top \in SUBSET kept :
          sweep' = [NoSweep EXCEPT !.phase = "distinct", !.todo = top]
    BY <2>1
  <2>6. NoSweep \in Sweeps
    BY KeysAreThere
  <2>2. score' \in [Items -> [Subjects -> Nat]]
    BY <2>1
  <2>3. sweep' \in Sweeps
    BY <2>1, <2>5, <2>6 DEF Sweeps
  <2> QED BY <1>8, <2>1, <2>2, <2>3 DEF SweepAndTop
<1>9. CASE SweepDistinct
  <2>1. PICK item \in sweep.todo :
          sweep' = [sweep EXCEPT !.phase = "total", !.item = item, !.todo = @ \ {item},
                      !.distinct = Cardinality(UNION {counted[item][d] : d \in WindowDays})]
    BY <1>9 DEF SweepDistinct
  <2>2. item \in Items
    BY <2>1 DEF Sweeps
  <2>3. Cardinality(UNION {counted[item][d] : d \in WindowDays}) \in Nat
    BY <2>2, WindowSawFewer
  <2>4. sweep' \in Sweeps
    BY <2>1, <2>2, <2>3 DEF Sweeps
  <2> QED BY <1>9, <2>4 DEF SweepDistinct
<1>10. CASE SweepTotal
  <2>1. sweep' \in Sweeps
    BY <1>10 DEF SweepTotal, Sweeps
  <2> QED BY <1>10, <2>1 DEF SweepTotal
<1>11. CASE SweepWrite
  <2>1. listed' \subseteq Items
    BY <1>11 DEF SweepWrite, Sweeps
  <2> QED BY <1>11, <2>1, KeysAreThere DEF SweepWrite
<1>12. CASE SweepFails
  BY <1>12, KeysAreThere DEF SweepFails
<1>13. CASE UNCHANGED trendVars
  BY <1>13 DEF trendVars
<1> QED BY <1>1, <1>2, <1>3, <1>4, <1>5, <1>6, <1>7, <1>8, <1>9, <1>10, <1>11, <1>12, <1>13
        DEF TrendNext

(* Every score was paid for by a guard, whichever step is next: the guard is *)
(* taken and the way to the score opened in one atomic step (TakeGuard).     *)
LEMMA GuardsStep ==
  ASSUME TrendInv, [TrendNext]_trendVars PROVE GuardsAreSpent'
<1>1. TrendTypeOK /\ GuardsAreSpent
  BY DEF TrendInv
<1>2. NoBump \in Bumps /\ NoBump.phase = "idle"
  BY KeysAreThere DEF NoBump
<1>3. CASE \E b \in Bumpers, key \in Keys : BumpCounters(b, key)
  <2>1. PICK b \in Bumpers, key \in Keys : BumpCounters(b, key)
    BY <1>3
  <2>2. [phase |-> "guard", key |-> key] \in Bumps
    BY DEF Bumps
  <2> QED BY <2>1, <2>2, MovesOfOneBumper DEF BumpCounters
<1>4. CASE \E b \in Bumpers : TakeGuard(b)
  <2>1. PICK b \in Bumpers : TakeGuard(b)
    BY <1>4
  <2>2. CASE bump[b].key \in guards
    <3>1. bump' = [bump EXCEPT ![b] = NoBump] /\ guards' = guards
      BY <2>1, <2>2 DEF TakeGuard
    <3> QED BY <1>2, <2>1, <3>1, MovesOfOneBumper DEF TakeGuard
  <2>3. CASE bump[b].key \notin guards
    <3> DEFINE r == [bump[b] EXCEPT !.phase = "score"]
    <3>1. r \in Bumps /\ r.phase = "score" /\ r.key = bump[b].key /\ bump[b].key \in Keys
      BY <1>1 DEF TrendTypeOK, Bumps
    <3>2. bump' = [bump EXCEPT ![b] = r]
      BY <1>1, <2>1, <2>3 DEF TakeGuard, TrendTypeOK
    <3>3. guards' = guards \cup {bump[b].key} /\ UNCHANGED <<score, lapses>>
      BY <2>1 DEF TakeGuard
    <3> HIDE DEF r
    <3>4. SUFFICES ASSUME NEW key \in Keys
                   PROVE  (score[key[2]][key[1]] + Cardinality(Scoring(key))
                             =< lapses[key] + (IF key \in guards THEN 1 ELSE 0))'
      BY DEF GuardsAreSpent
    <3>5. /\ score[key[2]][key[1]] + Cardinality(Scoring(key))
               =< lapses[key] + (IF key \in guards THEN 1 ELSE 0)
          /\ score[key[2]][key[1]] \in Nat /\ lapses[key] \in Nat
      BY <1>1, KeysAreThere DEF GuardsAreSpent, TrendTypeOK
    <3>6. b \notin Scoring(key)
      BY <2>1 DEF Scoring, TakeGuard
    <3>7. CASE key = bump[b].key
      <4>1. Cardinality(Scoring(key)) \in Nat /\ Cardinality(Scoring(key)') \in Nat
            /\ Cardinality(Scoring(key)') =< Cardinality(Scoring(key)) + 1
        BY <1>1, <3>1, <3>2, ScoringMoves
      <4> QED BY <2>3, <3>3, <3>5, <3>7, <4>1
    <3>8. CASE key # bump[b].key
      <4>1. Cardinality(Scoring(key)') = Cardinality(Scoring(key))
        BY <1>1, <3>1, <3>2, <3>6, <3>8, ScoringMoves
      <4> QED BY <3>3, <3>5, <3>8, <4>1
    <3> QED BY <3>7, <3>8
  <2> QED BY <2>2, <2>3
<1>5. CASE \E b \in Bumpers : BumpScore(b) \/ BumpFails(b)
  <2>1. PICK b \in Bumpers : BumpScore(b) \/ BumpFails(b)
    BY <1>5
  <2>2. bump' = [bump EXCEPT ![b] = NoBump] /\ UNCHANGED <<guards, lapses>>
    BY <2>1 DEF BumpScore, BumpFails
  <2>3. SUFFICES ASSUME NEW key \in Keys
                 PROVE  (score[key[2]][key[1]] + Cardinality(Scoring(key))
                           =< lapses[key] + (IF key \in guards THEN 1 ELSE 0))'
    BY DEF GuardsAreSpent
  <2>4. /\ score[key[2]][key[1]] + Cardinality(Scoring(key))
             =< lapses[key] + (IF key \in guards THEN 1 ELSE 0)
        /\ score[key[2]][key[1]] \in Nat /\ lapses[key] \in Nat
    BY <1>1, KeysAreThere DEF GuardsAreSpent, TrendTypeOK
  <2>5. /\ Cardinality(Scoring(key)) \in Nat
        /\ Cardinality(Scoring(key)') =
             IF b \in Scoring(key) THEN Cardinality(Scoring(key)) - 1
             ELSE Cardinality(Scoring(key))
    BY <1>1, <1>2, <2>2, ScoringMoves
  <2>6. score'[key[2]][key[1]] =
          IF BumpScore(b) /\ key = bump[b].key THEN score[key[2]][key[1]] + 1
          ELSE score[key[2]][key[1]]
    <3>1. bump[b].key \in Keys
      BY <1>1 DEF TrendTypeOK, Bumps
    <3>2. /\ key[1] \in Subjects /\ key[2] \in Items
          /\ bump[b].key[1] \in Subjects /\ bump[b].key[2] \in Items
          /\ key = bump[b].key <=> key[1] = bump[b].key[1] /\ key[2] = bump[b].key[2]
      BY <3>1 DEF Keys
    <3>3. CASE BumpScore(b)
      <4>1. score' = [score EXCEPT ![bump[b].key[2]][bump[b].key[1]] = @ + 1]
        BY <3>3 DEF BumpScore
      <4> QED BY <1>1, <3>2, <3>3, <4>1 DEF TrendTypeOK
    <3>4. CASE ~BumpScore(b)
      BY <2>1, <3>4 DEF BumpFails
    <3> QED BY <3>3, <3>4
  <2>7. BumpScore(b) /\ key = bump[b].key => b \in Scoring(key)
    BY DEF BumpScore, Scoring
  <2> QED BY <2>2, <2>4, <2>5, <2>6, <2>7
<1>6. CASE \E key \in Keys : GuardExpires(key)
  <2>1. PICK k \in Keys : GuardExpires(k)
    BY <1>6
  <2>2. /\ guards' = guards \ {k} /\ lapses' = [lapses EXCEPT ![k] = @ + 1]
        /\ k \in guards /\ UNCHANGED <<score, bump>>
    BY <2>1 DEF GuardExpires
  <2>3. SUFFICES ASSUME NEW key \in Keys
                 PROVE  (score[key[2]][key[1]] + Cardinality(Scoring(key))
                           =< lapses[key] + (IF key \in guards THEN 1 ELSE 0))'
    BY DEF GuardsAreSpent
  <2>4. Scoring(key)' = Scoring(key)
    BY <2>2 DEF Scoring
  <2>5. lapses'[key] + (IF key \in guards' THEN 1 ELSE 0)
          = lapses[key] + (IF key \in guards THEN 1 ELSE 0)
    BY <1>1, <2>2 DEF TrendTypeOK
  <2> QED BY <1>1, <2>2, <2>4, <2>5 DEF GuardsAreSpent
<1>7. CASE SweepAndTop
  <2>1. PICK kept \in SUBSET ranked :
          score' = [item \in Items |-> IF item \in kept THEN score[item]
                                       ELSE [s \in Subjects |-> 0]]
    BY <1>7 DEF SweepAndTop
  <2>2. SUFFICES ASSUME NEW key \in Keys
                 PROVE  (score[key[2]][key[1]] + Cardinality(Scoring(key))
                           =< lapses[key] + (IF key \in guards THEN 1 ELSE 0))'
    BY DEF GuardsAreSpent
  <2>3. Scoring(key)' = Scoring(key) /\ UNCHANGED <<guards, lapses>>
    BY <1>7 DEF SweepAndTop, Scoring
  <2>4. /\ score[key[2]][key[1]] + Cardinality(Scoring(key))
             =< lapses[key] + (IF key \in guards THEN 1 ELSE 0)
        /\ score[key[2]][key[1]] \in Nat /\ lapses[key] \in Nat
    BY <1>1, KeysAreThere DEF GuardsAreSpent, TrendTypeOK
  <2>5. score'[key[2]][key[1]] \in {0, score[key[2]][key[1]]}
    BY <2>1, KeysAreThere
  <2>6. Cardinality(Scoring(key)) \in Nat
    <3>1. IsFiniteSet(Scoring(key))
      BY FS_Subset, TrendingAssumption DEF Scoring
    <3> QED BY <3>1, FS_CardinalityType
  <2> QED BY <2>3, <2>4, <2>5, <2>6
<1>8. CASE UNCHANGED <<guards, lapses, score, bump>>
  BY <1>1, <1>8 DEF GuardsAreSpent, Scoring
<1> QED BY <1>3, <1>4, <1>5, <1>6, <1>7, <1>8
        DEF TrendNext, NextDay, ListExpires, SweepDistinct, SweepTotal, SweepWrite,
            SweepFails, trendVars

(* The sweep counts what was seen, and only what it counted is listed: bumps *)
(* between its reads can only add to what was seen (SweepTotal, SweepWrite). *)
LEMMA SweepStep ==
  ASSUME TrendInv, TrendTypeOK', [TrendNext]_trendVars PROVE SweepSawThem'
<1>1. TrendTypeOK /\ SweepSawThem /\ MinDistinct \in Nat
  BY TrendingAssumption DEF TrendInv
<1>2. \A item \in Items, d \in Days : counted[item][d] \subseteq counted'[item][d]
  <2>1. CASE \E b \in Bumpers, key \in Keys : BumpCounters(b, key)
    BY <1>1, <2>1, KeysAreThere DEF BumpCounters, TrendTypeOK
  <2>2. CASE UNCHANGED counted
    BY <2>2
  <2> QED BY <2>1, <2>2
          DEF TrendNext, TakeGuard, BumpScore, BumpFails, GuardExpires, NextDay, ListExpires,
              SweepAndTop, SweepDistinct, SweepTotal, SweepWrite, SweepFails, trendVars
<1>3. \A item \in Items :
        /\ Cardinality(SeenOf(item)) \in Nat /\ Cardinality(SeenOf(item)') \in Nat
        /\ Cardinality(SeenOf(item)) =< Cardinality(SeenOf(item)')
  BY <1>1, <1>2, SeenGrows
<1>4. sweep \in Sweeps /\ listed \subseteq Items /\ NoSweep.phase = "idle" /\ NoSweep.gated = {}
  BY <1>1 DEF TrendTypeOK, NoSweep
<1>5. CASE SweepDistinct
  <2>1. PICK item \in sweep.todo :
          /\ sweep' = [sweep EXCEPT !.phase = "total", !.item = item, !.todo = @ \ {item},
                         !.distinct = Cardinality(UNION {counted[item][d] : d \in WindowDays})]
          /\ UNCHANGED <<counted, listed>>
    BY <1>5 DEF SweepDistinct
  <2>2. item \in Items
    BY <1>4, <2>1 DEF Sweeps
  <2>3. Cardinality(UNION {counted[item][d] : d \in WindowDays}) =< Cardinality(SeenOf(item))
    BY <1>1, <2>2, WindowSawFewer
  <2>4. /\ sweep'.item = item /\ sweep'.gated = sweep.gated
        /\ sweep'.distinct = Cardinality(UNION {counted[item][d] : d \in WindowDays})
    BY <1>4, <2>1 DEF Sweeps
  <2>5. \A i : SeenOf(i)' = SeenOf(i)
    BY <2>1 DEF SeenOf
  <2> QED BY <1>1, <2>1, <2>3, <2>4, <2>5 DEF SweepSawThem
<1>6. CASE SweepTotal
  <2>1. /\ sweep.phase = "total" /\ sweep.item \in Items /\ sweep.distinct \in Nat
        /\ sweep'.phase = "distinct" /\ UNCHANGED <<counted, listed>>
        /\ sweep'.gated \subseteq sweep.gated \cup {sweep.item}
        /\ sweep.item \in sweep'.gated \ sweep.gated => sweep.distinct >= MinDistinct
    BY <1>4, <1>6 DEF SweepTotal, Gate, Sweeps
  <2>2. sweep.distinct =< Cardinality(SeenOf(sweep.item)) /\ Cardinality(SeenOf(sweep.item)) \in Nat
    BY <1>1, <1>3, <2>1 DEF SweepSawThem
  <2>3. \A i : SeenOf(i)' = SeenOf(i)
    BY <2>1 DEF SeenOf
  <2> QED BY <1>1, <2>1, <2>2, <2>3 DEF SweepSawThem
<1>7. CASE sweep' = NoSweep /\ listed' \subseteq sweep.gated \cup listed /\ UNCHANGED counted
  <2>1. \A i : SeenOf(i)' = SeenOf(i)
    BY <1>7 DEF SeenOf
  <2> QED BY <1>1, <1>4, <1>7, <2>1 DEF SweepSawThem
<1>8. CASE SweepAndTop
  <2>1. sweep'.phase = "distinct" /\ sweep'.gated = {} /\ UNCHANGED <<counted, listed>>
    BY <1>8 DEF SweepAndTop, NoSweep
  <2>2. \A i : SeenOf(i)' = SeenOf(i)
    BY <2>1 DEF SeenOf
  <2> QED BY <1>1, <2>1, <2>2 DEF SweepSawThem
<1>9. CASE UNCHANGED sweep /\ listed' \subseteq listed
  <2>1. sweep.phase = "total" => sweep.item \in Items /\ sweep.distinct \in Nat
    BY <1>4 DEF Sweeps
  <2>2. \A item \in sweep.gated \cup listed : item \in Items
    BY <1>4 DEF Sweeps
  <2>3. ASSUME NEW item \in Items, sweep.phase = "total", item = sweep.item
        PROVE  sweep.distinct =< Cardinality(SeenOf(item)')
    <3>1. sweep.distinct =< Cardinality(SeenOf(item))
      BY <1>1, <2>3 DEF SweepSawThem
    <3> QED BY <1>3, <2>1, <2>3, <3>1
  <2>4. \A item \in sweep.gated \cup listed : Cardinality(SeenOf(item)') >= MinDistinct
    BY <1>1, <1>3, <2>2 DEF SweepSawThem
  <2>5. (sweep.phase = "total" => sweep.distinct =< Cardinality(SeenOf(sweep.item)))'
    BY <1>9, <2>1, <2>3 DEF SeenOf
  <2> QED BY <1>9, <2>4, <2>5 DEF SweepSawThem, SeenOf
<1> QED BY <1>5, <1>6, <1>7, <1>8, <1>9
        DEF TrendNext, BumpCounters, TakeGuard, BumpScore, BumpFails, GuardExpires, NextDay,
            ListExpires, SweepWrite, SweepFails, trendVars
-----------------------------------------------------------------------------
(* The invariant holds of every behaviour of the counters (TrendSpec).       *)
THEOREM TrendInvariant == TrendSpec => []TrendInv
<1>1. TrendInit => TrendInv
  <2> SUFFICES ASSUME TrendInit PROVE TrendInv
    OBVIOUS
  <2>1. TrendTypeOK
    BY KeysAreThere, TrendingAssumption DEF TrendInit, TrendTypeOK, Days
  <2>2. GuardsAreSpent
    <3>1. \A key \in Keys : Scoring(key) = {}
      BY DEF TrendInit, Scoring, NoBump
    <3>2. Cardinality({}) = 0
      BY FS_EmptySet
    <3>3. \A key \in Keys : score[key[2]][key[1]] = 0 /\ lapses[key] = 0
      BY KeysAreThere DEF TrendInit
    <3>4. guards = {}
      BY DEF TrendInit
    <3>5. ASSUME NEW key \in Keys
          PROVE  score[key[2]][key[1]] + Cardinality(Scoring(key))
                   =< lapses[key] + (IF key \in guards THEN 1 ELSE 0)
      <4>1. Cardinality(Scoring(key)) = 0
        BY <3>1, <3>2
      <4>2. score[key[2]][key[1]] = 0 /\ lapses[key] = 0 /\ key \notin guards
        BY <3>3, <3>4
      <4> QED BY <4>1, <4>2
    <3> QED BY <3>5 DEF GuardsAreSpent
  <2>3. SweepSawThem
    BY DEF TrendInit, SweepSawThem, NoSweep
  <2> QED BY <2>1, <2>2, <2>3 DEF TrendInv
<1>2. TrendInv /\ [TrendNext]_trendVars => TrendInv'
  BY TrendTypeStep, GuardsStep, SweepStep DEF TrendInv
<1> QED BY <1>1, <1>2, PTL DEF TrendSpec

(* However many bumps race, fail or outlive their guard, a subject adds to   *)
(* an item's rank at most once per guard (TrendBump).                        *)
THEOREM SubjectsCountOnce == TrendSpec => []OneContributionPerGuard
<1>1. TrendInv => OneContributionPerGuard
  <2> SUFFICES ASSUME TrendInv, NEW key \in Keys
               PROVE  score[key[2]][key[1]] <= 1 + lapses[key]
    BY DEF OneContributionPerGuard
  <2>1. IsFiniteSet(Scoring(key))
    BY FS_Subset, TrendingAssumption DEF Scoring
  <2>2. Cardinality(Scoring(key)) \in Nat
    BY <2>1, FS_CardinalityType
  <2>3. score[key[2]][key[1]] \in Nat /\ lapses[key] \in Nat
    BY KeysAreThere DEF TrendInv, TrendTypeOK
  <2> QED BY <2>2, <2>3 DEF TrendInv, GuardsAreSpent
<1> QED BY <1>1, TrendInvariant, PTL

(* What is listed was contributed to by enough distinct subjects, however    *)
(* the sweep's reads interleave with bumps and its days pass (TrendSweep).   *)
THEOREM ListKeepsTheFloor == TrendSpec => []ListedHadTheFloor
<1>1. TrendInv => ListedHadTheFloor
  BY DEF TrendInv, SweepSawThem, SeenOf, ListedHadTheFloor
<1> QED BY <1>1, TrendInvariant, PTL
-----------------------------------------------------------------------------
LedgerRows == [event : Events, status : RowStatuses]

EventVideos == {e.video : e \in Events}

Passes == [phase : {"idle", "commit"}, edges : SUBSET (EventVideos \X EventVideos),
           rollbacks : Nat]

HadTheFloor(edges) ==
  \A edge \in edges :
    \E source \in Sources :
      SubjectsBehind(source, EverCommitted, {edge[1], edge[2]}) >= MinSubjects

\* What is served, and what is about to be, had the floor behind it.
CovisInv ==
  /\ ledger \in Seq(LedgerRows)
  /\ covis \in Passes
  /\ HadTheFloor(neighbors \cup covis.edges)

\* The people behind a set of anchors.
People(anchors) ==
    Cardinality({e.user : e \in {a \in anchors : a.user # None}})
  + Cardinality({PseudonymOf(e) : e \in {a \in anchors : a.user = None}})

\* The image of a finite set is finite.
LEMMA ImageIsFinite ==
  ASSUME NEW S, IsFiniteSet(S), NEW f, DOMAIN f = S, f = [x \in S |-> f[x]]
  PROVE  IsFiniteSet({f[x] : x \in S})
<1> DEFINE T == {f[x] : x \in S}
<1>1. f \in Surjection(S, T)
  BY DEF Surjection
<1> QED BY <1>1, FS_Surjection

\* More anchors, no fewer people (PseudonymOf, SubjectsBehind).
LEMMA MorePeople ==
  ASSUME NEW few, NEW many, few \subseteq many, IsFiniteSet(many)
  PROVE  People(few) \in Nat /\ People(many) \in Nat /\ People(few) =< People(many)
<1> DEFINE Users(set) == {e.user : e \in {a \in set : a.user # None}}
           Others(set) == {PseudonymOf(e) : e \in {a \in set : a.user = None}}
<1>1. IsFiniteSet(Users(many)) /\ IsFiniteSet(Others(many))
  <2>1. IsFiniteSet({a \in many : a.user # None}) /\ IsFiniteSet({a \in many : a.user = None})
    BY FS_Subset
  <2> DEFINE named == {a \in many : a.user # None}
             other == {a \in many : a.user = None}
             user == [a \in named |-> a.user]
             pseudonym == [a \in other |-> PseudonymOf(a)]
  <2>2. IsFiniteSet({user[a] : a \in named}) /\ IsFiniteSet({pseudonym[a] : a \in other})
    <3> HIDE DEF named, other
    <3>1. /\ DOMAIN user = named /\ user = [a \in named |-> user[a]]
          /\ DOMAIN pseudonym = other /\ pseudonym = [a \in other |-> pseudonym[a]]
      OBVIOUS
    <3> HIDE DEF user, pseudonym
    <3> QED BY <2>1, <3>1, ImageIsFinite DEF named, other
  <2>3. {user[a] : a \in named} = Users(many) /\ {pseudonym[a] : a \in other} = Others(many)
    OBVIOUS
  <2> QED BY <2>2, <2>3
<1>2. Users(few) \subseteq Users(many) /\ Others(few) \subseteq Others(many)
  OBVIOUS
<1> HIDE DEF Users, Others
<1>3. /\ Cardinality(Users(few)) =< Cardinality(Users(many))
      /\ Cardinality(Others(few)) =< Cardinality(Others(many))
      /\ IsFiniteSet(Users(few)) /\ IsFiniteSet(Others(few))
  BY <1>1, <1>2, FS_Subset
<1>4. /\ Cardinality(Users(few)) \in Nat /\ Cardinality(Users(many)) \in Nat
      /\ Cardinality(Others(few)) \in Nat /\ Cardinality(Others(many)) \in Nat
  BY <1>1, <1>3, FS_CardinalityType
<1>5. /\ People(few) = Cardinality(Users(few)) + Cardinality(Others(few))
      /\ People(many) = Cardinality(Users(many)) + Cardinality(Others(many))
  BY DEF People, Users, Others
<1> QED BY <1>3, <1>4, <1>5

\* A row once committed stays committed and keeps its event.
LedgerKeeps ==
  \A i \in EverCommitted : i \in EverCommitted' /\ ledger'[i].event = ledger[i].event

\* The anchors of the pair-instances behind a pair.
Anchors(source, ids, videos) == {Ev(pair[2]) : pair \in Instances(source, ids, videos)}

\* A ledger holds finitely many events.
LEMMA EventsAreFinite ==
  ASSUME NEW rows \in Seq(LedgerRows)
  PROVE  IsFiniteSet({rows[i].event : i \in DOMAIN rows})
<1> DEFINE event == [i \in DOMAIN rows |-> rows[i].event]
<1>1. DOMAIN rows = 1 .. Len(rows) /\ Len(rows) \in Nat
  OBVIOUS
<1>2. IsFiniteSet(DOMAIN rows)
  BY <1>1, FS_Interval
<1>3. DOMAIN event = DOMAIN rows /\ event = [i \in DOMAIN rows |-> event[i]]
  OBVIOUS
<1>4. {event[i] : i \in DOMAIN rows} = {rows[i].event : i \in DOMAIN rows}
  OBVIOUS
<1> HIDE DEF event
<1>5. IsFiniteSet({event[i] : i \in DOMAIN rows})
  BY <1>2, <1>3, ImageIsFinite
<1> QED BY <1>4, <1>5

\* Whoever was behind a pair of rows stays behind it, whatever becomes of them.
LEMMA SubjectsStay ==
  ASSUME ledger \in Seq(LedgerRows), (ledger \in Seq(LedgerRows))', LedgerKeeps,
         NEW source, NEW videos
  PROVE  /\ SubjectsBehind(source, EverCommitted, videos) \in Nat
         /\ SubjectsBehind(source, EverCommitted, videos)' \in Nat
         /\ SubjectsBehind(source, EverCommitted, videos)'
              >= SubjectsBehind(source, EverCommitted, videos)
<1> DEFINE few == Anchors(source, EverCommitted, videos)
           many == Anchors(source, EverCommitted, videos)'
<1>1. EverCommitted \subseteq EverCommitted' /\ \A i \in EverCommitted : Ev(i)' = Ev(i)
  BY DEF LedgerKeeps, Ev
<1>2. ASSUME NEW pair \in Instances(source, EverCommitted, videos)
      PROVE  pair \in Instances(source, EverCommitted, videos)' /\ Ev(pair[2])' = Ev(pair[2])
  <2>1. /\ pair[1] \in EverCommitted /\ pair[2] \in EverCommitted /\ pair = <<pair[1], pair[2]>>
        /\ pair[1] \in EventsFor(source, EverCommitted)
        /\ pair[2] \in EventsFor(source, EverCommitted)
    BY DEF Instances, EventsFor
  <2>2. Ev(pair[1])' = Ev(pair[1]) /\ Ev(pair[2])' = Ev(pair[2])
    BY <1>1, <2>1
  <2>3. /\ pair[1] \in EventsFor(source, EverCommitted)'
        /\ pair[2] \in EventsFor(source, EverCommitted)'
    BY <1>1, <2>1, <2>2 DEF EventsFor
  <2>4. IsPair(source, pair[1], pair[2])'
    BY <2>2 DEF Instances, IsPair, Distance
  <2>5. {Ev(pair[1]).video, Ev(pair[2]).video}' = videos
    BY <2>2 DEF Instances
  <2> QED BY <2>1, <2>2, <2>3, <2>4, <2>5 DEF Instances
<1>3. few \subseteq many
  BY <1>2 DEF Anchors
<1>4. IsFiniteSet(many)
  <2>1. many \subseteq {ledger'[i].event : i \in DOMAIN ledger'}
    BY DEF Anchors, Instances, EventsFor, EverCommitted, Ev
  <2>2. IsFiniteSet({ledger'[i].event : i \in DOMAIN ledger'})
    BY EventsAreFinite
  <2> QED BY <2>1, <2>2, FS_Subset
<1>5. /\ SubjectsBehind(source, EverCommitted, videos) = People(few)
      /\ SubjectsBehind(source, EverCommitted, videos)' = People(many)
  BY DEF SubjectsBehind, People, Anchors
<1> HIDE DEF few, many
<1> QED BY <1>3, <1>4, <1>5, MorePeople

\* A step that keeps the committed rows and serves or computes no new edge.
LEMMA FloorStays ==
  ASSUME CovisInv, (ledger \in Seq(LedgerRows))', (covis \in Passes)', LedgerKeeps,
         (neighbors \cup covis.edges)' \subseteq neighbors \cup covis.edges
  PROVE  CovisInv'
<1>1. ASSUME NEW edge \in (neighbors \cup covis.edges)'
      PROVE  \E source \in Sources :
               SubjectsBehind(source, EverCommitted, {edge[1], edge[2]})' >= MinSubjects
  <2> DEFINE videos == {edge[1], edge[2]}
  <2>1. PICK source \in Sources : SubjectsBehind(source, EverCommitted, videos) >= MinSubjects
    BY DEF CovisInv, HadTheFloor
  <2> HIDE DEF videos
  <2>2. /\ SubjectsBehind(source, EverCommitted, videos) \in Nat
        /\ SubjectsBehind(source, EverCommitted, videos)' \in Nat
        /\ SubjectsBehind(source, EverCommitted, videos)'
             >= SubjectsBehind(source, EverCommitted, videos)
    BY SubjectsStay DEF CovisInv
  <2>3. SubjectsBehind(source, EverCommitted, videos)' >= MinSubjects
    BY <2>1, <2>2, CovisAssumption
  <2> QED BY <2>3 DEF videos
<1> QED BY <1>1 DEF CovisInv, HadTheFloor

\* Deletions and the retention window take committed rows only.
LEMMA MarkedKeeps ==
  ASSUME ledger \in Seq(LedgerRows), NEW ids \in SUBSET Live,
         NEW status \in {"deleted", "expired"}, ledger' = Marked(ids, status)
  PROVE  (ledger \in Seq(LedgerRows))' /\ LedgerKeeps
<1>1. DOMAIN ledger = 1 .. Len(ledger) /\ Len(ledger) \in Nat
      /\ \A i \in DOMAIN ledger : ledger[i] \in LedgerRows
  OBVIOUS
<1>2. DOMAIN ledger' = DOMAIN ledger
  BY DEF Marked
<1>3. ASSUME NEW i \in DOMAIN ledger
      PROVE  /\ ledger'[i] \in LedgerRows /\ ledger'[i].event = ledger[i].event
             /\ i \in EverCommitted => i \in EverCommitted'
  <2>1. CASE i \in ids
    <3>1. ledger'[i] = [ledger[i] EXCEPT !.status = status]
      BY <2>1 DEF Marked
    <3>2. ledger'[i] \in LedgerRows /\ ledger'[i].event = ledger[i].event
          /\ ledger'[i].status = status
      BY <1>1, <3>1 DEF LedgerRows, RowStatuses
    <3> QED BY <1>2, <3>2 DEF EverCommitted
  <2>2. CASE i \notin ids
    BY <1>1, <1>2, <2>2 DEF Marked, EverCommitted
  <2> QED BY <2>1, <2>2
<1>4. ledger' \in [1 .. Len(ledger) -> LedgerRows]
  BY <1>1, <1>3 DEF Marked
<1>5. (ledger \in Seq(LedgerRows))'
  BY <1>1, <1>4
<1> QED BY <1>3, <1>5 DEF LedgerKeeps, EverCommitted

\* An ingested row is appended (IngestBehaviorEvent).
LEMMA IngestKeeps ==
  ASSUME ledger \in Seq(LedgerRows), NEW e \in Events, IngestBehaviorEvent(e)
  PROVE  (ledger \in Seq(LedgerRows))' /\ LedgerKeeps
<1>1. Row(e, "live") \in LedgerRows
  BY DEF Row, LedgerRows, RowStatuses
<1>2. ledger' = Append(ledger, Row(e, "live"))
  BY DEF IngestBehaviorEvent
<1>3. /\ ledger' \in Seq(LedgerRows) /\ DOMAIN ledger \subseteq DOMAIN ledger'
      /\ \A i \in DOMAIN ledger : ledger'[i] = ledger[i]
  BY <1>1, <1>2
<1> QED BY <1>3 DEF LedgerKeeps, EverCommitted


\* A rebuild sees committed rows only: who is behind a pair it publishes is
\* among those behind the rows ever committed.
LEMMA LiveAreFewer ==
  ASSUME ledger \in Seq(LedgerRows), NEW source, NEW videos
  PROVE  /\ SubjectsBehind(source, Live, videos) \in Nat
         /\ SubjectsBehind(source, EverCommitted, videos) \in Nat
         /\ SubjectsBehind(source, Live, videos)
              =< SubjectsBehind(source, EverCommitted, videos)
<1> DEFINE few == Anchors(source, Live, videos)
           many == Anchors(source, EverCommitted, videos)
<1>1. Live \subseteq EverCommitted
  BY DEF Live, EverCommitted
<1>2. few \subseteq many
  BY <1>1 DEF Anchors, Instances, EventsFor
<1>3. IsFiniteSet(many)
  <2>1. many \subseteq {ledger[i].event : i \in DOMAIN ledger}
    BY DEF Anchors, Instances, EventsFor, EverCommitted, Ev
  <2>2. IsFiniteSet({ledger[i].event : i \in DOMAIN ledger})
    BY EventsAreFinite
  <2> QED BY <2>1, <2>2, FS_Subset
<1>4. /\ SubjectsBehind(source, Live, videos) = People(few)
      /\ SubjectsBehind(source, EverCommitted, videos) = People(many)
  BY DEF SubjectsBehind, People, Anchors
<1> HIDE DEF few, many
<1> QED BY <1>2, <1>3, <1>4, MorePeople

\* Every step of the ledger and of the pass keeps the invariant (CovisNext).
LEMMA CovisNextKeeps == CovisInv /\ [CovisNext]_covisVars => CovisInv'
<1> SUFFICES ASSUME CovisInv, [CovisNext]_covisVars PROVE CovisInv'
  OBVIOUS
<1>1. ledger \in Seq(LedgerRows)
  BY DEF CovisInv
<1>2. CASE UNCHANGED <<neighbors, covis>> /\ ledger' # ledger
  <2>1. (\E e \in Events : IngestBehaviorEvent(e))
        \/ \E ids \in SUBSET Live, status \in {"deleted", "expired"} :
             ledger' = Marked(ids, status)
    <3>1. ASSUME NEW date, DeleteOldBehaviorEvents(date)
          PROVE  \E ids \in SUBSET Live : ledger' = Marked(ids, "expired")
      <4>1. {i \in Live : Ev(i).at < date} \in SUBSET Live
        OBVIOUS
      <4> QED BY <3>1, <4>1 DEF DeleteOldBehaviorEvents
    <3>2. ASSUME NEW user, CovisForget(user)
          PROVE  \E ids \in SUBSET Live : ledger' = Marked(ids, "deleted")
      <4>1. RowsOf(user) \in SUBSET Live
        BY DEF RowsOf
      <4>2. \A query : {i \in RowsOf(user) : Ev(i).query = query} \in SUBSET Live
        BY <4>1
      <4> QED BY <3>2, <4>1, <4>2
              DEF CovisForget, DeleteBehaviorEventsForUser, DeleteBehaviorEventsForUserQuery
    <3> QED BY <1>2, <3>1, <3>2
            DEF CovisNext, CovisLedgerStep, CovisRebuild, CovisCommit, CovisFails, covisVars
  <2>2. (ledger \in Seq(LedgerRows))' /\ LedgerKeeps
    BY <1>1, <2>1, IngestKeeps, MarkedKeeps
  <2>3. UNCHANGED <<neighbors, covis>> /\ covis \in Passes
    BY <1>2 DEF CovisInv
  <2> QED BY <2>2, <2>3, FloorStays
<1>3. CASE CovisRebuild
  <2>1. PICK edges \in TopNeighbors(Publishable(Live)) :
          covis' = [covis EXCEPT !.phase = "commit", !.edges = edges]
    BY <1>3 DEF CovisRebuild
  <2>2. UNCHANGED <<ledger, neighbors>> /\ covis \in Passes
    BY <1>3 DEF CovisRebuild, CovisInv
  <2>3. edges \subseteq Publishable(Live)
    BY DEF TopNeighbors
  <2>4. edges \subseteq EventVideos \X EventVideos
    <3>1. \A i \in Live : Ev(i) \in Events
      <4>1. \A i \in DOMAIN ledger : ledger[i] \in LedgerRows
        BY <1>1
      <4> QED BY <4>1 DEF Live, Ev, LedgerRows
    <3>2. VideosOf(Live) \subseteq EventVideos
      BY <3>1 DEF VideosOf, EventVideos
    <3> QED BY <2>3, <3>2 DEF Publishable
  <2>5. covis'.edges = edges /\ covis' \in Passes
    BY <2>1, <2>2, <2>4 DEF Passes
  <2>6. HadTheFloor(edges)
    <3>1. SUFFICES ASSUME NEW edge \in edges
                   PROVE  \E source \in Sources :
                            SubjectsBehind(source, EverCommitted, {edge[1], edge[2]}) >= MinSubjects
      BY DEF HadTheFloor
    <3> DEFINE videos == {edge[1], edge[2]}
    <3>2. PICK source \in Sources : SubjectsBehind(source, Live, videos) >= MinSubjects
      BY <2>3 DEF Publishable, ClearsFloor
    <3> HIDE DEF videos
    <3>3. SubjectsBehind(source, EverCommitted, videos) >= MinSubjects
      BY <1>1, <3>2, LiveAreFewer, CovisAssumption
    <3> QED BY <3>3 DEF videos
  <2>7. EverCommitted' = EverCommitted /\ \A i : Ev(i)' = Ev(i)
    BY <2>2 DEF EverCommitted, Ev
  <2>8. HadTheFloor(neighbors \cup edges)
    BY <2>6 DEF CovisInv, HadTheFloor
  <2>9. \A source, ids, videos :
          SubjectsBehind(source, ids, videos)' = SubjectsBehind(source, ids, videos)
    BY <2>2
       DEF SubjectsBehind, Instances, EventsFor, IsPair, Distance, Ev, PseudonymOf
  <2> QED BY <1>1, <2>2, <2>5, <2>7, <2>8, <2>9 DEF CovisInv, HadTheFloor
<1>4. CASE CovisCommit \/ CovisFails \/ UNCHANGED <<ledger, neighbors, covis>>
  <2>1. covis \in Passes
    BY DEF CovisInv
  <2>2. UNCHANGED ledger
    BY <1>4 DEF CovisCommit, CovisFails
  <2>3. covis' \in Passes /\ neighbors' \cup covis'.edges \subseteq neighbors \cup covis.edges
    BY <1>4, <2>1, CovisAssumption DEF CovisCommit, CovisFails, CovisIdle, Passes
  <2>4. LedgerKeeps /\ (ledger \in Seq(LedgerRows))'
    BY <1>1, <2>2 DEF LedgerKeeps, EverCommitted
  <2> QED BY <2>3, <2>4, FloorStays
<1>5. CASE UNCHANGED <<neighbors, covis>> /\ ledger' = ledger
  BY <1>4, <1>5
<1> QED BY <1>2, <1>3, <1>4, <1>5
        DEF CovisNext, CovisLedgerStep, CovisForget, covisVars

(* Whatever is deleted, expires or fails meanwhile, an edge is served only   *)
(* for a pair that enough distinct subjects were behind (RebuildCovisNeighbors). *)
THEOREM PublishedPairsHadTheFloor == CovisSpec => []PublishedHadTheFloor
<1>1. CovisInit => CovisInv
  <2> SUFFICES ASSUME CovisInit PROVE CovisInv
    OBVIOUS
  <2>1. ledger = <<>> /\ neighbors = {} /\ covis = CovisIdle(0)
    BY DEF CovisInit, LedgerInit
  <2>2. covis \in Passes /\ covis.edges = {}
    BY <2>1 DEF CovisIdle, Passes
  <2>3. neighbors \cup covis.edges = {}
    BY <2>1, <2>2
  <2>4. HadTheFloor(neighbors \cup covis.edges)
    BY <2>3 DEF HadTheFloor
  <2> QED BY <2>1, <2>2, <2>4 DEF CovisInv
<1>2. CovisInv => PublishedHadTheFloor
  BY DEF CovisInv, HadTheFloor, PublishedHadTheFloor
<1> QED BY <1>1, <1>2, CovisNextKeeps, PTL DEF CovisSpec
-----------------------------------------------------------------------------
(***************************************************************************)
(* The engagement rollup.                                                  *)
(***************************************************************************)
\* The ledger is a list of rows, whatever their events.
LedgerIsRows ==
  /\ Len(ledger) \in Nat
  /\ ledger = [i \in 1 .. Len(ledger) |-> Row(Ev(i), ledger[i].status)]
  /\ \A i \in DOMAIN ledger : ledger[i].status \in RowStatuses

LEMMA RowFields ==
  ASSUME NEW e, NEW status PROVE Row(e, status).event = e /\ Row(e, status).status = status
BY DEF Row

LEMMA ListIsFunction ==
  ASSUME NEW T, NEW list \in Seq(T) PROVE list = [i \in 1 .. Len(list) |-> list[i]]
OBVIOUS

\* Rows that change their status keep their places and their events (Marked).
LEMMA MarkedRows ==
  ASSUME LedgerIsRows, NEW ids, NEW status \in RowStatuses, ledger' = Marked(ids, status)
  PROVE  /\ LedgerIsRows' /\ DOMAIN ledger' = DOMAIN ledger
         /\ \A i \in DOMAIN ledger :
              /\ Ev(i)' = Ev(i)
              /\ ledger'[i].status = IF i \in ids THEN status ELSE ledger[i].status
<1>1. DOMAIN ledger = 1 .. Len(ledger) /\ Len(ledger) \in Nat
  BY DEF LedgerIsRows
<1>2. DOMAIN ledger' = DOMAIN ledger
  BY DEF Marked
<1>3. ASSUME NEW i \in DOMAIN ledger
      PROVE  /\ ledger'[i] = Row(Ev(i), IF i \in ids THEN status ELSE ledger[i].status)
             /\ ledger[i].status \in RowStatuses
  <2>1. ledger[i] = Row(Ev(i), ledger[i].status) /\ ledger[i].status \in RowStatuses
    BY <1>1 DEF LedgerIsRows
  <2> QED BY <2>1 DEF Marked, Row
<1>4. \A i \in DOMAIN ledger : 
         /\ Ev(i)' = Ev(i)
         /\ ledger'[i].status = IF i \in ids THEN status ELSE ledger[i].status
  <2> SUFFICES ASSUME NEW i \in DOMAIN ledger
               PROVE  /\ Ev(i)' = Ev(i)
                      /\ ledger'[i].status = IF i \in ids THEN status ELSE ledger[i].status
    OBVIOUS
  <2> QED BY <1>3, RowFields DEF Ev
<1>5. ledger' = [i \in 1 .. Len(ledger) |-> ledger'[i]]
  BY <1>1 DEF Marked
<1>6. ledger' \in Seq({ledger'[i] : i \in 1 .. Len(ledger)}) /\ Len(ledger') = Len(ledger)
  BY <1>1, <1>5
<1>7. ledger' = [i \in 1 .. Len(ledger') |-> Row(Ev(i)', ledger'[i].status)]
  BY <1>1, <1>3, <1>4, <1>5, <1>6
<1>8. \A i \in DOMAIN ledger' : ledger'[i].status \in RowStatuses
  BY <1>2, <1>3, <1>4
<1> QED BY <1>1, <1>2, <1>4, <1>6, <1>7, <1>8 DEF LedgerIsRows

\* A list of new rows.
NewRows(more) ==
  /\ Len(more) \in Nat /\ DOMAIN more = 1 .. Len(more)
  /\ more = [n \in 1 .. Len(more) |-> Row(more[n].event, more[n].status)]
  /\ \A n \in DOMAIN more : more[n].status \in RowStatuses

\* Appended rows leave the others where they are (the inserts of a statement).
LEMMA AppendedRows ==
  ASSUME LedgerIsRows, NEW more, NewRows(more), ledger' = ledger \o more
  PROVE  /\ LedgerIsRows' /\ DOMAIN ledger' = 1 .. Len(ledger) + Len(more)
         /\ \A i \in DOMAIN ledger :
              i \in DOMAIN ledger' /\ ledger'[i] = ledger[i] /\ Ev(i)' = Ev(i)
         /\ \A i \in DOMAIN ledger' \ DOMAIN ledger :
              /\ i - Len(ledger) \in DOMAIN more /\ ledger'[i] = more[i - Len(ledger)]
              /\ i \in Len(ledger) + 1 .. Len(ledger) + Len(more)
<1> DEFINE T == {ledger[i] : i \in DOMAIN ledger} \cup {more[n] : n \in DOMAIN more}
<1>1. DOMAIN ledger = 1 .. Len(ledger) /\ Len(ledger) \in Nat
  BY DEF LedgerIsRows
<1>2. DOMAIN more = 1 .. Len(more) /\ Len(more) \in Nat
  BY DEF NewRows
<1>3. ledger \in Seq(T)
  <2>1. ledger = [i \in 1 .. Len(ledger) |-> ledger[i]]
    BY <1>1 DEF LedgerIsRows
  <2> QED BY <1>1, <2>1
<1>4. more \in Seq(T)
  <2>1. more = [n \in 1 .. Len(more) |-> more[n]]
    BY <1>2 DEF NewRows
  <2> QED BY <1>2, <2>1
<1> HIDE DEF T
<1>5. /\ ledger' \in Seq(T) /\ Len(ledger') = Len(ledger) + Len(more)
      /\ \A i \in 1 .. Len(ledger) : ledger'[i] = ledger[i]
      /\ \A i \in Len(ledger) + 1 .. Len(ledger) + Len(more) : ledger'[i] = more[i - Len(ledger)]
  BY <1>1, <1>2, <1>3, <1>4
<1>6. DOMAIN ledger' = 1 .. Len(ledger) + Len(more) /\ Len(ledger') \in Nat
  BY <1>1, <1>2, <1>5
<1>7. \A i \in DOMAIN ledger :
        i \in DOMAIN ledger' /\ ledger'[i] = ledger[i] /\ Ev(i)' = Ev(i)
  BY <1>1, <1>2, <1>5, <1>6 DEF Ev
<1>8. \A i \in DOMAIN ledger' \ DOMAIN ledger :
        /\ i - Len(ledger) \in DOMAIN more /\ ledger'[i] = more[i - Len(ledger)]
        /\ i \in Len(ledger) + 1 .. Len(ledger) + Len(more)
  BY <1>1, <1>2, <1>5, <1>6
<1>9. \A i \in DOMAIN ledger' :
        /\ ledger'[i] = Row(ledger'[i].event, ledger'[i].status)
        /\ ledger'[i].status \in RowStatuses
  <2>1. \A i \in DOMAIN ledger : ledger[i] = Row(ledger[i].event, ledger[i].status)
                                 /\ ledger[i].status \in RowStatuses
    BY <1>1 DEF LedgerIsRows, Ev
  <2>2. \A n \in DOMAIN more : more[n] = Row(more[n].event, more[n].status)
                                 /\ more[n].status \in RowStatuses
    BY <1>2 DEF NewRows
  <2> QED BY <1>7, <1>8, <2>1, <2>2
<1>10. ledger' = [i \in 1 .. Len(ledger') |-> ledger'[i]]
  BY <1>5, ListIsFunction
<1>11. ledger' = [i \in 1 .. Len(ledger') |-> Row(Ev(i)', ledger'[i].status)]
  BY <1>5, <1>6, <1>9, <1>10 DEF Ev
<1> QED BY <1>6, <1>7, <1>8, <1>9, <1>11 DEF LedgerIsRows

\* One appended row (InsertBehaviorEvent, IngestBehaviorEvent).
LEMMA OneRow ==
  ASSUME LedgerIsRows, NEW e, NEW status \in RowStatuses,
         ledger' = Append(ledger, Row(e, status))
  PROVE  /\ LedgerIsRows' /\ DOMAIN ledger' = 1 .. Len(ledger) + 1
         /\ \A i \in DOMAIN ledger :
              i \in DOMAIN ledger' /\ ledger'[i] = ledger[i] /\ Ev(i)' = Ev(i)
         /\ \A i \in DOMAIN ledger' \ DOMAIN ledger :
              i = Len(ledger) + 1 /\ Ev(i)' = e /\ ledger'[i].status = status
<1> DEFINE more == <<Row(e, status)>>
<1>1. Len(more) = 1 /\ DOMAIN more = 1 .. 1 /\ more[1] = Row(e, status)
  OBVIOUS
<1>2. more[1].event = e /\ more[1].status = status
  BY <1>1 DEF Row
<1>3. NewRows(more)
  <2>1. more = [n \in 1 .. 1 |-> Row(e, status)]
    BY <1>1
  <2> QED BY <1>1, <1>2, <2>1 DEF NewRows
<1>4. ledger' = ledger \o more
  <2>1. Len(ledger) \in Nat /\ ledger = [i \in 1 .. Len(ledger) |-> ledger[i]]
    BY DEF LedgerIsRows
  <2>2. ledger \in Seq({ledger[i] : i \in 1 .. Len(ledger)} \cup {Row(e, status)})
    BY <2>1
  <2> QED BY <2>2
<1> HIDE DEF more
<1>5. /\ LedgerIsRows' /\ DOMAIN ledger' = 1 .. Len(ledger) + Len(more)
      /\ \A i \in DOMAIN ledger :
           i \in DOMAIN ledger' /\ ledger'[i] = ledger[i] /\ Ev(i)' = Ev(i)
      /\ \A i \in DOMAIN ledger' \ DOMAIN ledger :
           /\ i - Len(ledger) \in DOMAIN more /\ ledger'[i] = more[i - Len(ledger)]
           /\ i \in Len(ledger) + 1 .. Len(ledger) + Len(more)
  BY <1>3, <1>4, AppendedRows
<1>6. Len(ledger) \in Nat
  BY DEF LedgerIsRows
<1>7. ASSUME NEW i \in DOMAIN ledger' \ DOMAIN ledger
      PROVE  i = Len(ledger) + 1 /\ Ev(i)' = e /\ ledger'[i].status = status
  <2>1. i = Len(ledger) + 1 /\ ledger'[i] = more[1]
    BY <1>1, <1>5, <1>6
  <2> QED BY <1>2, <2>1 DEF Ev
<1> QED BY <1>1, <1>5, <1>7

Phases == {"idle", "derive", "rebuild", "commit", "flush"}

PassIsRecord ==
  /\ pass.phase \in Phases
  /\ pass = [phase |-> pass.phase, maxid |-> pass.maxid, rows |-> pass.rows,
             table |-> pass.table, failures |-> pass.failures]

\* Rows in the transaction of the pass are the ones it derived.
OpenRows == {i \in DOMAIN ledger : ledger[i].status = "derived"}
PassOwnsItsRows ==
  /\ OpenRows = IF pass.phase \in {"rebuild", "commit"} THEN pass.rows ELSE {}
  /\ pass.phase \in {"idle", "derive"} => pass.rows = {}
  /\ pass.phase = "flush" => pass.rows \subseteq EverCommitted

\* A weight stands for a list of different rows that were committed.
WeightsAreRows ==
  \A key \in DOMAIN watch :
    /\ watch[key] \in Seq(Nat) /\ IsInjective(watch[key])
    /\ \A i \in Range(watch[key]) :
         i \in EverCommitted /\ WatchRow(i) = key /\ Ev(i).history

Weights == UNION {Range(watch[key]) : key \in DOMAIN watch}

RowsAreWeighed ==
  \A i \in OfType("meaningful_watch", Live) :
    Ev(i).user # None /\ Ev(i).history => i \in forgotten \cup Weights

EngagementInv ==
  /\ LedgerIsRows
  /\ PassIsRecord
  /\ \A i \in DOMAIN ledger : ledger[i].status = "inflight" => Ev(i) \in Events
  /\ PassOwnsItsRows
  /\ bumped \subseteq EverCommitted
  /\ WeightsAreRows
  /\ RowsAreWeighed

\* Further rows are listed behind a weight, each of them once.
LEMMA MoreRows ==
  ASSUME NEW list \in Seq(Nat), IsInjective(list), NEW rows, rows \subseteq Nat, IsFiniteSet(rows),
         Range(list) \cap rows = {}
  PROVE  /\ list \o InOrder(rows, <) \in Seq(Nat) /\ IsInjective(list \o InOrder(rows, <))
         /\ Range(list \o InOrder(rows, <)) = Range(list) \cup rows
<1> DEFINE more == InOrder(rows, <)
           n == Cardinality(rows)
           both == list \o more
<1>1. /\ more \in [1 .. n -> rows] /\ n \in Nat
      /\ \A x \in rows : \E i \in 1 .. n : more[i] = x
      /\ \A i, j \in 1 .. n : more[i] = more[j] => i = j
  BY InOrderByNumber
<1> HIDE DEF more, n
<1>2. more \in Seq(Nat) /\ Len(more) = n /\ DOMAIN more = 1 .. n
  <2>1. more \in [1 .. n -> Nat]
    BY <1>1
  <2> QED BY <1>1, <2>1
<1>3. Len(list) \in Nat /\ DOMAIN list = 1 .. Len(list)
  OBVIOUS
<1>4. /\ both \in Seq(Nat) /\ DOMAIN both = 1 .. Len(list) + n
      /\ \A i \in 1 .. Len(list) : both[i] = list[i]
      /\ \A i \in Len(list) + 1 .. Len(list) + n : both[i] = more[i - Len(list)]
  BY <1>1, <1>2, <1>3
<1> HIDE DEF both
<1>5. \A i \in 1 .. Len(list) : both[i] \in Range(list)
  BY <1>3, <1>4 DEF Range
<1>6. \A i \in Len(list) + 1 .. Len(list) + n : i - Len(list) \in 1 .. n /\ both[i] \in rows
  BY <1>1, <1>3, <1>4
<1>7. IsInjective(both)
  <2>1. SUFFICES ASSUME NEW i \in DOMAIN both, NEW j \in DOMAIN both, both[i] = both[j]
                 PROVE  i = j
    BY DEF IsInjective
  <2>2. CASE i \in 1 .. Len(list) /\ j \in 1 .. Len(list)
    BY <1>3, <1>4, <2>1, <2>2 DEF IsInjective
  <2>3. CASE i \in Len(list) + 1 .. Len(list) + n /\ j \in Len(list) + 1 .. Len(list) + n
    <3>1. i - Len(list) = j - Len(list)
      BY <1>1, <1>4, <1>6, <2>1, <2>3
    <3> QED BY <1>1, <1>3, <2>3, <3>1
  <2>4. ~(i \in 1 .. Len(list) /\ j \in Len(list) + 1 .. Len(list) + n)
    BY <1>5, <1>6, <2>1
  <2>5. ~(j \in 1 .. Len(list) /\ i \in Len(list) + 1 .. Len(list) + n)
    BY <1>5, <1>6, <2>1
  <2>6. \A k \in DOMAIN both : k \in 1 .. Len(list) \/ k \in Len(list) + 1 .. Len(list) + n
    BY <1>1, <1>3, <1>4
  <2> QED BY <2>2, <2>3, <2>4, <2>5, <2>6
<1>8. Range(both) = Range(list) \cup rows
  <2>1. ASSUME NEW x \in Range(both) PROVE x \in Range(list) \cup rows
    <3>1. PICK i \in DOMAIN both : both[i] = x
      BY DEF Range
    <3>2. i \in 1 .. Len(list) \/ i \in Len(list) + 1 .. Len(list) + n
      BY <1>1, <1>3, <1>4
    <3> QED BY <1>5, <1>6, <3>1, <3>2
  <2>2. ASSUME NEW x \in Range(list) PROVE x \in Range(both)
    <3>1. PICK i \in DOMAIN list : list[i] = x
      BY DEF Range
    <3>2. i \in DOMAIN both /\ both[i] = x
      BY <1>1, <1>3, <1>4, <3>1
    <3> QED BY <3>2 DEF Range
  <2>3. ASSUME NEW x \in rows PROVE x \in Range(both)
    <3>1. PICK k \in 1 .. n : more[k] = x
      BY <1>1
    <3>2. Len(list) + k \in DOMAIN both /\ (Len(list) + k) - Len(list) = k
          /\ Len(list) + k \in Len(list) + 1 .. Len(list) + n
      BY <1>1, <1>3, <1>4
    <3>3. both[Len(list) + k] = x
      BY <1>4, <3>1, <3>2
    <3> QED BY <3>2, <3>3 DEF Range
  <2> QED BY <2>1, <2>2, <2>3
<1> QED BY <1>4, <1>7, <1>8 DEF both, more

\* A step that commits no row and leaves the weights and the pass alone, or
\* takes weights away, keeps what the pass has done.
RowsStay ==
  \A i \in DOMAIN ledger :
    i \in DOMAIN ledger' /\ Ev(i)' = Ev(i) /\ (i \in EverCommitted => i \in EverCommitted')

LEMMA WeightsStay ==
  ASSUME WeightsAreRows, RowsStay, UNCHANGED watch PROVE WeightsAreRows'
<1>1. \A i \in EverCommitted : i \in EverCommitted' /\ Ev(i)' = Ev(i)
  BY DEF RowsStay, EverCommitted
<1> QED BY <1>1 DEF WeightsAreRows, WatchRow

LEMMA WeighedStays ==
  ASSUME RowsAreWeighed, RowsStay, UNCHANGED <<watch, forgotten>>,
         \A i \in Live' : Ev(i)'.type = "meaningful_watch" => i \in Live
  PROVE  RowsAreWeighed'
<1>1. Weights' = Weights
  BY DEF Weights
<1>2. ASSUME NEW i \in OfType("meaningful_watch", Live)' 
      PROVE  i \in OfType("meaningful_watch", Live) /\ Ev(i)' = Ev(i)
  <2>1. i \in Live /\ Ev(i)'.type = "meaningful_watch"
    BY DEF OfType
  <2>2. Ev(i)' = Ev(i)
    BY <2>1 DEF RowsStay, Live
  <2> QED BY <2>1, <2>2 DEF OfType
<1> QED BY <1>1, <1>2 DEF RowsAreWeighed
\* Deletions and the retention window take committed rows.
LEMMA TakenRows ==
  ASSUME LedgerIsRows, NEW ids, ids \subseteq Live, NEW status \in {"deleted", "expired"},
         ledger' = Marked(ids, status),
         \A i \in DOMAIN ledger : ledger[i].status = "inflight" => Ev(i) \in Events
  PROVE  /\ LedgerIsRows' /\ RowsStay
         /\ \A i \in DOMAIN ledger' : ledger'[i].status = "inflight" => Ev(i)' \in Events
         /\ OpenRows' = OpenRows
         /\ Live' \subseteq Live
<1>1. ids \subseteq Live /\ status \in RowStatuses
  BY DEF RowStatuses
<1>2. /\ LedgerIsRows' /\ DOMAIN ledger' = DOMAIN ledger
      /\ \A i \in DOMAIN ledger :
           /\ Ev(i)' = Ev(i)
           /\ ledger'[i].status = IF i \in ids THEN status ELSE ledger[i].status
  BY <1>1, MarkedRows
<1>3. \A i \in ids : ledger[i].status = "live"
  BY <1>1 DEF Live
<1>4. RowsStay
  BY <1>2, <1>3 DEF RowsStay, EverCommitted
<1>5. OpenRows' = OpenRows /\ Live' \subseteq Live
  BY <1>2, <1>3 DEF OpenRows, Live
<1>6. \A i \in DOMAIN ledger' : ledger'[i].status = "inflight" => Ev(i)' \in Events
  BY <1>2, <1>3
<1> QED BY <1>2, <1>4, <1>5, <1>6

\* The ledger writers beside the pass (LedgerStep).
LEMMA LedgerStepKeeps ==
  ASSUME EngagementInv, LedgerStep PROVE EngagementInv'
<1>1. /\ LedgerIsRows /\ PassIsRecord /\ PassOwnsItsRows /\ WeightsAreRows /\ RowsAreWeighed
      /\ bumped \subseteq EverCommitted
      /\ \A i \in DOMAIN ledger : ledger[i].status = "inflight" => Ev(i) \in Events
  BY DEF EngagementInv
<1>2. UNCHANGED <<watch, forgotten, bumped, pass>>
  BY DEF LedgerStep
<1>3. SUFFICES
        /\ LedgerIsRows' /\ RowsStay
        /\ \A i \in DOMAIN ledger' : ledger'[i].status = "inflight" => Ev(i)' \in Events
        /\ OpenRows' = OpenRows
        /\ \A i \in Live' : Ev(i)'.type = "meaningful_watch" => i \in Live
  <2>1. ASSUME RowsStay PROVE EverCommitted \subseteq EverCommitted'
    BY <2>1 DEF RowsStay, EverCommitted
  <2>2. PassIsRecord'
    BY <1>1, <1>2 DEF PassIsRecord
  <2>3. ASSUME RowsStay, OpenRows' = OpenRows PROVE PassOwnsItsRows' /\ bumped' \subseteq EverCommitted'
    BY <1>1, <1>2, <2>1, <2>3 DEF PassOwnsItsRows
  <2> QED BY <1>1, <1>2, <2>2, <2>3, WeightsStay, WeighedStays DEF EngagementInv
<1>4. CASE \E e \in Events : InsertBehaviorEvent(e)
  <2>1. PICK e \in Events : ledger' = Append(ledger, Row(e, "inflight"))
    BY <1>4 DEF InsertBehaviorEvent
  <2>2. "inflight" \in RowStatuses
    BY DEF RowStatuses
  <2>3. /\ LedgerIsRows'
        /\ \A i \in DOMAIN ledger :
              i \in DOMAIN ledger' /\ ledger'[i] = ledger[i] /\ Ev(i)' = Ev(i)
        /\ \A i \in DOMAIN ledger' \ DOMAIN ledger :
              i = Len(ledger) + 1 /\ Ev(i)' = e /\ ledger'[i].status = "inflight"
    BY <1>1, <2>1, <2>2, OneRow
  <2>4. RowsStay
    BY <2>3 DEF RowsStay, EverCommitted
  <2>5. OpenRows' = OpenRows /\ Live' = Live
    BY <2>3 DEF OpenRows, Live
  <2> QED BY <1>1, <2>3, <2>4, <2>5
<1>5. CASE \E i \in DOMAIN ledger, status \in {"live", "aborted"} : EndIngest(i, status)
  <2>1. PICK k \in DOMAIN ledger, status \in {"live", "aborted"} :
           ledger[k].status = "inflight" /\ ledger' = Marked({k}, status)
    BY <1>5 DEF EndIngest
  <2>2. status \in RowStatuses
    BY DEF RowStatuses
  <2>3. /\ LedgerIsRows' /\ DOMAIN ledger' = DOMAIN ledger
        /\ \A i \in DOMAIN ledger :
             /\ Ev(i)' = Ev(i)
             /\ ledger'[i].status = IF i \in {k} THEN status ELSE ledger[i].status
    BY <1>1, <2>1, <2>2, MarkedRows
  <2>4. RowsStay
    BY <2>1, <2>3 DEF RowsStay, EverCommitted
  <2>5. OpenRows' = OpenRows
    BY <2>1, <2>3 DEF OpenRows
  <2>6. Live' \subseteq Live \cup {k}
    BY <2>1, <2>3 DEF Live
  <2>7. Ev(k)' \in Events /\ Ev(k)'.type # "meaningful_watch"
    <3>1. Ev(k)' = Ev(k) /\ Ev(k) \in Events
      BY <1>1, <2>1, <2>3
    <3> QED BY <3>1, LedgerAssumption DEF DerivedTypes
  <2>8. \A i \in DOMAIN ledger' : ledger'[i].status = "inflight" => Ev(i)' \in Events
    BY <1>1, <2>1, <2>3
  <2> QED BY <2>3, <2>4, <2>5, <2>6, <2>7, <2>8
<1>6. CASE \E boundary \in {e.at : e \in Events} : DeleteOldBehaviorEvents(boundary)
  <2>1. PICK boundary : ledger' = Marked({i \in Live : Ev(i).at < boundary}, "expired")
    BY <1>6 DEF DeleteOldBehaviorEvents
  <2>2. {i \in Live : Ev(i).at < boundary} \subseteq Live
    OBVIOUS
  <2> QED BY <1>1, <2>1, <2>2, TakenRows
<1> QED BY <1>4, <1>5, <1>6 DEF LedgerStep

\* Deletions take committed rows, and weights that are remembered (ForgetUser).
LEMMA ForgetKeeps ==
  ASSUME EngagementInv, NEW user, NEW scope, ForgetUser(user, scope) PROVE EngagementInv'
<1>1. /\ LedgerIsRows /\ PassIsRecord /\ PassOwnsItsRows /\ WeightsAreRows /\ RowsAreWeighed
      /\ bumped \subseteq EverCommitted
      /\ \A i \in DOMAIN ledger : ledger[i].status = "inflight" => Ev(i) \in Events
  BY DEF EngagementInv
<1>2. UNCHANGED <<bumped, pass>>
  BY DEF ForgetUser
<1>3. /\ LedgerIsRows' /\ RowsStay
      /\ \A i \in DOMAIN ledger' : ledger'[i].status = "inflight" => Ev(i)' \in Events
      /\ OpenRows' = OpenRows
      /\ Live' \subseteq Live
  <2>1. CASE DeleteBehaviorEventsForUser(user)
    <3>1. ledger' = Marked(RowsOf(user), "deleted") /\ RowsOf(user) \subseteq Live
      BY <2>1 DEF DeleteBehaviorEventsForUser, RowsOf
    <3> QED BY <1>1, <3>1, TakenRows
  <2>2. CASE UNCHANGED ledger
    <3>1. LedgerIsRows' /\ RowsStay /\ OpenRows' = OpenRows /\ Live' = Live
      BY <1>1, <2>2 DEF LedgerIsRows, RowsStay, EverCommitted, OpenRows, Live, Ev
    <3> QED BY <1>1, <2>2, <3>1 DEF Ev
  <2> QED BY <2>1, <2>2 DEF ForgetUser, ledgerVars
<1>4. EverCommitted \subseteq EverCommitted' /\ \A i \in EverCommitted : Ev(i)' = Ev(i)
  BY <1>3 DEF RowsStay, EverCommitted
<1>5. /\ DOMAIN watch' \subseteq DOMAIN watch
      /\ \A key \in DOMAIN watch' : watch'[key] = watch[key]
      /\ forgotten \cup Weights \subseteq forgotten' \cup Weights'
  <2>1. CASE UNCHANGED <<watch, forgotten>>
    BY <2>1 DEF Weights
  <2>2. CASE /\ watch' = [key \in {k \in DOMAIN watch : k[1] # user} |-> watch[key]]
             /\ forgotten' = forgotten \cup
                  UNION {Range(watch[key]) : key \in {k \in DOMAIN watch : k[1] = user}}
    <3>1. DOMAIN watch' = {k \in DOMAIN watch : k[1] # user}
          /\ \A key \in DOMAIN watch' : watch'[key] = watch[key]
      BY <2>2
    <3>2. ASSUME NEW i \in Weights PROVE i \in forgotten' \cup Weights'
      <4>1. PICK key \in DOMAIN watch : i \in Range(watch[key])
        BY DEF Weights
      <4>2. CASE key[1] = user
        BY <2>2, <4>1, <4>2
      <4>3. CASE key[1] # user
        <5>1. key \in DOMAIN watch' /\ i \in Range(watch'[key])
          BY <3>1, <4>1, <4>3
        <5> QED BY <5>1 DEF Weights
      <4> QED BY <4>2, <4>3
    <3> QED BY <2>2, <3>1, <3>2
  <2> QED BY <2>1, <2>2 DEF ForgetUser
<1>6. WeightsAreRows'
  <2>1. SUFFICES ASSUME NEW key \in DOMAIN watch'
                 PROVE  /\ watch'[key] \in Seq(Nat) /\ IsInjective(watch'[key])
                        /\ \A i \in Range(watch'[key]) :
                             i \in EverCommitted' /\ WatchRow(i)' = key /\ Ev(i)'.history
    BY DEF WeightsAreRows
  <2>2. key \in DOMAIN watch /\ watch'[key] = watch[key]
    BY <1>5, <2>1
  <2>3. \A i \in Range(watch[key]) : i \in EverCommitted /\ WatchRow(i) = key /\ Ev(i).history
    BY <1>1, <2>2 DEF WeightsAreRows
  <2>4. \A i \in Range(watch[key]) :
          i \in EverCommitted' /\ WatchRow(i)' = key /\ Ev(i)'.history
    BY <1>4, <2>3 DEF WatchRow
  <2> QED BY <1>1, <2>2, <2>4 DEF WeightsAreRows
<1>7. RowsAreWeighed'
  <2>1. SUFFICES ASSUME NEW i \in OfType("meaningful_watch", Live)',
                        (Ev(i).user # None /\ Ev(i).history)'
                 PROVE  i \in (forgotten \cup Weights)'
    BY DEF RowsAreWeighed
  <2>2. i \in Live /\ i \in DOMAIN ledger
    BY <1>3 DEF OfType, Live
  <2>3. Ev(i)' = Ev(i)
    BY <1>3, <2>2 DEF RowsStay
  <2>4. i \in OfType("meaningful_watch", Live) /\ Ev(i).user # None /\ Ev(i).history
    BY <2>1, <2>2, <2>3 DEF OfType
  <2> QED BY <1>1, <1>5, <2>4 DEF RowsAreWeighed
<1>8. PassIsRecord' /\ PassOwnsItsRows' /\ bumped' \subseteq EverCommitted'
  BY <1>1, <1>2, <1>3, <1>4 DEF PassIsRecord, PassOwnsItsRows
<1> QED BY <1>3, <1>6, <1>7, <1>8 DEF EngagementInv

\* A pass derives rows of its own: nobody else has seen them (DeriveMeaningfulWatch).
LEMMA DeriveKeeps ==
  ASSUME EngagementInv, DeriveMeaningfulWatch PROVE EngagementInv'
<1>1. /\ LedgerIsRows /\ PassIsRecord /\ PassOwnsItsRows /\ WeightsAreRows /\ RowsAreWeighed
      /\ bumped \subseteq EverCommitted
      /\ \A i \in DOMAIN ledger : ledger[i].status = "inflight" => Ev(i) \in Events
  BY DEF EngagementInv
<1>2. pass.phase = "derive" /\ UNCHANGED <<watch, forgotten, bumped>>
  BY DEF DeriveMeaningfulWatch
<1>3. PICK rows \in SUBSET Qualifying(position, pass.maxid) :
        /\ \E query \in [rows -> UNION {Attributions(Ev(i)) : i \in rows}] :
             ledger' = ledger \o [n \in DOMAIN InOrder(rows, <) |->
                                    DerivedRow(InOrder(rows, <)[n], query[InOrder(rows, <)[n]])]
        /\ pass' = [pass EXCEPT !.phase = "rebuild",
                      !.rows = (Len(ledger) + 1)..(Len(ledger) + Cardinality(rows))]
  BY DEF DeriveMeaningfulWatch
<1>4. Len(ledger) \in Nat /\ DOMAIN ledger = 1 .. Len(ledger)
  BY <1>1 DEF LedgerIsRows
<1>5. Cardinality(rows) \in Nat
  <2>1. rows \subseteq DOMAIN ledger
    BY DEF Qualifying, OfType, Visible
  <2>2. IsFiniteSet(DOMAIN ledger)
    BY <1>4, FS_Interval
  <2> QED BY <2>1, <2>2, FS_Subset, FS_CardinalityType
<1>6. PICK more : /\ NewRows(more) /\ Len(more) = Cardinality(rows)
                  /\ \A n \in DOMAIN more : more[n].status = "derived"
                  /\ ledger' = ledger \o more
  <2>1. PICK query : ledger' = ledger \o [n \in DOMAIN InOrder(rows, <) |->
                                 DerivedRow(InOrder(rows, <)[n], query[InOrder(rows, <)[n]])]
    BY <1>3
  <2> DEFINE event(n) == [Ev(InOrder(rows, <)[n])
                             EXCEPT !.type = "meaningful_watch", !.query = query[InOrder(rows, <)[n]]]
                           @@ [derived |-> InOrder(rows, <)[n]]
             more == [n \in DOMAIN InOrder(rows, <) |-> Row(event(n), "derived")]
  <2>2. ledger' = ledger \o more
    BY <2>1 DEF DerivedRow
  <2> HIDE DEF event
  <2>3. DOMAIN more = 1 .. Cardinality(rows)
    BY DEF InOrder
  <2>4. \A n \in DOMAIN more : more[n] = Row(event(n), "derived")
    OBVIOUS
  <2>5. more = [n \in 1 .. Cardinality(rows) |-> more[n]]
    BY <2>3
  <2> HIDE DEF more
  <2>6. \A n \in DOMAIN more : /\ more[n] = Row(more[n].event, more[n].status)
                               /\ more[n].status = "derived"
    BY <2>4, RowFields
  <2>7. NewRows(more) /\ Len(more) = Cardinality(rows)
    <3>1. more \in Seq({more[n] : n \in 1 .. Cardinality(rows)}) /\ Len(more) = Cardinality(rows)
      BY <1>5, <2>5
    <3>2. more = [n \in 1 .. Len(more) |-> Row(more[n].event, more[n].status)]
      BY <2>3, <2>5, <2>6, <3>1
    <3> QED BY <1>5, <2>3, <2>6, <3>1, <3>2 DEF NewRows, RowStatuses
  <2> QED BY <2>2, <2>6, <2>7
<1>7. /\ LedgerIsRows' /\ DOMAIN ledger' = 1 .. Len(ledger) + Len(more)
      /\ \A i \in DOMAIN ledger :
           i \in DOMAIN ledger' /\ ledger'[i] = ledger[i] /\ Ev(i)' = Ev(i)
      /\ \A i \in DOMAIN ledger' \ DOMAIN ledger :
           /\ i - Len(ledger) \in DOMAIN more /\ ledger'[i] = more[i - Len(ledger)]
           /\ i \in Len(ledger) + 1 .. Len(ledger) + Len(more)
  BY <1>1, <1>6, AppendedRows
<1>8. \A i \in DOMAIN ledger' \ DOMAIN ledger : ledger'[i].status = "derived"
  BY <1>6, <1>7
<1>9. RowsStay /\ Live' = Live
  BY <1>7, <1>8 DEF RowsStay, EverCommitted, Live
<1>10. EverCommitted \subseteq EverCommitted'
  BY <1>9 DEF RowsStay, EverCommitted
<1>11. /\ pass'.phase = "rebuild" /\ PassIsRecord'
       /\ pass'.rows = (Len(ledger) + 1)..(Len(ledger) + Cardinality(rows))
  BY <1>1, <1>3 DEF PassIsRecord, Phases
<1>12. OpenRows' = pass'.rows
  <2>1. OpenRows = {}
    BY <1>1, <1>2 DEF PassOwnsItsRows
  <2>2. \A i \in DOMAIN ledger : ledger'[i].status # "derived"
    BY <1>7, <2>1 DEF OpenRows
  <2>3. OpenRows' = DOMAIN ledger' \ DOMAIN ledger
    BY <1>7, <1>8, <2>2 DEF OpenRows
  <2>4. DOMAIN ledger' \ DOMAIN ledger = (Len(ledger) + 1)..(Len(ledger) + Cardinality(rows))
    BY <1>4, <1>5, <1>6, <1>7
  <2> QED BY <1>11, <2>3, <2>4
<1>13. PassOwnsItsRows' /\ bumped' \subseteq EverCommitted'
  BY <1>1, <1>2, <1>10, <1>11, <1>12 DEF PassOwnsItsRows
<1>14. \A i \in DOMAIN ledger' : ledger'[i].status = "inflight" => Ev(i)' \in Events
  BY <1>1, <1>7, <1>8
<1> QED BY <1>1, <1>2, <1>7, <1>9, <1>11, <1>13, <1>14, WeightsStay, WeighedStays DEF EngagementInv

\* The rows of a committing pass are weighed as they appear (EngagementCommit).
LEMMA CommitKeeps ==
  ASSUME EngagementInv, EngagementCommit PROVE EngagementInv'
<1>1. /\ LedgerIsRows /\ PassIsRecord /\ PassOwnsItsRows /\ WeightsAreRows /\ RowsAreWeighed
      /\ bumped \subseteq EverCommitted
      /\ \A i \in DOMAIN ledger : ledger[i].status = "inflight" => Ev(i) \in Events
  BY DEF EngagementInv
<1>2. /\ pass.phase = "commit" /\ ledger' = Marked(pass.rows, "live")
      /\ watch' = UpsertWatchProjection(Weighed)
      /\ pass' = [pass EXCEPT !.phase = "flush"] /\ UNCHANGED <<forgotten, bumped>>
  BY DEF EngagementCommit
<1>3. /\ pass.rows = OpenRows /\ pass.rows \subseteq DOMAIN ledger
      /\ \A i \in pass.rows : ledger[i].status = "derived"
  BY <1>1, <1>2 DEF PassOwnsItsRows, OpenRows
<1>4. /\ LedgerIsRows' /\ DOMAIN ledger' = DOMAIN ledger
      /\ \A i \in DOMAIN ledger :
           /\ Ev(i)' = Ev(i)
           /\ ledger'[i].status = IF i \in pass.rows THEN "live" ELSE ledger[i].status
  BY <1>1, <1>2, MarkedRows DEF RowStatuses
<1>5. /\ EverCommitted' = EverCommitted \cup pass.rows
      /\ EverCommitted \cap pass.rows = {}
      /\ Live' = Live \cup pass.rows
      /\ OpenRows' = {}
  BY <1>3, <1>4 DEF EverCommitted, Live, OpenRows
<1>6. pass'.phase = "flush" /\ pass'.rows = pass.rows /\ PassIsRecord'
  BY <1>1, <1>2 DEF PassIsRecord, Phases
<1>7. PassOwnsItsRows' /\ bumped' \subseteq EverCommitted'
  BY <1>1, <1>2, <1>5, <1>6 DEF PassOwnsItsRows
<1>8. \A i \in DOMAIN ledger' : ledger'[i].status = "inflight" => Ev(i)' \in Events
  BY <1>1, <1>4
<1> DEFINE Old(key) == IF key \in DOMAIN watch THEN watch[key] ELSE <<>>
           New(key) == {i \in Weighed : WatchRow(i) = key}
           keys == DOMAIN watch \cup {WatchRow(i) : i \in Weighed}
<1>9. DOMAIN watch' = keys /\ \A key \in keys : watch'[key] = Old(key) \o InOrder(New(key), <)
  BY <1>2 DEF UpsertWatchProjection
<1>10. Weighed \subseteq pass.rows /\ Weighed \subseteq Nat /\ IsFiniteSet(Weighed)
       /\ \A i \in Weighed : Ev(i).user # None /\ Ev(i).history
  <2>1. Weighed \subseteq pass.rows /\ Weighed \subseteq DOMAIN ledger
        /\ \A i \in Weighed : Ev(i).user # None /\ Ev(i).history
    BY <1>3 DEF Weighed
  <2>2. DOMAIN ledger = 1 .. Len(ledger) /\ Len(ledger) \in Nat
    BY <1>1 DEF LedgerIsRows
  <2>3. IsFiniteSet(DOMAIN ledger) /\ DOMAIN ledger \subseteq Nat
    BY <2>2, FS_Interval
  <2> QED BY <2>1, <2>3, FS_Subset
<1>11. ASSUME NEW key \in keys
       PROVE  /\ watch'[key] \in Seq(Nat) /\ IsInjective(watch'[key])
              /\ Range(watch'[key]) = Range(Old(key)) \cup New(key)
              /\ \A i \in Range(Old(key)) :
                   i \in EverCommitted /\ WatchRow(i) = key /\ Ev(i).history
  <2>1. /\ Old(key) \in Seq(Nat) /\ IsInjective(Old(key))
        /\ \A i \in Range(Old(key)) :
             i \in EverCommitted /\ WatchRow(i) = key /\ Ev(i).history
    <3>1. CASE key \in DOMAIN watch
      BY <1>1, <3>1 DEF WeightsAreRows
    <3>2. CASE key \notin DOMAIN watch
      <4>1. Old(key) = <<>> /\ DOMAIN <<>> = {}
        BY <3>2
      <4>2. <<>> \in Seq(Nat) /\ IsInjective(<<>>) /\ Range(<<>>) = {}
        BY <4>1 DEF IsInjective, Range
      <4> QED BY <4>1, <4>2
    <3> QED BY <3>1, <3>2
  <2>2. New(key) \subseteq Weighed
    OBVIOUS
  <2> HIDE DEF Old, New
  <2>3. New(key) \subseteq Nat /\ IsFiniteSet(New(key))
    BY <1>10, <2>2, FS_Subset
  <2>4. Range(Old(key)) \cap New(key) = {}
    BY <1>5, <1>10, <2>1, <2>2
  <2>5. /\ Old(key) \o InOrder(New(key), <) \in Seq(Nat)
        /\ IsInjective(Old(key) \o InOrder(New(key), <))
        /\ Range(Old(key) \o InOrder(New(key), <)) = Range(Old(key)) \cup New(key)
    BY <2>1, <2>3, <2>4, MoreRows
  <2> QED BY <1>9, <2>1, <2>5
<1>12. \A i \in EverCommitted' : Ev(i)' = Ev(i) /\ WatchRow(i)' = WatchRow(i)
  BY <1>4 DEF EverCommitted, WatchRow
<1>13. WeightsAreRows'
  <2>1. SUFFICES ASSUME NEW key \in keys, NEW i \in Range(watch'[key])
                 PROVE  i \in EverCommitted' /\ WatchRow(i)' = key /\ Ev(i)'.history
    BY <1>9, <1>11 DEF WeightsAreRows
  <2>2. CASE i \in Range(Old(key))
    <3>1. i \in EverCommitted /\ WatchRow(i) = key /\ Ev(i).history
      BY <1>11, <2>2
    <3> QED BY <1>5, <1>12, <3>1
  <2>3. CASE i \in New(key)
    <3>1. i \in Weighed /\ WatchRow(i) = key
      BY <2>3
    <3> QED BY <1>5, <1>10, <1>12, <3>1
  <2> QED BY <1>11, <2>1, <2>2, <2>3
<1>14. Weights \cup Weighed \subseteq Weights'
  <2>1. ASSUME NEW i \in Weights PROVE i \in Weights'
    <3>1. PICK key \in DOMAIN watch : i \in Range(watch[key])
      BY DEF Weights
    <3>2. key \in keys /\ i \in Range(watch'[key])
      BY <1>11, <3>1
    <3> QED BY <1>9, <3>2 DEF Weights
  <2>2. ASSUME NEW i \in Weighed PROVE i \in Weights'
    <3>1. WatchRow(i) \in keys /\ i \in New(WatchRow(i))
      BY <2>2
    <3>2. i \in Range(watch'[WatchRow(i)])
      BY <1>11, <3>1
    <3> QED BY <1>9, <3>1, <3>2 DEF Weights
  <2> QED BY <2>1, <2>2
<1>15. RowsAreWeighed'
  <2>1. SUFFICES ASSUME NEW i \in OfType("meaningful_watch", Live)',
                        (Ev(i).user # None /\ Ev(i).history)'
                 PROVE  i \in (forgotten \cup Weights)'
    BY DEF RowsAreWeighed
  <2>2. i \in Live \cup pass.rows /\ i \in DOMAIN ledger
    BY <1>4, <1>5 DEF OfType, Live
  <2>3. Ev(i)' = Ev(i)
    BY <1>4, <2>2
  <2>4. CASE i \in pass.rows
    <3>1. i \in Weighed
      BY <2>1, <2>3, <2>4 DEF Weighed
    <3> QED BY <1>14, <3>1
  <2>5. CASE i \in Live
    <3>1. i \in OfType("meaningful_watch", Live) /\ Ev(i).user # None /\ Ev(i).history
      BY <2>1, <2>3, <2>5 DEF OfType
    <3> QED BY <1>1, <1>2, <1>14, <3>1 DEF RowsAreWeighed
  <2> QED BY <2>2, <2>4, <2>5
<1> QED BY <1>4, <1>6, <1>7, <1>8, <1>13, <1>15 DEF EngagementInv

\* A failed pass takes its rows with it (EngagementFails).
LEMMA FailureKeeps ==
  ASSUME EngagementInv, EngagementFails PROVE EngagementInv'
<1>1. /\ LedgerIsRows /\ PassIsRecord /\ PassOwnsItsRows /\ WeightsAreRows /\ RowsAreWeighed
      /\ bumped \subseteq EverCommitted
      /\ \A i \in DOMAIN ledger : ledger[i].status = "inflight" => Ev(i) \in Events
  BY DEF EngagementInv
<1>2. /\ pass.phase \in {"derive", "rebuild", "commit"} /\ ledger' = Marked(pass.rows, "aborted")
      /\ pass' = IdlePass(pass.failures + 1) /\ UNCHANGED <<watch, forgotten, bumped>>
  BY DEF EngagementFails
<1>3. /\ pass.rows = OpenRows /\ pass.rows \subseteq DOMAIN ledger
      /\ \A i \in pass.rows : ledger[i].status = "derived"
  BY <1>1, <1>2 DEF PassOwnsItsRows, OpenRows
<1>4. /\ LedgerIsRows' /\ DOMAIN ledger' = DOMAIN ledger
      /\ \A i \in DOMAIN ledger :
           /\ Ev(i)' = Ev(i)
           /\ ledger'[i].status = IF i \in pass.rows THEN "aborted" ELSE ledger[i].status
  BY <1>1, <1>2, MarkedRows DEF RowStatuses
<1>5. RowsStay /\ OpenRows' = {} /\ Live' \subseteq Live
  BY <1>3, <1>4 DEF RowsStay, EverCommitted, OpenRows, Live
<1>6. EverCommitted \subseteq EverCommitted'
  BY <1>5 DEF RowsStay, EverCommitted
<1>7. PassIsRecord' /\ pass'.phase = "idle" /\ pass'.rows = {}
  BY <1>2 DEF PassIsRecord, IdlePass, Phases
<1>8. PassOwnsItsRows' /\ bumped' \subseteq EverCommitted'
  BY <1>1, <1>2, <1>5, <1>6, <1>7 DEF PassOwnsItsRows
<1>9. \A i \in DOMAIN ledger' : ledger'[i].status = "inflight" => Ev(i)' \in Events
  BY <1>1, <1>4
<1> QED BY <1>1, <1>2, <1>4, <1>5, <1>7, <1>8, <1>9, WeightsStay, WeighedStays DEF EngagementInv

\* The steps of a pass that leave the ledger and the weights alone.
LEMMA OtherStepsKeep ==
  ASSUME EngagementInv,
         \/ EngagementRead \/ RebuildQueryVideoEngagement \/ TrendBumpFlush \/ EngagementEnds
         \/ UNCHANGED engagementVars
  PROVE  EngagementInv'
<1>1. /\ LedgerIsRows /\ PassIsRecord /\ PassOwnsItsRows /\ WeightsAreRows /\ RowsAreWeighed
      /\ bumped \subseteq EverCommitted
      /\ \A i \in DOMAIN ledger : ledger[i].status = "inflight" => Ev(i) \in Events
  BY DEF EngagementInv
<1>2. UNCHANGED <<ledger, watch, forgotten>>
  BY DEF EngagementRead, RebuildQueryVideoEngagement, TrendBumpFlush, EngagementEnds, engagementVars
<1>3. /\ LedgerIsRows' /\ WeightsAreRows' /\ RowsAreWeighed'
      /\ EverCommitted' = EverCommitted /\ OpenRows' = OpenRows
      /\ \A i \in DOMAIN ledger' : ledger'[i].status = "inflight" => Ev(i)' \in Events
  BY <1>1, <1>2 DEF LedgerIsRows, WeightsAreRows, RowsAreWeighed, EverCommitted, OpenRows,
                    Weights, WatchRow, OfType, Live, Ev
<1>4. PassIsRecord' /\ PassOwnsItsRows' /\ bumped' \subseteq EverCommitted'
  <2>1. CASE EngagementRead
    <3>1. pass'.phase = "derive" /\ pass'.rows = pass.rows /\ PassIsRecord'
          /\ pass.phase = "idle" /\ UNCHANGED bumped
      BY <1>1, <2>1 DEF EngagementRead, PassIsRecord, Phases
    <3> QED BY <1>1, <1>3, <3>1 DEF PassOwnsItsRows
  <2>2. CASE RebuildQueryVideoEngagement
    <3>1. pass'.phase = "commit" /\ pass'.rows = pass.rows /\ PassIsRecord'
          /\ pass.phase = "rebuild" /\ UNCHANGED bumped
      BY <1>1, <2>2 DEF RebuildQueryVideoEngagement, PassIsRecord, Phases
    <3> QED BY <1>1, <1>3, <3>1 DEF PassOwnsItsRows
  <2>3. CASE TrendBumpFlush
    <3>1. PICK i \in pass.rows : /\ pass.phase = "flush" /\ bumped' \subseteq bumped \cup {i}
                                 /\ pass' = [pass EXCEPT !.rows = @ \ {i}]
      BY <2>3 DEF TrendBumpFlush
    <3>2. pass'.phase = "flush" /\ pass'.rows \subseteq pass.rows /\ PassIsRecord'
      BY <1>1, <3>1 DEF PassIsRecord, Phases
    <3> QED BY <1>1, <1>3, <3>1, <3>2 DEF PassOwnsItsRows
  <2>4. CASE EngagementEnds
    <3>1. pass'.phase = "idle" /\ pass'.rows = {} /\ PassIsRecord'
          /\ pass.phase = "flush" /\ UNCHANGED bumped
      BY <2>4 DEF EngagementEnds, PassIsRecord, IdlePass, Phases
    <3> QED BY <1>1, <1>3, <3>1 DEF PassOwnsItsRows
  <2>5. CASE UNCHANGED engagementVars
    BY <1>1, <1>3, <2>5 DEF engagementVars, PassIsRecord, PassOwnsItsRows
  <2> QED BY <2>1, <2>2, <2>3, <2>4, <2>5
<1> QED BY <1>3, <1>4 DEF EngagementInv

LEMMA EngagementInvImplies == ASSUME EngagementInv PROVE DerivedWatchesAreExact
<1>1. WeightsAreRows /\ RowsAreWeighed /\ bumped \subseteq EverCommitted
  BY DEF EngagementInv
<1>2. \A i \in EverCommitted : ledger[i].status \notin {"derived", "aborted"}
  BY DEF EverCommitted
<1>3. BumpedRowsAreCommitted
  BY <1>1, <1>2 DEF BumpedRowsAreCommitted
<1>4. WeightsMatchRows
  <2>1. \A key \in DOMAIN watch :
          /\ IsInjective(watch[key])
          /\ \A i \in Range(watch[key]) :
               /\ ledger[i].status \notin {"derived", "aborted"}
               /\ WatchRow(i) = key /\ Ev(i).history
    BY <1>1, <1>2 DEF WeightsAreRows
  <2>2. \A i \in OfType("meaningful_watch", Live) :
          Ev(i).user # None /\ Ev(i).history =>
            i \in forgotten \cup UNION {Range(watch[key]) : key \in DOMAIN watch}
    BY <1>1 DEF RowsAreWeighed, Weights
  <2> QED BY <2>1, <2>2 DEF WeightsMatchRows
<1> QED BY <1>3, <1>4 DEF DerivedWatchesAreExact

(* Whatever is deleted, expires, fails or stops between the statements of a  *)
(* pass and its commit, or between its commit and its bumps, each projection *)
(* weight of a derived watch stands for one committed, consented row, no     *)
(* such row is without its weight unless a deletion took it, and no bump     *)
(* counts a row that was rolled back (worker.go, engagementRollup).          *)
THEOREM WatchesStayExact == EngagementSpec => []DerivedWatchesAreExact
<1>1. EngagementInit => EngagementInv
  <2> SUFFICES ASSUME EngagementInit PROVE EngagementInv
    OBVIOUS
  <2>1. /\ ledger = <<>> /\ watch = [key \in {} |-> <<>>] /\ forgotten = {} /\ bumped = {}
        /\ pass = IdlePass(0)
    BY DEF EngagementInit, LedgerInit
  <2>2. /\ Len(ledger) = 0 /\ DOMAIN ledger = {} /\ DOMAIN watch = {} /\ 1 .. 0 = {}
        /\ ledger = [i \in 1 .. 0 |-> Row(Ev(i), ledger[i].status)]
    BY <2>1
  <2>3. LedgerIsRows
    BY <2>2 DEF LedgerIsRows
  <2>4. EverCommitted = {} /\ OpenRows = {} /\ Live = {}
    BY <2>2 DEF EverCommitted, OpenRows, Live
  <2>5. PassIsRecord /\ pass.phase = "idle" /\ pass.rows = {}
    BY <2>1 DEF PassIsRecord, IdlePass, Phases
  <2>6. PassOwnsItsRows
    BY <2>4, <2>5 DEF PassOwnsItsRows
  <2>7. WeightsAreRows /\ RowsAreWeighed
    BY <2>2, <2>4 DEF WeightsAreRows, RowsAreWeighed, OfType
  <2> QED BY <2>1, <2>2, <2>3, <2>5, <2>6, <2>7 DEF EngagementInv
<1>2. EngagementInv /\ [EngagementNext]_engagementVars => EngagementInv'
  <2> SUFFICES ASSUME EngagementInv, [EngagementNext]_engagementVars PROVE EngagementInv'
    OBVIOUS
  <2>1. CASE LedgerStep
    BY <2>1, LedgerStepKeeps
  <2>2. ASSUME NEW user, NEW scope, ForgetUser(user, scope) PROVE EngagementInv'
    BY <2>2, ForgetKeeps
  <2>3. CASE EngagementPass
    BY <2>3, DeriveKeeps, CommitKeeps, OtherStepsKeep DEF EngagementPass
  <2>4. CASE EngagementFails
    BY <2>4, FailureKeeps
  <2> QED BY <2>1, <2>2, <2>3, <2>4, OtherStepsKeep DEF EngagementNext
<1>3. EngagementInv => DerivedWatchesAreExact
  BY EngagementInvImplies
<1> QED BY <1>1, <1>2, <1>3, PTL DEF EngagementSpec
-----------------------------------------------------------------------------
(***************************************************************************)
(* The sessionizer.                                                        *)
(***************************************************************************)
SearchRows == [search : Searches, status : {"inflight", "live", "late", "deleted"}]

BatchIsRecord ==
  /\ batch.phase \in {"idle", "list", "commit"} /\ batch.maxid \in Nat
  /\ batch = [phase |-> batch.phase, maxid |-> batch.maxid, rows |-> batch.rows,
              signals |-> batch.signals, restarts |-> batch.restarts]

\* Only what a worker derived names what it was derived from.
OnlyWorkersDerive ==
  \A i \in DOMAIN ledger : "derived" \in DOMAIN Ev(i) => Ev(i).type \in DerivedTypes

InSession == {i \in DOMAIN queryLog : Sr(i).session # None}

\* What a pass listed is still all there is to judge when it commits.
BatchIsComplete ==
  batch.phase = "commit" =>
    /\ batch.rows \subseteq InSession
    /\ batch.signals \subseteq Ingested
    /\ \A i \in InSession :
         queryLog[i].status = "live" /\ i > settled /\ i =< batch.maxid => i \in batch.rows

Judged(i) ==
  \/ HasEngagement(Ingested, i)
  \/ \E n \in DOMAIN ledger : /\ "derived" \in DOMAIN Ev(n)
                              /\ Ev(n).derived = Verdict("abandoned", i, None)

SessionInv ==
  /\ LedgerIsRows
  /\ OnlyWorkersDerive
  /\ queryLog \in Seq(SearchRows)
  /\ settled \in Nat
  /\ BatchIsRecord
  /\ BatchIsComplete
  /\ PassedSearchesWereJudged

\* No step takes a row's event or a search's words away.
EventsStay == \A i \in DOMAIN ledger : i \in DOMAIN ledger' /\ Ev(i)' = Ev(i)
SearchesStay == \A i \in DOMAIN queryLog : i \in DOMAIN queryLog' /\ Sr(i)' = Sr(i)

LEMMA JudgedStays ==
  ASSUME EventsStay, SearchesStay, NEW i \in DOMAIN queryLog, Judged(i)
  PROVE  Judged(i)'
<1>1. Ingested \subseteq Ingested' /\ \A s \in Ingested : Ev(s)' = Ev(s)
  BY DEF EventsStay, Ingested
<1>2. Sr(i)' = Sr(i)
  BY DEF SearchesStay
<1>3. CASE HasEngagement(Ingested, i)
  BY <1>1, <1>2, <1>3 DEF HasEngagement, Judged
<1>4. CASE \E n \in DOMAIN ledger : /\ "derived" \in DOMAIN Ev(n)
                                    /\ Ev(n).derived = Verdict("abandoned", i, None)
  BY <1>4 DEF EventsStay, Verdict, Judged
<1> QED BY <1>3, <1>4 DEF Judged

\* Searches that are newly live lie beyond what the cursor has passed and what
\* the pass has listed.
LiveStaysBehind ==
  \A i \in DOMAIN queryLog' :
    queryLog'[i].status = "live" =>
      \/ i \in DOMAIN queryLog /\ queryLog[i].status = "live"
      \/ i > settled /\ (batch.phase = "commit" => i > batch.maxid)

LEMMA PassedStayJudged ==
  ASSUME PassedSearchesWereJudged, EventsStay, SearchesStay, LiveStaysBehind,
         queryLog' \in Seq(SearchRows), settled \in Nat, UNCHANGED settled
  PROVE  PassedSearchesWereJudged'
<1>1. SUFFICES ASSUME NEW i \in DOMAIN queryLog', queryLog'[i].status = "live",
                      i =< settled, Sr(i)'.session # None
               PROVE  Judged(i)'
  BY DEF PassedSearchesWereJudged, Judged
<1>2. i \in Nat
  OBVIOUS
<1>3. i \in DOMAIN queryLog /\ queryLog[i].status = "live"
  BY <1>1, <1>2 DEF LiveStaysBehind
<1>4. Sr(i)' = Sr(i)
  BY <1>3 DEF SearchesStay
<1>5. Judged(i)
  BY <1>1, <1>3, <1>4 DEF PassedSearchesWereJudged, Judged
<1> QED BY <1>3, <1>5, JudgedStays

LEMMA BatchStaysComplete ==
  ASSUME BatchIsComplete, BatchIsRecord, EventsStay, SearchesStay, LiveStaysBehind,
         queryLog' \in Seq(SearchRows), settled \in Nat, UNCHANGED <<settled, batch>>
  PROVE  BatchIsComplete'
<1>1. SUFFICES ASSUME batch.phase = "commit"
               PROVE  /\ batch.rows \subseteq InSession'
                      /\ batch.signals \subseteq Ingested'
                      /\ \A i \in InSession' :
                           queryLog'[i].status = "live" /\ i > settled /\ i =< batch.maxid
                             => i \in batch.rows
  BY DEF BatchIsComplete
<1>2. batch.rows \subseteq InSession'
  BY <1>1 DEF BatchIsComplete, SearchesStay, InSession
<1>3. batch.signals \subseteq Ingested'
  BY <1>1 DEF BatchIsComplete, EventsStay, Ingested
<1>4. ASSUME NEW i \in InSession', queryLog'[i].status = "live", i > settled, i =< batch.maxid
      PROVE  i \in batch.rows
  <2>1. i \in Nat /\ i \in DOMAIN queryLog'
    BY DEF InSession
  <2>2. i \in DOMAIN queryLog /\ queryLog[i].status = "live"
    BY <1>1, <1>4, <2>1 DEF LiveStaysBehind, BatchIsRecord
  <2>3. i \in InSession
    BY <2>2 DEF SearchesStay, InSession
  <2> QED BY <1>1, <1>4, <2>2, <2>3 DEF BatchIsComplete
<1> QED BY <1>2, <1>3, <1>4

\* A step beside the pass keeps the invariant.
LEMMA BesideThePass ==
  ASSUME SessionInv, LedgerIsRows', OnlyWorkersDerive', EventsStay, SearchesStay,
         LiveStaysBehind, queryLog' \in Seq(SearchRows), UNCHANGED <<settled, batch>>
  PROVE  SessionInv'
<1>1. BatchIsRecord /\ BatchIsComplete /\ PassedSearchesWereJudged /\ settled \in Nat
  BY DEF SessionInv
<1>2. BatchIsRecord'
  BY <1>1 DEF BatchIsRecord
<1>3. BatchIsComplete'
  BY <1>1, BatchStaysComplete
<1>4. PassedSearchesWereJudged'
  BY <1>1, PassedStayJudged
<1> QED BY <1>1, <1>2, <1>3, <1>4 DEF SessionInv

LEMMA SameLedger ==
  ASSUME LedgerIsRows, OnlyWorkersDerive, UNCHANGED ledger
  PROVE  LedgerIsRows' /\ OnlyWorkersDerive' /\ EventsStay
<1>1. LedgerIsRows'
  BY DEF LedgerIsRows, Ev
<1>2. OnlyWorkersDerive' /\ EventsStay
  BY DEF OnlyWorkersDerive, EventsStay, Ev
<1> QED BY <1>1, <1>2

LEMMA SameLog ==
  ASSUME queryLog \in Seq(SearchRows), UNCHANGED queryLog
  PROVE  queryLog' \in Seq(SearchRows) /\ SearchesStay /\ LiveStaysBehind
BY DEF SearchesStay, LiveStaysBehind, Sr

LEMMA SubmitKeeps ==
  ASSUME SessionInv, NEW s \in Searches, SubmitSearch(s)
  PROVE  SessionInv'
<1>1. /\ LedgerIsRows /\ OnlyWorkersDerive /\ queryLog \in Seq(SearchRows)
      /\ UNCHANGED <<ledger, settled, batch>>
  BY DEF SessionInv, SubmitSearch
<1> DEFINE new == [search |-> s, status |-> "inflight"]
<1>2. queryLog' = Append(queryLog, new) /\ new \in SearchRows
  BY DEF SubmitSearch, SearchRows
<1>3. new.status = "inflight"
  OBVIOUS
<1> HIDE DEF new
<1>4. /\ queryLog' \in Seq(SearchRows) /\ Len(queryLog') = Len(queryLog) + 1
      /\ queryLog'[Len(queryLog) + 1] = new
      /\ \A i \in DOMAIN queryLog : i \in DOMAIN queryLog' /\ queryLog'[i] = queryLog[i]
      /\ \A i \in DOMAIN queryLog' : i \in DOMAIN queryLog \/ i = Len(queryLog) + 1
  BY <1>1, <1>2
<1>5. SearchesStay
  BY <1>4 DEF SearchesStay, Sr
<1>6. LiveStaysBehind
  BY <1>3, <1>4 DEF LiveStaysBehind
<1> QED BY <1>1, <1>4, <1>5, <1>6, SameLedger, BesideThePass

\* Statuses change, the searches stay.
LEMMA EndSubmitKeeps ==
  ASSUME SessionInv, NEW i \in DOMAIN queryLog, EndSubmit(i)
  PROVE  SessionInv'
<1>1. /\ LedgerIsRows /\ OnlyWorkersDerive /\ queryLog \in Seq(SearchRows)
      /\ BatchIsRecord /\ settled \in Nat
      /\ UNCHANGED <<ledger, settled, batch>>
  BY DEF SessionInv, EndSubmit
<1> DEFINE status == IF PassedBy(i) THEN "late" ELSE "live"
<1>2. queryLog' = [queryLog EXCEPT ![i].status = status] /\ status \in {"late", "live"}
  BY DEF EndSubmit
<1>3. status = "live" => i > settled /\ (batch.phase = "commit" => i > batch.maxid)
  <2>1. i \in Nat /\ settled \in Nat /\ batch.maxid \in Nat
    BY <1>1 DEF BatchIsRecord
  <2> QED BY <2>1 DEF PassedBy
<1> HIDE DEF status
<1>4. /\ DOMAIN queryLog' = DOMAIN queryLog /\ queryLog' \in Seq(SearchRows)
      /\ \A j \in DOMAIN queryLog : j # i => queryLog'[j] = queryLog[j]
      /\ queryLog'[i] = [queryLog[i] EXCEPT !.status = status]
  <2>1. queryLog[i] \in SearchRows /\ Len(queryLog) \in Nat /\ DOMAIN queryLog = 1 .. Len(queryLog)
        /\ \A j \in 1 .. Len(queryLog) : queryLog[j] \in SearchRows
    BY <1>1
  <2>2. [queryLog[i] EXCEPT !.status = status] \in SearchRows
    BY <1>2, <2>1 DEF SearchRows
  <2> HIDE DEF SearchRows
  <2> DEFINE row == [queryLog[i] EXCEPT !.status = status]
  <2>3. row \in SearchRows /\ queryLog' = [queryLog EXCEPT ![i] = row]
    BY <1>2, <2>2
  <2>4. queryLog = [j \in 1 .. Len(queryLog) |-> queryLog[j]]
    BY <1>1, ListIsFunction
  <2> HIDE DEF row
  <2>5. queryLog' \in [1 .. Len(queryLog) -> SearchRows]
    BY <2>1, <2>3, <2>4
  <2>6. queryLog' \in Seq(SearchRows)
    BY <2>1, <2>5
  <2>7. DOMAIN queryLog' = DOMAIN queryLog /\ queryLog'[i] = row
        /\ \A j \in DOMAIN queryLog : j # i => queryLog'[j] = queryLog[j]
    BY <2>1, <2>3, <2>4
  <2> QED BY <2>6, <2>7 DEF row
<1>5. queryLog'[i].search = queryLog[i].search /\ queryLog'[i].status = status
  <2>1. queryLog[i] \in SearchRows
    BY <1>1
  <2> QED BY <1>4, <2>1 DEF SearchRows
<1>6. SearchesStay
  BY <1>4, <1>5 DEF SearchesStay, Sr
<1>7. LiveStaysBehind
  BY <1>3, <1>4, <1>5 DEF LiveStaysBehind
<1> QED BY <1>1, <1>4, <1>6, <1>7, SameLedger, BesideThePass

LEMMA SessionForgetKeeps ==
  ASSUME SessionInv, NEW user, SessionForget(user)
  PROVE  SessionInv'
<1>1. /\ LedgerIsRows /\ OnlyWorkersDerive /\ queryLog \in Seq(SearchRows)
      /\ UNCHANGED <<settled, batch>> /\ ledger' = Marked(RowsOf(user), "deleted")
  BY DEF SessionInv, SessionForget, DeleteBehaviorEventsForUser
<1>2. /\ LedgerIsRows' /\ DOMAIN ledger' = DOMAIN ledger
      /\ \A i \in DOMAIN ledger : Ev(i)' = Ev(i)
  BY <1>1, MarkedRows DEF RowStatuses
<1>3. OnlyWorkersDerive' /\ EventsStay
  BY <1>1, <1>2 DEF OnlyWorkersDerive, EventsStay
<1> DEFINE gone == {i \in DOMAIN queryLog : i \in Settleable /\ Sr(i).user = user}
<1>4. queryLog' = [i \in DOMAIN queryLog |->
                     IF i \in gone THEN [queryLog[i] EXCEPT !.status = "deleted"]
                     ELSE queryLog[i]]
  BY DEF SessionForget
<1> HIDE DEF gone
<1>5. ASSUME NEW i \in DOMAIN queryLog
      PROVE  /\ queryLog'[i] \in SearchRows /\ queryLog'[i].search = queryLog[i].search
             /\ queryLog'[i].status = "live" => queryLog[i].status = "live"
  <2>1. queryLog[i] \in SearchRows
    BY <1>1
  <2>2. \/ queryLog'[i] = queryLog[i]
        \/ queryLog'[i] = [queryLog[i] EXCEPT !.status = "deleted"]
    BY <1>4
  <2> QED BY <2>1, <2>2 DEF SearchRows
<1>6. DOMAIN queryLog' = DOMAIN queryLog /\ queryLog' \in Seq(SearchRows)
  <2>1. queryLog' \in [1 .. Len(queryLog) -> SearchRows] /\ Len(queryLog) \in Nat
        /\ DOMAIN queryLog = 1 .. Len(queryLog)
    BY <1>1, <1>4, <1>5
  <2> QED BY <2>1
<1>7. SearchesStay /\ LiveStaysBehind
  BY <1>5, <1>6 DEF SearchesStay, LiveStaysBehind, Sr
<1> QED BY <1>1, <1>2, <1>3, <1>6, <1>7, BesideThePass

LEMMA EngageKeeps ==
  ASSUME SessionInv, NEW e \in Events, Engage(e)
  PROVE  SessionInv'
<1>1. /\ LedgerIsRows /\ OnlyWorkersDerive /\ queryLog \in Seq(SearchRows)
      /\ UNCHANGED <<queryLog, settled, batch>>
      /\ ledger' = Append(ledger, Row(e, "live")) /\ "live" \in RowStatuses
  BY DEF SessionInv, Engage, IngestBehaviorEvent, RowStatuses
<1>2. /\ LedgerIsRows'
      /\ \A i \in DOMAIN ledger : i \in DOMAIN ledger' /\ Ev(i)' = Ev(i)
      /\ \A i \in DOMAIN ledger' \ DOMAIN ledger : Ev(i)' = e
  BY <1>1, OneRow
<1>3. "derived" \notin DOMAIN e
  BY LedgerAssumption DEF EventFields
<1>4. OnlyWorkersDerive' /\ EventsStay
  BY <1>1, <1>2, <1>3 DEF OnlyWorkersDerive, EventsStay
<1> QED BY <1>1, <1>2, <1>4, SameLog, BesideThePass

LEMMA TickKeeps ==
  ASSUME SessionInv, SessionTick \/ UNCHANGED sessionVars
  PROVE  SessionInv'
<1>1. /\ LedgerIsRows /\ OnlyWorkersDerive /\ queryLog \in Seq(SearchRows)
      /\ UNCHANGED <<ledger, queryLog, settled, batch>>
  BY DEF SessionInv, SessionTick, sessionVars
<1> QED BY <1>1, SameLedger, SameLog, BesideThePass

\* The steps of a pass that write nothing but the pass.
LEMMA ReadKeeps ==
  ASSUME SessionInv, SessionizerRead \/ SessionizerFails
  PROVE  SessionInv'
<1>1. /\ LedgerIsRows /\ OnlyWorkersDerive /\ queryLog \in Seq(SearchRows) /\ settled \in Nat
      /\ BatchIsRecord /\ PassedSearchesWereJudged
      /\ UNCHANGED <<ledger, queryLog, settled>>
  BY DEF SessionInv, SessionizerRead, SessionizerFails
<1>2. LedgerIsRows' /\ OnlyWorkersDerive' /\ EventsStay
  BY <1>1, SameLedger
<1>3. queryLog' \in Seq(SearchRows) /\ SearchesStay /\ LiveStaysBehind
  BY <1>1, SameLog
<1>4. PassedSearchesWereJudged'
  BY <1>1, <1>2, <1>3, PassedStayJudged
<1>5. BatchIsRecord' /\ BatchIsComplete'
  <2>1. CASE SessionizerRead
    <3> DEFINE cutoff == clock - AbandonWindow
               top == MaxSettled(cutoff)
    <3>1. top \in Nat
      <4> DEFINE old == {i \in Settleable : Sr(i).at =< cutoff}
      <4>1. CASE old = {}
        BY <4>1 DEF MaxSettled
      <4>2. CASE old # {}
        <5>1. old \in SUBSET (1 .. Len(queryLog)) /\ Len(queryLog) \in Nat
          BY <1>1 DEF Settleable
        <5>2. PICK i \in old : \A j \in old : j =< i
          BY <4>2, <5>1, LargestOf
        <5>3. top \in old
          <6>1. top = CHOOSE k \in old : \A j \in old : j =< k
            BY <4>2 DEF MaxSettled
          <6> QED BY <5>2, <6>1
        <5> QED BY <5>1, <5>3
      <4> QED BY <4>1, <4>2
    <3>2. batch' = [batch EXCEPT !.phase = "list", !.maxid = top]
      BY <2>1 DEF SessionizerRead
    <3> HIDE DEF top
    <3>3. BatchIsRecord' /\ batch'.phase = "list"
      BY <1>1, <3>1, <3>2 DEF BatchIsRecord
    <3> QED BY <3>3 DEF BatchIsComplete
  <2>2. CASE SessionizerFails
    BY <2>2 DEF SessionizerFails, NoBatch, BatchIsRecord, BatchIsComplete
  <2> QED BY <2>1, <2>2
<1> QED BY <1>1, <1>2, <1>3, <1>4, <1>5 DEF SessionInv

LEMMA ListKeeps ==
  ASSUME SessionInv, SessionizerList
  PROVE  SessionInv'
<1>1. /\ LedgerIsRows /\ OnlyWorkersDerive /\ queryLog \in Seq(SearchRows) /\ settled \in Nat
      /\ BatchIsRecord /\ PassedSearchesWereJudged
      /\ UNCHANGED <<ledger, queryLog, settled>>
  BY DEF SessionInv, SessionizerList
<1>2. LedgerIsRows' /\ OnlyWorkersDerive' /\ EventsStay
  BY <1>1, SameLedger
<1>3. queryLog' \in Seq(SearchRows) /\ SearchesStay /\ LiveStaysBehind
  BY <1>1, SameLog
<1>4. PassedSearchesWereJudged'
  BY <1>1, <1>2, <1>3, PassedStayJudged
<1> DEFINE rows == {i \in Settleable : i > settled /\ i =< batch.maxid /\ Sr(i).session # None}
           signals == {i \in Live : /\ Ev(i).type \in {"clicked", "play_started"}
                                    /\ \E r \in rows : Sr(r).at =< Ev(i).at
                                    /\ Ev(i).session # None /\ Ev(i).at =< clock}
<1>5. batch' = [batch EXCEPT !.phase = "commit", !.rows = rows, !.signals = signals]
  BY DEF SessionizerList
<1>6. rows \subseteq InSession
  BY DEF Settleable, InSession
<1>7. signals \subseteq Ingested
  <2> SUFFICES ASSUME NEW i \in signals PROVE i \in Ingested
    OBVIOUS
  <2>1. i \in DOMAIN ledger /\ Ev(i).type \in {"clicked", "play_started"}
    BY DEF Live
  <2>2. Ev(i).type \notin DerivedTypes
    BY <2>1 DEF DerivedTypes
  <2> QED BY <1>1, <2>1, <2>2 DEF OnlyWorkersDerive, Ingested
<1>8. \A i \in InSession :
        queryLog[i].status = "live" /\ i > settled /\ i =< batch.maxid => i \in rows
  BY DEF Settleable, InSession
<1> HIDE DEF rows, signals
<1>9. BatchIsRecord' /\ batch'.phase = "commit" /\ batch'.rows = rows
      /\ batch'.signals = signals /\ batch'.maxid = batch.maxid
  BY <1>1, <1>5 DEF BatchIsRecord
<1>10. InSession' = InSession /\ Ingested' = Ingested
  BY <1>1 DEF InSession, Ingested, Sr, Ev
<1>11. BatchIsComplete'
  BY <1>1, <1>6, <1>7, <1>8, <1>9, <1>10 DEF BatchIsComplete
<1> QED BY <1>1, <1>2, <1>3, <1>4, <1>9, <1>11 DEF SessionInv

-----------------------------------------------------------------------------
(* Sessionize *)

\* The searches of a batch are sorted by a strict total order (Before).
LEMMA BeforeIsStrict ==
  ASSUME queryLog \in Seq(SearchRows), NEW rows, rows \subseteq InSession
  PROVE  StrictOrder({w \in rows \X rows : Before(w[1], w[2])}, rows)
<1> DEFINE R == {w \in rows \X rows : Before(w[1], w[2])}
           rank == [i \in rows |-> SessionRank(Sr(i).session)]
           at == [i \in rows |-> Sr(i).at]
<1>1. ASSUME NEW i \in rows
      PROVE  /\ i \in Nat /\ at[i] \in Nat /\ rank[i] \in Nat
             /\ SessionOrder[rank[i]] = Sr(i).session
  <2>1. i \in DOMAIN queryLog /\ Sr(i).session # None
    BY DEF InSession
  <2>2. queryLog[i] \in SearchRows /\ i \in Nat
    BY <2>1
  <2>3. Sr(i) \in Searches
    BY <2>2 DEF SearchRows, Sr
  <2>4. Sr(i).at \in Nat /\ Sr(i).session \in Range(SessionOrder)
    BY <2>1, <2>3, SessionizerAssumption
  <2>5. DOMAIN SessionOrder \subseteq Nat
    BY SessionizerAssumption
  <2>6. \E n \in DOMAIN SessionOrder : SessionOrder[n] = Sr(i).session
    BY <2>4 DEF Range
  <2>7. SessionRank(Sr(i).session) \in DOMAIN SessionOrder
        /\ SessionOrder[SessionRank(Sr(i).session)] = Sr(i).session
    BY <2>6 DEF SessionRank
  <2> QED BY <2>2, <2>4, <2>5, <2>7
<1>2. \A i, j \in rows : Sr(i).session = Sr(j).session <=> rank[i] = rank[j]
  BY <1>1
<1>3. \A i, j \in rows :
        <<i, j>> \in R <=>
          IF rank[i] # rank[j] THEN rank[i] < rank[j]
          ELSE IF at[i] # at[j] THEN at[i] < at[j] ELSE i < j
  BY <1>2 DEF Before
<1>4. \A i \in rows : i \in Nat /\ at[i] \in Nat /\ rank[i] \in Nat
  BY <1>1
<1> HIDE DEF R, rank, at
<1>5. \A i \in rows : <<i, i>> \notin R
  BY <1>3, <1>4
<1>6. ASSUME NEW i \in rows, NEW j \in rows PROVE i = j \/ <<i, j>> \in R \/ <<j, i>> \in R
  <2> DEFINE a == rank[i] b == rank[j] x == at[i] y == at[j]
  <2>1. a \in Nat /\ b \in Nat /\ x \in Nat /\ y \in Nat /\ i \in Nat /\ j \in Nat
    BY <1>4
  <2>2. /\ <<i, j>> \in R <=> IF a # b THEN a < b ELSE IF x # y THEN x < y ELSE i < j
        /\ <<j, i>> \in R <=> IF b # a THEN b < a ELSE IF y # x THEN y < x ELSE j < i
    BY <1>3
  <2> HIDE DEF a, b, x, y
  <2>3. a < b \/ b < a \/ a = b
    BY <2>1
  <2>4. x < y \/ y < x \/ x = y
    BY <2>1
  <2>5. i < j \/ j < i \/ i = j
    BY <2>1
  <2> QED BY <2>1, <2>2, <2>3, <2>4, <2>5
<1>7. ASSUME NEW i \in rows, NEW j \in rows, NEW k \in rows, <<i, j>> \in R, <<j, k>> \in R
      PROVE  <<i, k>> \in R
  <2> DEFINE a == rank[i] b == rank[j] c == rank[k]
             x == at[i] y == at[j] z == at[k]
  <2>1. /\ a \in Nat /\ b \in Nat /\ c \in Nat /\ x \in Nat /\ y \in Nat /\ z \in Nat
        /\ i \in Nat /\ j \in Nat /\ k \in Nat
    BY <1>4
  <2>2. /\ IF a # b THEN a < b ELSE IF x # y THEN x < y ELSE i < j
        /\ IF b # c THEN b < c ELSE IF y # z THEN y < z ELSE j < k
    BY <1>3, <1>7
  <2>3. IF a # c THEN a < c ELSE IF x # z THEN x < z ELSE i < k
    <3> HIDE DEF a, b, c, x, y, z
    <3> QED BY <2>1, <2>2
  <2> QED BY <1>3, <2>3
<1> QED BY <1>5, <1>6, <1>7 DEF StrictOrder, R

\* Every search of the batch is in the sorted list, and nothing else is.
LEMMA SortedBatch ==
  ASSUME queryLog \in Seq(SearchRows), NEW rows, rows \subseteq InSession
  PROVE  /\ IsFiniteSet(rows) /\ Cardinality(rows) \in Nat
         /\ InOrder(rows, Before) \in [1 .. Cardinality(rows) -> rows]
         /\ \A i \in rows : \E n \in 1 .. Cardinality(rows) : InOrder(rows, Before)[n] = i
<1> DEFINE R == {w \in rows \X rows : Before(w[1], w[2])}
           f == InOrder(rows, Before)
<1>1. IsFiniteSet(rows)
  <2>1. IsFiniteSet(1 .. Len(queryLog))
    BY FS_Interval
  <2>2. rows \in SUBSET (1 .. Len(queryLog))
    BY DEF InSession
  <2> QED BY <2>1, <2>2, FS_Subset
<1>2. StrictOrder(R, rows)
  BY BeforeIsStrict
<1>3. \A x \in rows : {y \in rows : <<y, x>> \in R} = {y \in rows : Before(y, x)}
  OBVIOUS
<1>4. f = [n \in 1 .. Cardinality(rows) |->
             CHOOSE x \in rows : Cardinality({y \in rows : Before(y, x)}) = n - 1]
  BY DEF InOrder
<1> HIDE DEF f
<1>5. \A n \in 1 .. Cardinality(rows) :
        (\E x \in rows : Cardinality({y \in rows : Before(y, x)}) = n - 1)
          => f[n] \in rows /\ Cardinality({y \in rows : Before(y, f[n])}) = n - 1
  BY <1>4
<1> HIDE DEF R
<1>6. \A n \in 1 .. Cardinality(rows) :
        (\E x \in rows : Cardinality({y \in rows : <<y, x>> \in R}) = n - 1)
          => f[n] \in rows /\ Cardinality({y \in rows : <<y, f[n]>> \in R}) = n - 1
  BY <1>3, <1>5
<1>7. DOMAIN f = 1 .. Cardinality(rows) /\ f = [n \in DOMAIN f |-> f[n]]
  <2> DEFINE At(n) == CHOOSE x \in rows : Cardinality({y \in rows : Before(y, x)}) = n - 1
  <2>1. f = [n \in 1 .. Cardinality(rows) |-> At(n)]
    BY <1>4
  <2> HIDE DEF At
  <2> QED BY <2>1
<1>8. Numbers(f, rows, R)
  BY <1>6, <1>7 DEF Numbers
<1>9. /\ f \in [1 .. Cardinality(rows) -> rows] /\ Cardinality(rows) \in Nat
      /\ \A x \in rows : \E n \in 1 .. Cardinality(rows) : f[n] = x
  BY <1>1, <1>2, <1>8, InOrderLists
<1> QED BY <1>1, <1>9 DEF f

\* A batch has finitely many verdicts, of the two derived types, and one for
\* every search that nothing answered.
LEMMA VerdictsOfBatch ==
  ASSUME queryLog \in Seq(SearchRows), NEW rows, rows \subseteq InSession, NEW signals
  PROVE  /\ IsFiniteSet(Sessionize(rows, signals))
         /\ \A v \in Sessionize(rows, signals) : v.type \in {"reformulated", "abandoned"}
         /\ \A i \in rows :
              \/ HasEngagement(signals, i)
              \/ Verdict("abandoned", i, None) \in Sessionize(rows, signals)
<1> DEFINE sorted == InOrder(rows, Before)
           m == Cardinality(rows)
<1>1. /\ m \in Nat /\ DOMAIN sorted = 1 .. m
      /\ \A i \in rows : \E n \in 1 .. m : sorted[n] = i
  BY SortedBatch
<1>2. Sessionize(rows, signals) = UNION {VerdictsAt(sorted, n, signals) : n \in 1 .. m}
  BY <1>1 DEF Sessionize
<1> HIDE DEF sorted, m
<1> DEFINE f == [n \in 1 .. m |-> VerdictsAt(sorted, n, signals)]
<1>3. \A n \in 1 .. m : IsFiniteSet(VerdictsAt(sorted, n, signals))
  <2>1. \A x, y : IsFiniteSet({x} \cup {y}) /\ IsFiniteSet({x}) /\ IsFiniteSet({})
                  /\ {} \cup {y} = {y} /\ {x} \cup {} = {x} /\ {} \cup {} = {}
    BY FS_Singleton, FS_EmptySet, FS_Union
  <2> SUFFICES ASSUME NEW n \in 1 .. m PROVE IsFiniteSet(VerdictsAt(sorted, n, signals))
    OBVIOUS
  <2> DEFINE one == IF n > 1 /\ Reformulates(sorted[n - 1], sorted[n])
                    THEN {Verdict("reformulated", sorted[n], Sr(sorted[n - 1]).query)} ELSE {}
             two == IF HasEngagement(signals, sorted[n])
                    THEN {} ELSE {Verdict("abandoned", sorted[n], None)}
  <2>2. IsFiniteSet(one)
    BY FS_Singleton, FS_EmptySet
  <2>3. IsFiniteSet(two)
    BY FS_Singleton, FS_EmptySet
  <2>4. VerdictsAt(sorted, n, signals) = one \cup two
    BY DEF VerdictsAt
  <2> HIDE DEF one, two
  <2> QED BY <2>2, <2>3, <2>4, FS_Union
<1>4. IsFiniteSet(Sessionize(rows, signals))
  <2>1. IsFiniteSet(1 .. m)
    BY <1>1, FS_Interval
  <2>2. DOMAIN f = 1 .. m /\ f = [n \in 1 .. m |-> f[n]]
        /\ \A n \in 1 .. m : f[n] = VerdictsAt(sorted, n, signals)
    OBVIOUS
  <2> HIDE DEF f
  <2>3. IsFiniteSet({f[n] : n \in 1 .. m})
    BY <2>1, <2>2, ImageIsFinite
  <2>4. \A T \in {f[n] : n \in 1 .. m} : IsFiniteSet(T)
    BY <1>3, <2>2
  <2>5. Sessionize(rows, signals) = UNION {f[n] : n \in 1 .. m}
    BY <1>2, <2>2
  <2> QED BY <2>3, <2>4, <2>5, FS_UNION
<1>5. ASSUME NEW v \in Sessionize(rows, signals) PROVE v.type \in {"reformulated", "abandoned"}
  <2>1. PICK n \in 1 .. m : v \in VerdictsAt(sorted, n, signals)
    BY <1>2
  <2>2. \/ v = Verdict("reformulated", sorted[n], Sr(sorted[n - 1]).query)
        \/ v = Verdict("abandoned", sorted[n], None)
    BY <2>1 DEF VerdictsAt
  <2> QED BY <2>2 DEF Verdict
<1>6. ASSUME NEW i \in rows, ~HasEngagement(signals, i)
      PROVE  Verdict("abandoned", i, None) \in Sessionize(rows, signals)
  <2>1. PICK n \in 1 .. m : sorted[n] = i
    BY <1>1
  <2>2. Verdict("abandoned", i, None) \in VerdictsAt(sorted, n, signals)
    BY <1>6, <2>1 DEF VerdictsAt
  <2> QED BY <1>2, <2>2
<1> QED BY <1>4, <1>5, <1>6
-----------------------------------------------------------------------------
\* The commit writes a verdict for every search that nothing answered.
LEMMA SessionCommitKeeps ==
  ASSUME SessionInv, SessionizerCommit
  PROVE  SessionInv'
<1> DEFINE verdicts == Sessionize(batch.rows, batch.signals)
           fresh == {v \in verdicts : ~InLedger(v)}
           rows == {DerivedEvent(v) : v \in fresh}
           more == SetToSeq(rows)
<1>1. /\ LedgerIsRows /\ OnlyWorkersDerive /\ queryLog \in Seq(SearchRows) /\ settled \in Nat
      /\ BatchIsRecord /\ BatchIsComplete /\ PassedSearchesWereJudged /\ UNCHANGED queryLog
      /\ batch.phase = "commit" /\ ledger' = ledger \o more /\ settled' = batch.maxid
      /\ batch' = NoBatch(batch.restarts)
  BY DEF SessionInv, SessionizerCommit
<1>2. /\ batch.rows \subseteq InSession /\ batch.signals \subseteq Ingested
      /\ \A i \in InSession :
           queryLog[i].status = "live" /\ i > settled /\ i =< batch.maxid => i \in batch.rows
  BY <1>1 DEF BatchIsComplete
<1>3. /\ IsFiniteSet(verdicts)
      /\ \A v \in verdicts : v.type \in {"reformulated", "abandoned"}
      /\ \A i \in batch.rows :
           HasEngagement(batch.signals, i) \/ Verdict("abandoned", i, None) \in verdicts
  BY <1>1, <1>2, VerdictsOfBatch
<1> HIDE DEF verdicts
<1>4. IsFiniteSet(rows)
  <2> DEFINE f == [v \in fresh |-> DerivedEvent(v)]
  <2>1. fresh \in SUBSET verdicts
    OBVIOUS
  <2>2. IsFiniteSet(fresh)
    BY <1>3, <2>1, FS_Subset
  <2>3. DOMAIN f = fresh /\ f = [v \in fresh |-> f[v]] /\ rows = {f[v] : v \in fresh}
    OBVIOUS
  <2> HIDE DEF f, fresh, rows
  <2> QED BY <2>2, <2>3, ImageIsFinite
<1> DEFINE k == Cardinality(rows)
<1>5. /\ more \in [1 .. k -> rows] /\ Len(more) = k /\ k \in Nat
      /\ \A x \in rows : \E n \in 1 .. k : more[n] = x
  BY <1>4, SetToSeqLists, FS_CardinalityType
<1>6. ASSUME NEW x \in rows
      PROVE  /\ x = Row(x.event, "live") /\ x.status = "live"
             /\ x.event.type \in DerivedTypes
  <2>1. PICK v \in fresh : x = DerivedEvent(v)
    OBVIOUS
  <2>2. v.type \in {"reformulated", "abandoned"}
    BY <1>3
  <2> DEFINE e == [type |-> v.type, user |-> Sr(v.source).user, session |-> Sr(v.source).session,
                   query |-> Sr(v.source).query, video |-> None, at |-> Sr(v.source).at,
                   derived |-> v]
  <2>3. x = Row(e, "live") /\ e.type = v.type
    BY <2>1 DEF DerivedEvent
  <2> HIDE DEF e
  <2>4. x.event = e /\ x.status = "live"
    BY <2>3, RowFields
  <2> QED BY <2>2, <2>3, <2>4 DEF DerivedTypes
<1>7. \A v \in fresh : "derived" \in DOMAIN DerivedEvent(v).event
                       /\ DerivedEvent(v).event.derived = v
  <2> SUFFICES ASSUME NEW v \in fresh
               PROVE  /\ "derived" \in DOMAIN DerivedEvent(v).event
                      /\ DerivedEvent(v).event.derived = v
    OBVIOUS
  <2> QED BY DEF DerivedEvent, Row
<1> HIDE DEF more, k
<1>8. NewRows(more)
  <2>1. /\ DOMAIN more = 1 .. Len(more) /\ Len(more) \in Nat
        /\ \A n \in 1 .. Len(more) : more[n] \in rows
        /\ more = [n \in 1 .. Len(more) |-> more[n]]
    <3> HIDE DEF rows
    <3> QED BY <1>5
  <2>2. \A n \in 1 .. Len(more) : more[n] = Row(more[n].event, more[n].status)
                                  /\ more[n].status = "live"
    BY <1>6, <2>1
  <2>3. more = [n \in 1 .. Len(more) |-> Row(more[n].event, more[n].status)]
    <3>1. \A n \in 1 .. Len(more) : more[n] = Row(more[n].event, more[n].status)
      BY <2>2
    <3>2. more = [n \in 1 .. Len(more) |-> more[n]]
      BY <2>1
    <3> HIDE DEF rows
    <3> QED BY <3>1, <3>2
  <2> QED BY <2>1, <2>2, <2>3 DEF NewRows, RowStatuses
<1>9. /\ LedgerIsRows' /\ DOMAIN ledger' = 1 .. Len(ledger) + k
      /\ \A i \in DOMAIN ledger :
           i \in DOMAIN ledger' /\ ledger'[i] = ledger[i] /\ Ev(i)' = Ev(i)
      /\ \A i \in DOMAIN ledger' \ DOMAIN ledger :
           i - Len(ledger) \in DOMAIN more /\ ledger'[i] = more[i - Len(ledger)]
  BY <1>1, <1>5, <1>8, AppendedRows
<1>10. \A i \in DOMAIN ledger' \ DOMAIN ledger : ledger'[i] \in rows
  BY <1>5, <1>9
<1>11. EventsStay
  BY <1>9 DEF EventsStay
<1>12. OnlyWorkersDerive'
  <2> SUFFICES ASSUME NEW i \in DOMAIN ledger', "derived" \in DOMAIN Ev(i)'
               PROVE  Ev(i)'.type \in DerivedTypes
    BY DEF OnlyWorkersDerive
  <2>1. CASE i \in DOMAIN ledger
    BY <1>1, <1>9, <2>1 DEF OnlyWorkersDerive
  <2>2. CASE i \notin DOMAIN ledger
    BY <1>6, <1>10, <2>2 DEF Ev
  <2> QED BY <2>1, <2>2
<1>13. queryLog' \in Seq(SearchRows) /\ SearchesStay
  BY <1>1, SameLog
<1>14. ASSUME NEW v \in verdicts
       PROVE  \E n \in DOMAIN ledger' : "derived" \in DOMAIN Ev(n)' /\ Ev(n)'.derived = v
  <2>1. CASE InLedger(v)
    <3>1. PICK n \in Live : "derived" \in DOMAIN Ev(n) /\ Ev(n).derived = v
      BY <2>1 DEF InLedger
    <3>2. n \in DOMAIN ledger
      BY DEF Live
    <3>3. n \in DOMAIN ledger' /\ Ev(n)' = Ev(n)
      BY <1>9, <3>2
    <3> QED BY <3>1, <3>3
  <2>2. CASE ~InLedger(v)
    <3>1. v \in fresh /\ DerivedEvent(v) \in rows
      BY <2>2
    <3>2. PICK n \in 1 .. k : more[n] = DerivedEvent(v)
      BY <1>5, <3>1
    <3>3. Len(ledger) \in Nat /\ DOMAIN ledger = 1 .. Len(ledger)
      BY <1>1 DEF LedgerIsRows
    <3>4. PICK p \in Nat : p = Len(ledger) + n
      BY <3>3
    <3>5. p \in DOMAIN ledger' \ DOMAIN ledger /\ p - Len(ledger) = n
      BY <1>5, <1>9, <3>2, <3>3, <3>4
    <3>6. Ev(p)' = DerivedEvent(v).event
      BY <1>9, <3>2, <3>5 DEF Ev
    <3>7. "derived" \in DOMAIN DerivedEvent(v).event /\ DerivedEvent(v).event.derived = v
      BY <1>7, <3>1
    <3> QED BY <3>5, <3>6, <3>7
  <2> QED BY <2>1, <2>2
<1>15. PassedSearchesWereJudged'
  <2> SUFFICES ASSUME NEW i \in DOMAIN queryLog, queryLog[i].status = "live",
                      i =< batch.maxid, Sr(i).session # None
               PROVE  Judged(i)'
    BY <1>1 DEF PassedSearchesWereJudged, Judged, Sr
  <2>1. i \in Nat
    BY <1>1
  <2>2. CASE i =< settled
    <3>1. Judged(i)
      BY <1>1, <2>2 DEF PassedSearchesWereJudged, Judged
    <3> QED BY <1>11, <1>13, <3>1, JudgedStays
  <2>3. CASE i > settled
    <3>1. i \in batch.rows
      BY <1>2, <2>3 DEF InSession
    <3>2. CASE HasEngagement(batch.signals, i)
      <4>1. Judged(i)
        BY <1>2, <3>2 DEF HasEngagement, Judged
      <4> QED BY <1>11, <1>13, <4>1, JudgedStays
    <3>3. CASE Verdict("abandoned", i, None) \in verdicts
      <4>1. \E n \in DOMAIN ledger' : /\ "derived" \in DOMAIN Ev(n)'
                                      /\ Ev(n)'.derived = Verdict("abandoned", i, None)
        BY <1>14, <3>3
      <4> QED BY <4>1 DEF Judged, Verdict
    <3> QED BY <1>3, <3>1, <3>2, <3>3
  <2> QED BY <1>1, <2>1, <2>2, <2>3
<1>16. settled' \in Nat /\ BatchIsRecord' /\ BatchIsComplete'
  BY <1>1 DEF NoBatch, BatchIsRecord, BatchIsComplete
<1> QED BY <1>9, <1>12, <1>13, <1>15, <1>16 DEF SessionInv

LEMMA SessionInvHolds == SessionizerSpec => []SessionInv
<1>1. ASSUME SessionizerInit PROVE SessionInv
  <2>1. ledger = <<>> /\ queryLog = <<>> /\ settled = 0 /\ batch = NoBatch(0)
    BY <1>1 DEF SessionizerInit, LedgerInit
  <2>2. LedgerIsRows
    BY <2>1 DEF LedgerIsRows
  <2>3. BatchIsRecord /\ BatchIsComplete
    BY <2>1 DEF NoBatch, BatchIsRecord, BatchIsComplete
  <2>4. OnlyWorkersDerive /\ queryLog \in Seq(SearchRows) /\ PassedSearchesWereJudged
    BY <2>1 DEF OnlyWorkersDerive, PassedSearchesWereJudged
  <2> QED BY <2>1, <2>2, <2>3, <2>4 DEF SessionInv
<1>2. ASSUME SessionInv, [SessionizerNext]_sessionVars PROVE SessionInv'
  <2>1. ASSUME NEW s \in Searches, SubmitSearch(s) PROVE SessionInv'
    BY <1>2, <2>1, SubmitKeeps
  <2>2. ASSUME NEW i \in DOMAIN queryLog, EndSubmit(i) PROVE SessionInv'
    BY <1>2, <2>2, EndSubmitKeeps
  <2>3. ASSUME NEW e \in Events, Engage(e) PROVE SessionInv'
    BY <1>2, <2>3, EngageKeeps
  <2>4. ASSUME NEW user, SessionForget(user) PROVE SessionInv'
    BY <1>2, <2>4, SessionForgetKeeps
  <2>5. CASE SessionTick \/ UNCHANGED sessionVars
    BY <1>2, <2>5, TickKeeps
  <2>6. CASE SessionizerRead \/ SessionizerFails
    BY <1>2, <2>6, ReadKeeps
  <2>7. CASE SessionizerList
    BY <1>2, <2>7, ListKeeps
  <2>8. CASE SessionizerCommit
    BY <1>2, <2>8, SessionCommitKeeps
  <2> QED BY <1>2, <2>1, <2>2, <2>3, <2>4, <2>5, <2>6, <2>7, <2>8 DEF SessionizerNext
<1> QED BY <1>1, <1>2, PTL DEF SessionizerSpec

(* Whatever the searches, the sessions and the interleaving of ingest, forgets, *)
(* passes and crashes, a search the cursor has passed was engaged or the ledger *)
(* has recorded that it was abandoned (worker.go, sessionizer).                 *)
THEOREM SearchesAreJudged == SessionizerSpec => []PassedSearchesWereJudged
<1>1. SessionInv => PassedSearchesWereJudged
  BY DEF SessionInv
<1> QED BY <1>1, SessionInvHolds, PTL
=============================================================================
