----------------------- MODULE QueryAggregatesProofs ------------------------
(***************************************************************************)
(* Proof that no string becomes suggestible below the distinct-user floor, *)
(* for any number of queries, visits and searches and any interleaving of  *)
(* the passes with bans, deletions and each other.  The argument: whoever  *)
(* searched once stays counted among those who ever did, so a row or plan  *)
(* that was right about the floor when it was computed stays right.        *)
(***************************************************************************)
EXTENDS QueryAggregates, FiniteSetTheorems, TLAPS

Ever == {"live", "old", "deleted"}

\* Enough different people did search for q.
Popular(q) == Cardinality(Accounts(q)) + Cardinality(Machines(q)) >= MinUsers

PlanIsPopular(plan) == \A q \in DOMAIN plan : plan[q].suggestible => Popular(q)

AggregatesInv ==
  /\ AggregatesTypeOK
  /\ FloorWasCleared
  /\ PlanIsPopular(rollup.plan)
  /\ PlanIsPopular(reeval.plan)
  /\ \A q \in DOMAIN reeval.plan : aggregates[q] # NoRow
-----------------------------------------------------------------------------
(* Counting people *)

LEMMA LogIsFinite ==
  ASSUME NEW rows \in Seq(LogRows), NEW ids \in SUBSET (DOMAIN rows)
  PROVE  IsFiniteSet(ids)
<1>1. Len(rows) \in Nat /\ DOMAIN rows = 1 .. Len(rows)
  OBVIOUS
<1>2. IsFiniteSet(1 .. Len(rows))
  <2>1. 1 \in Int /\ Len(rows) \in Int
    BY <1>1
  <2> QED BY <2>1, FS_Interval
<1> QED BY <1>1, <1>2, FS_Subset

\* The people behind finitely many log rows are finitely many.
LEMMA PeopleAreFinite ==
  ASSUME NEW rows \in Seq(LogRows), NEW ids \in SUBSET (DOMAIN rows),
         NEW visits, visits = {rows[i].visit : i \in ids}
  PROVE  /\ IsFiniteSet({x.user : x \in {y \in visits : y.user # NoVisitor}})
         /\ IsFiniteSet({Pseudonym(x) : x \in {y \in visits : y.user = NoVisitor}})
<1>1. IsFiniteSet(visits)
  <2> DEFINE f == [i \in ids |-> rows[i].visit]
  <2>1. f \in Surjection(ids, visits)
    BY DEF Surjection
  <2> HIDE DEF f
  <2> QED BY <2>1, LogIsFinite, FS_Surjection
<1>2. ASSUME NEW S \in SUBSET visits PROVE IsFiniteSet({x.user : x \in S})
  <2> DEFINE T == {x.user : x \in S}
             f == [x \in S |-> x.user]
  <2>1. f \in Surjection(S, T) /\ IsFiniteSet(S)
    BY <1>1, FS_Subset DEF Surjection
  <2> HIDE DEF T, f
  <2> QED BY <2>1, FS_Surjection DEF T
<1>3. ASSUME NEW S \in SUBSET visits PROVE IsFiniteSet({Pseudonym(x) : x \in S})
  <2> DEFINE T == {Pseudonym(x) : x \in S}
             f == [x \in S |-> Pseudonym(x)]
  <2>1. f \in Surjection(S, T) /\ IsFiniteSet(S)
    BY <1>1, FS_Subset DEF Surjection
  <2> HIDE DEF T, f
  <2> QED BY <2>1, FS_Surjection DEF T
<1> QED BY <1>2, <1>3

\* What a recount counts is a number of people who did search for the query.
LEMMA RecountIsHonest ==
  ASSUME AggregatesTypeOK, NEW q \in Queries
  PROVE  /\ Recounted(q) \in AggregateRows
         /\ Recounted(q).suggestible => Popular(q)
<1> DEFINE accounts == {x.user : x \in {y \in VisitsOf(SearchesFor(q)) : y.user # NoVisitor}}
           machines == {Pseudonym(x) : x \in {y \in VisitsOf(SearchesFor(q)) : y.user = NoVisitor}}
<1>1. log \in Seq(LogRows) /\ SearchesFor(q) \subseteq DOMAIN log
      /\ SearchesFor(q) \subseteq EverSearchedFor(q) /\ EverSearchedFor(q) \subseteq DOMAIN log
  BY DEF AggregatesTypeOK, SearchesFor, Window, EverSearchedFor
<1>2. /\ IsFiniteSet(Accounts(q)) /\ IsFiniteSet(Machines(q))
      /\ IsFiniteSet(accounts) /\ IsFiniteSet(machines)
  BY <1>1, PeopleAreFinite DEF Accounts, Machines, VisitsOf
<1>3. accounts \subseteq Accounts(q) /\ machines \subseteq Machines(q)
  BY <1>1 DEF Accounts, Machines, VisitsOf
<1>4. Users(q) = Cardinality(accounts) + Cardinality(machines)
  BY DEF Users, DistinctUsers
<1> HIDE DEF accounts, machines
<1>5. /\ Cardinality(accounts) \in Nat /\ Cardinality(machines) \in Nat
      /\ Cardinality(Accounts(q)) \in Nat /\ Cardinality(Machines(q)) \in Nat
      /\ Cardinality(accounts) =< Cardinality(Accounts(q))
      /\ Cardinality(machines) =< Cardinality(Machines(q))
  BY <1>2, <1>3, FS_Subset, FS_CardinalityType
<1>6. Users(q) \in Nat /\ (Users(q) >= MinUsers => Popular(q))
  BY <1>4, <1>5, AggregatesAssumption DEF Popular
<1>7. Total(q) \in Nat
  <2>1. IsFiniteSet(SearchesFor(q))
    BY <1>1, LogIsFinite
  <2> QED BY <2>1, FS_CardinalityType DEF Total
<1>8. IsBanned(q) \in BOOLEAN
  BY DEF IsBanned, AggregatesTypeOK, AggregateRows
<1>9. (Users(q) >= MinUsers /\ ~IsBanned(q)) \in BOOLEAN
  OBVIOUS
<1> QED BY <1>6, <1>7, <1>8, <1>9 DEF Recounted, AggregateRows

\* A step keeps the log when it only appends to it and moves statuses on.
LogGrows ==
  /\ log' \in Seq(LogRows)
  /\ \A i \in DOMAIN log :
       /\ i \in DOMAIN log'
       /\ log'[i].query = log[i].query /\ log'[i].visit = log[i].visit
       /\ log[i].status \in Ever => log'[i].status \in Ever

\* People who did search for a query did so for good.
LEMMA PopularityLasts ==
  ASSUME AggregatesTypeOK, LogGrows, NEW q \in Queries, Popular(q)
  PROVE  Popular(q)'
<1>1. /\ log \in Seq(LogRows) /\ log' \in Seq(LogRows)
      /\ EverSearchedFor(q) \subseteq DOMAIN log /\ EverSearchedFor(q)' \subseteq DOMAIN log'
  BY DEF AggregatesTypeOK, LogGrows, EverSearchedFor
<1>2. EverSearchedFor(q) \subseteq EverSearchedFor(q)'
  BY DEF LogGrows, EverSearchedFor, Ever
<1>3. VisitsOf(EverSearchedFor(q)) \subseteq VisitsOf(EverSearchedFor(q))'
  BY <1>1, <1>2 DEF VisitsOf, LogGrows
<1>4. Accounts(q) \subseteq Accounts(q)' /\ Machines(q) \subseteq Machines(q)'
  BY <1>3 DEF Accounts, Machines, Pseudonym
<1>5. IsFiniteSet(Accounts(q)) /\ IsFiniteSet(Machines(q))
  BY <1>1, PeopleAreFinite DEF Accounts, Machines, VisitsOf
<1>6. IsFiniteSet(Accounts(q)') /\ IsFiniteSet(Machines(q)')
  BY <1>1, PeopleAreFinite DEF Accounts, Machines, VisitsOf
<1>7. /\ Cardinality(Accounts(q)) \in Nat /\ Cardinality(Machines(q)) \in Nat
      /\ Cardinality(Accounts(q)') \in Nat /\ Cardinality(Machines(q)') \in Nat
      /\ Cardinality(Accounts(q)) =< Cardinality(Accounts(q)')
      /\ Cardinality(Machines(q)) =< Cardinality(Machines(q)')
  BY <1>4, <1>5, <1>6, FS_Subset, FS_CardinalityType
<1> QED BY <1>7, AggregatesAssumption DEF Popular
-----------------------------------------------------------------------------
(* The steps *)

LEMMA InitHolds == AggregatesInit => AggregatesInv
<1>1. <<>> \in Seq(LogRows) /\ Len(<<>>) = 0
  OBVIOUS
<1> QED
  BY <1>1, AggregatesAssumption
     DEF AggregatesInit, AggregatesInv, AggregatesTypeOK, RollupIdle, ReevalIdle, NoPlan, IsPlan,
         FloorWasCleared, PlanIsPopular

\* A step of the log alone.
LEMMA LogStepPreserves ==
  ASSUME AggregatesInv, LogGrows, Len(log') =< MaxSearches, Len(log) =< Len(log'),
         UNCHANGED <<aggregates, cursor, rollup, reeval>>
  PROVE  AggregatesInv'
<1>1. AggregatesTypeOK'
  <2>1. Len(log) \in Nat /\ Len(log') \in Nat
    BY DEF AggregatesInv, AggregatesTypeOK, LogGrows
  <2> QED BY <2>1 DEF AggregatesInv, AggregatesTypeOK, LogGrows
<1>2. \A q \in Queries : Popular(q) => Popular(q)'
  BY PopularityLasts DEF AggregatesInv
<1>3. FloorWasCleared'
  BY <1>2 DEF AggregatesInv, FloorWasCleared, Popular
<1>4. PlanIsPopular(rollup.plan)' /\ PlanIsPopular(reeval.plan)'
  BY <1>2 DEF AggregatesInv, PlanIsPopular, AggregatesTypeOK, IsPlan
<1>5. \A q \in DOMAIN reeval.plan' : aggregates'[q] # NoRow
  BY DEF AggregatesInv
<1> QED BY <1>1, <1>3, <1>4, <1>5 DEF AggregatesInv

\* A step that leaves the log alone leaves everybody's past alone.
LEMMA SamePeople ==
  ASSUME log' = log, NEW q
  PROVE  Popular(q)' <=> Popular(q)
BY DEF Popular, Accounts, Machines, EverSearchedFor, VisitsOf

\* Moving rows on in place, as every deletion and expiry does.
LEMMA RowsMoveOn ==
  ASSUME AggregatesInv, UNCHANGED <<aggregates, cursor, rollup, reeval>>,
         NEW moved \in SUBSET (DOMAIN log), NEW status \in Statuses,
         log' = [i \in DOMAIN log |->
                   IF i \in moved THEN [log[i] EXCEPT !.status = status] ELSE log[i]],
         \A i \in moved : log[i].status \in Ever => status \in Ever
  PROVE  AggregatesInv'
<1>1. log \in Seq(LogRows) /\ Len(log) \in Nat /\ Len(log) =< MaxSearches
      /\ DOMAIN log = 1 .. Len(log)
  BY DEF AggregatesInv, AggregatesTypeOK
<1>2. ASSUME NEW i \in DOMAIN log
      PROVE  /\ log'[i] \in LogRows
             /\ log'[i].query = log[i].query /\ log'[i].visit = log[i].visit
             /\ log'[i].status = IF i \in moved THEN status ELSE log[i].status
  <2>1. log[i] \in LogRows
    BY <1>1
  <2>2. log'[i] = IF i \in moved THEN [log[i] EXCEPT !.status = status] ELSE log[i]
    OBVIOUS
  <2> QED BY <2>1, <2>2 DEF LogRows
<1>3. log' \in [1 .. Len(log) -> LogRows]
  BY <1>1, <1>2
<1>4. log' \in Seq(LogRows) /\ Len(log') = Len(log)
  BY <1>1, <1>3
<1>5. LogGrows
  BY <1>1, <1>2, <1>4 DEF LogGrows
<1> QED BY <1>1, <1>4, <1>5, LogStepPreserves
\* What holds of the rows that are written holds of the table afterwards.
LEMMA WrittenIsPopular ==
  ASSUME AggregatesInv, UNCHANGED log, NEW plan, IsPlan(plan), PlanIsPopular(plan),
         aggregates' = Written(plan)
  PROVE  /\ aggregates' \in [Queries -> AggregateRows \cup {NoRow}]
         /\ FloorWasCleared'
<1>1. \A q \in Queries :
        aggregates'[q] = IF q \in DOMAIN plan THEN plan[q] ELSE aggregates[q]
  BY DEF Written
<1>2. aggregates' \in [Queries -> AggregateRows \cup {NoRow}]
  BY DEF Written, IsPlan, AggregatesInv, AggregatesTypeOK
<1>3. \A q \in Queries : aggregates'[q] # NoRow /\ aggregates'[q].suggestible => Popular(q)
  BY <1>1 DEF PlanIsPopular, AggregatesInv, FloorWasCleared, Popular
<1> QED BY <1>2, <1>3, SamePeople DEF FloorWasCleared, Popular

\* A pass's plan is honest about the floor when it is computed.
LEMMA PlanIsHonest ==
  ASSUME AggregatesInv, NEW batch \in SUBSET Queries
  PROVE  LET plan == [q \in batch |-> Recounted(q)]
         IN  IsPlan(plan) /\ PlanIsPopular(plan)
BY RecountIsHonest DEF AggregatesInv, IsPlan, PlanIsPopular

LEMMA AppendPreserves ==
  ASSUME AggregatesInv, NEW q \in Queries, NEW visit \in Visits, AppendQueryLog(q, visit)
  PROVE  AggregatesInv'
<1> DEFINE row == [query |-> q, visit |-> visit, status |-> "inflight"]
<1>1. row \in LogRows
  BY DEF LogRows, Statuses
<1>2. log \in Seq(LogRows) /\ Len(log) \in Nat /\ Len(log) < MaxSearches /\ log' = Append(log, row)
  BY DEF AppendQueryLog, AggregatesInv, AggregatesTypeOK
<1> HIDE DEF row
<1>3. /\ log' \in Seq(LogRows) /\ Len(log') = Len(log) + 1
      /\ \A i \in DOMAIN log : i \in DOMAIN log' /\ log'[i] = log[i]
  BY <1>1, <1>2
<1>4. LogGrows
  BY <1>3 DEF LogGrows
<1>5. Len(log') =< MaxSearches
  BY <1>2, <1>3, AggregatesAssumption
<1> QED BY <1>2, <1>3, <1>4, <1>5, LogStepPreserves DEF AppendQueryLog

LEMMA LogActionsPreserve ==
  ASSUME AggregatesInv,
         \/ \E i \in DOMAIN log, status \in {"live", "aborted"} : EndSearch(i, status)
         \/ \E visit \in Visits, queries \in {Queries} \cup {{q} : q \in Queries} :
              ClearHistory(visit.user, queries)
         \/ \E i \in DOMAIN log : AgeOut(i)
         \/ DeleteOldQueryLog
  PROVE  AggregatesInv'
<1>1. log \in Seq(LogRows) /\ DOMAIN log = 1 .. Len(log) /\ log \in [1 .. Len(log) -> LogRows]
  BY DEF AggregatesInv, AggregatesTypeOK
<1>2. ASSUME NEW i \in DOMAIN log, NEW status \in Statuses,
             log' = [log EXCEPT ![i].status = status],
             log[i].status \in Ever => status \in Ever,
             UNCHANGED <<aggregates, cursor, rollup, reeval>>
      PROVE  AggregatesInv'
  <2>1. log' = [j \in DOMAIN log |->
                  IF j \in {i} THEN [log[j] EXCEPT !.status = status] ELSE log[j]]
    BY <1>1, <1>2
  <2> DEFINE moved == {i}
  <2>2. moved \in SUBSET (DOMAIN log) /\ \A j \in moved : log[j].status \in Ever => status \in Ever
    BY <1>2
  <2>3. log' = [j \in DOMAIN log |->
                  IF j \in moved THEN [log[j] EXCEPT !.status = status] ELSE log[j]]
    BY <2>1
  <2> HIDE DEF moved
  <2> QED BY <1>2, <2>2, <2>3, RowsMoveOn
<1>3. ASSUME NEW i \in DOMAIN log, NEW status \in {"live", "aborted"}, EndSearch(i, status)
      PROVE  AggregatesInv'
  <2>1. status \in Statuses /\ log[i].status \notin Ever
        /\ log' = [log EXCEPT ![i].status = status]
        /\ UNCHANGED <<aggregates, cursor, rollup, reeval>>
    BY <1>3 DEF EndSearch, Statuses, Ever
  <2> QED BY <1>2, <2>1
<1>4. ASSUME NEW i \in DOMAIN log, AgeOut(i) PROVE AggregatesInv'
  <2>1. "old" \in Statuses /\ "old" \in Ever
        /\ log' = [log EXCEPT ![i].status = "old"]
        /\ UNCHANGED <<aggregates, cursor, rollup, reeval>>
    BY <1>4 DEF AgeOut, Statuses, Ever
  <2> QED BY <1>2, <2>1
<1>5. "deleted" \in Statuses /\ "deleted" \in Ever
  BY DEF Statuses, Ever
<1>6. ASSUME NEW visit \in Visits, NEW queries, ClearHistory(visit.user, queries)
      PROVE  AggregatesInv'
  <2> DEFINE moved == {i \in DOMAIN log : i \in Committed /\ log[i].visit.user = visit.user
                                        /\ log[i].query \in queries}
  <2>1. log' = [i \in DOMAIN log |->
                  IF i \in moved THEN [log[i] EXCEPT !.status = "deleted"] ELSE log[i]]
        /\ UNCHANGED <<aggregates, cursor, rollup, reeval>>
    BY <1>6 DEF ClearHistory
  <2>2. moved \in SUBSET (DOMAIN log)
    OBVIOUS
  <2> HIDE DEF moved
  <2> QED BY <1>5, <2>1, <2>2, RowsMoveOn
<1>7. ASSUME DeleteOldQueryLog PROVE AggregatesInv'
  <2> DEFINE moved == {i \in DOMAIN log : log[i].status = "old"}
  <2>1. log' = [i \in DOMAIN log |->
                  IF i \in moved THEN [log[i] EXCEPT !.status = "deleted"] ELSE log[i]]
        /\ UNCHANGED <<aggregates, cursor, rollup, reeval>>
    BY <1>7 DEF DeleteOldQueryLog
  <2>2. moved \in SUBSET (DOMAIN log)
    OBVIOUS
  <2> HIDE DEF moved
  <2> QED BY <1>5, <2>1, <2>2, RowsMoveOn
<1> QED BY <1>3, <1>4, <1>6, <1>7

LEMMA ModerationPreserves ==
  ASSUME AggregatesInv, NEW q \in Queries, BanSuggestion(q) \/ UnbanSuggestion(q)
  PROVE  AggregatesInv'
<1>1. UNCHANGED <<log, cursor, rollup, reeval>>
  BY DEF BanSuggestion, UnbanSuggestion
<1>2. \A p \in Queries \ {q} : aggregates'[p] = aggregates[p]
  BY DEF BanSuggestion, UnbanSuggestion, AggregatesInv, AggregatesTypeOK
<1>3. /\ aggregates'[q] \in AggregateRows \cup {NoRow}
      /\ aggregates[q] # NoRow => aggregates'[q] # NoRow
      /\ aggregates'[q] # NoRow /\ aggregates'[q].suggestible =>
           aggregates[q] # NoRow /\ aggregates[q].suggestible
  <2>1. aggregates \in [Queries -> AggregateRows \cup {NoRow}]
    BY DEF AggregatesInv, AggregatesTypeOK
  <2>2. CASE BanSuggestion(q)
    BY <2>1, <2>2, AggregatesAssumption DEF BanSuggestion, AggregateRows
  <2>3. CASE UnbanSuggestion(q)
    BY <2>1, <2>3, AggregatesAssumption DEF UnbanSuggestion, AggregateRows
  <2> QED BY <2>2, <2>3
<1>4. aggregates' \in [Queries -> AggregateRows \cup {NoRow}]
  BY <1>2, <1>3 DEF BanSuggestion, UnbanSuggestion, AggregatesInv, AggregatesTypeOK
<1>5. AggregatesTypeOK'
  BY <1>1, <1>4 DEF AggregatesInv, AggregatesTypeOK
<1>6. \A p \in Queries : aggregates'[p] # NoRow /\ aggregates'[p].suggestible => Popular(p)
  BY <1>2, <1>3 DEF AggregatesInv, FloorWasCleared, Popular
<1>7. FloorWasCleared'
  BY <1>1, <1>6, SamePeople DEF FloorWasCleared, Popular
<1>8. PlanIsPopular(rollup.plan)' /\ PlanIsPopular(reeval.plan)'
  BY <1>1, SamePeople DEF AggregatesInv, PlanIsPopular
<1>9. \A p \in DOMAIN reeval.plan' : aggregates'[p] # NoRow
  BY <1>1, <1>2, <1>3 DEF AggregatesInv, AggregatesTypeOK, IsPlan
<1> QED BY <1>5, <1>7, <1>8, <1>9 DEF AggregatesInv

\* Nothing a pass writes takes a row away.
LEMMA RollupPreserves ==
  ASSUME AggregatesInv, RollupRead \/ RollupCompute \/ RollupCommit \/ RollupAbort
  PROVE  AggregatesInv'
<1>1. UNCHANGED <<log, reeval>> /\ Len(log) \in Nat
  BY DEF RollupRead, RollupCompute, RollupCommit, RollupAbort, AggregatesInv, AggregatesTypeOK
<1>2. PlanIsPopular(reeval.plan)'
  BY <1>1, SamePeople DEF AggregatesInv, PlanIsPopular
<1>3. ASSUME UNCHANGED aggregates, rollup'.maxid \in 0 .. Len(log), UNCHANGED cursor,
             IsPlan(rollup'.plan), PlanIsPopular(rollup'.plan)
      PROVE  AggregatesInv'
  <2>1. AggregatesTypeOK'
    BY <1>1, <1>3 DEF AggregatesInv, AggregatesTypeOK, IsPlan
  <2>2. FloorWasCleared'
    BY <1>1, <1>3, SamePeople DEF AggregatesInv, FloorWasCleared, Popular
  <2>3. PlanIsPopular(rollup.plan)'
    BY <1>1, <1>3, SamePeople DEF PlanIsPopular
  <2> QED BY <1>1, <1>2, <1>3, <2>1, <2>2, <2>3 DEF AggregatesInv
<1>4. IsPlan(NoPlan) /\ PlanIsPopular(NoPlan)
  BY DEF IsPlan, NoPlan, PlanIsPopular
<1>5. CASE RollupRead
  <2>1. Committed \subseteq 1 .. Len(log)
    BY DEF Committed, AggregatesInv, AggregatesTypeOK
  <2> QED BY <1>1, <1>3, <1>4, <1>5, <2>1 DEF RollupRead
<1>6. CASE RollupCompute
  <2>1. PICK recount \in SUBSET Queries :
          rollup' = [phase |-> "computed", maxid |-> rollup.maxid,
                     plan |-> [q \in recount |-> Recounted(q)]]
    <3>1. ASSUME NEW i \in Committed PROVE log[i].query \in Queries
      <4>1. i \in DOMAIN log /\ log \in Seq(LogRows)
        BY DEF Committed, AggregatesInv, AggregatesTypeOK
      <4>2. log[i] \in LogRows
        BY <4>1
      <4> QED BY <4>2 DEF LogRows
    <3> QED BY <1>6, <3>1 DEF RollupCompute
  <2>2. IsPlan(rollup'.plan) /\ PlanIsPopular(rollup'.plan)
    BY <2>1, PlanIsHonest
  <2>3. rollup'.maxid \in 0 .. Len(log) /\ UNCHANGED <<aggregates, cursor>>
    BY <1>6, <2>1 DEF RollupCompute, AggregatesInv, AggregatesTypeOK
  <2> QED BY <1>3, <2>2, <2>3
<1>7. CASE RollupCommit
  <2>1. aggregates' \in [Queries -> AggregateRows \cup {NoRow}] /\ FloorWasCleared'
    BY <1>1, <1>7, WrittenIsPopular DEF RollupCommit, AggregatesInv, AggregatesTypeOK
  <2>2. rollup'.maxid \in 0 .. Len(log) /\ cursor' \in 0 .. Len(log) /\ rollup'.plan = NoPlan
    BY <1>1, <1>7 DEF RollupCommit, RollupIdle, AggregatesInv, AggregatesTypeOK
  <2>3. AggregatesTypeOK'
    BY <1>1, <1>4, <2>1, <2>2 DEF AggregatesInv, AggregatesTypeOK, IsPlan
  <2>4. PlanIsPopular(rollup.plan)'
    BY <2>2 DEF PlanIsPopular, NoPlan
  <2>5. \A q \in DOMAIN reeval.plan' : aggregates'[q] # NoRow
    BY <1>1, <1>7, AggregatesAssumption
       DEF RollupCommit, Written, AggregatesInv, AggregatesTypeOK, IsPlan
  <2> QED BY <1>2, <2>1, <2>3, <2>4, <2>5 DEF AggregatesInv
<1>8. CASE RollupAbort
  BY <1>1, <1>3, <1>4, <1>8 DEF RollupAbort, RollupIdle
<1> QED BY <1>5, <1>6, <1>7, <1>8

LEMMA ReevalPreserves ==
  ASSUME AggregatesInv, ReevalStart \/ ReevalCompute \/ ReevalWrite \/ ReevalAbort
  PROVE  AggregatesInv'
<1>1. UNCHANGED <<log, cursor, rollup>>
  BY DEF ReevalStart, ReevalCompute, ReevalWrite, ReevalAbort
<1>2. PlanIsPopular(rollup.plan)'
  BY <1>1, SamePeople DEF AggregatesInv, PlanIsPopular
<1>3. ASSUME UNCHANGED aggregates, reeval'.batches \in 0 .. MaxBatches - 1,
             IsPlan(reeval'.plan), PlanIsPopular(reeval'.plan),
             \A q \in DOMAIN reeval'.plan : aggregates[q] # NoRow
      PROVE  AggregatesInv'
  <2>1. AggregatesTypeOK'
    BY <1>1, <1>3 DEF AggregatesInv, AggregatesTypeOK, IsPlan
  <2>2. FloorWasCleared'
    BY <1>1, <1>3, SamePeople DEF AggregatesInv, FloorWasCleared, Popular
  <2>3. PlanIsPopular(reeval.plan)'
    BY <1>1, <1>3, SamePeople DEF PlanIsPopular
  <2> QED BY <1>2, <1>3, <2>1, <2>2, <2>3 DEF AggregatesInv
<1>4. IsPlan(NoPlan) /\ PlanIsPopular(NoPlan) /\ DOMAIN NoPlan = {}
  BY DEF IsPlan, NoPlan, PlanIsPopular
<1>5. CASE ReevalStart
  BY <1>3, <1>4, <1>5, AggregatesAssumption DEF ReevalStart
<1>6. CASE ReevalCompute
  <2>1. PICK batch \in SUBSET {q \in Queries : Changed(q)} :
          reeval' = [phase |-> "computed", batches |-> reeval.batches,
                     plan |-> [q \in batch |-> Recounted(q)]]
    BY <1>6 DEF ReevalCompute
  <2>2. IsPlan(reeval'.plan) /\ PlanIsPopular(reeval'.plan)
    BY <2>1, PlanIsHonest
  <2>3. \A q \in DOMAIN reeval'.plan : aggregates[q] # NoRow
    BY <2>1 DEF Changed
  <2>4. reeval'.batches \in 0 .. MaxBatches - 1 /\ UNCHANGED aggregates
    BY <1>6, <2>1 DEF ReevalCompute, AggregatesInv, AggregatesTypeOK
  <2> QED BY <1>3, <2>2, <2>3, <2>4
<1>7. CASE ReevalWrite
  <2> DEFINE plan == [q \in DOMAIN reeval.plan |->
                        [reeval.plan[q] EXCEPT !.banned = aggregates[q].banned]]
  <2>1. ASSUME NEW q \in DOMAIN reeval.plan
        PROVE  q \in Queries /\ plan[q] \in AggregateRows
               /\ plan[q].suggestible = reeval.plan[q].suggestible
    <3>1. q \in Queries /\ reeval.plan[q] \in AggregateRows /\ aggregates[q] \in AggregateRows
      BY <2>1 DEF AggregatesInv, AggregatesTypeOK, IsPlan
    <3> QED BY <2>1, <3>1 DEF AggregateRows
  <2>2. IsPlan(plan) /\ PlanIsPopular(plan)
    BY <2>1 DEF AggregatesInv, IsPlan, PlanIsPopular
  <2>3. aggregates' = Written(plan)
    BY <1>7 DEF ReevalWrite
  <2> HIDE DEF plan
  <2>4. aggregates' \in [Queries -> AggregateRows \cup {NoRow}] /\ FloorWasCleared'
    BY <1>1, <2>2, <2>3, WrittenIsPopular
  <2>5. reeval'.batches \in 0 .. MaxBatches - 1 /\ reeval'.plan = NoPlan
    <3>1. reeval.batches \in 0 .. MaxBatches - 1 /\ MaxBatches \in Nat \ {0}
      BY AggregatesAssumption DEF AggregatesInv, AggregatesTypeOK
    <3>2. reeval' = ReevalIdle
          \/ (reeval.batches + 1 # MaxBatches
              /\ reeval' = [phase |-> "looping", batches |-> reeval.batches + 1, plan |-> NoPlan])
      BY <1>7 DEF ReevalWrite
    <3> QED BY <3>1, <3>2 DEF ReevalIdle
  <2>6. AggregatesTypeOK'
    BY <1>1, <1>4, <2>4, <2>5 DEF AggregatesInv, AggregatesTypeOK, IsPlan
  <2>7. PlanIsPopular(reeval.plan)' /\ \A q \in DOMAIN reeval'.plan : aggregates'[q] # NoRow
    BY <1>4, <2>5 DEF PlanIsPopular
  <2> QED BY <1>2, <2>4, <2>6, <2>7 DEF AggregatesInv
<1>8. CASE ReevalAbort
  BY <1>3, <1>4, <1>8, AggregatesAssumption DEF ReevalAbort, ReevalIdle
<1> QED BY <1>5, <1>6, <1>7, <1>8

LEMMA StepPreserves == AggregatesInv /\ [AggregatesNext]_aggregateVars => AggregatesInv'
<1> SUFFICES ASSUME AggregatesInv, [AggregatesNext]_aggregateVars PROVE AggregatesInv'
  OBVIOUS
<1>1. CASE \E q \in Queries, visit \in Visits : AppendQueryLog(q, visit)
  BY <1>1, AppendPreserves
<1>2. CASE \/ \E i \in DOMAIN log, status \in {"live", "aborted"} : EndSearch(i, status)
           \/ \E visit \in Visits, queries \in {Queries} \cup {{q} : q \in Queries} :
                ClearHistory(visit.user, queries)
           \/ \E i \in DOMAIN log : AgeOut(i)
           \/ DeleteOldQueryLog
  BY <1>2, LogActionsPreserve
<1>3. CASE \E q \in Queries : BanSuggestion(q) \/ UnbanSuggestion(q)
  BY <1>3, ModerationPreserves
<1>4. CASE RollupRead \/ RollupCompute \/ RollupCommit \/ RollupAbort
  BY <1>4, RollupPreserves
<1>5. CASE ReevalStart \/ ReevalCompute \/ ReevalWrite \/ ReevalAbort
  BY <1>5, ReevalPreserves
<1>6. CASE UNCHANGED aggregateVars
  BY <1>6, SamePeople
     DEF aggregateVars, AggregatesInv, AggregatesTypeOK, IsPlan, FloorWasCleared, PlanIsPopular, Popular
<1> QED BY <1>1, <1>2, <1>3, <1>4, <1>5, <1>6 DEF AggregatesNext
-----------------------------------------------------------------------------
THEOREM InvariantHolds == AggregatesSpec => []AggregatesInv
BY InitHolds, StepPreserves, PTL DEF AggregatesSpec

(* Counters, cursor and the plans of both passes stay well formed, the      *)
(* cursor never passes the log, and a re-evaluation never runs more batches *)
(* than its cap (RollupQueryAggregates, Runner.ReevaluateSuggestible).      *)
THEOREM AggregatesTypeCorrect == AggregatesSpec => []AggregatesTypeOK
<1>1. AggregatesInv => AggregatesTypeOK
  BY DEF AggregatesInv
<1> QED BY <1>1, InvariantHolds, PTL

(* The floor: whatever passes, bans, deletions and aborts interleave, a     *)
(* suggestible string was searched for by at least MinUsers people          *)
(* (RollupQueryAggregates, ReevaluateSuggestible, UnbanSuggestion).         *)
THEOREM FloorHolds == AggregatesSpec => []FloorWasCleared
<1>1. AggregatesInv => FloorWasCleared
  BY DEF AggregatesInv
<1> QED BY <1>1, InvariantHolds, PTL
=============================================================================
