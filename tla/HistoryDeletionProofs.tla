----------------------- MODULE HistoryDeletionProofs -----------------------
(***************************************************************************)
(* Proofs about recording and forgetting, for any events, requests and     *)
(* number of processes: a ledger row only comes with a fresh receipt, and a *)
(* consented search with a ledger row is on its account's page.  The        *)
(* argument for the latter is about open transactions: one that has deleted *)
(* a personal row has deleted the ledger rows behind it, or is about to.    *)
(***************************************************************************)
EXTENDS HistoryDeletion, SequenceTheorems, TLAPS

Deletes == {"delete_history", "delete_query_log", "delete_behavior"}

Statements ==
       [do : {"record"}, id : Ids]
  \cup [do : {"list_sessions", "purge_projection"}, user : Users]
  \cup [do : Deletes, user : Users, queries : SUBSET AnyQuery]

\* A statement that matches the same rows as another one.
SameRows(st, other) == st.user = other.user /\ st.queries = other.queries

\* Later in a job, after its i-th statement.
Follows(job, i, do) ==
  \E k \in DOMAIN job : i < k /\ job[k].do = do /\ SameRows(job[k], job[i])

\* A receipt comes first; what deletes history goes on to the ledgers.
Planned(job) ==
  \A i \in DOMAIN job :
    /\ i > 1 => job[i].do # "record"
    /\ job[i].do = "delete_history" =>
         Follows(job, i, "delete_query_log") /\ Follows(job, i, "delete_behavior")

Jobs == {job \in Seq(Statements) : job # <<>> /\ Planned(job)}

Pushes == {id \in Ids : IsBehavior(id) /\ PushedItem(id) # None}

Calls ==
  [do : {"push"}, id : Pushes] \cup [do : {"drop"}, sessions : SUBSET Sessions]

Transactions ==
  [phase : {"idle", "open", "committed"}, todo : Seq(Jobs), landed : Seq(Ids),
   log : SUBSET {id \in Ids : EntersQueryLog(id)},
   behavior : SUBSET {id \in Ids : IsBehavior(id)},
   upserts : [Keys -> Nat], goneLog : SUBSET Ids, goneBehavior : SUBSET Ids,
   gone : SUBSET Keys, sessions : SUBSET Sessions, found : SUBSET Ids,
   calls : Seq(Calls)]

TxTyped ==
  /\ tx \in [Procs -> Transactions]
  /\ \A p \in Procs : tx[p].phase = "committed" => tx[p].todo = <<>>

\* What a transaction records has a receipt of its own.
OwnReceipts ==
  \A p \in Procs :
    /\ tx[p].log \cup tx[p].behavior \subseteq ToSet(tx[p].landed)
    /\ ToSet(tx[p].landed) \cap receipts = {}
    /\ \A q \in Procs \ {p} : ToSet(tx[p].landed) \cap ToSet(tx[q].landed) = {}

\* Row locks on personal rows.
LocksHold ==
  \A p, q \in Procs : p # q =>
    Upserted(tx[p]) \cap (Upserted(tx[q]) \cup tx[q].gone) = {}

\* A deletion of a search's rows is still to come in the job begun.
Pending(t, do, id) ==
  /\ t.todo # <<>>
  /\ Head(t.todo)[1].do # "record"
  /\ \E i \in DOMAIN Head(t.todo) :
       /\ Head(t.todo)[i].do = do
       /\ Matches(id, Head(t.todo)[i].user, Head(t.todo)[i].queries)

KeepsLog(t, id) == id \in t.log /\ ~Pending(t, "delete_query_log", id)
KeepsBehavior(t, id) == id \in t.behavior /\ ~Pending(t, "delete_behavior", id)

SparesLog(t, id) ==
  id \in queryLog /\ id \notin t.goneLog /\ ~Pending(t, "delete_query_log", id)
SparesBehavior(t, id) ==
  id \in behavior /\ id \notin t.goneBehavior /\ ~Pending(t, "delete_behavior", id)

\* What a transaction will leave of a search it leaves with its personal row.
PageFollows(t) ==
  \A id \in Ids : EntersQueryLog(id) => \A key \in KeysOf(id) :
    /\ KeepsLog(t, id) \/ KeepsBehavior(t, id) => t.upserts[key] > 0
    /\ key \in t.gone /\ (SparesLog(t, id) \/ SparesBehavior(t, id)) => t.upserts[key] > 0

HistoryInv ==
  /\ HistoryTypeOK
  /\ TxTyped
  /\ OwnReceipts
  /\ LocksHold
  /\ \A p \in Procs : PageFollows(tx[p])
  /\ SurvivorsAreOnThePage
-----------------------------------------------------------------------------
(* Sequences *)

LEMMA AppendedSet ==
  ASSUME NEW S, NEW seq \in Seq(S), NEW e \in S
  PROVE  Append(seq, e) \in Seq(S) /\ ToSet(Append(seq, e)) = ToSet(seq) \cup {e}
<1>1. Append(seq, e) \in Seq(S) /\ Len(Append(seq, e)) = Len(seq) + 1 /\ Len(seq) \in Nat
  OBVIOUS
<1>2. \A i \in 1 .. Len(seq) + 1 : Append(seq, e)[i] = IF i = Len(seq) + 1 THEN e ELSE seq[i]
  OBVIOUS
<1>3. DOMAIN seq = 1 .. Len(seq) /\ DOMAIN Append(seq, e) = 1 .. Len(seq) + 1
  BY <1>1
<1> QED BY <1>1, <1>2, <1>3 DEF ToSet

LEMMA TailOf ==
  ASSUME NEW S, NEW seq \in Seq(S), seq # <<>>
  PROVE  /\ Head(seq) \in S /\ Head(seq) = seq[1] /\ 1 \in DOMAIN seq
         /\ Tail(seq) \in Seq(S)
         /\ \A i \in DOMAIN seq : i > 1 => i - 1 \in DOMAIN Tail(seq) /\ Tail(seq)[i - 1] = seq[i]
         /\ \A i \in DOMAIN Tail(seq) : i + 1 \in DOMAIN seq /\ Tail(seq)[i] = seq[i + 1]
<1>1. Len(seq) \in Nat \ {0} /\ DOMAIN seq = 1 .. Len(seq)
  OBVIOUS
<1>2. Tail(seq) \in Seq(S) /\ Len(Tail(seq)) = Len(seq) - 1
  OBVIOUS
<1>3. \A i \in 1 .. Len(seq) - 1 : Tail(seq)[i] = seq[i + 1]
  OBVIOUS
<1>4. DOMAIN Tail(seq) = 1 .. Len(seq) - 1
  BY <1>1, <1>2
<1>5. Head(seq) \in S /\ Head(seq) = seq[1]
  BY <1>1
<1>6. \A i \in DOMAIN seq : i > 1 => i - 1 \in DOMAIN Tail(seq) /\ Tail(seq)[i - 1] = seq[i]
  <2> SUFFICES ASSUME NEW i \in 1 .. Len(seq), i > 1
               PROVE  i - 1 \in 1 .. Len(seq) - 1 /\ Tail(seq)[i - 1] = seq[i]
    BY <1>1, <1>4
  <2>1. i - 1 \in 1 .. Len(seq) - 1 /\ (i - 1) + 1 = i
    BY <1>1
  <2> QED BY <2>1, <1>3
<1>7. \A i \in DOMAIN Tail(seq) : i + 1 \in DOMAIN seq /\ Tail(seq)[i] = seq[i + 1]
  BY <1>1, <1>3, <1>4
<1> QED BY <1>1, <1>2, <1>5, <1>6, <1>7

LEMMA PushedList ==
  ASSUME NEW S, NEW list \in Seq(S), NEW item \in S
  PROVE  Pushed(list, item) \in Seq(S) /\ Len(Pushed(list, item)) <= SessionMax
<1> DEFINE longer == <<item>> \o list
           n == IF Len(longer) < SessionMax THEN Len(longer) ELSE SessionMax
<1>1. longer \in Seq(S) /\ Len(longer) \in Nat /\ Len(longer) = 1 + Len(list)
  OBVIOUS
<1>2. SessionMax \in Nat \ {0}
  BY HistoryAssumption
<1>3. n \in 1 .. Len(longer) /\ n <= SessionMax
  BY <1>1, <1>2
<1>4. SubSeq(longer, 1, n) \in Seq(S) /\ Len(SubSeq(longer, 1, n)) = n
  <2> HIDE DEF longer, n
  <2>1. n \in Nat /\ n >= 1 /\ n <= Len(longer)
    BY <1>1, <1>3
  <2>2. \A i \in 1 .. n : longer[i] \in S
    BY <2>1, <1>1
  <2> QED BY <1>1, <2>1, <2>2, SubSeqProperties
<1> QED BY <1>3, <1>4 DEF Pushed
-----------------------------------------------------------------------------
(* Jobs *)

LEMMA LeftOfAJob ==
  ASSUME NEW job \in Jobs
  PROVE  /\ Head(job) \in Statements /\ Head(job) = job[1]
         /\ Tail(job) \in Seq(Statements)
         /\ Tail(job) # <<>> => Tail(job) \in Jobs
<1> DEFINE left == Tail(job)
<1>1. job \in Seq(Statements) /\ job # <<>> /\ Planned(job)
  BY DEF Jobs
<1>2. /\ Head(job) \in Statements /\ Head(job) = job[1]
      /\ left \in Seq(Statements)
      /\ \A i \in DOMAIN job : i > 1 => i - 1 \in DOMAIN left /\ left[i - 1] = job[i]
      /\ \A i \in DOMAIN left : i + 1 \in DOMAIN job /\ left[i] = job[i + 1]
  BY <1>1, TailOf
<1>3. DOMAIN left \subseteq Nat \ {0} /\ DOMAIN job \subseteq Nat \ {0}
  BY <1>1, <1>2
<1> HIDE DEF left
<1>4. ASSUME NEW i \in DOMAIN left
      PROVE  /\ i > 1 => left[i].do # "record"
             /\ left[i].do = "delete_history" =>
                  Follows(left, i, "delete_query_log") /\ Follows(left, i, "delete_behavior")
  <2>1. i + 1 \in DOMAIN job /\ i + 1 > 1 /\ left[i] = job[i + 1] /\ i \in Nat
    BY <1>2, <1>3
  <2>2. ASSUME NEW do, Follows(job, i + 1, do)
        PROVE  Follows(left, i, do)
    <3>1. PICK k \in DOMAIN job : i + 1 < k /\ job[k].do = do /\ SameRows(job[k], job[i + 1])
      BY <2>2 DEF Follows
    <3>2. k \in Nat /\ k > 1 /\ i < k - 1
      BY <3>1, <2>1, <1>3
    <3>3. k - 1 \in DOMAIN left /\ left[k - 1] = job[k]
      BY <3>2, <1>2
    <3> QED BY <3>1, <3>2, <3>3, <2>1 DEF Follows
  <2> QED BY <2>1, <2>2, <1>1 DEF Planned
<1>5. Planned(left)
  BY <1>4 DEF Planned
<1> QED BY <1>2, <1>5 DEF Jobs, left

LEMMA RestOf ==
  ASSUME TxTyped, NEW p \in Procs, tx[p].todo # <<>>
  PROVE  /\ Job(p) \in Jobs /\ Statement(p) \in Statements /\ Statement(p) = Job(p)[1]
         /\ Job(p) = Head(tx[p].todo)
         /\ Tail(tx[p].todo) \in Seq(Jobs)
         /\ Rest(p) \in Seq(Jobs)
         /\ Tail(Job(p)) # <<>> => Rest(p) # <<>> /\ Head(Rest(p)) = Tail(Job(p))
<1>1. tx[p].todo \in Seq(Jobs)
  BY DEF TxTyped, Transactions
<1>2. Job(p) \in Jobs /\ Tail(tx[p].todo) \in Seq(Jobs)
  BY <1>1, TailOf DEF Job
<1>3. /\ Statement(p) \in Statements /\ Statement(p) = Job(p)[1]
      /\ Tail(Job(p)) \in Seq(Statements)
      /\ Tail(Job(p)) # <<>> => Tail(Job(p)) \in Jobs
  BY <1>2, LeftOfAJob DEF Statement
<1>4. CASE Tail(Job(p)) = <<>>
  <2>1. Rest(p) = Tail(tx[p].todo)
    BY <1>2, <1>4 DEF Rest
  <2> QED BY <1>2, <1>3, <1>4, <2>1 DEF Job
<1>5. CASE Tail(Job(p)) # <<>>
  <2>1. Rest(p) = <<Tail(Job(p))>> \o Tail(tx[p].todo)
    BY <1>5 DEF Rest
  <2> DEFINE left == Tail(Job(p))
             later == Tail(tx[p].todo)
  <2>2. left \in Jobs /\ later \in Seq(Jobs)
    BY <1>2, <1>3, <1>5
  <2> HIDE DEF left, later
  <2>3. /\ <<left>> \o later \in Seq(Jobs)
        /\ Len(<<left>> \o later) = Len(later) + 1 /\ Len(later) \in Nat
        /\ (<<left>> \o later)[1] = left
    BY <2>2
  <2>4. <<left>> \o later # <<>> /\ Head(<<left>> \o later) = left
    BY <2>3, TailOf
  <2> QED BY <1>2, <1>3, <2>1, <2>3, <2>4 DEF left, later, Job
<1> QED BY <1>4, <1>5

LedgerDeletes == {"delete_query_log", "delete_behavior"}

LEMMA StillPending ==
  ASSUME TxTyped, NEW p \in Procs, tx[p].todo # <<>>, NEW t, t.todo = Rest(p),
         NEW do \in LedgerDeletes, NEW id \in Ids
  PROVE  /\ Pending(tx[p], do, id) =>
              \/ Pending(t, do, id)
              \/ Statement(p).do = do /\ Matches(id, Statement(p).user, Statement(p).queries)
         /\ /\ Statement(p).do = "delete_history"
            /\ Matches(id, Statement(p).user, Statement(p).queries)
            => Pending(t, do, id)
<1> DEFINE job == Job(p)
           left == Tail(job)
<1>1. /\ job \in Jobs /\ Statement(p) = job[1] /\ job = Head(tx[p].todo)
      /\ left # <<>> => t.todo # <<>> /\ Head(t.todo) = left
  BY RestOf
<1>2. /\ job \in Seq(Statements) /\ job # <<>> /\ Planned(job)
      /\ DOMAIN job \subseteq Nat \ {0} /\ 1 \in DOMAIN job
  BY <1>1, TailOf DEF Jobs
<1>3. /\ \A i \in DOMAIN job : i > 1 => i - 1 \in DOMAIN left /\ left[i - 1] = job[i]
      /\ \A i \in DOMAIN left : i + 1 \in DOMAIN job /\ left[i] = job[i + 1]
      /\ left \in Seq(Statements)
  BY <1>2, TailOf
<1> HIDE DEF job, left
<1>4. ASSUME NEW i \in DOMAIN job, i > 1, job[i].do = do, Matches(id, job[i].user, job[i].queries)
      PROVE  Pending(t, do, id)
  <2>1. i - 1 \in DOMAIN left /\ left[i - 1] = job[i]
    BY <1>3, <1>4
  <2>2. left # <<>>
    BY <2>1, <1>3
  <2>3. 1 \in DOMAIN left
    BY <2>2, <1>3, TailOf
  <2>4. 2 \in DOMAIN job /\ left[1] = job[2]
    BY <2>3, <1>3
  <2>5. left[1].do # "record"
    BY <2>4, <1>2 DEF Planned
  <2> QED BY <1>1, <1>4, <2>1, <2>2, <2>5 DEF Pending
<1>5. ASSUME Pending(tx[p], do, id)
      PROVE  \/ Pending(t, do, id)
             \/ Statement(p).do = do /\ Matches(id, Statement(p).user, Statement(p).queries)
  <2>1. PICK i \in DOMAIN job : job[i].do = do /\ Matches(id, job[i].user, job[i].queries)
    BY <1>1, <1>5 DEF Pending
  <2>2. CASE i = 1
    BY <1>1, <2>1, <2>2
  <2>3. CASE i # 1
    BY <1>2, <1>4, <2>1, <2>3
  <2> QED BY <2>2, <2>3
<1>6. ASSUME Statement(p).do = "delete_history",
             Matches(id, Statement(p).user, Statement(p).queries)
      PROVE  Pending(t, do, id)
  <2>1. Follows(job, 1, do)
    BY <1>1, <1>2, <1>6 DEF Planned, LedgerDeletes
  <2>2. PICK i \in DOMAIN job : 1 < i /\ job[i].do = do /\ SameRows(job[i], job[1])
    BY <2>1 DEF Follows
  <2> QED BY <1>1, <1>2, <1>4, <1>6, <2>2 DEF SameRows
<1> QED BY <1>5, <1>6
-----------------------------------------------------------------------------
(* Steps of one transaction that no table sees.                             *)

\* What the transactions of other processes allow one to be.
Compatible(p, t) ==
  /\ t \in Transactions
  /\ t.phase = "committed" => t.todo = <<>>
  /\ t.log \cup t.behavior \subseteq ToSet(t.landed)
  /\ ToSet(t.landed) \cap receipts = {}
  /\ \A q \in Procs \ {p} :
       /\ ToSet(t.landed) \cap ToSet(tx[q].landed) = {}
       /\ Upserted(t) \cap (Upserted(tx[q]) \cup tx[q].gone) = {}
       /\ Upserted(tx[q]) \cap t.gone = {}
  /\ PageFollows(t)

LEMMA OneStep ==
  ASSUME HistoryInv, NEW p \in Procs, NEW t, tx' = [tx EXCEPT ![p] = t],
         Compatible(p, t), UNCHANGED Tables,
         recent' \in [q : [Sessions -> Seq(Queries)], v : [Sessions -> Seq(Videos)]],
         \A s \in Sessions :
           Len(recent'.q[s]) <= SessionMax /\ Len(recent'.v[s]) <= SessionMax
  PROVE  HistoryInv'
<1>1. tx \in [Procs -> Transactions]
  BY DEF HistoryInv, TxTyped
<1>2. tx'[p] = t /\ \A q \in Procs \ {p} : tx'[q] = tx[q]
  BY <1>1
<1>3. TxTyped'
  BY <1>1, <1>2 DEF HistoryInv, TxTyped, Compatible
<1>4. HistoryTypeOK'
  BY <1>2, <1>3 DEF HistoryInv, TxTyped, HistoryTypeOK, Tables
<1>5. OwnReceipts'
  <2> SUFFICES ASSUME NEW q \in Procs
               PROVE  /\ tx'[q].log \cup tx'[q].behavior \subseteq ToSet(tx'[q].landed)
                      /\ ToSet(tx'[q].landed) \cap receipts = {}
                      /\ \A r \in Procs \ {q} :
                           ToSet(tx'[q].landed) \cap ToSet(tx'[r].landed) = {}
    BY DEF OwnReceipts, ToSet, Tables
  <2>1. CASE q = p
    BY <1>2, <2>1 DEF Compatible
  <2>2. CASE q # p
    <3>1. /\ tx[q].log \cup tx[q].behavior \subseteq ToSet(tx[q].landed)
          /\ ToSet(tx[q].landed) \cap receipts = {}
          /\ \A r \in Procs \ {q} : ToSet(tx[q].landed) \cap ToSet(tx[r].landed) = {}
      BY DEF HistoryInv, OwnReceipts
    <3>2. ToSet(tx[q].landed) \cap ToSet(t.landed) = {}
      BY <2>2 DEF Compatible
    <3> QED BY <1>2, <2>2, <3>1, <3>2
  <2> QED BY <2>1, <2>2
<1>6. LocksHold'
  <2> SUFFICES ASSUME NEW q \in Procs, NEW r \in Procs, q # r
               PROVE  Upserted(tx'[q]) \cap (Upserted(tx'[r]) \cup tx'[r].gone) = {}
    BY DEF LocksHold, Upserted
  <2>1. CASE q = p
    BY <1>2, <2>1 DEF Compatible
  <2>2. CASE r = p
    BY <1>2, <2>2 DEF Compatible
  <2>3. CASE q # p /\ r # p
    BY <1>2, <2>3 DEF HistoryInv, LocksHold
  <2> QED BY <2>1, <2>2, <2>3
<1>7. ASSUME NEW q \in Procs
      PROVE  PageFollows(tx[q])'
  <2>1. queryLog' = queryLog /\ behavior' = behavior
    BY DEF Tables
  <2>2. PageFollows(tx'[q])
    BY <1>2 DEF HistoryInv, Compatible
  <2> QED BY <2>1, <2>2 DEF PageFollows, KeepsLog, KeepsBehavior, SparesLog, SparesBehavior, Pending
<1>8. SurvivorsAreOnThePage'
  BY DEF HistoryInv, SurvivorsAreOnThePage, Stored, Tables
<1> QED BY <1>3, <1>4, <1>5, <1>6, <1>7, <1>8 DEF HistoryInv
-----------------------------------------------------------------------------
(* Every transaction begins with planned jobs.                              *)

LEMMA StatementTypes ==
  ASSUME NEW user \in Users, NEW queries \in SUBSET AnyQuery
  PROVE  /\ DeleteHistory(user, queries) \in Statements
         /\ DeleteQueryLog(user, queries) \in Statements
         /\ DeleteBehavior(user, queries) \in Statements
         /\ PurgeProjection(user) \in Statements
         /\ ListSessions(user) \in Statements
BY DEF Statements, Deletes, DeleteHistory, DeleteQueryLog, DeleteBehavior, PurgeProjection,
       ListSessions

\* The three deletions, in their order, behind statements that delete nothing
\* of a history.
LEMMA HistoryJob ==
  ASSUME NEW user \in Users, NEW queries \in SUBSET AnyQuery,
         NEW job \in Seq(Statements), NEW h \in DOMAIN job, NEW l \in DOMAIN job,
         NEW b \in DOMAIN job, h < l, l < b,
         job[h] = DeleteHistory(user, queries), job[l] = DeleteQueryLog(user, queries),
         job[b] = DeleteBehavior(user, queries),
         \A i \in DOMAIN job :
           /\ i # h => job[i].do # "delete_history"
           /\ i > 1 => job[i].do # "record"
  PROVE  job \in Jobs
<1>1. DOMAIN job \subseteq Nat
  OBVIOUS
<1>2. Follows(job, h, "delete_query_log")
  <2>1. job[l].do = "delete_query_log" /\ SameRows(job[l], job[h])
    BY DEF SameRows, DeleteHistory, DeleteQueryLog
  <2> QED BY <2>1 DEF Follows
<1>3. Follows(job, h, "delete_behavior")
  <2>1. job[b].do = "delete_behavior" /\ SameRows(job[b], job[h])
    BY DEF SameRows, DeleteHistory, DeleteBehavior
  <2>2. h < b
    BY <1>1
  <2> QED BY <2>1, <2>2 DEF Follows
<1>4. Planned(job)
  BY <1>2, <1>3 DEF Planned
<1>5. job # <<>>
  OBVIOUS
<1> QED BY <1>4, <1>5 DEF Jobs

LEMMA ShortJob ==
  ASSUME NEW job \in Seq(Statements), job # <<>>,
         \A i \in DOMAIN job :
           job[i].do # "delete_history" /\ (i > 1 => job[i].do # "record")
  PROVE  job \in Jobs
BY DEF Jobs, Planned

LEMMA RequestJob ==
  ASSUME NEW request \in Requests
  PROVE  RequestStatements(request) \in Jobs
<1>1. request \in Endpoints /\ request.user \in Users
  BY HistoryAssumption DEF Endpoints
<1> DEFINE user == request.user
<1>2. AnyQuery \in SUBSET AnyQuery
  OBVIOUS
<1>3. CASE request.path = "search-history"
  <2> DEFINE job == ClearAll(user)
  <2>1. /\ job \in Seq(Statements) /\ DOMAIN job = 1 .. 4
        /\ job[1] = ListSessions(user) /\ job[2] = DeleteHistory(user, AnyQuery)
        /\ job[3] = DeleteQueryLog(user, AnyQuery) /\ job[4] = DeleteBehavior(user, AnyQuery)
    BY <1>1, <1>2, StatementTypes DEF ClearAll
  <2> HIDE DEF job
  <2>2. \A i \in DOMAIN job :
          /\ i # 2 => job[i].do # "delete_history"
          /\ i > 1 => job[i].do # "record"
    BY <2>1 DEF ListSessions, DeleteHistory, DeleteQueryLog, DeleteBehavior
  <2>3. job \in Jobs
    BY <1>1, <1>2, <2>1, <2>2, HistoryJob
  <2> QED BY <1>3, <2>3 DEF RequestStatements, job
<1>4. CASE request.path = "user"
  <2> DEFINE job == PurgeUser(user)
  <2>1. /\ job \in Seq(Statements) /\ DOMAIN job = 1 .. 5
        /\ job[1] = ListSessions(user) /\ job[2] = DeleteHistory(user, AnyQuery)
        /\ job[3] = PurgeProjection(user)
        /\ job[4] = DeleteQueryLog(user, AnyQuery) /\ job[5] = DeleteBehavior(user, AnyQuery)
    BY <1>1, <1>2, StatementTypes DEF PurgeUser
  <2> HIDE DEF job
  <2>2. \A i \in DOMAIN job :
          /\ i # 2 => job[i].do # "delete_history"
          /\ i > 1 => job[i].do # "record"
    BY <2>1 DEF ListSessions, DeleteHistory, DeleteQueryLog, DeleteBehavior, PurgeProjection
  <2>3. job \in Jobs
    BY <1>1, <1>2, <2>1, <2>2, HistoryJob
  <2> QED BY <1>4, <2>3 DEF RequestStatements, job
<1>5. CASE request.path = "entry"
  <2>0. {request.query} \in SUBSET AnyQuery
    BY <1>1, <1>5 DEF Endpoints, AnyQuery
  <2> DEFINE job == DeleteEntry(user, request.query)
  <2>1. /\ job \in Seq(Statements) /\ DOMAIN job = 1 .. 3
        /\ job[1] = DeleteHistory(user, {request.query})
        /\ job[2] = DeleteQueryLog(user, {request.query})
        /\ job[3] = DeleteBehavior(user, {request.query})
    BY <1>1, <2>0, StatementTypes DEF DeleteEntry
  <2> HIDE DEF job
  <2>2. \A i \in DOMAIN job :
          /\ i # 1 => job[i].do # "delete_history"
          /\ i > 1 => job[i].do # "record"
    BY <2>1 DEF DeleteHistory, DeleteQueryLog, DeleteBehavior
  <2>3. job \in Jobs
    BY <1>1, <2>0, <2>1, <2>2, HistoryJob
  <2> QED BY <1>5, <2>3 DEF RequestStatements, job
<1> QED BY <1>1, <1>3, <1>4, <1>5 DEF Endpoints

LEMMA EventJob ==
  ASSUME NEW id \in Ids
  PROVE  EventStatements(id) \in Jobs
<1>1. Stream[id] \in Behaviors \cup HistoryDeleted
  BY HistoryAssumption DEF Ids
<1> DEFINE user == Stream[id].user
           record == [do |-> "record", id |-> id]
<1>2. record \in Statements /\ record.do = "record" /\ AnyQuery \in SUBSET AnyQuery
  BY DEF Statements
<1> HIDE DEF record
<1>3. CASE IsBehavior(id)
  <2> DEFINE job == <<record>>
  <2>1. job \in Seq(Statements) /\ DOMAIN job = {1} /\ job[1] = record /\ job # <<>>
    BY <1>2
  <2>2. job = EventStatements(id)
    BY <1>3 DEF EventStatements, record
  <2> HIDE DEF job
  <2>3. job \in Jobs
    BY <1>2, <2>1, ShortJob
  <2> QED BY <2>2, <2>3
<1>4. CASE ~IsBehavior(id)
  <2>1. Stream[id] \in HistoryDeleted /\ user \in Users
    BY <1>1, <1>4 DEF IsBehavior, Behaviors, HistoryDeleted
  <2>2. CASE Stream[id].scope = "watch"
    <3> DEFINE job == <<record, PurgeProjection(user)>>
    <3>1. /\ job \in Seq(Statements) /\ DOMAIN job = {1, 2} /\ job # <<>>
          /\ job[1] = record /\ job[2] = PurgeProjection(user)
      BY <1>2, <2>1, StatementTypes
    <3>2. job = EventStatements(id)
      BY <1>4, <2>2 DEF EventStatements, record
    <3> HIDE DEF job
    <3>3. job \in Jobs
      BY <1>2, <3>1, ShortJob DEF PurgeProjection
    <3> QED BY <3>2, <3>3
  <2>3. CASE Stream[id].scope = "search"
    <3> DEFINE job == <<record, DeleteHistory(user, AnyQuery), DeleteQueryLog(user, AnyQuery),
                        DeleteBehavior(user, AnyQuery)>>
    <3>1. /\ job \in Seq(Statements) /\ DOMAIN job = 1 .. 4
          /\ job[1] = record /\ job[2] = DeleteHistory(user, AnyQuery)
          /\ job[3] = DeleteQueryLog(user, AnyQuery) /\ job[4] = DeleteBehavior(user, AnyQuery)
      BY <1>2, <2>1, StatementTypes
    <3>2. job = EventStatements(id)
      BY <1>4, <2>3 DEF EventStatements, record
    <3> HIDE DEF job
    <3>3. \A i \in DOMAIN job :
            /\ i # 2 => job[i].do # "delete_history"
            /\ i > 1 => job[i].do # "record"
      BY <1>2, <3>1 DEF DeleteHistory, DeleteQueryLog, DeleteBehavior
    <3>4. job \in Jobs
      BY <1>2, <2>1, <3>1, <3>3, HistoryJob
    <3> QED BY <3>2, <3>4
  <2>4. CASE Stream[id].scope = "all"
    <3> DEFINE job == <<record, PurgeProjection(user), DeleteHistory(user, AnyQuery),
                        DeleteQueryLog(user, AnyQuery), DeleteBehavior(user, AnyQuery)>>
    <3>1. /\ job \in Seq(Statements) /\ DOMAIN job = 1 .. 5
          /\ job[1] = record /\ job[2] = PurgeProjection(user)
          /\ job[3] = DeleteHistory(user, AnyQuery)
          /\ job[4] = DeleteQueryLog(user, AnyQuery) /\ job[5] = DeleteBehavior(user, AnyQuery)
      BY <1>2, <2>1, StatementTypes
    <3>2. job = EventStatements(id)
      BY <1>4, <2>4 DEF EventStatements, record
    <3> HIDE DEF job
    <3>3. \A i \in DOMAIN job :
            /\ i # 3 => job[i].do # "delete_history"
            /\ i > 1 => job[i].do # "record"
      BY <1>2, <3>1 DEF DeleteHistory, DeleteQueryLog, DeleteBehavior, PurgeProjection
    <3>4. job \in Jobs
      BY <1>2, <2>1, <3>1, <3>3, HistoryJob
    <3> QED BY <3>2, <3>4
  <2> QED BY <2>1, <2>2, <2>3, <2>4 DEF HistoryDeleted
<1> QED BY <1>3, <1>4
-----------------------------------------------------------------------------
(* The initial state, and the processes between two transactions.           *)

LEMMA IdleIsCompatible ==
  ASSUME NEW p \in Procs, NEW t \in Transactions,
         t.phase = "committed" => t.todo = <<>>,
         t.landed = <<>>, t.log = {}, t.behavior = {}, t.upserts = Untouched, t.gone = {}
  PROVE  Compatible(p, t)
<1>1. ToSet(t.landed) = {} /\ Upserted(t) = {}
  BY DEF ToSet, Upserted, Untouched
<1>2. PageFollows(t)
  BY DEF PageFollows, KeepsLog, KeepsBehavior
<1> QED BY <1>1, <1>2 DEF Compatible

LEMMA IdleTyped ==
  /\ Idle \in Transactions /\ Idle.phase = "idle" /\ Idle.landed = <<>>
  /\ Idle.log = {} /\ Idle.behavior = {} /\ Idle.upserts = Untouched /\ Idle.gone = {}
BY DEF Idle, Transactions, Untouched

LEMMA InitHolds == HistoryInit => HistoryInv
<1> SUFFICES ASSUME HistoryInit PROVE HistoryInv
  OBVIOUS
<1>1. \A p \in Procs : tx[p] = Idle
  BY DEF HistoryInit
<1>2. TxTyped
  BY <1>1, IdleTyped DEF HistoryInit, TxTyped
<1>3. HistoryTypeOK
  BY <1>1, IdleTyped, HistoryAssumption DEF HistoryInit, HistoryTypeOK, NoList, Untouched
<1>4. \A p \in Procs : Compatible(p, tx[p])
  BY <1>1, IdleTyped, IdleIsCompatible
<1>5. OwnReceipts /\ \A p \in Procs : PageFollows(tx[p])
  BY <1>4 DEF OwnReceipts, Compatible
<1>6. LocksHold
  BY <1>4 DEF LocksHold, Compatible
<1>7. SurvivorsAreOnThePage
  BY DEF HistoryInit, SurvivorsAreOnThePage
<1> QED BY <1>2, <1>3, <1>5, <1>6, <1>7 DEF HistoryInv

LEMMA SameLists ==
  ASSUME HistoryInv, recent' = recent
  PROVE  /\ recent' \in [q : [Sessions -> Seq(Queries)], v : [Sessions -> Seq(Videos)]]
         /\ \A s \in Sessions :
              Len(recent'.q[s]) <= SessionMax /\ Len(recent'.v[s]) <= SessionMax
BY DEF HistoryInv, HistoryTypeOK

LEMMA BeginIngestStep ==
  ASSUME HistoryInv, NEW p \in Procs, NEW n \in 1 .. MaxBatch, NEW batch \in [1 .. n -> Ids],
         BeginIngest(p, batch)
  PROVE  HistoryInv'
<1> DEFINE jobs == [i \in DOMAIN batch |-> EventStatements(batch[i])]
           t == [Idle EXCEPT !.phase = "open", !.todo = jobs]
<1>1. jobs \in Seq(Jobs)
  <2>1. \A i \in 1 .. n : EventStatements(batch[i]) \in Jobs
    BY EventJob
  <2> QED BY <2>1
<1> HIDE DEF jobs
<1>2. t \in Transactions /\ t.phase = "open" /\ t.landed = <<>> /\ t.log = {}
      /\ t.behavior = {} /\ t.upserts = Untouched /\ t.gone = {}
  BY <1>1, IdleTyped DEF Transactions
<1>3. tx' = [tx EXCEPT ![p] = t] /\ UNCHANGED Tables /\ recent' = recent
  BY DEF BeginIngest, jobs
<1> HIDE DEF t
<1> QED BY <1>2, <1>3, IdleIsCompatible, SameLists, OneStep

LEMMA BeginRequestStep ==
  ASSUME HistoryInv, NEW p \in Procs, NEW request \in Requests, BeginRequest(p, request)
  PROVE  HistoryInv'
<1> DEFINE found == {id \in queryLog \cup behavior :
              /\ Stream[id].user = request.user
              /\ request.path = "entry" => Stream[id].query = request.query}
           t == [Idle EXCEPT !.phase = "open", !.todo = <<RequestStatements(request)>>,
                             !.found = found]
<1>1. <<RequestStatements(request)>> \in Seq(Jobs)
  BY RequestJob
<1>2. found \in SUBSET Ids
  BY DEF HistoryInv, HistoryTypeOK
<1> HIDE DEF found
<1>3. t \in Transactions /\ t.phase = "open" /\ t.landed = <<>> /\ t.log = {}
      /\ t.behavior = {} /\ t.upserts = Untouched /\ t.gone = {}
  BY <1>1, <1>2, IdleTyped DEF Transactions
<1>4. tx' = [tx EXCEPT ![p] = t] /\ UNCHANGED Tables /\ recent' = recent
  BY DEF BeginRequest, found
<1> HIDE DEF t
<1> QED BY <1>3, <1>4, IdleIsCompatible, SameLists, OneStep

LEMMA BackToIdle ==
  ASSUME HistoryInv, NEW p \in Procs, Abort(p) \/ Finish(p)
  PROVE  HistoryInv'
<1>1. tx' = [tx EXCEPT ![p] = Idle] /\ UNCHANGED Tables /\ recent' = recent
  BY DEF Abort, Finish
<1>2. Compatible(p, Idle)
  BY IdleTyped, IdleIsCompatible
<1> QED BY <1>1, <1>2, SameLists, OneStep
-----------------------------------------------------------------------------
(* Statements.                                                              *)

\* What the invariant says of one transaction.
LEMMA OwnFacts ==
  ASSUME HistoryInv, NEW p \in Procs
  PROVE  /\ tx[p] \in Transactions
         /\ tx[p].phase = "committed" => tx[p].todo = <<>>
         /\ tx[p].log \cup tx[p].behavior \subseteq ToSet(tx[p].landed)
         /\ ToSet(tx[p].landed) \cap receipts = {}
         /\ PageFollows(tx[p])
         /\ \A q \in Procs \ {p} :
              /\ ToSet(tx[p].landed) \cap ToSet(tx[q].landed) = {}
              /\ Upserted(tx[p]) \cap (Upserted(tx[q]) \cup tx[q].gone) = {}
              /\ Upserted(tx[q]) \cap tx[p].gone = {}
BY DEF HistoryInv, TxTyped, OwnReceipts, LocksHold

LEMMA LeftTyped ==
  ASSUME NEW t \in Transactions, NEW todo \in Seq(Jobs)
  PROVE  /\ Left(t, todo) \in Transactions /\ Left(t, todo).todo = todo
         /\ Left(t, todo).phase = t.phase /\ Left(t, todo).landed = t.landed
         /\ Left(t, todo).log = t.log /\ Left(t, todo).behavior = t.behavior
         /\ Left(t, todo).upserts = t.upserts /\ Left(t, todo).gone = t.gone
         /\ Left(t, todo).goneLog = t.goneLog /\ Left(t, todo).goneBehavior = t.goneBehavior
BY DEF Left, Transactions

\* An event that is skipped: a duplicate, or one that failed.
LEMMA SkipStep ==
  ASSUME HistoryInv, NEW p \in Procs, Duplicate(p) \/ FailEvent(p)
  PROVE  HistoryInv'
<1> DEFINE t == Left(tx[p], Tail(tx[p].todo))
<1>1. /\ tx' = [tx EXCEPT ![p] = t] /\ UNCHANGED Tables /\ recent' = recent
      /\ tx[p].phase = "open" /\ tx[p].todo # <<>> /\ Statement(p).do = "record"
  BY DEF Duplicate, FailEvent, Runs, Becomes
<1>2. Tail(tx[p].todo) \in Seq(Jobs) /\ Statement(p) = Head(tx[p].todo)[1]
  BY <1>1, RestOf DEF HistoryInv
<1>3. /\ t \in Transactions /\ t.phase = "open" /\ t.landed = tx[p].landed
      /\ t.log = tx[p].log /\ t.behavior = tx[p].behavior /\ t.upserts = tx[p].upserts
      /\ t.gone = tx[p].gone /\ t.goneLog = tx[p].goneLog
      /\ t.goneBehavior = tx[p].goneBehavior
  <2>1. tx[p] \in Transactions /\ tx[p].phase = "open"
    BY <1>1, OwnFacts
  <2> QED BY <1>2, <2>1, LeftTyped
<1> HIDE DEF t
<1>4. PageFollows(t)
  <2>1. \A do, id : ~Pending(tx[p], do, id)
    BY <1>1, <1>2 DEF Pending
  <2> QED BY <2>1, <1>3, OwnFacts
       DEF PageFollows, KeepsLog, KeepsBehavior, SparesLog, SparesBehavior
<1>5. Compatible(p, t)
  BY <1>3, <1>4, OwnFacts DEF Compatible, Upserted
<1> QED BY <1>1, <1>5, SameLists, OneStep

LEMMA RecordedTyped ==
  ASSUME NEW t \in Transactions, NEW id \in Ids
  PROVE  LET r == Recorded(t, id)
         IN  /\ r \in Transactions /\ r.phase = t.phase /\ r.landed = Append(t.landed, id)
             /\ r.log = IF EntersQueryLog(id) THEN t.log \cup {id} ELSE t.log
             /\ r.behavior = IF IsBehavior(id) THEN t.behavior \cup {id} ELSE t.behavior
             /\ r.upserts = [key \in Keys |-> IF IsBehavior(id) /\ key \in KeysOf(id)
                                             THEN t.upserts[key] + 1 ELSE t.upserts[key]]
             /\ r.gone = t.gone /\ r.goneLog = t.goneLog /\ r.goneBehavior = t.goneBehavior
<1> DEFINE landed == Append(t.landed, id)
           log == IF EntersQueryLog(id) THEN t.log \cup {id} ELSE t.log
           ledger == IF IsBehavior(id) THEN t.behavior \cup {id} ELSE t.behavior
           upserts == [key \in Keys |-> IF IsBehavior(id) /\ key \in KeysOf(id)
                                       THEN t.upserts[key] + 1 ELSE t.upserts[key]]
           calls == IF IsBehavior(id) /\ PushedItem(id) # None
                    THEN Append(t.calls, [do |-> "push", id |-> id]) ELSE t.calls
<1>1. Recorded(t, id) = [t EXCEPT !.landed = landed, !.calls = calls, !.log = log,
                                  !.behavior = ledger, !.upserts = upserts]
  BY DEF Recorded, Transactions
<1>2. landed \in Seq(Ids)
  BY AppendedSet DEF Transactions
<1>3. log \in SUBSET {i \in Ids : EntersQueryLog(i)}
  BY DEF Transactions
<1>4. ledger \in SUBSET {i \in Ids : IsBehavior(i)}
  BY DEF Transactions
<1>5. upserts \in [Keys -> Nat]
  <2>1. t.upserts \in [Keys -> Nat]
    BY DEF Transactions
  <2> QED BY <2>1
<1>6. calls \in Seq(Calls)
  <2>1. IsBehavior(id) /\ PushedItem(id) # None => [do |-> "push", id |-> id] \in Calls
    BY DEF Calls, Pushes
  <2>2. t.calls \in Seq(Calls)
    BY DEF Transactions
  <2> QED BY <2>1, <2>2, AppendedSet
<1> HIDE DEF landed, log, ledger, upserts, calls
<1>7. LET r == Recorded(t, id)
      IN  /\ r \in Transactions /\ r.phase = t.phase /\ r.landed = landed /\ r.log = log
          /\ r.behavior = ledger /\ r.upserts = upserts
          /\ r.gone = t.gone /\ r.goneLog = t.goneLog /\ r.goneBehavior = t.goneBehavior
  BY <1>1, <1>2, <1>3, <1>4, <1>5, <1>6 DEF Transactions
<1> QED BY <1>7 DEF landed, log, ledger, upserts

LEMMA RecordStep ==
  ASSUME HistoryInv, NEW p \in Procs, Record(p)
  PROVE  HistoryInv'
<1> DEFINE id == Statement(p).id
           t == Left(Recorded(tx[p], id), Rest(p))
<1>1. /\ tx' = [tx EXCEPT ![p] = t] /\ UNCHANGED Tables /\ recent' = recent
      /\ tx[p].phase = "open" /\ tx[p].todo # <<>> /\ Statement(p).do = "record"
      /\ ~Contended(p, id) /\ id \notin Receipts(tx[p])
      /\ IsBehavior(id) => ~Blocked(p, id)
  BY DEF Record, Runs, Becomes
<1>2. /\ Statement(p) \in Statements /\ Rest(p) \in Seq(Jobs)
      /\ Statement(p) = Head(tx[p].todo)[1]
  BY <1>1, RestOf DEF HistoryInv
<1>3. id \in Ids
  BY <1>1, <1>2 DEF Statements, Deletes
<1> HIDE DEF id
<1>4. tx[p] \in Transactions
  BY OwnFacts
<1>5. ToSet(Append(tx[p].landed, id)) = ToSet(tx[p].landed) \cup {id}
  <2>1. tx[p].landed \in Seq(Ids)
    BY <1>4 DEF Transactions
  <2> QED BY <1>3, <2>1, AppendedSet
<1>6. /\ t \in Transactions /\ t.phase = "open" /\ t.landed = Append(tx[p].landed, id)
      /\ t.log = IF EntersQueryLog(id) THEN tx[p].log \cup {id} ELSE tx[p].log
      /\ t.behavior = IF IsBehavior(id) THEN tx[p].behavior \cup {id} ELSE tx[p].behavior
      /\ t.upserts = [key \in Keys |-> IF IsBehavior(id) /\ key \in KeysOf(id)
                                       THEN tx[p].upserts[key] + 1 ELSE tx[p].upserts[key]]
      /\ t.gone = tx[p].gone /\ t.goneLog = tx[p].goneLog
      /\ t.goneBehavior = tx[p].goneBehavior
  <2> DEFINE r == Recorded(tx[p], id)
  <2>1. /\ r \in Transactions /\ r.phase = tx[p].phase /\ r.landed = Append(tx[p].landed, id)
        /\ r.log = IF EntersQueryLog(id) THEN tx[p].log \cup {id} ELSE tx[p].log
        /\ r.behavior = IF IsBehavior(id) THEN tx[p].behavior \cup {id} ELSE tx[p].behavior
        /\ r.upserts = [key \in Keys |-> IF IsBehavior(id) /\ key \in KeysOf(id)
                                         THEN tx[p].upserts[key] + 1 ELSE tx[p].upserts[key]]
        /\ r.gone = tx[p].gone /\ r.goneLog = tx[p].goneLog
        /\ r.goneBehavior = tx[p].goneBehavior
    BY <1>3, <1>4, RecordedTyped
  <2>2. tx[p].phase = "open" /\ Rest(p) \in Seq(Jobs)
    BY <1>1, <1>2
  <2> HIDE DEF r
  <2>3. /\ Left(r, Rest(p)) \in Transactions
        /\ Left(r, Rest(p)).phase = r.phase /\ Left(r, Rest(p)).landed = r.landed
        /\ Left(r, Rest(p)).log = r.log /\ Left(r, Rest(p)).behavior = r.behavior
        /\ Left(r, Rest(p)).upserts = r.upserts /\ Left(r, Rest(p)).gone = r.gone
        /\ Left(r, Rest(p)).goneLog = r.goneLog
        /\ Left(r, Rest(p)).goneBehavior = r.goneBehavior
    BY <2>1, <2>2, LeftTyped
  <2> QED BY <2>1, <2>2, <2>3 DEF r
<1> HIDE DEF t
<1>7. \A key \in Keys : /\ tx[p].upserts[key] \in Nat /\ t.upserts[key] \in Nat
                        /\ t.upserts[key] >= tx[p].upserts[key]
                        /\ IsBehavior(id) /\ key \in KeysOf(id) => t.upserts[key] > 0
                        /\ ~(IsBehavior(id) /\ key \in KeysOf(id)) =>
                             t.upserts[key] = tx[p].upserts[key]
  <2>1. tx[p].upserts \in [Keys -> Nat]
    BY <1>4 DEF Transactions
  <2> QED BY <1>6, <2>1
<1>9. PageFollows(t)
  <2> SUFFICES ASSUME NEW other \in Ids, EntersQueryLog(other), NEW key \in KeysOf(other)
               PROVE  /\ KeepsLog(t, other) \/ KeepsBehavior(t, other) => t.upserts[key] > 0
                      /\ key \in t.gone /\ (SparesLog(t, other) \/ SparesBehavior(t, other))
                         => t.upserts[key] > 0
    BY DEF PageFollows
  <2>1. \A do, i : ~Pending(tx[p], do, i)
    BY <1>1, <1>2 DEF Pending
  <2>2. key \in Keys /\ IsBehavior(other)
    BY DEF KeysOf, EntersQueryLog, IsBehavior
  <2>3. /\ KeepsLog(tx[p], other) \/ KeepsBehavior(tx[p], other) => tx[p].upserts[key] > 0
        /\ key \in tx[p].gone /\ (SparesLog(tx[p], other) \/ SparesBehavior(tx[p], other))
           => tx[p].upserts[key] > 0
    BY OwnFacts DEF PageFollows
  <2>5. other = id => t.upserts[key] > 0
    BY <1>7, <2>2
  <2>6. tx[p].upserts[key] > 0 => t.upserts[key] > 0
    BY <1>7, <2>2
  <2> QED BY <1>6, <2>1, <2>3, <2>5, <2>6 DEF KeepsLog, KeepsBehavior, SparesLog, SparesBehavior
<1>10. t.log \cup t.behavior \subseteq ToSet(t.landed) /\ ToSet(t.landed) \cap receipts = {}
  BY <1>1, <1>5, <1>6, OwnFacts DEF Receipts
<1>11. ASSUME NEW q \in Procs \ {p}
       PROVE  /\ ToSet(t.landed) \cap ToSet(tx[q].landed) = {}
              /\ Upserted(t) \cap (Upserted(tx[q]) \cup tx[q].gone) = {}
              /\ Upserted(tx[q]) \cap t.gone = {}
  <2>1. tx[q] \in Others(p)
    BY DEF Others
  <2>2. id \notin ToSet(tx[q].landed)
    BY <1>1, <2>1 DEF Contended
  <2>3. IsBehavior(id) => (Upserted(tx[q]) \cup tx[q].gone) \cap KeysOf(id) = {}
    BY <1>1, <2>1 DEF Blocked, Locked
  <2>4. Upserted(t) \subseteq Upserted(tx[p]) \cup (IF IsBehavior(id) THEN KeysOf(id) ELSE {})
    BY <1>7 DEF Upserted
  <2>5. /\ ToSet(tx[p].landed) \cap ToSet(tx[q].landed) = {}
        /\ Upserted(tx[p]) \cap (Upserted(tx[q]) \cup tx[q].gone) = {}
        /\ Upserted(tx[q]) \cap tx[p].gone = {}
    BY OwnFacts
  <2>6. ToSet(t.landed) = ToSet(tx[p].landed) \cup {id} /\ t.gone = tx[p].gone
    BY <1>5, <1>6
  <2> QED BY <2>2, <2>3, <2>4, <2>5, <2>6
<1>12. Compatible(p, t)
  BY <1>1, <1>6, <1>9, <1>10, <1>11 DEF Compatible
<1> QED BY <1>1, <1>12, SameLists, OneStep

\* A statement that is no receipt, seen from its transaction.
LEMMA InAJob ==
  ASSUME HistoryInv, NEW p \in Procs, NEW do, Runs(p, do)
  PROVE  /\ UNCHANGED Tables /\ recent' = recent
         /\ tx[p].phase = "open" /\ tx[p].todo # <<>> /\ Statement(p).do = do
         /\ Statement(p) \in Statements /\ Rest(p) \in Seq(Jobs)
<1>1. /\ UNCHANGED Tables /\ recent' = recent
      /\ tx[p].phase = "open" /\ tx[p].todo # <<>> /\ Statement(p).do = do
  BY DEF Runs
<1> QED BY <1>1, RestOf DEF HistoryInv

LEMMA ListSessionsStep ==
  ASSUME HistoryInv, NEW p \in Procs, ListUserSessionIDs(p)
  PROVE  HistoryInv'
<1> DEFINE sessions == SessionsOf(tx[p], Statement(p).user)
           r == [tx[p] EXCEPT !.sessions = sessions]
           t == Left(r, Rest(p))
<1>1. Runs(p, "list_sessions") /\ tx' = [tx EXCEPT ![p] = t]
  BY DEF ListUserSessionIDs, Becomes
<1>2. /\ UNCHANGED Tables /\ recent' = recent
      /\ tx[p].phase = "open" /\ tx[p].todo # <<>> /\ Statement(p).do = "list_sessions"
      /\ Rest(p) \in Seq(Jobs) /\ tx[p] \in Transactions
  BY <1>1, InAJob, OwnFacts
<1>3. sessions \in SUBSET Sessions
  <2> SUFFICES ASSUME NEW id \in queryLog \cup behavior, IsBehavior(id), Stream[id].session # None
               PROVE  Stream[id].session \in Sessions
    BY DEF SessionsOf, Matching, Matches
  <2>1. id \in Ids
    BY DEF HistoryInv, HistoryTypeOK
  <2>2. Stream[id] \in Behaviors \cup HistoryDeleted
    BY <2>1, HistoryAssumption DEF Ids
  <2> QED BY <2>2 DEF IsBehavior, Behaviors, HistoryDeleted
<1> HIDE DEF sessions
<1>4. /\ r \in Transactions /\ r.phase = tx[p].phase /\ r.landed = tx[p].landed
      /\ r.log = tx[p].log /\ r.behavior = tx[p].behavior /\ r.upserts = tx[p].upserts
      /\ r.gone = tx[p].gone /\ r.goneLog = tx[p].goneLog
      /\ r.goneBehavior = tx[p].goneBehavior
  BY <1>2, <1>3 DEF Transactions
<1> HIDE DEF r
<1>5. /\ t \in Transactions /\ t.todo = Rest(p) /\ t.phase = "open"
      /\ t.landed = tx[p].landed /\ t.log = tx[p].log /\ t.behavior = tx[p].behavior
      /\ t.upserts = tx[p].upserts /\ t.gone = tx[p].gone /\ t.goneLog = tx[p].goneLog
      /\ t.goneBehavior = tx[p].goneBehavior
  <2>1. tx[p].phase = "open" /\ Rest(p) \in Seq(Jobs)
    BY <1>2
  <2> QED BY <1>4, <2>1, LeftTyped
<1> HIDE DEF t
<1>6. \A do \in LedgerDeletes, id \in Ids : Pending(tx[p], do, id) => Pending(t, do, id)
  BY <1>2, <1>5, StillPending DEF HistoryInv, LedgerDeletes
<1>7. PageFollows(t)
  BY <1>5, <1>6, OwnFacts
     DEF PageFollows, KeepsLog, KeepsBehavior, SparesLog, SparesBehavior, LedgerDeletes
<1>8. Compatible(p, t)
  BY <1>5, <1>7, OwnFacts DEF Compatible, Upserted
<1> QED BY <1>1, <1>2, <1>8, SameLists, OneStep

LEMMA PersonalStep ==
  ASSUME HistoryInv, NEW p \in Procs, NEW do \in {"delete_history", "purge_projection"},
         Runs(p, do), NEW keys \in SUBSET Keys, DeletePersonal(p, keys),
         \A id \in Ids : EntersQueryLog(id) /\ KeysOf(id) \cap keys # {} =>
           do = "delete_history" /\ Matches(id, Statement(p).user, Statement(p).queries)
  PROVE  HistoryInv'
<1> DEFINE r == WithoutPersonal(tx[p], keys)
           t == Left(r, Rest(p))
<1>1. tx' = [tx EXCEPT ![p] = t] /\ ~Locked(p, keys \cap Stored)
  BY DEF DeletePersonal, Becomes
<1>2. /\ UNCHANGED Tables /\ recent' = recent
      /\ tx[p].phase = "open" /\ tx[p].todo # <<>> /\ Statement(p).do = do
      /\ Rest(p) \in Seq(Jobs) /\ tx[p] \in Transactions
  BY InAJob, OwnFacts
<1>3. /\ r \in Transactions /\ r.phase = tx[p].phase /\ r.landed = tx[p].landed
      /\ r.log = tx[p].log /\ r.behavior = tx[p].behavior
      /\ r.upserts = [key \in Keys |-> IF key \in keys THEN 0 ELSE tx[p].upserts[key]]
      /\ r.gone = tx[p].gone \cup (keys \cap Stored) /\ r.goneLog = tx[p].goneLog
      /\ r.goneBehavior = tx[p].goneBehavior
  <2> DEFINE gone == tx[p].gone \cup (keys \cap Stored)
             upserts == [key \in Keys |-> IF key \in keys THEN 0 ELSE tx[p].upserts[key]]
  <2>1. r = [tx[p] EXCEPT !.gone = gone, !.upserts = upserts]
    BY <1>2 DEF WithoutPersonal, Transactions
  <2>2. gone \in SUBSET Keys /\ upserts \in [Keys -> Nat]
    <3>1. tx[p].upserts \in [Keys -> Nat] /\ tx[p].gone \in SUBSET Keys
      BY <1>2 DEF Transactions
    <3> QED BY <3>1
  <2> HIDE DEF r, gone, upserts
  <2>3. /\ r \in Transactions /\ r.phase = tx[p].phase /\ r.landed = tx[p].landed
        /\ r.log = tx[p].log /\ r.behavior = tx[p].behavior /\ r.upserts = upserts
        /\ r.gone = gone /\ r.goneLog = tx[p].goneLog /\ r.goneBehavior = tx[p].goneBehavior
    BY <1>2, <2>1, <2>2 DEF Transactions
  <2> QED BY <2>3 DEF gone, upserts
<1> HIDE DEF r
<1>4. /\ t \in Transactions /\ t.todo = Rest(p) /\ t.phase = "open"
      /\ t.landed = tx[p].landed /\ t.log = tx[p].log /\ t.behavior = tx[p].behavior
      /\ t.upserts = [key \in Keys |-> IF key \in keys THEN 0 ELSE tx[p].upserts[key]]
      /\ t.gone = tx[p].gone \cup (keys \cap Stored) /\ t.goneLog = tx[p].goneLog
      /\ t.goneBehavior = tx[p].goneBehavior
  <2>1. tx[p].phase = "open" /\ Rest(p) \in Seq(Jobs)
    BY <1>2
  <2> QED BY <1>3, <2>1, LeftTyped
<1> HIDE DEF t
<1>5. PageFollows(t)
  <2> SUFFICES ASSUME NEW id \in Ids, EntersQueryLog(id), NEW key \in KeysOf(id)
               PROVE  /\ KeepsLog(t, id) \/ KeepsBehavior(t, id) => t.upserts[key] > 0
                      /\ key \in t.gone /\ (SparesLog(t, id) \/ SparesBehavior(t, id))
                         => t.upserts[key] > 0
    BY DEF PageFollows
  <2>1. CASE key \in keys
    <3>1. Statement(p).do = "delete_history"
          /\ Matches(id, Statement(p).user, Statement(p).queries)
      BY <1>2, <2>1
    <3>2. \A d \in LedgerDeletes : Pending(t, d, id)
      BY <1>2, <1>4, <3>1, StillPending DEF HistoryInv
    <3> QED BY <3>2 DEF KeepsLog, KeepsBehavior, SparesLog, SparesBehavior, LedgerDeletes
  <2>2. CASE key \notin keys
    <3>1. key \in Keys
      BY DEF KeysOf
    <3>2. t.upserts[key] = tx[p].upserts[key] /\ (key \in t.gone => key \in tx[p].gone)
      BY <1>4, <2>2, <3>1
    <3>3. \A d \in LedgerDeletes : Pending(tx[p], d, id) => Pending(t, d, id)
      BY <1>2, <1>4, StillPending DEF HistoryInv, LedgerDeletes
    <3>4. /\ KeepsLog(tx[p], id) \/ KeepsBehavior(tx[p], id) => tx[p].upserts[key] > 0
          /\ key \in tx[p].gone /\ (SparesLog(tx[p], id) \/ SparesBehavior(tx[p], id))
             => tx[p].upserts[key] > 0
      BY OwnFacts DEF PageFollows
    <3> QED BY <1>4, <3>2, <3>3, <3>4
         DEF KeepsLog, KeepsBehavior, SparesLog, SparesBehavior, LedgerDeletes
  <2> QED BY <2>1, <2>2
<1>6. ASSUME NEW q \in Procs \ {p}
      PROVE  /\ ToSet(t.landed) \cap ToSet(tx[q].landed) = {}
             /\ Upserted(t) \cap (Upserted(tx[q]) \cup tx[q].gone) = {}
             /\ Upserted(tx[q]) \cap t.gone = {}
  <2>1. tx[q] \in Others(p)
    BY DEF Others
  <2>2. (Upserted(tx[q]) \cup tx[q].gone) \cap (keys \cap Stored) = {}
    BY <1>1, <2>1 DEF Locked
  <2>3. Upserted(t) \subseteq Upserted(tx[p])
    BY <1>4 DEF Upserted
  <2>4. /\ ToSet(tx[p].landed) \cap ToSet(tx[q].landed) = {}
        /\ Upserted(tx[p]) \cap (Upserted(tx[q]) \cup tx[q].gone) = {}
        /\ Upserted(tx[q]) \cap tx[p].gone = {}
    BY OwnFacts
  <2>5. t.landed = tx[p].landed /\ t.gone = tx[p].gone \cup (keys \cap Stored)
    BY <1>4
  <2> QED BY <2>2, <2>3, <2>4, <2>5
<1>7. Compatible(p, t)
  BY <1>4, <1>5, <1>6, OwnFacts DEF Compatible
<1> QED BY <1>1, <1>2, <1>7, SameLists, OneStep

LEMMA DeleteHistoryStep ==
  ASSUME HistoryInv, NEW p \in Procs, DeleteUserSearchHistory(p)
  PROVE  HistoryInv'
<1> DEFINE keys == {Statement(p).user} \X (Statement(p).queries \cap Queries)
<1>1. Runs(p, "delete_history") /\ DeletePersonal(p, keys)
  BY DEF DeleteUserSearchHistory
<1>2. Statement(p) \in Statements /\ Statement(p).do = "delete_history"
  BY <1>1, InAJob
<1>3. Statement(p).user \in Users /\ keys \in SUBSET Keys
  BY <1>2 DEF Statements, Deletes, Keys, Items
<1>4. \A id \in Ids : EntersQueryLog(id) /\ KeysOf(id) \cap keys # {} =>
        Matches(id, Statement(p).user, Statement(p).queries)
  BY DEF EntersQueryLog, KeysOf, CollectsSearchHistory, FeedsWatchProjection, Matches, IsBehavior
<1> HIDE DEF keys
<1> QED BY <1>1, <1>3, <1>4, PersonalStep

LEMMA PurgeProjectionStep ==
  ASSUME HistoryInv, NEW p \in Procs, PurgeUserWatchProjection(p)
  PROVE  HistoryInv'
<1> DEFINE keys == {Statement(p).user} \X Videos
<1>1. Runs(p, "purge_projection") /\ DeletePersonal(p, keys)
  BY DEF PurgeUserWatchProjection
<1>2. Statement(p) \in Statements /\ Statement(p).do = "purge_projection"
  BY <1>1, InAJob
<1>3. Statement(p).user \in Users /\ keys \in SUBSET Keys
  BY <1>2 DEF Statements, Deletes, Keys, Items
<1>4. ASSUME NEW id \in Ids, EntersQueryLog(id)
      PROVE  KeysOf(id) \cap keys = {}
  <2>1. Stream[id] \in Behaviors \cup HistoryDeleted
    BY HistoryAssumption DEF Ids
  <2>2. Stream[id].query \in Queries
    BY <1>4, <2>1 DEF EntersQueryLog, Behaviors, HistoryDeleted
  <2>3. \A key \in KeysOf(id) : key[2] = Stream[id].query
    BY <1>4 DEF EntersQueryLog, KeysOf, FeedsWatchProjection
  <2>4. \A key \in keys : key[2] \in Videos
    OBVIOUS
  <2> QED BY <2>2, <2>3, <2>4, HistoryAssumption
<1> HIDE DEF keys
<1> QED BY <1>1, <1>3, <1>4, PersonalStep

LEMMA LogRowsStep ==
  ASSUME HistoryInv, NEW p \in Procs, DeleteQueryLogRows(p)
  PROVE  HistoryInv'
<1> DEFINE r == WithoutLog(p, tx[p])
           t == Left(r, Rest(p))
<1>1. Runs(p, "delete_query_log") /\ tx' = [tx EXCEPT ![p] = t]
  BY DEF DeleteQueryLogRows, Becomes
<1>2. /\ UNCHANGED Tables /\ recent' = recent
      /\ tx[p].phase = "open" /\ tx[p].todo # <<>> /\ Statement(p).do = "delete_query_log"
      /\ Rest(p) \in Seq(Jobs) /\ tx[p] \in Transactions
  BY <1>1, InAJob, OwnFacts
<1>3. /\ r \in Transactions /\ r.phase = tx[p].phase /\ r.landed = tx[p].landed
      /\ r.log = tx[p].log \ Named(p, tx[p].log) /\ r.behavior = tx[p].behavior
      /\ r.upserts = tx[p].upserts /\ r.gone = tx[p].gone
      /\ r.goneLog = tx[p].goneLog \cup Named(p, queryLog)
      /\ r.goneBehavior = tx[p].goneBehavior
  <2> DEFINE log == tx[p].log \ Named(p, tx[p].log)
             goneLog == tx[p].goneLog \cup Named(p, queryLog)
  <2>1. r = [tx[p] EXCEPT !.goneLog = goneLog, !.log = log]
    BY <1>2 DEF WithoutLog, Transactions
  <2>2. log \in SUBSET {id \in Ids : EntersQueryLog(id)}
    BY <1>2 DEF Transactions
  <2>3. goneLog \in SUBSET Ids
    <3>1. queryLog \subseteq Ids /\ tx[p].goneLog \subseteq Ids
      BY <1>2 DEF Transactions, HistoryInv, HistoryTypeOK
    <3> QED BY <3>1 DEF Named, Matching
  <2> HIDE DEF r, log, goneLog
  <2>4. /\ r \in Transactions /\ r.phase = tx[p].phase /\ r.landed = tx[p].landed
        /\ r.log = log /\ r.behavior = tx[p].behavior /\ r.upserts = tx[p].upserts
        /\ r.gone = tx[p].gone /\ r.goneLog = goneLog /\ r.goneBehavior = tx[p].goneBehavior
    BY <1>2, <2>1, <2>2, <2>3 DEF Transactions
  <2> QED BY <2>4 DEF log, goneLog
<1> HIDE DEF r
<1>4. /\ t \in Transactions /\ t.todo = Rest(p) /\ t.phase = "open"
      /\ t.landed = tx[p].landed
      /\ t.log = tx[p].log \ Named(p, tx[p].log) /\ t.behavior = tx[p].behavior
      /\ t.upserts = tx[p].upserts /\ t.gone = tx[p].gone
      /\ t.goneLog = tx[p].goneLog \cup Named(p, queryLog)
      /\ t.goneBehavior = tx[p].goneBehavior
  <2>1. tx[p].phase = "open" /\ Rest(p) \in Seq(Jobs)
    BY <1>2
  <2> QED BY <1>3, <2>1, LeftTyped
<1> HIDE DEF t
<1>5. PageFollows(t)
  <2> SUFFICES ASSUME NEW id \in Ids, EntersQueryLog(id), NEW key \in KeysOf(id)
               PROVE  /\ KeepsLog(t, id) \/ KeepsBehavior(t, id) => t.upserts[key] > 0
                      /\ key \in t.gone /\ (SparesLog(t, id) \/ SparesBehavior(t, id))
                         => t.upserts[key] > 0
    BY DEF PageFollows
  <2>1. Pending(tx[p], "delete_behavior", id) => Pending(t, "delete_behavior", id)
    BY <1>2, <1>4, StillPending DEF HistoryInv, LedgerDeletes
  <2>2. Pending(tx[p], "delete_query_log", id) =>
          Pending(t, "delete_query_log", id)
          \/ Matches(id, Statement(p).user, Statement(p).queries)
    BY <1>2, <1>4, StillPending DEF HistoryInv, LedgerDeletes
  <2>3. /\ KeepsLog(t, id) => KeepsLog(tx[p], id)
        /\ SparesLog(t, id) => SparesLog(tx[p], id)
    BY <1>4, <2>2 DEF KeepsLog, SparesLog, Named, Matching
  <2>4. /\ KeepsBehavior(t, id) => KeepsBehavior(tx[p], id)
        /\ SparesBehavior(t, id) => SparesBehavior(tx[p], id)
    BY <1>4, <2>1 DEF KeepsBehavior, SparesBehavior
  <2>5. /\ KeepsLog(tx[p], id) \/ KeepsBehavior(tx[p], id) => tx[p].upserts[key] > 0
        /\ key \in tx[p].gone /\ (SparesLog(tx[p], id) \/ SparesBehavior(tx[p], id))
           => tx[p].upserts[key] > 0
    BY OwnFacts DEF PageFollows
  <2> QED BY <1>4, <2>3, <2>4, <2>5
<1>6. Compatible(p, t)
  BY <1>4, <1>5, OwnFacts DEF Compatible, Upserted
<1> QED BY <1>1, <1>2, <1>6, SameLists, OneStep

LEMMA BehaviorRowsStep ==
  ASSUME HistoryInv, NEW p \in Procs, DeleteBehaviorRows(p)
  PROVE  HistoryInv'
<1> DEFINE r == WithoutBehavior(p, tx[p])
           t == Left(r, Rest(p))
<1>1. Runs(p, "delete_behavior") /\ tx' = [tx EXCEPT ![p] = t]
  BY DEF DeleteBehaviorRows, Becomes
<1>2. /\ UNCHANGED Tables /\ recent' = recent
      /\ tx[p].phase = "open" /\ tx[p].todo # <<>> /\ Statement(p).do = "delete_behavior"
      /\ Rest(p) \in Seq(Jobs) /\ tx[p] \in Transactions
  BY <1>1, InAJob, OwnFacts
<1>3. /\ r \in Transactions /\ r.phase = tx[p].phase /\ r.landed = tx[p].landed
      /\ r.behavior = tx[p].behavior \ Named(p, tx[p].behavior) /\ r.log = tx[p].log
      /\ r.upserts = tx[p].upserts /\ r.gone = tx[p].gone
      /\ r.goneBehavior = tx[p].goneBehavior \cup Named(p, behavior)
      /\ r.goneLog = tx[p].goneLog
  <2> DEFINE ledger == tx[p].behavior \ Named(p, tx[p].behavior)
             goneBehavior == tx[p].goneBehavior \cup Named(p, behavior)
  <2>1. r = [tx[p] EXCEPT !.goneBehavior = goneBehavior, !.behavior = ledger]
    BY <1>2 DEF WithoutBehavior, Transactions
  <2>2. ledger \in SUBSET {id \in Ids : IsBehavior(id)}
    BY <1>2 DEF Transactions
  <2>3. goneBehavior \in SUBSET Ids
    <3>1. behavior \subseteq Ids /\ tx[p].goneBehavior \subseteq Ids
      BY <1>2 DEF Transactions, HistoryInv, HistoryTypeOK
    <3> QED BY <3>1 DEF Named, Matching
  <2> HIDE DEF r, ledger, goneBehavior
  <2>4. /\ r \in Transactions /\ r.phase = tx[p].phase /\ r.landed = tx[p].landed
        /\ r.behavior = ledger /\ r.log = tx[p].log /\ r.upserts = tx[p].upserts
        /\ r.gone = tx[p].gone /\ r.goneBehavior = goneBehavior /\ r.goneLog = tx[p].goneLog
    BY <1>2, <2>1, <2>2, <2>3 DEF Transactions
  <2> QED BY <2>4 DEF ledger, goneBehavior
<1> HIDE DEF r
<1>4. /\ t \in Transactions /\ t.todo = Rest(p) /\ t.phase = "open"
      /\ t.landed = tx[p].landed
      /\ t.behavior = tx[p].behavior \ Named(p, tx[p].behavior) /\ t.log = tx[p].log
      /\ t.upserts = tx[p].upserts /\ t.gone = tx[p].gone
      /\ t.goneBehavior = tx[p].goneBehavior \cup Named(p, behavior)
      /\ t.goneLog = tx[p].goneLog
  <2>1. tx[p].phase = "open" /\ Rest(p) \in Seq(Jobs)
    BY <1>2
  <2> QED BY <1>3, <2>1, LeftTyped
<1> HIDE DEF t
<1>5. PageFollows(t)
  <2> SUFFICES ASSUME NEW id \in Ids, EntersQueryLog(id), NEW key \in KeysOf(id)
               PROVE  /\ KeepsLog(t, id) \/ KeepsBehavior(t, id) => t.upserts[key] > 0
                      /\ key \in t.gone /\ (SparesLog(t, id) \/ SparesBehavior(t, id))
                         => t.upserts[key] > 0
    BY DEF PageFollows
  <2>1. Pending(tx[p], "delete_query_log", id) => Pending(t, "delete_query_log", id)
    BY <1>2, <1>4, StillPending DEF HistoryInv, LedgerDeletes
  <2>2. Pending(tx[p], "delete_behavior", id) =>
          Pending(t, "delete_behavior", id)
          \/ Matches(id, Statement(p).user, Statement(p).queries)
    BY <1>2, <1>4, StillPending DEF HistoryInv, LedgerDeletes
  <2>3. /\ KeepsBehavior(t, id) => KeepsBehavior(tx[p], id)
        /\ SparesBehavior(t, id) => SparesBehavior(tx[p], id)
    BY <1>4, <2>2 DEF KeepsBehavior, SparesBehavior, Named, Matching
  <2>4. /\ KeepsLog(t, id) => KeepsLog(tx[p], id)
        /\ SparesLog(t, id) => SparesLog(tx[p], id)
    BY <1>4, <2>1 DEF KeepsLog, SparesLog
  <2>5. /\ KeepsLog(tx[p], id) \/ KeepsBehavior(tx[p], id) => tx[p].upserts[key] > 0
        /\ key \in tx[p].gone /\ (SparesLog(tx[p], id) \/ SparesBehavior(tx[p], id))
           => tx[p].upserts[key] > 0
    BY OwnFacts DEF PageFollows
  <2> QED BY <1>4, <2>3, <2>4, <2>5
<1>6. Compatible(p, t)
  BY <1>4, <1>5, OwnFacts DEF Compatible, Upserted
<1> QED BY <1>1, <1>2, <1>6, SameLists, OneStep
-----------------------------------------------------------------------------
(* The commit, the only step that other transactions see.                   *)

LEMMA CommittedTyped ==
  ASSUME NEW t \in Transactions
  PROVE  LET c == Committed(t)
         IN  /\ c \in Transactions /\ c.phase = "committed" /\ c.todo = <<>>
             /\ c.landed = <<>> /\ c.log = {} /\ c.behavior = {} /\ c.upserts = Untouched
             /\ c.gone = {}
<1> DEFINE calls == IF t.sessions = {} THEN t.calls
                    ELSE Append(t.calls, [do |-> "drop", sessions |-> t.sessions])
<1>1. calls \in Seq(Calls)
  <2>1. [do |-> "drop", sessions |-> t.sessions] \in Calls
    BY DEF Calls, Transactions
  <2>2. t.calls \in Seq(Calls)
    BY DEF Transactions
  <2> QED BY <2>1, <2>2, AppendedSet
<1>2. Committed(t) = [Idle EXCEPT !.phase = "committed", !.calls = calls]
  BY DEF Committed, Idle
<1> HIDE DEF calls
<1> QED BY <1>1, <1>2, IdleTyped DEF Idle, Transactions

LEMMA CommitStep ==
  ASSUME HistoryInv, NEW p \in Procs, Commit(p)
  PROVE  HistoryInv'
<1> DEFINE t == tx[p]
           c == Committed(tx[p])
<1>1. /\ t.phase = "open" /\ t.todo = <<>>
      /\ receipts' = receipts \cup ToSet(t.landed)
      /\ queryLog' = (queryLog \ t.goneLog) \cup t.log
      /\ behavior' = (behavior \ t.goneBehavior) \cup t.behavior
      /\ personal' = [key \in Keys |->
           (IF key \in t.gone THEN 0 ELSE personal[key]) + t.upserts[key]]
      /\ tx' = [tx EXCEPT ![p] = c] /\ swept' = swept /\ recent' = recent
  BY DEF Commit
<1>2. t \in Transactions
  BY OwnFacts
<1>3. /\ c \in Transactions /\ c.phase = "committed" /\ c.todo = <<>> /\ c.landed = <<>>
      /\ c.log = {} /\ c.behavior = {} /\ c.upserts = Untouched /\ c.gone = {}
  BY <1>2, CommittedTyped
<1> HIDE DEF c
<1>4. tx \in [Procs -> Transactions]
  BY DEF HistoryInv, TxTyped
<1>5. tx'[p] = c /\ \A q \in Procs \ {p} : tx'[q] = tx[q]
  BY <1>1, <1>4
<1>6. TxTyped'
  BY <1>1, <1>3, <1>4, <1>5 DEF HistoryInv, TxTyped
<1>7. ToSet(t.landed) \subseteq Ids
  BY <1>2 DEF ToSet, Transactions
<1>8. /\ t.log \subseteq {id \in Ids : EntersQueryLog(id)}
      /\ t.behavior \subseteq {id \in Ids : IsBehavior(id)}
      /\ t.upserts \in [Keys -> Nat] /\ personal \in [Keys -> Nat]
  BY <1>2 DEF Transactions, HistoryInv, HistoryTypeOK
<1>9. personal' \in [Keys -> Nat] /\ \A key \in Keys :
        /\ t.upserts[key] > 0 => personal'[key] > 0
        /\ key \notin t.gone /\ personal[key] > 0 => personal'[key] > 0
  BY <1>1, <1>8
<1>10. HistoryTypeOK'
  <2>1. receipts' \subseteq Ids /\ swept' \subseteq Ids
    BY <1>1, <1>7 DEF HistoryInv, HistoryTypeOK
  <2>2. /\ queryLog' \subseteq {id \in Ids : EntersQueryLog(id)}
        /\ behavior' \subseteq {id \in Ids : IsBehavior(id)}
    BY <1>1, <1>8 DEF HistoryInv, HistoryTypeOK
  <2>3. /\ recent' \in [q : [Sessions -> Seq(Queries)], v : [Sessions -> Seq(Videos)]]
        /\ \A s \in Sessions :
             Len(recent'.q[s]) <= SessionMax /\ Len(recent'.v[s]) <= SessionMax
    BY <1>1, SameLists
  <2> QED BY <1>6, <1>9, <2>1, <2>2, <2>3 DEF HistoryTypeOK, TxTyped
<1>11. OwnReceipts'
  <2> SUFFICES ASSUME NEW q \in Procs
               PROVE  /\ tx'[q].log \cup tx'[q].behavior \subseteq ToSet(tx'[q].landed)
                      /\ ToSet(tx'[q].landed) \cap receipts' = {}
                      /\ \A r \in Procs \ {q} :
                           ToSet(tx'[q].landed) \cap ToSet(tx'[r].landed) = {}
    BY DEF OwnReceipts, ToSet
  <2>1. ToSet(c.landed) = {}
    BY <1>3 DEF ToSet
  <2>2. CASE q = p
    BY <1>3, <1>5, <2>1, <2>2
  <2>3. CASE q # p
    <3>1. /\ tx[q].log \cup tx[q].behavior \subseteq ToSet(tx[q].landed)
          /\ ToSet(tx[q].landed) \cap receipts = {}
          /\ \A r \in Procs \ {q} : ToSet(tx[q].landed) \cap ToSet(tx[r].landed) = {}
      BY DEF HistoryInv, OwnReceipts
    <3>2. ToSet(tx[q].landed) \cap receipts' = {}
      BY <1>1, <2>3, <3>1
    <3>3. \A r \in Procs \ {q} : tx'[r] = c \/ tx'[r] = tx[r]
      BY <1>5
    <3>4. \A r \in Procs \ {q} : ToSet(tx[q].landed) \cap ToSet(tx'[r].landed) = {}
      BY <2>1, <3>1, <3>3
    <3>5. tx'[q] = tx[q]
      BY <1>5, <2>3
    <3> QED BY <3>1, <3>2, <3>4, <3>5
  <2> QED BY <2>2, <2>3
<1>12. Upserted(c) = {}
  BY <1>3 DEF Upserted, Untouched
<1>13. LocksHold'
  <2> SUFFICES ASSUME NEW q \in Procs, NEW r \in Procs, q # r
               PROVE  Upserted(tx'[q]) \cap (Upserted(tx'[r]) \cup tx'[r].gone) = {}
    BY DEF LocksHold, Upserted
  <2>1. CASE q = p
    BY <1>5, <1>12, <2>1
  <2>2. CASE r = p
    BY <1>3, <1>5, <1>12, <2>2
  <2>3. CASE q # p /\ r # p
    BY <1>5, <2>3 DEF HistoryInv, LocksHold
  <2> QED BY <2>1, <2>2, <2>3
<1>14. ASSUME NEW id \in Ids, EntersQueryLog(id), NEW key \in KeysOf(id)
       PROVE  /\ id \in t.log \cup t.behavior => t.upserts[key] > 0
              /\ /\ key \in t.gone
                 /\ id \in (queryLog \ t.goneLog) \cup (behavior \ t.goneBehavior)
                 => t.upserts[key] > 0
  <2>1. ~Pending(tx[p], "delete_query_log", id) /\ ~Pending(tx[p], "delete_behavior", id)
    BY <1>1 DEF Pending
  <2>2. /\ KeepsLog(tx[p], id) \/ KeepsBehavior(tx[p], id) => tx[p].upserts[key] > 0
        /\ key \in tx[p].gone /\ (SparesLog(tx[p], id) \/ SparesBehavior(tx[p], id))
           => tx[p].upserts[key] > 0
    BY <1>14, OwnFacts DEF PageFollows
  <2> QED BY <2>1, <2>2 DEF KeepsLog, KeepsBehavior, SparesLog, SparesBehavior
<1>15. ASSUME NEW q \in Procs
       PROVE  PageFollows(tx[q])'
  <2>1. CASE q = p
    <3>1. tx'[q].log = {} /\ tx'[q].behavior = {} /\ tx'[q].gone = {}
      BY <1>3, <1>5, <2>1
    <3> QED BY <3>1 DEF PageFollows, KeepsLog, KeepsBehavior
  <2>2. CASE q # p
    <3>1. tx'[q] = tx[q]
      BY <1>5, <2>2
    <3> SUFFICES ASSUME NEW id \in Ids, EntersQueryLog(id), NEW key \in KeysOf(id)
                 PROVE  /\ KeepsLog(tx[q], id) \/ KeepsBehavior(tx[q], id) =>
                             tx[q].upserts[key] > 0
                        /\ /\ key \in tx[q].gone
                           /\ \/ id \in queryLog' /\ id \notin tx[q].goneLog
                                 /\ ~Pending(tx[q], "delete_query_log", id)
                              \/ id \in behavior' /\ id \notin tx[q].goneBehavior
                                 /\ ~Pending(tx[q], "delete_behavior", id)
                           => tx[q].upserts[key] > 0
      BY <3>1 DEF PageFollows, KeepsLog, KeepsBehavior, SparesLog, SparesBehavior, Pending
    <3>2. /\ KeepsLog(tx[q], id) \/ KeepsBehavior(tx[q], id) => tx[q].upserts[key] > 0
          /\ key \in tx[q].gone /\ (SparesLog(tx[q], id) \/ SparesBehavior(tx[q], id))
             => tx[q].upserts[key] > 0
      BY OwnFacts DEF PageFollows
    <3>3. ASSUME key \in tx[q].gone
          PROVE  id \notin t.log \cup t.behavior
      <4>1. key \in Keys /\ Upserted(t) \cap tx[q].gone = {}
        BY <2>2, OwnFacts DEF KeysOf
      <4>2. ~(t.upserts[key] > 0)
        BY <3>3, <4>1 DEF Upserted
      <4> QED BY <1>14, <4>2
    <3> QED BY <1>1, <3>2, <3>3 DEF SparesLog, SparesBehavior
  <2> QED BY <2>1, <2>2
<1>16. SurvivorsAreOnThePage'
  <2> SUFFICES ASSUME NEW id \in queryLog' \cup behavior', EntersQueryLog(id),
                      NEW key \in KeysOf(id)
               PROVE  key \in Keys /\ personal'[key] > 0
    BY DEF SurvivorsAreOnThePage, Stored
  <2>1. key \in Keys
    BY DEF KeysOf
  <2>2. id \in Ids
    BY <1>10 DEF HistoryTypeOK
  <2>3. CASE id \in t.log \cup t.behavior
    BY <1>9, <1>14, <2>1, <2>2, <2>3
  <2>4. CASE id \in (queryLog \ t.goneLog) \cup (behavior \ t.goneBehavior)
    <3>1. CASE key \in t.gone
      BY <1>9, <1>14, <2>1, <2>2, <2>4, <3>1
    <3>2. CASE key \notin t.gone
      <4>1. personal[key] > 0
        BY <2>1, <2>4 DEF HistoryInv, SurvivorsAreOnThePage, Stored
      <4> QED BY <1>9, <2>1, <3>2, <4>1
    <3> QED BY <3>1, <3>2
  <2> QED BY <1>1, <2>1, <2>3, <2>4
<1> QED BY <1>6, <1>10, <1>11, <1>13, <1>15, <1>16 DEF HistoryInv
-----------------------------------------------------------------------------
(* Redis, and the sweep of the inbox.                                       *)

LEMMA CallMade ==
  ASSUME HistoryInv, NEW p \in Procs, HasCall(p), Called(p),
         recent' \in [q : [Sessions -> Seq(Queries)], v : [Sessions -> Seq(Videos)]],
         \A s \in Sessions :
           Len(recent'.q[s]) <= SessionMax /\ Len(recent'.v[s]) <= SessionMax
  PROVE  HistoryInv'
<1> DEFINE calls == Tail(tx[p].calls)
           t == [tx[p] EXCEPT !.calls = calls]
<1>1. tx[p] \in Transactions
  BY OwnFacts
<1>2. /\ tx' = [tx EXCEPT ![p] = t] /\ UNCHANGED Tables
      /\ tx[p].phase = "committed" /\ tx[p].calls # <<>>
  BY <1>1 DEF HasCall, Called, Becomes, Transactions
<1>3. calls \in Seq(Calls)
  BY <1>1, <1>2, TailOf DEF Transactions
<1> HIDE DEF calls
<1>4. /\ t \in Transactions /\ t.todo = tx[p].todo /\ t.phase = tx[p].phase
      /\ t.landed = tx[p].landed /\ t.log = tx[p].log /\ t.behavior = tx[p].behavior
      /\ t.upserts = tx[p].upserts /\ t.gone = tx[p].gone /\ t.goneLog = tx[p].goneLog
      /\ t.goneBehavior = tx[p].goneBehavior
  BY <1>1, <1>3 DEF Transactions
<1> HIDE DEF t
<1>5. PageFollows(t)
  BY <1>4, OwnFacts
     DEF PageFollows, KeepsLog, KeepsBehavior, SparesLog, SparesBehavior, Pending
<1>6. Compatible(p, t)
  <2>1. t.phase = "committed" /\ t.todo = <<>>
    BY <1>2, <1>4, OwnFacts
  <2>2. Upserted(t) = Upserted(tx[p])
    BY <1>4 DEF Upserted
  <2>3. \A q \in Procs \ {p} :
          /\ ToSet(t.landed) \cap ToSet(tx[q].landed) = {}
          /\ Upserted(t) \cap (Upserted(tx[q]) \cup tx[q].gone) = {}
          /\ Upserted(tx[q]) \cap t.gone = {}
    BY <1>4, <2>2, OwnFacts
  <2>4. t.log \cup t.behavior \subseteq ToSet(t.landed) /\ ToSet(t.landed) \cap receipts = {}
    BY <1>4, OwnFacts
  <2> QED BY <1>4, <1>5, <2>1, <2>3, <2>4 DEF Compatible
<1> QED BY <1>2, <1>6, OneStep

\* An event pushes an item of the kind its list holds.
LEMMA PushTypes ==
  ASSUME NEW id \in Pushes
  PROVE  /\ Stream[id].session \in Sessions
         /\ IF Stream[id].type = "search.submitted" THEN PushedItem(id) \in Queries
            ELSE PushedItem(id) \in Videos
<1>1. id \in Ids /\ IsBehavior(id) /\ PushedItem(id) # None
  BY DEF Pushes
<1>2. Stream[id] \in Behaviors
  BY <1>1, HistoryAssumption DEF Ids, IsBehavior, HistoryDeleted
<1> DEFINE ev == Stream[id]
<1>3. ev.session \in Sessions \cup {None} /\ ev.query \in Queries \cup {None}
      /\ ev.video \in Videos \cup {None}
  BY <1>2 DEF Behaviors
<1>4. PushedItem(id) = IF ev.session = None THEN None
                       ELSE IF ev.type = "search.submitted" THEN ev.query
                       ELSE IF ev.type = "video.play_started" THEN ev.video ELSE None
  BY DEF PushedItem
<1> HIDE DEF ev
<1>5. /\ ev.session \in Sessions
      /\ IF ev.type = "search.submitted" THEN PushedItem(id) \in Queries
         ELSE PushedItem(id) \in Videos
  BY <1>1, <1>3, <1>4
<1> QED BY <1>5 DEF ev

LEMMA PushStep ==
  ASSUME HistoryInv, NEW p \in Procs, PushSession(p)
  PROVE  HistoryInv'
<1> DEFINE id == Call(p).id
           session == Stream[id].session
           item == PushedItem(id)
<1>1. tx[p].calls \in Seq(Calls) /\ tx[p].calls # <<>>
  <2>1. tx[p] \in Transactions
    BY OwnFacts
  <2> QED BY <2>1 DEF PushSession, HasCall, Transactions
<1>2. Call(p) \in Calls /\ Call(p).do = "push"
  BY <1>1, TailOf DEF PushSession, Call
<1>3. id \in Pushes
  BY <1>2 DEF Calls
<1>4. /\ HasCall(p) /\ Called(p)
      /\ recent' = IF Stream[id].type = "search.submitted"
                   THEN [recent EXCEPT !.q[session] = Pushed(@, item)]
                   ELSE [recent EXCEPT !.v[session] = Pushed(@, item)]
  BY DEF PushSession
<1> HIDE DEF id
<1>5. /\ session \in Sessions
      /\ IF Stream[id].type = "search.submitted" THEN item \in Queries ELSE item \in Videos
  BY <1>3, PushTypes
<1> HIDE DEF session, item
<1>6. /\ recent \in [q : [Sessions -> Seq(Queries)], v : [Sessions -> Seq(Videos)]]
      /\ \A s \in Sessions : Len(recent.q[s]) <= SessionMax /\ Len(recent.v[s]) <= SessionMax
  BY DEF HistoryInv, HistoryTypeOK
<1>7. CASE Stream[id].type = "search.submitted"
  <2> DEFINE list == Pushed(recent.q[session], item)
  <2>1. list \in Seq(Queries) /\ Len(list) <= SessionMax
    <3>1. recent.q[session] \in Seq(Queries) /\ item \in Queries
      BY <1>5, <1>6, <1>7
    <3> QED BY <3>1, PushedList
  <2>2. recent' = [recent EXCEPT !.q[session] = list]
    BY <1>4, <1>6, <1>7
  <2> HIDE DEF list
  <2>3. recent'.q = [recent.q EXCEPT ![session] = list] /\ recent'.v = recent.v
    BY <1>6, <2>2
  <2>4. recent' \in [q : [Sessions -> Seq(Queries)], v : [Sessions -> Seq(Videos)]]
    BY <1>5, <1>6, <2>1, <2>2
  <2>5. \A s \in Sessions :
          Len(recent'.q[s]) <= SessionMax /\ Len(recent'.v[s]) <= SessionMax
    BY <1>6, <2>1, <2>3
  <2> QED BY <1>4, <2>4, <2>5, CallMade
<1>8. CASE Stream[id].type # "search.submitted"
  <2> DEFINE list == Pushed(recent.v[session], item)
  <2>1. list \in Seq(Videos) /\ Len(list) <= SessionMax
    <3>1. recent.v[session] \in Seq(Videos) /\ item \in Videos
      BY <1>5, <1>6, <1>8
    <3> QED BY <3>1, PushedList
  <2>2. recent' = [recent EXCEPT !.v[session] = list]
    BY <1>4, <1>6, <1>8
  <2> HIDE DEF list
  <2>3. recent'.v = [recent.v EXCEPT ![session] = list] /\ recent'.q = recent.q
    BY <1>6, <2>2
  <2>4. recent' \in [q : [Sessions -> Seq(Queries)], v : [Sessions -> Seq(Videos)]]
    BY <1>5, <1>6, <2>1, <2>2
  <2>5. \A s \in Sessions :
          Len(recent'.q[s]) <= SessionMax /\ Len(recent'.v[s]) <= SessionMax
    BY <1>6, <2>1, <2>3
  <2> QED BY <1>4, <2>4, <2>5, CallMade
<1> QED BY <1>7, <1>8

LEMMA EmptyList == <<>> \in Seq(Queries) /\ <<>> \in Seq(Videos) /\ Len(<<>>) <= SessionMax
BY HistoryAssumption

LEMMA DropStep ==
  ASSUME HistoryInv, NEW p \in Procs, DropSessionRecency(p)
  PROVE  HistoryInv'
<1> DEFINE Without(lists) ==
             [s \in Sessions |-> IF s \in Call(p).sessions THEN <<>> ELSE lists[s]]
<1>1. HasCall(p) /\ Called(p)
      /\ recent' = [q |-> Without(recent.q), v |-> Without(recent.v)]
  BY DEF DropSessionRecency
<1>2. /\ recent.q \in [Sessions -> Seq(Queries)] /\ recent.v \in [Sessions -> Seq(Videos)]
      /\ \A s \in Sessions : Len(recent.q[s]) <= SessionMax /\ Len(recent.v[s]) <= SessionMax
  BY DEF HistoryInv, HistoryTypeOK
<1>3. Without(recent.q) \in [Sessions -> Seq(Queries)]
      /\ Without(recent.v) \in [Sessions -> Seq(Videos)]
  BY <1>2, EmptyList
<1>4. \A s \in Sessions :
        Len(Without(recent.q)[s]) <= SessionMax /\ Len(Without(recent.v)[s]) <= SessionMax
  BY <1>2, EmptyList
<1>5. recent'.q = Without(recent.q) /\ recent'.v = Without(recent.v)
  BY <1>1
<1> QED BY <1>1, <1>3, <1>4, <1>5, CallMade

\* A step that only changes receipts or lists.
LEMMA SameTransactions ==
  ASSUME HistoryInv, UNCHANGED <<queryLog, behavior, personal, tx>>,
         HistoryTypeOK', OwnReceipts'
  PROVE  HistoryInv'
<1>1. TxTyped' /\ LocksHold'
  BY DEF HistoryInv, TxTyped, LocksHold, Upserted
<1>2. ASSUME NEW p \in Procs
      PROVE  PageFollows(tx[p])'
  <2>1. PageFollows(tx[p])
    BY DEF HistoryInv
  <2> QED BY <2>1
       DEF PageFollows, KeepsLog, KeepsBehavior, SparesLog, SparesBehavior, Pending
<1>3. SurvivorsAreOnThePage'
  BY DEF HistoryInv, SurvivorsAreOnThePage, Stored
<1> QED BY <1>1, <1>2, <1>3 DEF HistoryInv

LEMMA ExpireStep ==
  ASSUME HistoryInv, NEW session \in Sessions, Expire(session)
  PROVE  HistoryInv'
<1>1. /\ recent \in [q : [Sessions -> Seq(Queries)], v : [Sessions -> Seq(Videos)]]
      /\ \A s \in Sessions : Len(recent.q[s]) <= SessionMax /\ Len(recent.v[s]) <= SessionMax
  BY DEF HistoryInv, HistoryTypeOK
<1>2. /\ recent' \in [q : [Sessions -> Seq(Queries)], v : [Sessions -> Seq(Videos)]]
      /\ \A s \in Sessions :
           Len(recent'.q[s]) <= SessionMax /\ Len(recent'.v[s]) <= SessionMax
  <2>1. CASE recent' = [recent EXCEPT !.q[session] = <<>>]
    BY <1>1, <2>1, EmptyList
  <2>2. CASE recent' = [recent EXCEPT !.v[session] = <<>>]
    BY <1>1, <2>2, EmptyList
  <2> QED BY <2>1, <2>2 DEF Expire
<1>3. UNCHANGED <<receipts, swept, queryLog, behavior, personal, tx>>
  BY DEF Expire, Tables
<1>4. HistoryTypeOK' /\ OwnReceipts'
  BY <1>2, <1>3 DEF HistoryInv, HistoryTypeOK, OwnReceipts
<1> QED BY <1>3, <1>4, SameTransactions

LEMMA PruneStep ==
  ASSUME HistoryInv, NEW id \in Ids, SweepReceipt(id)
  PROVE  HistoryInv'
<1>1. /\ receipts' = receipts \ {id} /\ swept' = swept \cup {id}
      /\ UNCHANGED <<queryLog, behavior, personal, recent, tx>>
  BY DEF SweepReceipt
<1>2. HistoryTypeOK'
  BY <1>1 DEF HistoryInv, HistoryTypeOK
<1>3. OwnReceipts'
  BY <1>1 DEF HistoryInv, OwnReceipts
<1> QED BY <1>1, <1>2, <1>3, SameTransactions
-----------------------------------------------------------------------------
LEMMA NextPreserves == HistoryInv /\ [HistoryNext]_historyVars => HistoryInv'
<1> SUFFICES ASSUME HistoryInv, [HistoryNext]_historyVars
             PROVE  HistoryInv'
  OBVIOUS
<1>1. ASSUME NEW p \in Procs, NEW n \in 1 .. MaxBatch, NEW batch \in [1 .. n -> Ids],
             BeginIngest(p, batch)
      PROVE  HistoryInv'
  BY <1>1, BeginIngestStep
<1>2. ASSUME NEW p \in Procs, NEW request \in Requests, BeginRequest(p, request)
      PROVE  HistoryInv'
  BY <1>2, BeginRequestStep
<1>3. ASSUME NEW p \in Procs, Duplicate(p) \/ FailEvent(p)
      PROVE  HistoryInv'
  BY <1>3, SkipStep
<1>4. ASSUME NEW p \in Procs, Record(p)
      PROVE  HistoryInv'
  BY <1>4, RecordStep
<1>5. ASSUME NEW p \in Procs, ListUserSessionIDs(p)
      PROVE  HistoryInv'
  BY <1>5, ListSessionsStep
<1>6. ASSUME NEW p \in Procs, DeleteUserSearchHistory(p)
      PROVE  HistoryInv'
  BY <1>6, DeleteHistoryStep
<1>7. ASSUME NEW p \in Procs, PurgeUserWatchProjection(p)
      PROVE  HistoryInv'
  BY <1>7, PurgeProjectionStep
<1>8. ASSUME NEW p \in Procs, DeleteQueryLogRows(p)
      PROVE  HistoryInv'
  BY <1>8, LogRowsStep
<1>9. ASSUME NEW p \in Procs, DeleteBehaviorRows(p)
      PROVE  HistoryInv'
  BY <1>9, BehaviorRowsStep
<1>10. ASSUME NEW p \in Procs, Commit(p)
       PROVE  HistoryInv'
  BY <1>10, CommitStep
<1>11. ASSUME NEW p \in Procs, Abort(p) \/ Finish(p)
       PROVE  HistoryInv'
  BY <1>11, BackToIdle
<1>12. ASSUME NEW p \in Procs, PushSession(p)
       PROVE  HistoryInv'
  BY <1>12, PushStep
<1>13. ASSUME NEW p \in Procs, DropSessionRecency(p)
       PROVE  HistoryInv'
  BY <1>13, DropStep
<1>14. ASSUME NEW p \in Procs, LoseCall(p)
       PROVE  HistoryInv'
  <2>1. HasCall(p) /\ Called(p) /\ recent' = recent
    BY <1>14 DEF LoseCall
  <2> QED BY <2>1, SameLists, CallMade
<1>15. ASSUME NEW session \in Sessions, Expire(session)
       PROVE  HistoryInv'
  BY <1>15, ExpireStep
<1>16. ASSUME NEW id \in Ids, SweepReceipt(id)
       PROVE  HistoryInv'
  BY <1>16, PruneStep
<1>17. CASE UNCHANGED historyVars
  <2>1. UNCHANGED <<receipts, swept, queryLog, behavior, personal, recent, tx>>
    BY <1>17 DEF historyVars
  <2>2. HistoryTypeOK' /\ OwnReceipts'
    BY <2>1 DEF HistoryInv, HistoryTypeOK, OwnReceipts
  <2> QED BY <2>1, <2>2, SameTransactions
<1> QED BY <1>1, <1>2, <1>3, <1>4, <1>5, <1>6, <1>7, <1>8, <1>9, <1>10, <1>11, <1>12, <1>13,
           <1>14, <1>15, <1>16, <1>17
     DEF HistoryNext, ProcStep

(* The inductive invariant, for any events, requests and processes: types,  *)
(* receipts, row locks, what each open transaction still has to delete, and *)
(* the page the survivors are on (Ingest, ClearAll, DeleteEntry, PurgeUser).*)
THEOREM HistoryInvariantHolds == HistorySpec => []HistoryInv
BY InitHolds, NextPreserves, PTL DEF HistorySpec

(* Type correctness: receipts, ledgers, personal rows and session lists.    *)
THEOREM HistoryTypeCorrect == HistorySpec => []HistoryTypeOK
<1>1. HistoryInv => HistoryTypeOK
  BY DEF HistoryInv
<1> QED BY <1>1, HistoryInvariantHolds, PTL

(* A consented search that still has a ledger row is on its account's       *)
(* history page, whatever deletions ran into whatever batches: the rows are *)
(* deleted after the page's row, and the page's row is locked until then    *)
(* (deleteSearchFootprint, DeleteEntry, applyHistoryDeleted).               *)
THEOREM PageShowsSurvivors == HistorySpec => []SurvivorsAreOnThePage
<1>1. HistoryInv => SurvivorsAreOnThePage
  BY DEF HistoryInv
<1> QED BY <1>1, HistoryInvariantHolds, PTL

\* Only a commit adds rows, and those of its own receipts.
LEMMA NewRowsLand ==
  HistoryInv /\ [HistoryNext]_historyVars =>
    (queryLog' \ queryLog) \cup (behavior' \ behavior) \subseteq receipts' \ receipts
<1> SUFFICES ASSUME HistoryInv, [HistoryNext]_historyVars
             PROVE  (queryLog' \ queryLog) \cup (behavior' \ behavior) \subseteq receipts' \ receipts
  OBVIOUS
<1>1. ASSUME NEW p \in Procs, Commit(p)
      PROVE  (queryLog' \ queryLog) \cup (behavior' \ behavior) \subseteq receipts' \ receipts
  <2>1. /\ receipts' = receipts \cup ToSet(tx[p].landed)
        /\ queryLog' \subseteq queryLog \cup tx[p].log
        /\ behavior' \subseteq behavior \cup tx[p].behavior
    BY <1>1 DEF Commit
  <2>2. /\ tx[p].log \cup tx[p].behavior \subseteq ToSet(tx[p].landed)
        /\ ToSet(tx[p].landed) \cap receipts = {}
    BY OwnFacts
  <2> QED BY <2>1, <2>2
<1>2. ASSUME NEW p \in Procs, ProcStep(p), ~Commit(p)
      PROVE  UNCHANGED <<queryLog, behavior>>
  <2>1. UNCHANGED Tables
    BY <1>2
       DEF ProcStep, BeginIngest, BeginRequest, Duplicate, FailEvent, Record, Runs,
           ListUserSessionIDs, DeleteUserSearchHistory, PurgeUserWatchProjection,
           DeleteQueryLogRows, DeleteBehaviorRows, Abort, PushSession, DropSessionRecency,
           LoseCall, Finish, HasCall
  <2> QED BY <2>1 DEF Tables
<1>3. ASSUME ~\E p \in Procs : Commit(p)
      PROVE  UNCHANGED <<queryLog, behavior>>
  BY <1>2, <1>3 DEF HistoryNext, historyVars, Expire, SweepReceipt, Tables
<1> QED BY <1>1, <1>3

(* A ledger row appears only together with a receipt its event did not      *)
(* have: redelivered behaviour is not recorded twice, and deleted behaviour *)
(* does not come back while the receipt is kept (InsertInboxEvent in the    *)
(* transaction of applyBehavioral).                                         *)
THEOREM RowsNeedReceipts == HistorySpec => RowsComeWithReceipts
BY NewRowsLand, HistoryInvariantHolds, PTL DEF HistorySpec, RowsComeWithReceipts
-----------------------------------------------------------------------------
(* The session lists of Redis.                                              *)

Receipted == receipts \cup swept

\* What a transaction pushes after its commit, it has recorded; once it has
\* committed, the receipt is there or was swept.
PushesRecorded(t, receipted) ==
  \A c \in ToSet(t.calls) : c.do = "push" =>
    c.id \in IF t.phase = "committed" THEN receipted ELSE ToSet(t.landed)

RememberInv ==
  /\ \A p \in Procs : PushesRecorded(tx[p], Receipted)
  /\ ListsRememberCommitted

LEMMA NoElements == ToSet(<<>>) = {}
BY DEF ToSet

LEMMA PushedElements ==
  ASSUME NEW S, NEW list \in Seq(S), NEW item \in S
  PROVE  ToSet(Pushed(list, item)) \subseteq ToSet(list) \cup {item}
<1> DEFINE longer == <<item>> \o list
           n == IF Len(longer) < SessionMax THEN Len(longer) ELSE SessionMax
           short == SubSeq(longer, 1, n)
<1>1. /\ longer \in Seq(S) /\ Len(longer) \in Nat /\ Len(longer) = 1 + Len(list)
      /\ Len(list) \in Nat /\ DOMAIN list = 1 .. Len(list)
      /\ \A i \in 1 .. Len(list) + 1 : longer[i] = IF i = 1 THEN item ELSE list[i - 1]
  OBVIOUS
<1>2. n \in Nat /\ 1 <= n /\ n <= Len(longer)
  BY <1>1, HistoryAssumption
<1> HIDE DEF longer, n
<1>3. /\ short \in Seq(S) /\ Len(short) = n
      /\ \A i \in 1 .. n : short[i] = longer[i]
  <2>1. \A i \in 1 .. n : longer[i] \in S
    BY <1>1, <1>2
  <2>2. /\ SubSeq(longer, 1, n) \in Seq(S)
        /\ Len(SubSeq(longer, 1, n)) = IF 1 <= n THEN n - 1 + 1 ELSE 0
        /\ \A i \in 1 .. n - 1 + 1 : SubSeq(longer, 1, n)[i] = longer[1 + i - 1]
    BY <1>2, <2>1, SubSeqProperties
  <2> QED BY <1>2, <2>2
<1> HIDE DEF short
<1>4. DOMAIN short = 1 .. n
  BY <1>3
<1>5. ASSUME NEW i \in 1 .. n
      PROVE  short[i] \in ToSet(list) \cup {item}
  <2>1. CASE i = 1
    BY <1>1, <1>2, <1>3, <2>1
  <2>2. CASE i # 1
    <3>1. i - 1 \in DOMAIN list /\ short[i] = list[i - 1]
      BY <1>1, <1>2, <1>3, <2>2
    <3> QED BY <3>1 DEF ToSet
  <2> QED BY <2>1, <2>2
<1>6. ToSet(short) \subseteq ToSet(list) \cup {item}
  BY <1>4, <1>5 DEF ToSet
<1> QED BY <1>6 DEF Pushed, longer, n, short

LEMMA TailElements ==
  ASSUME NEW S, NEW seq \in Seq(S), seq # <<>>
  PROVE  ToSet(Tail(seq)) \subseteq ToSet(seq) /\ Head(seq) \in ToSet(seq)
BY TailOf DEF ToSet

\* Pushes stay recorded when one process moves and no receipt is forgotten.
LEMMA OneMoves ==
  ASSUME HistoryInv, RememberInv, NEW p \in Procs, NEW t, tx' = [tx EXCEPT ![p] = t],
         Receipted \subseteq Receipted', PushesRecorded(t, Receipted')
  PROVE  (\A q \in Procs : PushesRecorded(tx[q], Receipted))'
<1>1. tx \in [Procs -> Transactions]
  BY DEF HistoryInv, TxTyped
<1>2. tx'[p] = t /\ \A q \in Procs \ {p} : tx'[q] = tx[q]
  BY <1>1
<1>3. ASSUME NEW q \in Procs \ {p} PROVE PushesRecorded(tx'[q], Receipted')
  <2>1. PushesRecorded(tx[q], Receipted)
    BY DEF RememberInv
  <2> QED BY <1>2, <1>3, <2>1 DEF PushesRecorded
<1>4. \A q \in Procs : PushesRecorded(tx'[q], Receipted')
  BY <1>2, <1>3
<1> QED BY <1>4

\* Lists that only lose items.
LEMMA ListsShrink ==
  ASSUME RememberInv, Receipted \subseteq Receipted',
         \A s \in Sessions : /\ recent'.q[s] \in {recent.q[s], <<>>}
                             /\ recent'.v[s] \in {recent.v[s], <<>>}
  PROVE  ListsRememberCommitted'
<1>1. \A s \in Sessions : /\ ToSet(recent'.q[s]) \subseteq ToSet(recent.q[s])
                          /\ ToSet(recent'.v[s]) \subseteq ToSet(recent.v[s])
  BY NoElements
<1> QED BY <1>1 DEF RememberInv, ListsRememberCommitted, Receipted, ToSet

LEMMA ListsStay ==
  ASSUME RememberInv, recent' = recent, Receipted \subseteq Receipted'
  PROVE  ListsRememberCommitted'
BY ListsShrink

\* A statement that records nothing leaves what is pushed alone.
LEMMA SameCalls ==
  ASSUME HistoryInv, RememberInv, NEW p \in Procs, NEW t, tx' = [tx EXCEPT ![p] = t],
         UNCHANGED <<Tables, recent>>, t.phase = tx[p].phase, t.landed = tx[p].landed,
         t.calls = tx[p].calls
  PROVE  RememberInv'
<1>1. PushesRecorded(t, Receipted')
  BY DEF RememberInv, PushesRecorded, Tables, Receipted
<1>2. receipts' = receipts /\ swept' = swept /\ recent' = recent
  BY DEF Tables
<1> QED BY <1>1, <1>2, OneMoves, ListsStay DEF RememberInv, Receipted

\* A transaction that begins or goes back to idle pushes nothing.
LEMMA NoCalls ==
  ASSUME HistoryInv, RememberInv, NEW p \in Procs, NEW t, tx' = [tx EXCEPT ![p] = t],
         UNCHANGED <<Tables, recent>>, t.calls = <<>>
  PROVE  RememberInv'
<1>1. PushesRecorded(t, Receipted')
  BY NoElements DEF PushesRecorded
<1>2. receipts' = receipts /\ swept' = swept /\ recent' = recent
  BY DEF Tables
<1> QED BY <1>1, <1>2, OneMoves, ListsStay DEF RememberInv, Receipted

LEMMA StatementRemembers ==
  ASSUME HistoryInv, RememberInv, NEW p \in Procs,
         \/ Duplicate(p) \/ FailEvent(p) \/ ListUserSessionIDs(p)
         \/ DeleteUserSearchHistory(p) \/ PurgeUserWatchProjection(p)
         \/ DeleteQueryLogRows(p) \/ DeleteBehaviorRows(p)
  PROVE  RememberInv'
<1>1. tx[p] \in Transactions
  BY OwnFacts
<1>2. UNCHANGED <<Tables, recent>>
  BY DEF Duplicate, FailEvent, ListUserSessionIDs, DeleteUserSearchHistory,
         PurgeUserWatchProjection, DeleteQueryLogRows, DeleteBehaviorRows, Runs
<1> DEFINE Same(t) == /\ tx' = [tx EXCEPT ![p] = t] /\ t.phase = tx[p].phase
                      /\ t.landed = tx[p].landed /\ t.calls = tx[p].calls
<1>3. ASSUME Duplicate(p) \/ FailEvent(p) PROVE \E t : Same(t)
  <2>1. Same(Left(tx[p], Tail(tx[p].todo)))
    BY <1>1, <1>3 DEF Duplicate, FailEvent, Becomes, Left, Transactions
  <2> QED BY <2>1
<1>4. ASSUME ListUserSessionIDs(p) PROVE \E t : Same(t)
  <2> DEFINE sessions == SessionsOf(tx[p], Statement(p).user)
  <2>1. Same(Left([tx[p] EXCEPT !.sessions = sessions], Rest(p)))
    BY <1>1, <1>4 DEF ListUserSessionIDs, Becomes, Left, Transactions
  <2> QED BY <2>1
<1>5. ASSUME NEW keys, DeletePersonal(p, keys) PROVE \E t : Same(t)
  <2>1. Same(Left(WithoutPersonal(tx[p], keys), Rest(p)))
    BY <1>1, <1>5 DEF DeletePersonal, Becomes, Left, WithoutPersonal, Transactions
  <2> QED BY <2>1
<1>6. ASSUME DeleteQueryLogRows(p) PROVE \E t : Same(t)
  <2>1. Same(Left(WithoutLog(p, tx[p]), Rest(p)))
    BY <1>1, <1>6 DEF DeleteQueryLogRows, Becomes, Left, WithoutLog, Transactions
  <2> QED BY <2>1
<1>7. ASSUME DeleteBehaviorRows(p) PROVE \E t : Same(t)
  <2>1. Same(Left(WithoutBehavior(p, tx[p]), Rest(p)))
    BY <1>1, <1>7 DEF DeleteBehaviorRows, Becomes, Left, WithoutBehavior, Transactions
  <2> QED BY <2>1
<1>8. PICK t : Same(t)
  BY <1>3, <1>4, <1>5, <1>6, <1>7 DEF DeleteUserSearchHistory, PurgeUserWatchProjection
<1> QED BY <1>2, <1>8, SameCalls

LEMMA RecordRemembers ==
  ASSUME HistoryInv, RememberInv, NEW p \in Procs, Record(p)
  PROVE  RememberInv'
<1> DEFINE id == Statement(p).id
           r == Recorded(tx[p], id)
           t == Left(r, Rest(p))
           push == [do |-> "push", id |-> id]
<1>1. /\ tx' = [tx EXCEPT ![p] = t] /\ UNCHANGED <<Tables, recent>>
      /\ tx[p].phase = "open" /\ tx[p].todo # <<>> /\ Statement(p).do = "record"
  BY DEF Record, Runs, Becomes
<1>2. id \in Ids
  <2>1. Statement(p) \in Statements
    BY <1>1, RestOf DEF HistoryInv
  <2> QED BY <1>1, <2>1 DEF Statements, Deletes
<1>3. tx[p] \in Transactions
  BY OwnFacts
<1>4. tx[p].landed \in Seq(Ids) /\ tx[p].calls \in Seq(Calls)
  BY <1>3 DEF Transactions
<1> HIDE DEF id
<1>5. /\ t.phase = "open" /\ t.landed = Append(tx[p].landed, id)
      /\ t.calls = IF IsBehavior(id) /\ PushedItem(id) # None
                   THEN Append(tx[p].calls, push) ELSE tx[p].calls
  BY <1>1, <1>3 DEF Left, Recorded, Transactions
<1> HIDE DEF t, r
<1>6. ToSet(t.landed) = ToSet(tx[p].landed) \cup {id}
  BY <1>2, <1>4, <1>5, AppendedSet
<1>7. ToSet(t.calls) \subseteq ToSet(tx[p].calls) \cup {push}
  <2>1. CASE IsBehavior(id) /\ PushedItem(id) # None
    <3>1. push \in Calls
      BY <1>2, <2>1 DEF Calls, Pushes
    <3> QED BY <1>4, <1>5, <2>1, <3>1, AppendedSet
  <2>2. CASE ~(IsBehavior(id) /\ PushedItem(id) # None)
    BY <1>5, <2>2
  <2> QED BY <2>1, <2>2
<1>8. PushesRecorded(t, Receipted)
  BY <1>1, <1>5, <1>6, <1>7 DEF RememberInv, PushesRecorded
<1>9. receipts' = receipts /\ swept' = swept /\ recent' = recent /\ PushesRecorded(t, Receipted')
  BY <1>1, <1>8 DEF Tables, Receipted
<1> QED BY <1>1, <1>9, OneMoves, ListsStay DEF RememberInv, Receipted

LEMMA CommitRemembers ==
  ASSUME HistoryInv, RememberInv, NEW p \in Procs, Commit(p)
  PROVE  RememberInv'
<1> DEFINE t == Committed(tx[p])
           drop == [do |-> "drop", sessions |-> tx[p].sessions]
<1>1. /\ tx' = [tx EXCEPT ![p] = t] /\ tx[p].phase = "open"
      /\ receipts' = receipts \cup ToSet(tx[p].landed) /\ swept' = swept /\ recent' = recent
  BY DEF Commit
<1>2. tx[p].calls \in Seq(Calls) /\ drop \in Calls
  <2>1. tx[p] \in Transactions
    BY OwnFacts
  <2> QED BY <2>1 DEF Transactions, Calls
<1>3. /\ t.phase = "committed"
      /\ t.calls = IF tx[p].sessions = {} THEN tx[p].calls ELSE Append(tx[p].calls, drop)
  BY DEF Committed, Idle
<1> HIDE DEF t
<1>4. ToSet(t.calls) \subseteq ToSet(tx[p].calls) \cup {drop}
  BY <1>2, <1>3, AppendedSet
<1>5. \A c \in ToSet(t.calls) : c.do = "push" => c.id \in Receipted'
  BY <1>1, <1>4 DEF RememberInv, PushesRecorded, Receipted
<1>6. PushesRecorded(t, Receipted')
  BY <1>3, <1>5 DEF PushesRecorded
<1> QED BY <1>1, <1>6, OneMoves, ListsStay DEF RememberInv, Receipted

\* One Redis call of a committed transaction, done or lost.
LEMMA CallRemembers ==
  ASSUME HistoryInv, RememberInv, NEW p \in Procs, HasCall(p), Called(p)
  PROVE  /\ (\A q \in Procs : PushesRecorded(tx[q], Receipted))'
         /\ receipts' = receipts /\ swept' = swept
         /\ Call(p) \in Calls
         /\ Call(p).do = "push" => Call(p).id \in Receipted
<1> DEFINE calls == Tail(tx[p].calls)
           t == [tx[p] EXCEPT !.calls = calls]
<1>1. tx[p] \in Transactions
  BY OwnFacts
<1>2. /\ tx' = [tx EXCEPT ![p] = t] /\ receipts' = receipts /\ swept' = swept
      /\ tx[p].phase = "committed" /\ tx[p].calls # <<>>
  BY <1>1 DEF HasCall, Called, Becomes, Tables, Transactions
<1>3. /\ ToSet(calls) \subseteq ToSet(tx[p].calls) /\ Call(p) \in ToSet(tx[p].calls)
      /\ Call(p) \in Calls
  <2>1. tx[p].calls \in Seq(Calls)
    BY <1>1 DEF Transactions
  <2> QED BY <1>2, <2>1, TailElements, TailOf DEF Call
<1> HIDE DEF calls
<1>4. t.calls = calls /\ t.phase = "committed"
  BY <1>1, <1>2 DEF Transactions
<1> HIDE DEF t
<1>5. \A c \in ToSet(tx[p].calls) : c.do = "push" => c.id \in Receipted
  BY <1>2 DEF RememberInv, PushesRecorded
<1>6. PushesRecorded(t, Receipted')
  BY <1>2, <1>3, <1>4, <1>5 DEF PushesRecorded, Receipted
<1> QED BY <1>2, <1>3, <1>5, <1>6, OneMoves DEF Receipted

LEMMA PushRemembers ==
  ASSUME HistoryInv, RememberInv, NEW p \in Procs, PushSession(p)
  PROVE  RememberInv'
<1> DEFINE id == Call(p).id
           session == Stream[id].session
           item == PushedItem(id)
<1>1. /\ HasCall(p) /\ Called(p) /\ Call(p).do = "push"
      /\ recent' = IF Stream[id].type = "search.submitted"
                   THEN [recent EXCEPT !.q[session] = Pushed(@, item)]
                   ELSE [recent EXCEPT !.v[session] = Pushed(@, item)]
  BY DEF PushSession
<1>2. /\ (\A q \in Procs : PushesRecorded(tx[q], Receipted))'
      /\ receipts' = receipts /\ swept' = swept
      /\ Call(p) \in Calls /\ id \in Receipted
  BY <1>1, CallRemembers
<1>3. id \in Pushes
  BY <1>1, <1>2 DEF Calls
<1>4. IsBehavior(id)
  BY <1>3 DEF Pushes
<1> HIDE DEF id
<1>5. /\ session \in Sessions
      /\ IF Stream[id].type = "search.submitted" THEN item \in Queries ELSE item \in Videos
  BY <1>3, PushTypes
<1>6. recent \in [q : [Sessions -> Seq(Queries)], v : [Sessions -> Seq(Videos)]]
  BY DEF HistoryInv, HistoryTypeOK
<1>7. ASSUME NEW s \in Sessions,
             NEW x \in ToSet(recent'.q[s]) \cup ToSet(recent'.v[s])
      PROVE  \/ x \in ToSet(recent.q[s]) \cup ToSet(recent.v[s])
             \/ s = session /\ x = item
  <2>1. CASE Stream[id].type = "search.submitted"
    <3>1. recent'.v = recent.v
          /\ recent'.q = [recent.q EXCEPT ![session] = Pushed(recent.q[session], item)]
      BY <1>1, <1>6, <2>1
    <3>2. ToSet(Pushed(recent.q[session], item)) \subseteq ToSet(recent.q[session]) \cup {item}
      <4>1. recent.q[session] \in Seq(Queries) /\ item \in Queries
        BY <1>5, <1>6, <2>1
      <4> QED BY <4>1, PushedElements
    <3> QED BY <1>5, <1>6, <1>7, <3>1, <3>2
  <2>2. CASE Stream[id].type # "search.submitted"
    <3>1. recent'.q = recent.q
          /\ recent'.v = [recent.v EXCEPT ![session] = Pushed(recent.v[session], item)]
      BY <1>1, <1>6, <2>2
    <3>2. ToSet(Pushed(recent.v[session], item)) \subseteq ToSet(recent.v[session]) \cup {item}
      <4>1. recent.v[session] \in Seq(Videos) /\ item \in Videos
        BY <1>5, <1>6, <2>2
      <4> QED BY <4>1, PushedElements
    <3> QED BY <1>5, <1>6, <1>7, <3>1, <3>2
  <2> QED BY <2>1, <2>2
<1>8. ListsRememberCommitted'
  <2> SUFFICES ASSUME NEW s \in Sessions,
                      NEW x \in ToSet(recent'.q[s]) \cup ToSet(recent'.v[s])
               PROVE  \E e \in receipts \cup swept :
                        IsBehavior(e) /\ Stream[e].session = s /\ PushedItem(e) = x
    BY <1>2 DEF ListsRememberCommitted, ToSet, Receipted
  <2>1. CASE x \in ToSet(recent.q[s]) \cup ToSet(recent.v[s])
    BY <2>1 DEF RememberInv, ListsRememberCommitted
  <2>2. CASE s = session /\ x = item
    BY <1>2, <1>4, <2>2 DEF Receipted
  <2> QED BY <1>7, <2>1, <2>2
<1> QED BY <1>2, <1>8 DEF RememberInv

LEMMA DropRemembers ==
  ASSUME HistoryInv, RememberInv, NEW p \in Procs, DropSessionRecency(p) \/ LoseCall(p)
  PROVE  RememberInv'
<1>1. /\ (\A q \in Procs : PushesRecorded(tx[q], Receipted))'
      /\ receipts' = receipts /\ swept' = swept
  BY CallRemembers DEF DropSessionRecency, LoseCall
<1>2. CASE DropSessionRecency(p)
  BY <1>1, <1>2, ListsShrink DEF DropSessionRecency, RememberInv, Receipted
<1>3. CASE LoseCall(p)
  BY <1>1, <1>3, ListsStay DEF LoseCall, RememberInv, Receipted
<1> QED BY <1>2, <1>3

\* Time passes: a list expires, or a receipt is swept.
LEMMA TimeRemembers ==
  ASSUME HistoryInv, RememberInv, UNCHANGED tx,
         \/ \E session \in Sessions : Expire(session)
         \/ \E id \in Ids : SweepReceipt(id)
         \/ UNCHANGED historyVars
  PROVE  RememberInv'
<1>1. recent \in [q : [Sessions -> Seq(Queries)], v : [Sessions -> Seq(Videos)]]
  BY DEF HistoryInv, HistoryTypeOK
<1>2. Receipted \subseteq Receipted'
  BY DEF Expire, SweepReceipt, historyVars, Tables, Receipted
<1>3. \A s \in Sessions : /\ recent'.q[s] \in {recent.q[s], <<>>}
                          /\ recent'.v[s] \in {recent.v[s], <<>>}
  BY <1>1 DEF Expire, SweepReceipt, historyVars
<1>4. (\A q \in Procs : PushesRecorded(tx[q], Receipted))'
  <2>1. \A q \in Procs : PushesRecorded(tx[q], Receipted')
    BY <1>2 DEF RememberInv, PushesRecorded
  <2> QED BY <2>1
<1> QED BY <1>2, <1>3, <1>4, ListsShrink DEF RememberInv

LEMMA NextRemembers ==
  HistoryInv /\ RememberInv /\ [HistoryNext]_historyVars => RememberInv'
<1> SUFFICES ASSUME HistoryInv, RememberInv, [HistoryNext]_historyVars PROVE RememberInv'
  OBVIOUS
<1>1. ASSUME NEW p \in Procs, NEW n \in 1 .. MaxBatch, NEW batch \in [1 .. n -> Ids],
             BeginIngest(p, batch)
      PROVE  RememberInv'
  <2> DEFINE t == [Idle EXCEPT !.phase = "open",
                               !.todo = [i \in DOMAIN batch |-> EventStatements(batch[i])]]
  <2>1. tx' = [tx EXCEPT ![p] = t] /\ UNCHANGED <<Tables, recent>>
    BY <1>1 DEF BeginIngest
  <2>2. t.calls = <<>>
    BY DEF Idle
  <2> HIDE DEF t
  <2> QED BY <2>1, <2>2, NoCalls
<1>2. ASSUME NEW p \in Procs, NEW request \in Requests, BeginRequest(p, request)
      PROVE  RememberInv'
  <2> DEFINE found == {id \in queryLog \cup behavior :
                         /\ Stream[id].user = request.user
                         /\ request.path = "entry" => Stream[id].query = request.query}
             t == [Idle EXCEPT !.phase = "open", !.todo = <<RequestStatements(request)>>,
                               !.found = found]
  <2>1. tx' = [tx EXCEPT ![p] = t] /\ UNCHANGED <<Tables, recent>>
    BY <1>2 DEF BeginRequest
  <2>2. t.calls = <<>>
    BY DEF Idle
  <2> HIDE DEF t
  <2> QED BY <2>1, <2>2, NoCalls
<1>3. ASSUME NEW p \in Procs, Abort(p) \/ Finish(p) PROVE RememberInv'
  <2>1. tx' = [tx EXCEPT ![p] = Idle] /\ UNCHANGED <<Tables, recent>>
    BY <1>3 DEF Abort, Finish
  <2>2. Idle.calls = <<>>
    BY DEF Idle
  <2> QED BY <2>1, <2>2, NoCalls
<1>4. CASE \/ \E session \in Sessions : Expire(session)
           \/ \E id \in Ids : SweepReceipt(id)
           \/ UNCHANGED historyVars
  BY <1>4, TimeRemembers DEF Expire, SweepReceipt, historyVars
<1> QED BY <1>1, <1>2, <1>3, <1>4, StatementRemembers, RecordRemembers, CommitRemembers,
           PushRemembers, DropRemembers
        DEF HistoryNext, ProcStep

(* The session lists hold only what events with a receipt pushed, whatever   *)
(* batches were rolled back and whatever Redis lost: the effects of an event *)
(* wait for the commit of its transaction (Ingest, flush).                   *)
THEOREM RolledBackLeavesNoTrace == HistorySpec => []ListsRememberCommitted
<1>1. HistoryInit => RememberInv
  BY NoElements
     DEF HistoryInit, RememberInv, PushesRecorded, ListsRememberCommitted, NoList, Idle
<1>2. RememberInv => ListsRememberCommitted
  BY DEF RememberInv
<1> QED BY <1>1, <1>2, NextRemembers, HistoryInvariantHolds, PTL DEF HistorySpec
-----------------------------------------------------------------------------
(* What a deletion request found.                                           *)

\* A ledger row that is not deleted yet still has its statement to come.
Owes(t, id, log, ledger) ==
  /\ id \in log => id \in t.goneLog \/ Pending(t, "delete_query_log", id)
  /\ id \in ledger => id \in t.goneBehavior \/ Pending(t, "delete_behavior", id)

\* What a transaction found keeps its receipt, unless that is swept, so that
\* nobody records it again; and it is deleted or about to be.
OwesFound(t) ==
  \A id \in t.found : id \notin swept => id \in receipts /\ Owes(t, id, queryLog, behavior)

FoundInv ==
  /\ queryLog \cup behavior \subseteq receipts \cup swept
  /\ \A p \in Procs : OwesFound(tx[p])

\* A step that no table sees.
LEMMA OwesAfter ==
  ASSUME HistoryInv, FoundInv, NEW p \in Procs, NEW t, tx' = [tx EXCEPT ![p] = t],
         UNCHANGED Tables, OwesFound(t)
  PROVE  FoundInv'
<1>1. tx \in [Procs -> Transactions]
  BY DEF HistoryInv, TxTyped
<1>2. UNCHANGED <<receipts, swept, queryLog, behavior>>
  BY DEF Tables
<1>3. \A q \in Procs : OwesFound(tx'[q])
  BY <1>1 DEF FoundInv
<1>4. \A q \in Procs : OwesFound(tx[q])'
  BY <1>2, <1>3 DEF OwesFound, Owes, Pending
<1> QED BY <1>2, <1>4 DEF FoundInv

LEMMA FoundNothing == ASSUME NEW t, t.found = {} PROVE OwesFound(t)
BY DEF OwesFound

Kinds == Deletes \cup {"record", "list_sessions", "purge_projection"}

\* A statement takes nothing off what is owed but the rows it deletes.
LEMMA StatementOwes ==
  ASSUME HistoryInv, FoundInv, NEW p \in Procs, NEW do \in Kinds, Runs(p, do), NEW t,
         tx' = [tx EXCEPT ![p] = t], t.todo = Rest(p), t.found = tx[p].found,
         tx[p].goneLog \subseteq t.goneLog, tx[p].goneBehavior \subseteq t.goneBehavior,
         do = "delete_query_log" => Named(p, queryLog) \subseteq t.goneLog,
         do = "delete_behavior" => Named(p, behavior) \subseteq t.goneBehavior
  PROVE  FoundInv'
<1>1. UNCHANGED Tables /\ tx[p].todo # <<>> /\ Statement(p).do = do
  BY InAJob
<1>2. tx[p].found \subseteq Ids
  BY OwnFacts DEF Transactions
<1>3. ASSUME NEW id \in t.found, id \notin swept
      PROVE  id \in receipts /\ Owes(t, id, queryLog, behavior)
  <2>1. id \in Ids /\ id \in receipts /\ Owes(tx[p], id, queryLog, behavior)
    BY <1>2, <1>3 DEF FoundInv, OwesFound
  <2>2. \A d \in LedgerDeletes : Pending(tx[p], d, id) =>
          \/ Pending(t, d, id)
          \/ do = d /\ Matches(id, Statement(p).user, Statement(p).queries)
    BY <1>1, <2>1, StillPending DEF HistoryInv
  <2> QED BY <2>1, <2>2 DEF Owes, LedgerDeletes, Named, Matching
<1> QED BY <1>1, <1>3, OwesAfter DEF OwesFound

LEMMA SkipOwes ==
  ASSUME HistoryInv, FoundInv, NEW p \in Procs, Duplicate(p) \/ FailEvent(p)
  PROVE  FoundInv'
<1> DEFINE t == Left(tx[p], Tail(tx[p].todo))
<1>1. /\ tx' = [tx EXCEPT ![p] = t] /\ UNCHANGED Tables
      /\ tx[p].todo # <<>> /\ Statement(p).do = "record"
  BY DEF Duplicate, FailEvent, Runs, Becomes
<1>2. Statement(p) = Head(tx[p].todo)[1] /\ tx[p] \in Transactions
  BY <1>1, RestOf, OwnFacts DEF HistoryInv
<1>3. /\ t.found = tx[p].found /\ t.goneLog = tx[p].goneLog
      /\ t.goneBehavior = tx[p].goneBehavior
  BY <1>2 DEF Left, Transactions
<1> HIDE DEF t
<1>4. \A do, id : ~Pending(tx[p], do, id)
  BY <1>1, <1>2 DEF Pending
<1>5. OwesFound(t)
  BY <1>3, <1>4 DEF FoundInv, OwesFound, Owes
<1> QED BY <1>1, <1>5, OwesAfter

LEMMA RecordOwes ==
  ASSUME HistoryInv, FoundInv, NEW p \in Procs, Record(p)
  PROVE  FoundInv'
<1> DEFINE t == Left(Recorded(tx[p], Statement(p).id), Rest(p))
<1>1. Runs(p, "record") /\ tx' = [tx EXCEPT ![p] = t]
  BY DEF Record, Becomes
<1>2. /\ t.todo = Rest(p) /\ t.found = tx[p].found /\ t.goneLog = tx[p].goneLog
      /\ t.goneBehavior = tx[p].goneBehavior
  BY OwnFacts DEF Left, Recorded, Transactions
<1> HIDE DEF t
<1>3. "record" \in Kinds
  BY DEF Kinds, Deletes
<1> QED BY <1>1, <1>2, <1>3, StatementOwes

LEMMA ListOwes ==
  ASSUME HistoryInv, FoundInv, NEW p \in Procs, ListUserSessionIDs(p)
  PROVE  FoundInv'
<1> DEFINE sessions == SessionsOf(tx[p], Statement(p).user)
           t == Left([tx[p] EXCEPT !.sessions = sessions], Rest(p))
<1>1. Runs(p, "list_sessions") /\ tx' = [tx EXCEPT ![p] = t]
  BY DEF ListUserSessionIDs, Becomes
<1>2. /\ t.todo = Rest(p) /\ t.found = tx[p].found /\ t.goneLog = tx[p].goneLog
      /\ t.goneBehavior = tx[p].goneBehavior
  BY OwnFacts DEF Left, Transactions
<1> HIDE DEF t
<1>3. "list_sessions" \in Kinds
  BY DEF Kinds, Deletes
<1> QED BY <1>1, <1>2, <1>3, StatementOwes

LEMMA PersonalOwes ==
  ASSUME HistoryInv, FoundInv, NEW p \in Procs,
         NEW do \in {"delete_history", "purge_projection"}, Runs(p, do),
         NEW keys, DeletePersonal(p, keys)
  PROVE  FoundInv'
<1> DEFINE t == Left(WithoutPersonal(tx[p], keys), Rest(p))
<1>1. tx' = [tx EXCEPT ![p] = t]
  BY DEF DeletePersonal, Becomes
<1>2. /\ t.todo = Rest(p) /\ t.found = tx[p].found /\ t.goneLog = tx[p].goneLog
      /\ t.goneBehavior = tx[p].goneBehavior
  BY OwnFacts DEF Left, WithoutPersonal, Transactions
<1> HIDE DEF t
<1>3. do \in Kinds
  BY DEF Kinds, Deletes
<1> QED BY <1>1, <1>2, <1>3, StatementOwes

LEMMA LogRowsOwed ==
  ASSUME HistoryInv, FoundInv, NEW p \in Procs, DeleteQueryLogRows(p)
  PROVE  FoundInv'
<1> DEFINE t == Left(WithoutLog(p, tx[p]), Rest(p))
<1>1. Runs(p, "delete_query_log") /\ tx' = [tx EXCEPT ![p] = t]
  BY DEF DeleteQueryLogRows, Becomes
<1>2. /\ t.todo = Rest(p) /\ t.found = tx[p].found
      /\ t.goneLog = tx[p].goneLog \cup Named(p, queryLog)
      /\ t.goneBehavior = tx[p].goneBehavior
  BY OwnFacts DEF Left, WithoutLog, Transactions
<1> HIDE DEF t
<1>3. "delete_query_log" \in Kinds
  BY DEF Kinds, Deletes
<1> QED BY <1>1, <1>2, <1>3, StatementOwes

LEMMA BehaviorRowsOwed ==
  ASSUME HistoryInv, FoundInv, NEW p \in Procs, DeleteBehaviorRows(p)
  PROVE  FoundInv'
<1> DEFINE t == Left(WithoutBehavior(p, tx[p]), Rest(p))
<1>1. Runs(p, "delete_behavior") /\ tx' = [tx EXCEPT ![p] = t]
  BY DEF DeleteBehaviorRows, Becomes
<1>2. /\ t.todo = Rest(p) /\ t.found = tx[p].found /\ t.goneLog = tx[p].goneLog
      /\ t.goneBehavior = tx[p].goneBehavior \cup Named(p, behavior)
  BY OwnFacts DEF Left, WithoutBehavior, Transactions
<1> HIDE DEF t
<1>3. "delete_behavior" \in Kinds
  BY DEF Kinds, Deletes
<1> QED BY <1>1, <1>2, <1>3, StatementOwes

LEMMA CallOwes ==
  ASSUME HistoryInv, FoundInv, NEW p \in Procs, HasCall(p), Called(p)
  PROVE  FoundInv'
<1> DEFINE t == [tx[p] EXCEPT !.calls = Tail(@)]
<1>1. tx' = [tx EXCEPT ![p] = t] /\ UNCHANGED Tables
  BY DEF HasCall, Called, Becomes
<1>2. /\ t.todo = tx[p].todo /\ t.found = tx[p].found /\ t.goneLog = tx[p].goneLog
      /\ t.goneBehavior = tx[p].goneBehavior
  BY OwnFacts DEF Transactions
<1> HIDE DEF t
<1>3. OwesFound(t)
  BY <1>2 DEF FoundInv, OwesFound, Owes, Pending
<1> QED BY <1>1, <1>3, OwesAfter

\* The rows a request finds are the rows its statements match.
LEMMA RequestOwes ==
  ASSUME HistoryInv, FoundInv, NEW p \in Procs, NEW request \in Requests,
         BeginRequest(p, request)
  PROVE  FoundInv'
<1> DEFINE found == {id \in queryLog \cup behavior :
                       /\ Stream[id].user = request.user
                       /\ request.path = "entry" => Stream[id].query = request.query}
           t == [Idle EXCEPT !.phase = "open", !.todo = <<RequestStatements(request)>>,
                             !.found = found]
           job == RequestStatements(request)
           queries == IF request.path = "entry" THEN {request.query} ELSE AnyQuery
<1>1. tx' = [tx EXCEPT ![p] = t] /\ UNCHANGED Tables
  BY DEF BeginRequest
<1>2. t.todo = <<job>> /\ t.found = found
  BY DEF Idle
<1>3. \A id \in found : Matches(id, request.user, queries)
  <2> SUFFICES ASSUME NEW id \in found
               PROVE  IsBehavior(id) /\ Stream[id].query \in queries
    BY DEF Matches
  <2>1. id \in Ids /\ IsBehavior(id)
    BY DEF HistoryInv, HistoryTypeOK, EntersQueryLog, IsBehavior
  <2>2. Stream[id] \in Behaviors
    BY <2>1, HistoryAssumption DEF Ids, IsBehavior, HistoryDeleted
  <2> QED BY <2>1, <2>2 DEF Behaviors, AnyQuery
<1>4. job[1].do # "record"
  BY HistoryAssumption
     DEF RequestStatements, Endpoints, ClearAll, PurgeUser, DeleteEntry, ListSessions, DeleteHistory
<1>5. /\ \E i \in DOMAIN job : job[i] = DeleteQueryLog(request.user, queries)
      /\ \E i \in DOMAIN job : job[i] = DeleteBehavior(request.user, queries)
  <2>1. CASE request.path = "search-history"
    <3>1. job[3] = DeleteQueryLog(request.user, queries) /\ 3 \in DOMAIN job
          /\ job[4] = DeleteBehavior(request.user, queries) /\ 4 \in DOMAIN job
      BY <2>1 DEF RequestStatements, ClearAll
    <3> QED BY <3>1
  <2>2. CASE request.path = "user"
    <3>1. job[4] = DeleteQueryLog(request.user, queries) /\ 4 \in DOMAIN job
          /\ job[5] = DeleteBehavior(request.user, queries) /\ 5 \in DOMAIN job
      BY <2>2 DEF RequestStatements, PurgeUser
    <3> QED BY <3>1
  <2>3. CASE request.path = "entry"
    <3>1. job[2] = DeleteQueryLog(request.user, queries) /\ 2 \in DOMAIN job
          /\ job[3] = DeleteBehavior(request.user, queries) /\ 3 \in DOMAIN job
      BY <2>3 DEF RequestStatements, DeleteEntry
    <3> QED BY <3>1
  <2> QED BY <2>1, <2>2, <2>3, HistoryAssumption DEF Endpoints
<1>6. ASSUME NEW id \in t.found, id \notin swept
      PROVE  id \in receipts /\ Owes(t, id, queryLog, behavior)
  <2>1. id \in receipts
    BY <1>2, <1>6 DEF FoundInv
  <2>2. Matches(id, request.user, queries)
    BY <1>2, <1>3
  <2> HIDE DEF found, t, job, queries
  <2>3. t.todo # <<>> /\ Head(t.todo) = job
    BY <1>2
  <2>4. Pending(t, "delete_query_log", id) /\ Pending(t, "delete_behavior", id)
    BY <1>4, <1>5, <2>2, <2>3 DEF Pending, DeleteQueryLog, DeleteBehavior
  <2> QED BY <2>1, <2>4 DEF Owes
<1> HIDE DEF t
<1> QED BY <1>1, <1>6, OwesAfter DEF OwesFound

\* No committed transaction records what another one found and its receipt keeps.
LEMMA CommitOwes ==
  ASSUME HistoryInv, FoundInv, NEW p \in Procs, Commit(p)
  PROVE  /\ FoundInv'
         /\ tx[p].found \cap (queryLog' \cup behavior') \subseteq swept
<1> DEFINE t == Committed(tx[p])
<1>1. /\ tx' = [tx EXCEPT ![p] = t] /\ tx[p].todo = <<>> /\ swept' = swept
      /\ receipts' = receipts \cup ToSet(tx[p].landed)
      /\ queryLog' = (queryLog \ tx[p].goneLog) \cup tx[p].log
      /\ behavior' = (behavior \ tx[p].goneBehavior) \cup tx[p].behavior
  BY DEF Commit
<1>2. t.found = {}
  BY DEF Committed, Idle
<1> HIDE DEF t
<1>3. /\ tx[p].log \cup tx[p].behavior \subseteq ToSet(tx[p].landed)
      /\ ToSet(tx[p].landed) \cap receipts = {}
  BY OwnFacts
<1>4. tx \in [Procs -> Transactions]
  BY DEF HistoryInv, TxTyped
<1>5. queryLog' \cup behavior' \subseteq receipts' \cup swept'
  BY <1>1, <1>3 DEF FoundInv
<1>6. ASSUME NEW q \in Procs, q # p, NEW id \in tx[q].found, id \notin swept
      PROVE  id \in receipts' /\ Owes(tx[q], id, queryLog', behavior')
  BY <1>1, <1>3, <1>6 DEF FoundInv, OwesFound, Owes
<1>7. ASSUME NEW q \in Procs
      PROVE  \A id \in tx'[q].found : id \notin swept' =>
               id \in receipts' /\ Owes(tx'[q], id, queryLog', behavior')
  <2>1. CASE q = p
    BY <1>1, <1>2, <1>4, <2>1
  <2>2. CASE q # p
    <3>1. tx'[q] = tx[q]
      BY <1>1, <1>4, <2>2
    <3> QED BY <1>1, <1>6, <2>2, <3>1
  <2> QED BY <2>1, <2>2
<1>8. FoundInv'
  BY <1>5, <1>7 DEF FoundInv, OwesFound, Owes, Pending
<1>9. \A do, id : ~Pending(tx[p], do, id)
  BY <1>1 DEF Pending
<1>10. tx[p].found \cap (queryLog' \cup behavior') \subseteq swept
  BY <1>1, <1>3, <1>9 DEF FoundInv, OwesFound, Owes
<1> QED BY <1>8, <1>10

LEMMA TimeOwes ==
  ASSUME HistoryInv, FoundInv,
         \/ \E session \in Sessions : Expire(session)
         \/ \E id \in Ids : SweepReceipt(id)
         \/ UNCHANGED historyVars
  PROVE  FoundInv'
<1>1. /\ UNCHANGED <<queryLog, behavior, tx>> /\ swept \subseteq swept'
      /\ receipts \cup swept \subseteq receipts' \cup swept' /\ receipts \subseteq receipts' \cup swept'
  BY DEF Expire, SweepReceipt, historyVars, Tables
<1>2. \A p \in Procs : OwesFound(tx[p])'
  BY <1>1 DEF FoundInv, OwesFound, Owes, Pending
<1> QED BY <1>1, <1>2 DEF FoundInv

LEMMA NextOwes == HistoryInv /\ FoundInv /\ [HistoryNext]_historyVars => FoundInv'
<1> SUFFICES ASSUME HistoryInv, FoundInv, [HistoryNext]_historyVars PROVE FoundInv'
  OBVIOUS
<1>1. ASSUME NEW p \in Procs, NEW n \in 1 .. MaxBatch, NEW batch \in [1 .. n -> Ids],
             BeginIngest(p, batch)
      PROVE  FoundInv'
  <2> DEFINE t == [Idle EXCEPT !.phase = "open",
                               !.todo = [i \in DOMAIN batch |-> EventStatements(batch[i])]]
  <2>1. tx' = [tx EXCEPT ![p] = t] /\ UNCHANGED Tables
    BY <1>1 DEF BeginIngest
  <2>2. t.found = {}
    BY DEF Idle
  <2> HIDE DEF t
  <2> QED BY <2>1, <2>2, FoundNothing, OwesAfter
<1>2. ASSUME NEW p \in Procs, Abort(p) \/ Finish(p) PROVE FoundInv'
  <2>1. tx' = [tx EXCEPT ![p] = Idle] /\ UNCHANGED Tables /\ Idle.found = {}
    BY <1>2 DEF Abort, Finish, Idle
  <2> QED BY <2>1, FoundNothing, OwesAfter
<1>3. ASSUME NEW p \in Procs, DeleteUserSearchHistory(p) \/ PurgeUserWatchProjection(p)
      PROVE  FoundInv'
  BY <1>3, PersonalOwes DEF DeleteUserSearchHistory, PurgeUserWatchProjection
<1>4. ASSUME NEW p \in Procs, PushSession(p) \/ DropSessionRecency(p) \/ LoseCall(p)
      PROVE  FoundInv'
  BY <1>4, CallOwes DEF PushSession, DropSessionRecency, LoseCall
<1> QED BY <1>1, <1>2, <1>3, <1>4, RequestOwes, SkipOwes, RecordOwes, ListOwes, LogRowsOwed,
           BehaviorRowsOwed, CommitOwes, TimeOwes
        DEF HistoryNext, ProcStep

(* A deletion that commits has taken every row it named that was there when *)
(* it began, though redeliveries and other deletions ran beside it: only a  *)
(* receipt swept in between lets a row come back (deleteSearchFootprint,    *)
(* DeleteEntry).                                                            *)
THEOREM DeletionIsThorough == HistorySpec => DeletionTakesWhatItFound
<1>1. HistoryInit => FoundInv
  BY DEF HistoryInit, FoundInv, OwesFound, Idle
<1>2. HistoryInv /\ FoundInv /\ [HistoryNext]_historyVars =>
        [\A p \in Procs : Commit(p) =>
           tx[p].found \cap (queryLog' \cup behavior') \subseteq swept]_historyVars
  BY CommitOwes
<1> QED BY <1>1, <1>2, NextOwes, HistoryInvariantHolds, PTL
        DEF HistorySpec, DeletionTakesWhatItFound
=============================================================================
