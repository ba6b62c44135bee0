---------------------------- MODULE CatalogRead -----------------------------
(***************************************************************************)
(* Discovery reads over the receiver's documents.  A handler checks the    *)
(* catalog fence, runs several queries (each its own database snapshot, no *)
(* lock held between them), possibly serves or fills the shared prefix     *)
(* cache under the fence, and checks the fence again before it answers.    *)
(* The writers are the actions of CatalogReceiver, in any interleaving.    *)
(***************************************************************************)
EXTENDS CatalogReceiver

CONSTANTS
  Readers,   \* request handlers in flight
  MaxObservations, \* bound: different results the queries of one request may see
  NoFence    \* no fence: headers absent, or an unfenced legacy read

FenceValues == [epoch : Epochs, generation : Generations]

\* What one query may return: the local catalog, and whether foreign rows mix in.
Observations == [local : SUBSET CanonicalDocuments, foreign : BOOLEAN]

ReaderStates ==
  [phase : {"idle", "querying", "checking", "served", "refused"},
   headers : FenceValues \cup {NoFence},
   before : FenceValues \cup {NoFence},
   seen : SUBSET Observations]

IdleReader == [phase |-> "idle", headers |-> NoFence, before |-> NoFence, seen |-> {}]

ASSUME NoFenceAssumption == NoFence \notin FenceValues

VARIABLES
  reader,    \* the state of each handler
  cache,     \* Redis: sugg:<fence>:... -> the observations a response was built
             \* from, {} when there is no entry
  published  \* history: the documents published under each fence

readVars == <<receiverVars, reader, cache, published>>

ForeignEligible == \E v \in Videos : documents[v].kind = "remote" /\ documents[v].eligible

Observed == [local |-> LiveCatalog, foreign |-> ForeignEligible]
-----------------------------------------------------------------------------
ReadInit ==
  /\ Init
  /\ reader = [r \in Readers |-> IdleReader]
  /\ cache = [f \in FenceValues \cup {NoFence} |-> {}]
  /\ published = [f \in FenceValues |-> {}]

\* A writer's step, recorded when it moves the fence to a completed generation.
WriterStep ==
  /\ Next
  /\ published' = IF completed' > 0 /\ Fence' # Fence
                  THEN [published EXCEPT ![Fence'] = LiveCatalog'] ELSE published
  /\ UNCHANGED <<reader, cache>>

\* beginCatalogRead lets a request through: unfenced before initialisation,
\* afterwards only under exactly the completed epoch and generation.
Authorized(headers) ==
  IF epoch = NoEpoch
  THEN headers = NoFence
  ELSE completed > 0 /\ ~ForeignEligible /\ headers = Fence

CurrentFence == IF epoch = NoEpoch THEN NoFence ELSE Fence

BeginRead(r, headers) ==
  /\ reader[r].phase \notin {"querying", "checking"}
  /\ reader' = [reader EXCEPT ![r] =
       IF Authorized(headers)
       THEN [phase |-> "querying", headers |-> headers, before |-> CurrentFence, seen |-> {}]
       ELSE [phase |-> "refused", headers |-> headers, before |-> NoFence, seen |-> {}]]
  /\ UNCHANGED <<receiverVars, cache, published>>

\* One query: a read committed statement sees the documents as they are now.
QueryDocuments(r) ==
  /\ reader[r].phase = "querying"
  /\ Cardinality(reader[r].seen \cup {Observed}) =< MaxObservations
  /\ reader' = [reader EXCEPT ![r].seen = @ \cup {Observed}]
  /\ UNCHANGED <<receiverVars, cache, published>>

\* Mutation: the cache key leaves the fence out.
CacheKeyUnfenced(r) == NoFence

CacheKey(r) == reader[r].before

\* A hit on the shared prefix cache replaces every query.
HitCache(r) ==
  /\ reader[r].phase = "querying"
  /\ reader[r].seen = {}
  /\ cache[CacheKey(r)] # {}
  /\ reader' = [reader EXCEPT ![r].seen = cache[CacheKey(r)], ![r].phase = "checking"]
  /\ UNCHANGED <<receiverVars, cache, published>>

\* The pipeline is done; a cacheable suggestion response is stored before the
\* handler knows whether it may be served.
FinishQueries(r, cacheable) ==
  /\ reader[r].phase = "querying"
  /\ reader[r].seen # {}
  /\ reader' = [reader EXCEPT ![r].phase = "checking"]
  /\ cache' = IF cacheable THEN [cache EXCEPT ![CacheKey(r)] = reader[r].seen] ELSE cache
  /\ UNCHANGED <<receiverVars, published>>

\* An empty prefix, or a query that fails: the suggestion pipeline drops what
\* it has and goes on to the final check with an empty list, never cached.
DegradeToEmpty(r) ==
  /\ reader[r].phase = "querying"
  /\ reader' = [reader EXCEPT ![r].phase = "checking", ![r].seen = {}]
  /\ UNCHANGED <<receiverVars, cache, published>>

\* Mutation: the answer is committed without looking at the authority again.
FinishReadUnchecked(r) ==
  /\ reader[r].phase = "checking"
  /\ reader' = [reader EXCEPT ![r].phase = "served"]
  /\ UNCHANGED <<receiverVars, cache, published>>

\* finishCatalogRead: the whole check again, and the same fence as before.
FinishRead(r) ==
  /\ reader[r].phase = "checking"
  /\ reader' = [reader EXCEPT ![r].phase =
       IF Authorized(reader[r].headers) /\ CurrentFence = reader[r].before
       THEN "served" ELSE "refused"]
  /\ UNCHANGED <<receiverVars, cache, published>>

\* The request deadline or a query that fails outside the suggestion pipeline.
FailRead(r) ==
  /\ reader[r].phase \in {"querying", "checking"}
  /\ reader' = [reader EXCEPT ![r].phase = "refused"]
  /\ UNCHANGED <<receiverVars, cache, published>>

\* A cached entry reaches its TTL or is evicted.
DropCached(f) ==
  /\ cache[f] # {}
  /\ cache' = [cache EXCEPT ![f] = {}]
  /\ UNCHANGED <<receiverVars, reader, published>>

ReaderStep(r) ==
  \/ \E headers \in FenceValues \cup {NoFence} : BeginRead(r, headers)
  \/ QueryDocuments(r)
  \/ HitCache(r)
  \/ \E cacheable \in BOOLEAN : FinishQueries(r, cacheable)
  \/ DegradeToEmpty(r)
  \/ FinishRead(r)
  \/ FailRead(r)

ReadNext ==
  \/ WriterStep
  \/ \E r \in Readers : ReaderStep(r)
  \/ \E f \in FenceValues \cup {NoFence} : DropCached(f)

ReadSpec == ReadInit /\ [][ReadNext]_readVars
-----------------------------------------------------------------------------
ReadTypeOK ==
  /\ TypeOK
  /\ reader \in [Readers -> ReaderStates]
  /\ cache \in [FenceValues \cup {NoFence} -> SUBSET Observations]
  /\ published \in [FenceValues -> SUBSET CanonicalDocuments]

Published(f) == [local |-> published[f], foreign |-> FALSE]

(* Every query behind an answered fenced read saw exactly the documents     *)
(* published under the fence the caller named: an answer is never a mixture *)
(* of two observations, nor of an observation and foreign or legacy rows,   *)
(* even though no lock spans its queries and responses are cached before    *)
(* they are checked (beginCatalogRead, finishCatalogRead, Suggest).         *)
ServedFromOneObservation ==
  \A r \in Readers :
    reader[r].phase = "served" /\ reader[r].before # NoFence =>
      /\ reader[r].before = reader[r].headers
      /\ reader[r].seen \subseteq {Published(reader[r].before)}

=============================================================================
