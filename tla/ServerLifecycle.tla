-------------------------- MODULE ServerLifecycle --------------------------
(***************************************************************************)
(* The life of one serving process beside its load balancer: readiness     *)
(* probes that share one cached snapshot behind a mutex, the drain that    *)
(* turns /readyz to 503 while the listener stays open, the bounded         *)
(* graceful shutdown, and the closing of the database pool, which waits    *)
(* for every connection a handler still holds.                             *)
(*                                                                         *)
(* Time is a clock of whole units; a timer that is due holds the clock     *)
(* until it fires. "ok" stands for both 200 answers (ok and degraded).     *)
(***************************************************************************)
EXTENDS Naturals

CONSTANTS
    Watchers,         \* everything that polls /readyz
    Balancer,         \* the watcher whose answers decide the routing
    Requests,         \* requests the balancer may send
    CacheTTL,         \* readinessCacheTTL
    PollInterval,     \* how often the balancer probes
    ProbeTimeout,     \* when a watcher gives up on its probe
    FailThreshold,    \* failed checks in a row that end the routing
    DrainDelay,       \* HTTP_DRAIN_DELAY
    ShutdownTimeout,  \* HTTP_SHUTDOWN_TIMEOUT
    RequestTimeout,   \* HTTP_REQUEST_TIMEOUT
    NoWatcher,        \* no one holds the readiness mutex
    LastSignal,       \* bound: the signal comes by then
    MaxTime,          \* bound on the clock
    MaxOutages        \* bound on database outages

\* The deployment HTTP_DRAIN_DELAY is made for: the delay outlasts one probe
\* already under way and the intervals to the checks that must fail after it.
ASSUME LifecycleAssumption ==
    /\ Balancer \in Watchers /\ NoWatcher \notin Watchers
    /\ {CacheTTL, PollInterval, ProbeTimeout, FailThreshold, DrainDelay} \subseteq Nat \ {0}
    /\ {ShutdownTimeout, RequestTimeout, LastSignal, MaxTime, MaxOutages} \subseteq Nat
    /\ ProbeTimeout <= PollInterval /\ ProbeTimeout <= RequestTimeout
    /\ DrainDelay > FailThreshold * PollInterval + ProbeTimeout

VARIABLES
    now,       \* the clock
    life,      \* serving, draining, closing (listener closed), stopped, exited
    dueAt,     \* the timer of the current life: end of the drain, or of the shutdown
    database,  \* whether PostgreSQL answers
    outages,   \* outages so far
    upAt,      \* last instant at which PostgreSQL answered
    downAt,    \* last instant at which it did not
    cutAt,     \* last instant at which a ping ended for a watcher that had given up
    orphans,   \* arrivals of the handlers whose watcher gave up before they had the mutex
    mutex,     \* holder of readinessMu
    snapshot,  \* readinessCached: its code and its time
    probe,     \* each watcher's probe: step, arrival and what its ping found
    answer,    \* the latest answer of /readyz, with the arrival it answers
    pollAt,    \* when the balancer polls next
    failed,    \* its checks in a row that failed, up to FailThreshold
    inflight,  \* requests in a handler, by arrival
    refused    \* a routed request met a closed listener

healthVars    == <<mutex, snapshot, probe, answer, cutAt, orphans>>
databaseVars  == <<database, outages, upAt, downAt>>
shutdownVars  == <<life, dueAt>>
trafficVars   == <<pollAt, failed, inflight, refused>>
lifecycleVars == <<now, healthVars, databaseVars, shutdownVars, trafficVars>>

NoSnapshot == [code |-> "none", at |-> 0]
NoProbe    == [step |-> "idle", arrived |-> 0, found |-> "none"]
Serving    == life \in {"serving", "draining"}   \* the listener is open
InRotation == failed < FailThreshold             \* the balancer sends requests here

LifecycleInit ==
    /\ now = 1 /\ life = "serving" /\ dueAt = 0
    /\ database = "up" /\ outages = 0 /\ upAt = 1 /\ downAt = 0 /\ cutAt = 0
    /\ mutex = NoWatcher /\ snapshot = NoSnapshot
    /\ probe = [w \in Watchers |-> NoProbe]
    /\ answer = [code |-> "none", arrived |-> 0] /\ orphans = {}
    /\ pollAt = 1 /\ failed = 0 /\ refused = FALSE
    /\ inflight = [r \in {} |-> 0]

(***************************************************************************)
(* The readiness probe.                                                    *)
(***************************************************************************)
FailedAgain == IF InRotation THEN failed + 1 ELSE failed

\* For the balancer a 200 ends a run of failures; every watcher's answer is noted.
Answered(w, code) ==
    /\ answer' = [code |-> code, arrived |-> probe[w].arrived]
    /\ failed' = CASE w # Balancer -> failed
                    [] w = Balancer /\ code = "ok" -> 0
                    [] OTHER -> FailedAgain
    /\ probe' = [probe EXCEPT ![w] = NoProbe]

\* A probe reaches the process. The balancer polls on time, the others at will.
ProbeArrives(w) ==
    /\ Serving /\ probe[w].step = "idle"
    /\ IF w = Balancer THEN now = pollAt /\ pollAt' = now + PollInterval
                       ELSE UNCHANGED pollAt
    /\ probe' = [probe EXCEPT ![w] = [step |-> "asked", arrived |-> now, found |-> "none"]]
    /\ UNCHANGED <<now, mutex, snapshot, answer, cutAt, orphans, databaseVars, shutdownVars,
                   failed, inflight, refused>>

\* Mutation: a fresh snapshot answers a probe even after Drain.
DrainingYieldsToCache(w) == life # "serving" /\ now >= snapshot.at + CacheTTL

DrainingWins(w) == life # "serving"

\* handleReady: once Drain was called the answer needs neither lock nor ping.
HandleReady(w) ==
    /\ life # "exited" /\ probe[w].step = "asked"
    /\ IF DrainingWins(w)
       THEN Answered(w, "draining")
       ELSE /\ probe' = [probe EXCEPT ![w].step = "locking"]
            /\ UNCHANGED <<answer, failed>>
    /\ UNCHANGED <<now, mutex, snapshot, cutAt, orphans, databaseVars, shutdownVars,
                   pollAt, inflight, refused>>

Fresh(arrived) == snapshot # NoSnapshot /\ arrived < snapshot.at + CacheTTL

\* readiness under its mutex: a fresh snapshot is shared, whoever took it.
ShareSnapshot(w) ==
    /\ probe[w].step = "locking" /\ mutex = NoWatcher /\ Fresh(probe[w].arrived)
    /\ Answered(w, snapshot.code)
    /\ UNCHANGED <<now, mutex, snapshot, cutAt, orphans, databaseVars, shutdownVars,
                   pollAt, inflight, refused>>

\* Otherwise the holder pings PostgreSQL under its own request's context.
Ping(w) ==
    /\ probe[w].step = "locking" /\ mutex = NoWatcher /\ ~Fresh(probe[w].arrived)
    /\ mutex' = w
    /\ probe' = [probe EXCEPT ![w] = [step |-> "pinged", arrived |-> probe[w].arrived,
                        found |-> IF database = "up" THEN "ok" ELSE "unavailable"]]
    /\ UNCHANGED <<now, snapshot, answer, cutAt, orphans, databaseVars, shutdownVars, trafficVars>>

\* Mutation: the snapshot carries the time it is stored.
StampAtStore(w) == now

\* The snapshot carries the arrival of the watcher that took it.
Stamp(w) == probe[w].arrived
StoreSnapshot(w) ==
    /\ probe[w].step = "pinged" /\ mutex = w
    /\ snapshot' = [code |-> probe[w].found, at |-> Stamp(w)]
    /\ mutex' = NoWatcher
    /\ Answered(w, probe[w].found)
    /\ UNCHANGED <<now, cutAt, orphans, databaseVars, shutdownVars, pollAt, inflight, refused>>

\* A watcher that stops waiting cancels its request. In the middle of the PostgreSQL
\* ping the cancelled context reads as PostgreSQL down, and that is what is cached;
\* during the Redis ping after it PostgreSQL's answer stands; before, the handler
\* stays behind. The balancer counts the silence as a failed check.
GiveUp(w) ==
    /\ probe[w].step # "idle" /\ now >= probe[w].arrived + ProbeTimeout
    /\ IF probe[w].step = "pinged"
       THEN /\ \/ snapshot' = [code |-> "unavailable", at |-> Stamp(w)] /\ cutAt' = now
               \/ snapshot' = [code |-> probe[w].found, at |-> Stamp(w)] /\ UNCHANGED cutAt
            /\ mutex' = NoWatcher
       ELSE UNCHANGED <<snapshot, mutex, cutAt>>
    /\ orphans' = IF probe[w].step = "locking" \/ (probe[w].step = "asked" /\ ~DrainingWins(w))
                  THEN orphans \cup {probe[w].arrived} ELSE orphans
    /\ failed' = IF w = Balancer THEN FailedAgain ELSE failed
    /\ probe' = [probe EXCEPT ![w] = NoProbe]
    /\ UNCHANGED <<now, answer, databaseVars, shutdownVars, pollAt, inflight, refused>>

\* The handler left behind gets the mutex: a fresh snapshot serves nobody, and
\* a ping under its cancelled context is cached as PostgreSQL down.
OrphanPings ==
    /\ mutex = NoWatcher /\ life # "exited"
    /\ \E arrived \in orphans :
          /\ orphans' = orphans \ {arrived}
          /\ IF Fresh(arrived)
             THEN UNCHANGED <<snapshot, cutAt>>
             ELSE snapshot' = [code |-> "unavailable", at |-> arrived] /\ cutAt' = now
    /\ UNCHANGED <<now, mutex, probe, answer, databaseVars, shutdownVars, trafficVars>>

(***************************************************************************)
(* The environment: PostgreSQL, routed requests and the clock.             *)
(***************************************************************************)
DatabaseTurns ==
    /\ IF database = "up" THEN /\ outages < MaxOutages
                               /\ outages' = outages + 1
                               /\ database' = "down" /\ downAt' = now
                               /\ UNCHANGED upAt
                          ELSE /\ database' = "up" /\ upAt' = now
                               /\ UNCHANGED <<outages, downAt>>
    /\ UNCHANGED <<now, healthVars, shutdownVars, trafficVars>>

\* While routed, the balancer sends requests; a closed listener refuses them.
SendRequest(r) ==
    /\ InRotation /\ r \notin DOMAIN inflight
    /\ IF Serving THEN /\ inflight' = [q \in DOMAIN inflight \cup {r} |->
                                          IF q = r THEN now ELSE inflight[q]]
                       /\ UNCHANGED refused
                  ELSE refused' = TRUE /\ UNCHANGED inflight
    /\ UNCHANGED <<now, healthVars, databaseVars, shutdownVars, pollAt, failed>>

Ended(r) == inflight' = [q \in DOMAIN inflight \ {r} |-> inflight[q]]
FinishRequest(r) ==
    /\ r \in DOMAIN inflight /\ life # "exited"
    /\ Ended(r)
    /\ UNCHANGED <<now, healthVars, databaseVars, shutdownVars, pollAt, failed, refused>>

\* Mutation: deadlines end with the listener.
DeadlineOfServing(r) == Serving /\ now >= inflight[r] + RequestTimeout

\* requestDeadline: a handler that is still running gives its connection back.
PastDeadline(r) == now >= inflight[r] + RequestTimeout
RequestDeadline(r) ==
    /\ r \in DOMAIN inflight /\ PastDeadline(r) /\ life # "exited"
    /\ Ended(r)
    /\ UNCHANGED <<now, healthVars, databaseVars, shutdownVars, pollAt, failed, refused>>

\* Every timer that is due has fired, and a handler left behind has taken a free
\* mutex: only then does the clock move.
TimersFired ==
    /\ life \in {"draining", "closing"} => now < dueAt
    /\ Serving => now < pollAt
    /\ \A w \in Watchers :
          probe[w].step # "idle" => now < probe[w].arrived + ProbeTimeout
    /\ \A r \in DOMAIN inflight : ~PastDeadline(r)
    /\ mutex = NoWatcher => orphans = {}
Tick ==
    /\ TimersFired /\ now < MaxTime /\ life # "exited"
    /\ now < LastSignal \/ life # "serving"
    /\ now' = now + 1
    /\ upAt' = IF database = "up" THEN now + 1 ELSE upAt
    /\ downAt' = IF database = "down" THEN now + 1 ELSE downAt
    /\ UNCHANGED <<database, outages, healthVars, shutdownVars, trafficVars>>

(***************************************************************************)
(* Shutdown: Start after the signal, and the closing calls of serve.       *)
(***************************************************************************)
Signal ==
    /\ life = "serving"
    /\ life' = "draining" /\ dueAt' = now + DrainDelay
    /\ UNCHANGED <<now, healthVars, databaseVars, trafficVars>>

CloseListener ==
    /\ life = "draining" /\ now >= dueAt
    /\ life' = "closing" /\ dueAt' = now + ShutdownTimeout
    /\ UNCHANGED <<now, healthVars, databaseVars, trafficVars>>

\* Shutdown returns when every connection is idle, or when its context ends.
ShutdownReturns ==
    /\ life = "closing"
    /\ \/ now >= dueAt
       \/ /\ DOMAIN inflight = {} /\ orphans = {}
          /\ \A w \in Watchers : probe[w].step = "idle"
    /\ life' = "stopped"
    /\ UNCHANGED <<now, dueAt, healthVars, databaseVars, trafficVars>>

\* st.Close waits for every connection a handler or a ping still holds.
PoolCloses ==
    /\ life = "stopped" /\ DOMAIN inflight = {} /\ mutex = NoWatcher
    /\ life' = "exited"
    /\ UNCHANGED <<now, dueAt, healthVars, databaseVars, trafficVars>>

Watch(w) == \/ ProbeArrives(w) \/ HandleReady(w) \/ ShareSnapshot(w)
            \/ Ping(w) \/ StoreSnapshot(w) \/ GiveUp(w)
ShutdownGoesOn == CloseListener \/ ShutdownReturns \/ PoolCloses
Shutdown == Signal \/ ShutdownGoesOn

LifecycleNext ==
    \/ \E w \in Watchers : Watch(w)
    \/ OrphanPings
    \/ \E r \in Requests : SendRequest(r) \/ FinishRequest(r) \/ RequestDeadline(r)
    \/ DatabaseTurns
    \/ Tick
    \/ Shutdown

LifecycleSpec == LifecycleInit /\ [][LifecycleNext]_lifecycleVars

(***************************************************************************)
(* What the process promises the balancer.                                 *)
(***************************************************************************)
\* With HTTP_DRAIN_DELAY longer than one pending probe of the balancer and the
\* checks it wants to see fail, no request it routes here meets the closed listener.
NoRoutedRequestIsRefused == ~refused

\* The price of sharing one snapshot is CacheTTL and no more: a 200 means that
\* PostgreSQL answered less than CacheTTL before the question, a 503 that it did
\* not, or that a watcher that had given up cut a ping short.
AnswersAreFresh ==
    /\ answer.code = "ok" => upAt + CacheTTL > answer.arrived
    /\ answer.code = "unavailable" =>
          \/ downAt + CacheTTL > answer.arrived
          \/ cutAt + CacheTTL > answer.arrived

\* Once the drain begins the process exits, whatever its handlers wait for: the
\* shutdown is bounded and the pool gets its connections back. It takes timers
\* that fire, clients that give up, a poller that polls on time and a free mutex
\* that is taken; nothing makes a handler finish by itself or the database return.
DrainEnds == life = "draining" ~> life = "exited"
=============================================================================
