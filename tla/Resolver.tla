------------------------------- MODULE Resolver -------------------------------
(***************************************************************************)
(* Name resolution with deadlines (source/libc_shim.c, getaddrinfo_fake    *)
(* and what it calls).  Horizon's getaddrinfo cannot be interrupted, so a  *)
(* caller queues a copy of its query for a fixed pool of workers and waits *)
(* for the answer until its deadline; then it abandons the job, which its  *)
(* worker frees.  A query that is in flight already is not queued again:   *)
(* its caller waits for the cache.                                         *)
(*                                                                         *)
(* One step is one critical section or one call of the host.  Answers are  *)
(* not told apart; a call answered from the cache at once is no step.      *)
(***************************************************************************)
EXTENDS Integers, Sequences, FiniteSets

CONSTANTS
  Caller,      \* guest threads that call getaddrinfo
  Worker,      \* RESOLVER_POOL_WORKERS
  Query,       \* nodes, services and hints
  MaxPending,  \* MAX_PENDING_RESOLVERS
  None         \* nothing

ASSUME ResolverAssumption ==
  /\ IsFiniteSet(Caller) /\ IsFiniteSet(Worker)
  /\ MaxPending \in Nat \ {0}
  /\ None \notin Query \union 1..MaxPending /\ Caller \intersect Worker = {}

Job == 1..MaxPending   \* memory that calloc may return

VARIABLES
  pool,      \* g_resolver_pool_state
  queue,     \* g_resolver_queue_head .. tail
  inflight,  \* g_resolver_inflight_head
  pending,   \* g_pending_resolvers
  cache,     \* the queries that have an entry in g_resolver_cache
  query,     \* what each allocated job resolves; None when freed
  done,      \* jobs with done set
  abandoned, \* jobs with abandoned set
  caller,    \* the call of each caller
  expired,   \* callers whose deadline has passed
  worker,    \* where each worker is, and its job
  asleep     \* threads waiting on g_resolver_queue_cond

jobVars == << query, done, abandoned >>
listVars == << queue, inflight >>
vars == << pool, listVars, pending, cache, jobVars, caller, expired, worker, asleep >>

CallerPC == {"idle", "reserve", "refused", "allocate", "pool", "spawn", "spawned",
             "enqueue", "failed", "duplicate", "coalesce", "wait"}
WorkerPC == {"none", "next", "resolve", "remove", "publish", "destroy"}

TypeOK ==
  /\ pool \in {"stopped", "starting", "ready"}
  /\ queue \in Seq(Job) /\ inflight \subseteq Job
  /\ pending \in 0..(MaxPending + Cardinality(Caller))
  /\ cache \subseteq Query
  /\ query \in [Job -> Query \union {None}]
  /\ done \subseteq Job /\ abandoned \subseteq Job
  /\ caller \in [Caller -> [pc : CallerPC, query : Query \union {None},
                            job : Job \union {None}]]
  /\ expired \subseteq Caller
  /\ worker \in [Worker -> [pc : WorkerPC, job : Job \union {None}]]
  /\ asleep \subseteq Caller \union Worker

Idle == [pc |-> "idle", query |-> None, job |-> None]

Init ==
  /\ pool = "stopped" /\ queue = <<>> /\ inflight = {} /\ pending = 0
  /\ cache = {}
  /\ query = [j \in Job |-> None] /\ done = {} /\ abandoned = {}
  /\ caller = [c \in Caller |-> Idle]
  /\ expired = {}
  /\ worker = [w \in Worker |-> [pc |-> "none", job |-> None]]
  /\ asleep = {}

At(c, pc) == caller[c].pc = pc /\ c \notin asleep
Goto(c, pc) == caller' = [caller EXCEPT ![c].pc = pc]
Return(c) == caller' = [caller EXCEPT ![c] = Idle] /\ expired' = expired \ {c}

WAt(w, pc) == worker[w].pc = pc /\ w \notin asleep
WGoto(w, pc) == worker' = [worker EXCEPT ![w].pc = pc]

Sleep(t) == asleep' = asleep \union {t}
WakeAll == asleep' = {}
WakeOne == IF asleep = {} THEN UNCHANGED asleep
           ELSE \E t \in asleep : asleep' = asleep \ {t}

\* resolver_job_destroy.
Destroy(j) ==
  /\ query' = [query EXCEPT ![j] = None]
  /\ done' = done \ {j} /\ abandoned' = abandoned \ {j}
  /\ pending' = pending - 1

InFlight(q) == \E j \in inflight : query[j] = q   \* resolver_find_inflight_locked

-----------------------------------------------------------------------------
(* The caller: getaddrinfo_with_deadline.                                   *)

\* The deadline is armed and the cache misses.
Call(c, q) ==
  /\ At(c, "idle")
  /\ q \notin cache
  /\ caller' = [caller EXCEPT ![c] = [Idle EXCEPT !.pc = "reserve", !.query = q]]
  /\ UNCHANGED << pool, listVars, pending, cache, jobVars, expired, worker, asleep >>

\* The counter is raised before it is compared, and lowered again if too high.
Reserve(c) ==
  /\ At(c, "reserve")
  /\ pending' = pending + 1
  /\ Goto(c, IF pending >= MaxPending THEN "refused" ELSE "allocate")
  /\ UNCHANGED << pool, listVars, cache, jobVars, expired, worker, asleep >>

\* Also the failure of calloc; that of strdup frees the job at once.
Refused(c) ==
  /\ At(c, "refused") \/ At(c, "allocate")
  /\ pending' = pending - 1
  /\ Return(c)
  /\ UNCHANGED << pool, listVars, cache, jobVars, worker, asleep >>

Allocate(c) ==
  /\ At(c, "allocate")
  /\ \E j \in Job :
       /\ query[j] = None /\ \A i \in 1..(j - 1) : query[i] # None
       /\ query' = [query EXCEPT ![j] = caller[c].query]
       /\ caller' = [caller EXCEPT ![c].pc = "pool", ![c].job = j]
  /\ UNCHANGED << pool, listVars, pending, cache, done, abandoned, expired, worker, asleep >>

\* ensure_resolver_pool: the first caller starts the workers, others wait for it.
EnsurePool(c) ==
  /\ At(c, "pool")
  /\ \/ pool = "starting" /\ Sleep(c) /\ UNCHANGED << pool, caller >>
     \/ pool = "ready" /\ Goto(c, "enqueue") /\ UNCHANGED << pool, asleep >>
     \/ pool = "stopped" /\ pool' = "starting" /\ Goto(c, "spawn") /\ UNCHANGED asleep
  /\ UNCHANGED << listVars, pending, cache, jobVars, expired, worker >>

\* pthread_create, until it fails or all workers exist.
Spawn(c) ==
  /\ At(c, "spawn")
  /\ \E started \in SUBSET Worker :
       worker' = [w \in Worker |-> IF w \in started THEN [worker[w] EXCEPT !.pc = "next"]
                                  ELSE worker[w]]
  /\ Goto(c, "spawned")
  /\ UNCHANGED << pool, listVars, pending, cache, jobVars, expired, asleep >>

NoWorker == \A w \in Worker : worker[w].pc = "none"

\* Seeded fault: the callers that wait for the pool are not woken.
PublishPoolSilently(c) ==
  /\ At(c, "spawned")
  /\ pool' = IF NoWorker THEN "stopped" ELSE "ready"
  /\ Goto(c, IF NoWorker THEN "failed" ELSE "enqueue")
  /\ UNCHANGED << listVars, pending, cache, jobVars, expired, worker, asleep >>

PublishPool(c) ==
  /\ At(c, "spawned")
  /\ pool' = IF NoWorker THEN "stopped" ELSE "ready"
  /\ Goto(c, IF NoWorker THEN "failed" ELSE "enqueue")
  /\ WakeAll
  /\ UNCHANGED << listVars, pending, cache, jobVars, expired, worker >>

Queue(c) ==
  /\ queue' = Append(queue, caller[c].job)
  /\ inflight' = inflight \union {caller[c].job}
  /\ Goto(c, "wait")

\* enqueue_resolver_job.
Enqueue(c) ==
  /\ At(c, "enqueue")
  /\ IF InFlight(caller[c].query)
     THEN Goto(c, "duplicate") /\ UNCHANGED << listVars, asleep >>
     ELSE Queue(c) /\ WakeOne
  /\ UNCHANGED << pool, pending, cache, jobVars, expired, worker >>

\* The query is in flight: the copy is freed, the other's answer waited for.
Discard(c) ==
  /\ At(c, "duplicate")
  /\ Destroy(caller[c].job)
  /\ caller' = [caller EXCEPT ![c].pc = "coalesce", ![c].job = None]
  /\ UNCHANGED << pool, listVars, cache, expired, worker, asleep >>

\* No worker could be started.
GiveUp(c) ==
  /\ At(c, "failed")
  /\ Destroy(caller[c].job)
  /\ Return(c)
  /\ UNCHANGED << pool, listVars, cache, worker, asleep >>

\* resolver_wait_for_coalesced_query, from one wait to the next.
Coalesce(c) ==
  /\ At(c, "coalesce")
  /\ IF caller[c].query \in cache \/ ~InFlight(caller[c].query) \/ c \in expired
     THEN Return(c) /\ UNCHANGED asleep
     ELSE Sleep(c) /\ UNCHANGED << caller, expired >>
  /\ UNCHANGED << pool, listVars, pending, cache, jobVars, worker >>

\* The clock reaches the deadline of a wait: waking what waits with a timeout.
Expire(c) ==
  /\ caller[c].pc \in {"coalesce", "wait"}
  /\ expired' = expired \union {c}
  /\ asleep' = asleep \ {c}
  /\ c \notin expired
  /\ UNCHANGED << pool, listVars, pending, cache, jobVars, caller, worker >>

\* Seeded fault: who gives up frees the job.
AbandonFrees(c) ==
  /\ At(c, "wait") /\ caller[c].job \notin done /\ c \in expired
  /\ Destroy(caller[c].job)
  /\ Return(c)
  /\ UNCHANGED << pool, listVars, cache, worker, asleep >>

Abandon(c) ==
  /\ At(c, "wait") /\ caller[c].job \notin done /\ c \in expired
  /\ abandoned' = abandoned \union {caller[c].job}
  /\ Return(c)
  /\ UNCHANGED << pool, listVars, pending, cache, query, done, worker, asleep >>

\* The answer is taken under the job's lock, and the job freed.
FreeJob(c) ==
  /\ At(c, "wait") /\ caller[c].job \in done
  /\ Destroy(caller[c].job)
  /\ Return(c)
  /\ UNCHANGED << pool, listVars, cache, worker, asleep >>

-----------------------------------------------------------------------------
(* The worker: resolver_worker.                                             *)

Dequeue(w) ==
  /\ WAt(w, "next")
  /\ IF queue = <<>>
     THEN Sleep(w) /\ UNCHANGED << queue, worker >>
     ELSE /\ worker' = [worker EXCEPT ![w] = [pc |-> "resolve", job |-> Head(queue)]]
          /\ queue' = Tail(queue)
          /\ UNCHANGED asleep
  /\ UNCHANGED << pool, inflight, pending, cache, jobVars, caller, expired >>

\* The host's getaddrinfo, with or without an answer, and resolver_cache_store,
\* which gives up when memory is short.
Resolve(w) ==
  /\ WAt(w, "resolve")
  /\ cache' \in {cache, cache \union {query[worker[w].job]}}
  /\ WGoto(w, "remove")
  /\ UNCHANGED << pool, listVars, pending, jobVars, caller, expired, asleep >>

EndFlight(w) ==
  /\ WAt(w, "remove")
  /\ inflight' = inflight \ {worker[w].job}
  /\ WakeAll
  /\ WGoto(w, "publish")
  /\ UNCHANGED << pool, queue, pending, cache, jobVars, caller, expired >>

\* Under the job's lock: from now on the job is its caller's, unless abandoned.
Publish(w) ==
  LET j == worker[w].job IN
  /\ WAt(w, "publish")
  /\ done' = done \union {j}
  /\ worker' = [worker EXCEPT ![w] = IF j \in abandoned THEN [@ EXCEPT !.pc = "destroy"]
                                     ELSE [pc |-> "next", job |-> None]]
  /\ UNCHANGED << pool, listVars, pending, cache, query, abandoned, caller, expired, asleep >>

DestroyAbandoned(w) ==
  /\ WAt(w, "destroy")
  /\ Destroy(worker[w].job)
  /\ worker' = [worker EXCEPT ![w] = [pc |-> "next", job |-> None]]
  /\ UNCHANGED << pool, listVars, cache, caller, expired, asleep >>

\* An entry expires, or is evicted for another one.
Evict(q) ==
  /\ q \in cache
  /\ cache' = cache \ {q}
  /\ UNCHANGED << pool, listVars, pending, jobVars, caller, expired, worker, asleep >>

-----------------------------------------------------------------------------
\* What a caller does by itself once it has called.
Proceed(c) ==
  \/ Reserve(c) \/ Refused(c) \/ Allocate(c) \/ EnsurePool(c) \/ Spawn(c)
  \/ PublishPool(c) \/ Enqueue(c) \/ Discard(c) \/ GiveUp(c) \/ Coalesce(c)
  \/ Abandon(c) \/ FreeJob(c)

Serve(w) ==
  \/ Dequeue(w) \/ Resolve(w) \/ EndFlight(w) \/ Publish(w) \/ DestroyAbandoned(w)

Next ==
  \/ \E c \in Caller : Proceed(c) \/ Expire(c) \/ \E q \in Query : Call(c, q)
  \/ \E w \in Worker : Serve(w)
  \/ \E q \in Query : Evict(q)

Spec == Init /\ [][Next]_vars

-----------------------------------------------------------------------------
(* Properties.                                                              *)

Allocated == {j \in Job : query[j] # None}
QueuedJobs == {queue[i] : i \in DOMAIN queue}

\* Whose job it is to free a job: the caller that holds it, or, once that caller
\* has given up, the queue or the worker that will free it.
CallerHolds(j) == {c \in Caller : caller[c].job = j}
WorkerHolds(j) == {w \in Worker : worker[w].job = j}

\* No job is used after it was freed, or left with nobody to free it: an answer
\* that races its caller's deadline is freed by exactly one of the two.
JobsOwned ==
  /\ QueuedJobs \union inflight \subseteq Allocated
  /\ \A j \in Job :
       /\ CallerHolds(j) \union WorkerHolds(j) # {} => j \in Allocated
       /\ Cardinality(CallerHolds(j)) <= 1 /\ Cardinality(WorkerHolds(j)) <= 1
       /\ j \in Allocated =>
            (CallerHolds(j) = {}) = (j \in abandoned)
       /\ j \in abandoned => j \in QueuedJobs \/ WorkerHolds(j) # {}

\* The bound on pending queries counts every job and every reservation, once.
PendingExact ==
  pending = Cardinality(Allocated)
          + Cardinality({c \in Caller : caller[c].pc \in {"refused", "allocate"}})

\* One query is in flight at most once, however many callers ask it.
OneInFlight ==
  \A i, j \in inflight : query[i] = query[j] => i = j

\* Each job is freed once, by its last holder; the limit counts the jobs and the
\* reservations; and a query is in flight once (libc_shim.c:8274, 8327, 8373).
JobsAccounted == TypeOK /\ JobsOwned /\ PendingExact /\ OneInFlight

\* The condition variable is shared by workers, by callers that wait for the pool
\* and by callers that wait for a query, and enqueue_resolver_job wakes only one
\* of them.  None of the callers sleeps through the event it waits for, and the
\* workers never all sleep while a job is queued, although the one wakeup may
\* have gone to a caller.
NoLostWakeup ==
  /\ \A c \in Caller \intersect asleep :
       \/ caller[c].pc = "pool" /\ pool = "starting"
       \/ caller[c].pc = "coalesce" /\ InFlight(caller[c].query)
  /\ queue # <<>> =>
       \E w \in Worker : worker[w].pc # "none" /\ w \notin asleep

=============================================================================
