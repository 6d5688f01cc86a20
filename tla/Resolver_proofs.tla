--------------------------- MODULE Resolver_proofs ---------------------------
(***************************************************************************)
(* Theorems about Resolver, for any callers, workers, queries and limit:   *)
(* each job is freed once by its last holder, the limit counts them, a     *)
(* query is in flight at most once, and no wakeup is lost.                 *)
(***************************************************************************)
EXTENDS Resolver, FiniteSetTheorems, TLAPS

HoldingPC == {"pool", "spawn", "spawned", "enqueue", "failed", "duplicate", "wait"}
ServingPC == {"resolve", "remove", "publish", "destroy"}

\* The types that the argument needs; a thread has a job exactly where it uses one.
Shape ==
  /\ pool \in {"stopped", "starting", "ready"}
  /\ queue \in Seq(Job) /\ inflight \subseteq Job
  /\ query \in [Job -> Query \union {None}]
  /\ done \subseteq Job /\ abandoned \subseteq Job
  /\ caller \in [Caller -> [pc : CallerPC, query : Query \union {None},
                            job : Job \union {None}]]
  /\ worker \in [Worker -> [pc : WorkerPC, job : Job \union {None}]]
  /\ \A c \in Caller :
       /\ caller[c].job # None <=> caller[c].pc \in HoldingPC
       /\ caller[c].pc # "idle" => caller[c].query # None
  /\ \A w \in Worker : worker[w].job # None <=> worker[w].pc \in ServingPC

\* One caller starts the workers, when there are none.
PoolStarts ==
  /\ pool = "stopped" => \A w \in Worker : worker[w].pc = "none"
  /\ \A c \in Caller : caller[c].pc \in {"spawn", "spawned"} =>
       /\ pool = "starting"
       /\ \A d \in Caller : caller[d].pc \in {"spawn", "spawned"} => c = d
       /\ caller[c].pc = "spawn" => \A w \in Worker : worker[w].pc = "none"

Queued(j)  == \E i \in DOMAIN queue : queue[i] = j
Called(j)  == \E c \in Caller : caller[c].job = j
Served(j)  == \E w \in Worker : worker[w].job = j

\* A job has one caller, one worker, and one place in the queue.
OneHolder ==
  /\ \A c, d \in Caller : caller[c].job = caller[d].job /\ caller[c].job # None => c = d
  /\ \A v, w \in Worker : worker[v].job = worker[w].job /\ worker[v].job # None => v = w
  /\ \A i, k \in DOMAIN queue : queue[i] = queue[k] => i = k
  /\ \A j \in Job : ~(Queued(j) /\ Served(j))

\* What is in flight waits in the queue or for an answer.
Flying ==
  \A j \in Job :
    j \in inflight <=>
      \/ Queued(j)
      \/ \E w \in Worker : worker[w].job = j /\ worker[w].pc \in {"resolve", "remove"}

\* From its allocation to its release a job has a holder: its caller until it gives up,
\* and a worker or the queue until the answer is there.
Lives ==
  \A j \in Job :
    /\ Called(j) \/ Queued(j) \/ Served(j) \/ j \in done \/ j \in abandoned =>
         query[j] # None
    /\ query[j] # None => (Called(j) <=> j \notin abandoned)
    /\ j \in abandoned => Queued(j) \/ Served(j)
    /\ Queued(j) => j \notin done
    /\ \A w \in Worker : worker[w].job = j =>
         IF worker[w].pc = "destroy" THEN j \in done /\ j \in abandoned ELSE j \notin done
    /\ \A c \in Caller : caller[c].job = j => query[j] = caller[c].query
    /\ \A c \in Caller : caller[c].job = j =>
         IF caller[c].pc = "wait" THEN j \in done \/ Queued(j) \/ Served(j)
         ELSE j \notin done /\ ~Queued(j) /\ ~Served(j)

IInv == Shape /\ PoolStarts /\ OneHolder /\ Flying /\ Lives /\ OneInFlight

LEMMA Initial == Init => IInv
BY ResolverAssumption
DEF Init, IInv, Shape, PoolStarts, OneHolder, Flying, Lives, OneInFlight, Queued, Called,
    Served, Idle, Job, HoldingPC, ServingPC, CallerPC, WorkerPC

\* Nothing is neither a job nor a query.
LEMMA NoneIsNoJob == None \notin Job /\ None \notin Query
BY ResolverAssumption DEF Job

\* A caller keeps its job and its query, or has none.
SameJob(d) ==
  /\ caller'[d].job = caller[d].job
  /\ caller'[d].job # None => caller'[d].query = caller[d].query
  /\ caller'[d].pc = "wait" <=> caller[d].pc = "wait"

\* What callers do before they queue a job, and between two waits, leaves the jobs alone.
LEMMA JobsUntouched ==
  ASSUME IInv, UNCHANGED <<queue, inflight, query, done, abandoned, worker>>,
         \A d \in Caller : SameJob(d)
  PROVE  OneHolder' /\ Flying' /\ Lives' /\ OneInFlight'
<1> USE NoneIsNoJob DEF Queued, Called, Served, SameJob
<1>1. OneHolder' /\ Flying'
  BY DEF IInv, OneHolder, Flying
<1>2. Lives'
  BY DEF IInv, Lives
<1>3. OneInFlight'
  BY DEF IInv, OneInFlight
<1> QED
  BY <1>1, <1>2, <1>3

\* Steps of a caller that neither queue nor free a job.
LEMMA CallerKeeps ==
  ASSUME IInv, NEW c \in Caller,
         \/ \E q \in Query : Call(c, q)
         \/ Reserve(c) \/ Refused(c) \/ Allocate(c) \/ EnsurePool(c) \/ PublishPool(c)
         \/ Coalesce(c) \/ Expire(c) \/ Abandon(c)
  PROVE  IInv'
<1> USE NoneIsNoJob
    DEF IInv, Shape, PoolStarts, OneHolder, Flying, Lives, OneInFlight, Queued, Called,
        Served, Idle, HoldingPC, ServingPC, CallerPC, WorkerPC, At, Goto, Return,
        jobVars, listVars, SameJob
<1>1. ASSUME NEW q \in Query, Call(c, q) PROVE IInv'
  <2> DEFINE r == [Idle EXCEPT !.pc = "reserve", !.query = q]
  <2>1. /\ caller[c].pc = "idle" /\ caller[c].job = None
        /\ caller' = [caller EXCEPT ![c] = r]
        /\ UNCHANGED <<pool, queue, inflight, query, done, abandoned, worker>>
    BY <1>1 DEF Call
  <2>5. /\ r.pc = "reserve" /\ r.query = q /\ r.job = None
        /\ r \in [pc : CallerPC, query : Query \union {None}, job : Job \union {None}]
    BY DEF Idle
  <2> HIDE DEF r
  <2>2. Shape'
    BY <2>1, <2>5
  <2>3. PoolStarts'
    BY <2>1, <2>5
  <2>4. OneHolder' /\ Flying' /\ Lives' /\ OneInFlight'
    <3>1. \A d \in Caller : SameJob(d)
      BY <2>1, <2>5
    <3> HIDE DEF IInv, OneHolder, Flying, Lives, OneInFlight
    <3> QED
      BY <2>1, <3>1, JobsUntouched
  <2> QED
    BY <2>2, <2>3, <2>4
<1>2. CASE Reserve(c)
  BY <1>2 DEF Reserve
<1>3. CASE Refused(c)
  BY <1>3 DEF Refused
<1>4. CASE Allocate(c)
  <2> PICK j \in Job :
         /\ query[j] = None
         /\ query' = [query EXCEPT ![j] = caller[c].query]
         /\ caller' = [caller EXCEPT ![c].pc = "pool", ![c].job = j]
    BY <1>4 DEF Allocate
  <2>1. UNCHANGED <<pool, queue, inflight, done, abandoned, worker>>
    BY <1>4 DEF Allocate
  <2>2. caller[c].pc = "allocate" /\ caller[c].job = None /\ caller[c].query \in Query
    BY <1>4 DEF Allocate
  <2>3. Shape'
    BY <2>1, <2>2
  <2>4. PoolStarts'
    BY <2>1, <2>2
  <2>5. ~Called(j) /\ ~Queued(j) /\ ~Served(j) /\ j \notin done \union abandoned \union inflight
    BY <2>1
  <2>6. OneHolder' /\ Flying'
    BY <2>1, <2>2, <2>5
  <2>7. Lives'
    BY <2>1, <2>2, <2>5
  <2>8. OneInFlight'
    BY <2>1, <2>2, <2>5
  <2> QED
    BY <2>3, <2>4, <2>6, <2>7, <2>8
<1>5. CASE EnsurePool(c)
  <2>1. /\ caller[c].pc = "pool" /\ caller[c].job # None
        /\ \/ pool = "starting" /\ pool' = pool /\ caller' = caller
           \/ pool = "ready" /\ pool' = pool /\ caller' = [caller EXCEPT ![c].pc = "enqueue"]
           \/ /\ pool = "stopped" /\ pool' = "starting"
              /\ caller' = [caller EXCEPT ![c].pc = "spawn"]
        /\ UNCHANGED <<queue, inflight, query, done, abandoned, worker>>
    BY <1>5 DEF EnsurePool
  <2>2. Shape'
    BY SMTT(30), <2>1
  <2>3. PoolStarts'
    BY <2>1
  <2>4. OneHolder' /\ Flying' /\ Lives' /\ OneInFlight'
    <3>1. \A d \in Caller : SameJob(d)
      BY <2>1
    <3> HIDE DEF IInv, OneHolder, Flying, Lives, OneInFlight
    <3> QED
      BY <2>1, <3>1, JobsUntouched
  <2> QED
    BY <2>2, <2>3, <2>4
<1>6. CASE PublishPool(c)
  BY <1>6 DEF PublishPool, NoWorker
<1>7. CASE Coalesce(c)
  <2>1. /\ caller[c].pc = "coalesce" /\ caller[c].job = None
        /\ caller' = caller \/ caller' = [caller EXCEPT ![c] = Idle]
        /\ UNCHANGED <<pool, queue, inflight, query, done, abandoned, worker>>
    BY <1>7 DEF Coalesce
  <2>2. CASE caller' = caller
    BY <2>1, <2>2
  <2>3. CASE caller' = [caller EXCEPT ![c] = Idle]
    <3>1. Shape'
      BY <2>1, <2>3
    <3>2. PoolStarts'
      BY <2>1, <2>3
    <3>3. \A d \in Caller : SameJob(d)
      BY <2>1, <2>3
    <3>4. OneHolder' /\ Flying' /\ Lives' /\ OneInFlight'
      <4> HIDE DEF IInv, OneHolder, Flying, Lives, OneInFlight
      <4> QED
        BY <2>1, <3>3, JobsUntouched
    <3> QED
      BY <3>1, <3>2, <3>4
  <2> HIDE DEF IInv
  <2> QED
    BY <2>1, <2>2, <2>3
<1>8. CASE Expire(c)
  BY <1>8 DEF Expire
<1>9. CASE Abandon(c)
  <2> DEFINE j == caller[c].job
  <2>1. /\ j \in Job /\ caller[c].pc = "wait" /\ j \notin done
        /\ abandoned' = abandoned \union {j}
        /\ caller' = [caller EXCEPT ![c] = Idle]
        /\ UNCHANGED <<pool, queue, inflight, query, done, worker>>
    BY <1>9 DEF Abandon
  <2>9. Queued(j) \/ Served(j)
    BY <2>1
  <2> HIDE DEF j
  <2>2. Shape'
    BY <2>1
  <2>3. PoolStarts'
    BY <2>1
  <2>5. \A d \in Caller : caller'[d].job = (IF d = c THEN None ELSE caller[d].job)
    BY <2>1
  <2>4. OneHolder' /\ Flying' /\ OneInFlight'
    <3>1. OneHolder'
      BY <2>1, <2>5
    <3>2. Flying'
      BY <2>1
    <3>3. OneInFlight'
      BY <2>1
    <3> QED
      BY <3>1, <3>2, <3>3
  <2>6. \A i \in Job : Called(i)' <=> Called(i) /\ i # j
    BY <2>1, <2>5 DEF j
  <2>7. Lives'
    <3> SUFFICES ASSUME NEW i \in Job
                 PROVE  (Lives!(i))'
      BY DEF Lives
    <3> QED
      BY <2>9, <2>1, <2>5, <2>6 DEF j
  <2> QED
    BY <2>2, <2>3, <2>4, <2>7
<1> HIDE DEF IInv
<1> QED
  BY <1>1, <1>2, <1>3, <1>4, <1>5, <1>6, <1>7, <1>8, <1>9

\* Starting the workers: whoever does it finds none of them.
LEMMA SpawnStep ==
  ASSUME IInv, NEW c \in Caller, Spawn(c)
  PROVE  IInv'
<1> USE NoneIsNoJob
<1> PICK started \in SUBSET Worker :
       worker' = [w \in Worker |-> IF w \in started THEN [worker[w] EXCEPT !.pc = "next"]
                                  ELSE worker[w]]
  BY DEF Spawn
<1>1. /\ caller[c].pc = "spawn" /\ caller' = [caller EXCEPT ![c].pc = "spawned"]
      /\ UNCHANGED <<pool, queue, inflight, query, done, abandoned>>
  BY DEF Spawn, At, Goto, listVars, jobVars
<1>2. \A w \in Worker : worker[w].pc = "none" /\ worker[w].job = None
  BY <1>1 DEF IInv, PoolStarts, Shape, ServingPC
<1>3. /\ worker' \in [Worker -> [pc : WorkerPC, job : Job \union {None}]]
      /\ \A w \in Worker : worker'[w].pc \in {"none", "next"} /\ worker'[w].job = None
  BY <1>2 DEF IInv, Shape, WorkerPC
<1>4. Shape'
  BY <1>1, <1>3 DEF IInv, Shape, CallerPC, HoldingPC, ServingPC
<1>5. PoolStarts'
  BY <1>1 DEF IInv, Shape, PoolStarts
<1>6. \A d \in Caller : SameJob(d)
  BY <1>1 DEF IInv, Shape, SameJob
<1>7. OneHolder' /\ Flying' /\ OneInFlight'
  BY <1>1, <1>2, <1>3, <1>6
  DEF SameJob, IInv, OneHolder, Flying, OneInFlight, Queued, Served
<1>8. Lives'
  BY <1>1, <1>2, <1>3, <1>6 DEF IInv, Lives, Queued, Served, Called, SameJob
<1> QED
  BY <1>4, <1>5, <1>7, <1>8 DEF IInv

\* A job enters the queue, when its query is not in flight.
LEMMA EnqueueStep ==
  ASSUME IInv, NEW c \in Caller, Enqueue(c)
  PROVE  IInv'
<1> USE NoneIsNoJob
<1>1. CASE InFlight(caller[c].query)
  <2>1. /\ caller[c].pc = "enqueue" /\ caller' = [caller EXCEPT ![c].pc = "duplicate"]
        /\ UNCHANGED <<pool, queue, inflight, query, done, abandoned, worker>>
    BY <1>1 DEF Enqueue, At, Goto, listVars, jobVars
  <2>2. Shape' /\ PoolStarts'
    BY <2>1 DEF IInv, Shape, PoolStarts, CallerPC, HoldingPC
  <2>3. \A d \in Caller : SameJob(d)
    BY <2>1 DEF IInv, Shape, SameJob
  <2> QED
    BY <2>1, <2>2, <2>3, JobsUntouched DEF IInv
<1>2. CASE ~InFlight(caller[c].query)
  <2> DEFINE j == caller[c].job
  <2>1. /\ caller[c].pc = "enqueue" /\ caller' = [caller EXCEPT ![c].pc = "wait"]
        /\ queue' = Append(queue, j) /\ inflight' = inflight \union {j}
        /\ UNCHANGED <<pool, query, done, abandoned, worker>>
    BY <1>2 DEF Enqueue, Queue, At, Goto, jobVars
  <2>2. j \in Job
    BY <2>1 DEF IInv, Shape, HoldingPC
  <2>3. /\ query[j] # None /\ j \notin done /\ ~Queued(j) /\ ~Served(j)
        /\ j \notin inflight
    BY <2>1, <2>2 DEF IInv, Lives, Flying, Called, Queued, Served
  <2>4. query[j] = caller[c].query
    BY <2>1, <2>2 DEF IInv, Lives
  <2>5. Shape'
    BY <2>1, <2>2 DEF IInv, Shape, CallerPC, HoldingPC
  <2>6. PoolStarts'
    BY <2>1 DEF IInv, Shape, PoolStarts
  <2>7. \A i \in Job : Queued(i)' <=> Queued(i) \/ i = j
    <3>1. /\ Len(queue') = Len(queue) + 1 /\ DOMAIN queue = 1..Len(queue)
          /\ DOMAIN queue' = 1..(Len(queue) + 1) /\ Len(queue) \in Nat
          /\ queue'[Len(queue) + 1] = j
          /\ \A k \in 1..Len(queue) : queue'[k] = queue[k]
      BY <2>1, <2>2 DEF IInv, Shape
    <3> HIDE DEF j
    <3> QED
      BY <3>1 DEF Queued
  <2>8. \A d \in Caller : caller'[d].job = caller[d].job
    BY <2>1 DEF IInv, Shape
  <2>9. OneHolder'
    <3>1. \A i, k \in DOMAIN queue' : queue'[i] = queue'[k] => i = k
      BY <2>1, <2>2, <2>3 DEF IInv, Shape, OneHolder, Queued
    <3>2. \A i \in Job : ~(Queued(i)' /\ Served(i)')
      BY <2>1, <2>3, <2>7 DEF IInv, OneHolder, Served
    <3> QED
      BY <2>1, <2>8, <3>1, <3>2 DEF IInv, OneHolder
  <2>10. Flying'
    BY <2>1, <2>7 DEF IInv, Flying
  <2>11. Lives'
    <3> SUFFICES ASSUME NEW i \in Job
                 PROVE  (Lives!(i))'
      BY DEF Lives
    <3>1. Called(i)' <=> Called(i)
      BY <2>8 DEF Called
    <3>2. Served(i)' <=> Served(i)
      BY <2>1 DEF Served
    <3>3. ASSUME NEW d \in Caller, d # c PROVE caller'[d] = caller[d]
      BY <2>1, <3>3 DEF IInv, Shape
    <3>4. caller'[c].pc = "wait"
      BY <2>1 DEF IInv, Shape
    <3>5. \A d \in Caller : caller[d].job = j => d = c
      BY <2>2 DEF IInv, OneHolder
    <3> QED
      BY <2>1, <2>2, <2>3, <2>7, <2>8, <3>1, <3>2, <3>3, <3>4, <3>5 DEF IInv, Lives
  <2>12. OneInFlight'
    BY <1>2, <2>1, <2>4 DEF IInv, OneInFlight, InFlight
  <2> QED
    BY <2>5, <2>6, <2>9, <2>10, <2>11, <2>12 DEF IInv
<1> QED
  BY <1>1, <1>2

\* A caller frees a job that only it holds.
LEMMA CallerFrees ==
  ASSUME IInv, NEW c \in Caller, Discard(c) \/ GiveUp(c) \/ FreeJob(c)
  PROVE  IInv'
<1> USE NoneIsNoJob
<1> DEFINE j == caller[c].job
<1>1. /\ \/ caller[c].pc \in {"duplicate", "failed"}
         \/ caller[c].pc = "wait" /\ j \in done
      /\ query' = [query EXCEPT ![j] = None]
      /\ done' = done \ {j} /\ abandoned' = abandoned \ {j}
      /\ UNCHANGED <<pool, queue, inflight, worker>>
  <2>1. CASE Discard(c)
    BY <2>1 DEF Discard, Destroy, At, listVars
  <2>2. CASE GiveUp(c)
    BY <2>2 DEF GiveUp, Destroy, At, listVars
  <2>3. CASE FreeJob(c)
    BY <2>3 DEF FreeJob, Destroy, At, listVars
  <2> QED
    BY <2>1, <2>2, <2>3
<1>2. /\ caller' \in [Caller -> [pc : CallerPC, query : Query \union {None},
                                 job : Job \union {None}]]
      /\ caller'[c].job = None /\ caller'[c].pc \in {"idle", "coalesce"}
      /\ caller'[c].pc = "coalesce" => caller'[c].query # None
      /\ \A d \in Caller : d # c => caller'[d] = caller[d]
  <2>1. CASE Discard(c)
    BY ZenonT(60), <2>1 DEF Discard, At, IInv, Shape, CallerPC
  <2>2. CASE GiveUp(c) \/ FreeJob(c)
    BY <2>2 DEF GiveUp, FreeJob, Return, Idle, IInv, Shape, CallerPC
  <2> QED
    BY <2>1, <2>2
<1>3. j \in Job
  BY <1>1 DEF IInv, Shape, HoldingPC
<1>4. j \notin abandoned /\ query[j] # None
  BY <1>1, <1>3 DEF IInv, Lives, Called
<1>5. ~Queued(j) /\ ~Served(j)
  <2>1. CASE caller[c].pc \in {"duplicate", "failed"}
    BY <1>3, <2>1 DEF IInv, Lives
  <2>2. CASE j \in done
    <3>1. ~Queued(j)
      BY <1>3, <2>2 DEF IInv, Lives
    <3>2. ASSUME NEW w \in Worker, worker[w].job = j PROVE FALSE
      BY <1>3, <1>4, <2>2, <3>2 DEF IInv, Lives
    <3> QED
      BY <3>1, <3>2 DEF Served
  <2> QED
    BY <1>1, <2>1, <2>2
<1>6. j \notin inflight
  BY <1>3, <1>5 DEF IInv, Flying, Served
<1>7. \A d \in Caller : caller[d].job = j => d = c
  BY <1>3 DEF IInv, OneHolder
<1>8. Shape'
  BY <1>1, <1>2, <1>3 DEF IInv, Shape, HoldingPC, ServingPC
<1>9. PoolStarts'
  BY <1>1, <1>2 DEF IInv, PoolStarts
<1>10. OneHolder' /\ Flying' /\ OneInFlight'
  BY <1>1, <1>2, <1>3, <1>6
  DEF IInv, Shape, OneHolder, Flying, OneInFlight, Queued, Served
<1>11. Lives'
  <2> SUFFICES ASSUME NEW i \in Job
               PROVE  (Lives!(i))'
    BY DEF Lives
  <2>1. Queued(i)' <=> Queued(i)
    BY <1>1 DEF Queued
  <2>2. Served(i)' <=> Served(i)
    BY <1>1 DEF Served
  <2>3. Called(i)' <=> Called(i) /\ i # j
    BY <1>2, <1>7 DEF Called
  <2>4. query'[i] = IF i = j THEN None ELSE query[i]
    BY <1>1 DEF IInv, Shape
  <2>5. CASE i = j
    <3>1. \A d \in Caller : caller'[d].job # j
      BY <2>3, <2>5 DEF Called
    <3>2. \A w \in Worker : worker'[w].job # j
      BY <2>2, <2>5, <1>5 DEF Served
    <3> HIDE DEF j
    <3> QED
      BY <1>1, <1>5, <2>1, <2>2, <2>3, <2>4, <2>5, <3>1, <3>2
  <2>6. CASE i # j
    <3> HIDE DEF j
    <3> QED
      BY <1>1, <1>2, <2>1, <2>2, <2>3, <2>4, <2>6 DEF IInv, Lives
  <2> QED
    BY <2>5, <2>6
<1> QED
  BY <1>8, <1>9, <1>10, <1>11 DEF IInv

\* A worker takes the first job of the queue, or sleeps.
LEMMA DequeueStep ==
  ASSUME IInv, NEW w \in Worker, Dequeue(w)
  PROVE  IInv'
<1> USE NoneIsNoJob
<1>1. CASE queue = <<>>
  BY <1>1
  DEF Dequeue, jobVars, IInv, Shape, PoolStarts, OneHolder, Flying, Lives, OneInFlight,
      Queued, Called, Served
<1>2. CASE queue # <<>>
  <2> DEFINE j == Head(queue)
  <2>1. /\ worker[w].pc = "next"
        /\ worker' = [worker EXCEPT ![w] = [pc |-> "resolve", job |-> j]]
        /\ queue' = Tail(queue)
        /\ UNCHANGED <<pool, inflight, query, done, abandoned, caller>>
    BY <1>2 DEF Dequeue, WAt, jobVars
  <2>2. /\ j \in Job /\ Len(queue) \in Nat \ {0} /\ j = queue[1]
        /\ DOMAIN queue = 1..Len(queue) /\ DOMAIN queue' = 1..(Len(queue) - 1)
        /\ \A k \in 1..(Len(queue) - 1) : queue'[k] = queue[k + 1]
        /\ queue' \in Seq(Job)
    BY <1>2, <2>1 DEF IInv, Shape
  <2>3. /\ worker[w].job = None
        /\ \A v \in Worker :
             worker'[v] = IF v = w THEN [pc |-> "resolve", job |-> j] ELSE worker[v]
    BY <2>1 DEF IInv, Shape, ServingPC
  <2> HIDE DEF j
  <2>4. /\ \A i, k \in DOMAIN queue' : queue'[i] = queue'[k] => i = k
        /\ \A i \in Job : Queued(i)' <=> Queued(i) /\ i # j
        /\ Queued(j)
    <3>1. \A i, k \in DOMAIN queue : queue[i] = queue[k] => i = k
      BY DEF IInv, OneHolder
    <3>2. \A i, k \in DOMAIN queue' : queue'[i] = queue'[k] => i = k
      <4> SUFFICES ASSUME NEW i \in 1..(Len(queue) - 1), NEW k \in 1..(Len(queue) - 1),
                          queue'[i] = queue'[k]
                   PROVE  i = k
        BY <2>2
      <4>1. queue[i + 1] = queue[k + 1] /\ i + 1 \in DOMAIN queue /\ k + 1 \in DOMAIN queue
        BY <2>2
      <4> QED
        BY <3>1, <4>1
    <3>3. Queued(j)
      BY <2>2 DEF Queued
    <3>4. ASSUME NEW i \in Job, Queued(i)' PROVE Queued(i) /\ i # j
      BY <2>2, <3>1, <3>4 DEF Queued
    <3>5. ASSUME NEW i \in Job, Queued(i), i # j PROVE Queued(i)'
      <4>1. PICK k \in 1..Len(queue) : queue[k] = i
        BY <2>2, <3>5 DEF Queued
      <4>2. k # 1 /\ k - 1 \in 1..(Len(queue) - 1) /\ queue'[k - 1] = i
        BY <2>2, <3>5, <4>1
      <4> QED
        BY <2>2, <4>2 DEF Queued
    <3> QED
      BY <3>2, <3>3, <3>4, <3>5
  <2>5. \A i \in Job : Served(i)' <=> Served(i) \/ i = j
    BY <2>2, <2>3 DEF Served
  <2>6. ~Served(j) /\ j \notin done
    BY <2>2, <2>4 DEF IInv, OneHolder, Lives
  <2>7. Shape'
    BY <2>1, <2>2, <2>3 DEF IInv, Shape, ServingPC, WorkerPC
  <2>8. PoolStarts'
    BY <2>1, <2>3 DEF IInv, PoolStarts
  <2>9. OneHolder'
    <3>1. \A u, v \in Worker :
            worker'[u].job = worker'[v].job /\ worker'[u].job # None => u = v
      BY <2>3, <2>6 DEF IInv, OneHolder, Served
    <3>2. \A i \in Job : ~(Queued(i)' /\ Served(i)')
      BY <2>4, <2>5 DEF IInv, OneHolder
    <3> QED
      BY <2>1, <2>4, <3>1, <3>2 DEF IInv, OneHolder
  <2>10. Flying'
    <3> SUFFICES ASSUME NEW i \in Job PROVE (Flying!(i))'
      BY DEF Flying
    <3>1. i \in inflight <=>
            \/ Queued(i)
            \/ \E v \in Worker : worker[v].job = i /\ worker[v].pc \in {"resolve", "remove"}
      BY DEF IInv, Flying
    <3>2. (\E v \in Worker : worker'[v].job = i /\ worker'[v].pc \in {"resolve", "remove"})
            <=> \/ i = j
                \/ \E v \in Worker : worker[v].job = i
                                     /\ worker[v].pc \in {"resolve", "remove"}
      BY <2>3
    <3> QED
      BY <2>1, <2>4, <3>1, <3>2
  <2>11. Lives'
    <3> SUFFICES ASSUME NEW i \in Job PROVE (Lives!(i))'
      BY DEF Lives
    <3>1. Called(i)' <=> Called(i)
      BY <2>1 DEF Called
    <3> QED
      BY <2>1, <2>3, <2>4, <2>5, <2>6, <3>1 DEF IInv, Lives
  <2>12. OneInFlight'
    BY <2>1 DEF IInv, OneInFlight
  <2> QED
    BY <2>7, <2>8, <2>9, <2>10, <2>11, <2>12 DEF IInv
<1> QED
  BY <1>1, <1>2

\* The steps of a worker that has a job: until the last one it keeps it.
LEMMA ResolveStep ==
  ASSUME IInv, NEW w \in Worker, Resolve(w) \/ EndFlight(w)
  PROVE  IInv'
<1> USE NoneIsNoJob
<1> DEFINE j == worker[w].job
<1>1. /\ worker[w].pc \in {"resolve", "remove"}
      /\ \/ worker' = [worker EXCEPT ![w].pc = "remove"] /\ inflight' = inflight
         \/ worker' = [worker EXCEPT ![w].pc = "publish"] /\ inflight' = inflight \ {j}
      /\ UNCHANGED <<pool, queue, query, done, abandoned, caller>>
  BY DEF Resolve, EndFlight, WAt, WGoto, listVars, jobVars
<1>2. /\ worker' \in [Worker -> [pc : WorkerPC, job : Job \union {None}]]
      /\ \A v \in Worker : worker'[v].job = worker[v].job
      /\ \A v \in Worker : v # w => worker'[v] = worker[v]
      /\ \/ worker'[w].pc = "remove" /\ inflight' = inflight
         \/ worker'[w].pc = "publish" /\ inflight' = inflight \ {j}
  BY <1>1 DEF IInv, Shape, WorkerPC
<1>3. j \in Job /\ ~Queued(j) /\ \A v \in Worker : worker[v].job = j => v = w
  BY <1>1 DEF IInv, Shape, ServingPC, OneHolder, Served
<1>4. Shape' /\ PoolStarts'
  BY <1>1, <1>2 DEF IInv, Shape, PoolStarts, ServingPC
<1>5. OneHolder' /\ OneInFlight'
  BY <1>1, <1>2 DEF IInv, OneHolder, OneInFlight, Queued, Served
<1>6. Flying'
  BY <1>1, <1>2, <1>3 DEF IInv, Flying, Queued
<1>7. Lives'
  BY <1>1, <1>2 DEF IInv, Lives, Queued, Served, Called
<1> QED
  BY <1>4, <1>5, <1>6, <1>7 DEF IInv

\* The answer is published: the job is its caller's, or the worker's to free.
LEMMA PublishStep ==
  ASSUME IInv, NEW w \in Worker, Publish(w)
  PROVE  IInv'
<1> USE NoneIsNoJob
<1> DEFINE j == worker[w].job
<1>1. /\ worker[w].pc = "publish" /\ done' = done \union {j}
      /\ \/ j \in abandoned /\ worker' = [worker EXCEPT ![w].pc = "destroy"]
         \/ j \notin abandoned /\ worker' = [worker EXCEPT ![w] = [pc |-> "next", job |-> None]]
      /\ UNCHANGED <<pool, queue, inflight, query, abandoned, caller>>
  BY DEF Publish, WAt, listVars
<1>2. /\ worker' \in [Worker -> [pc : WorkerPC, job : Job \union {None}]]
      /\ \A v \in Worker : v # w => worker'[v] = worker[v]
      /\ \/ j \in abandoned /\ worker'[w].pc = "destroy" /\ worker'[w].job = j
         \/ j \notin abandoned /\ worker'[w].pc = "next" /\ worker'[w].job = None
  BY <1>1 DEF IInv, Shape, WorkerPC
<1>3. j \in Job /\ ~Queued(j) /\ \A v \in Worker : worker[v].job = j => v = w
  BY <1>1 DEF IInv, Shape, ServingPC, OneHolder, Served
<1>4. Shape' /\ PoolStarts'
  BY <1>1, <1>2, <1>3 DEF IInv, Shape, PoolStarts, ServingPC
<1>5. OneHolder' /\ OneInFlight'
  BY <1>1, <1>2 DEF IInv, OneHolder, OneInFlight, Queued, Served
<1>6. Flying'
  BY <1>1, <1>2 DEF IInv, Flying, Queued
<1>7. \A i \in Job : i # j => (Served(i)' <=> Served(i))
  BY <1>2 DEF Served
<1>8. \A c \in Caller : caller[c].job = j => caller[c].pc = "wait"
  BY <1>3 DEF IInv, Lives, Served
<1>9. query[j] # None /\ (Called(j) <=> j \notin abandoned)
  BY <1>3 DEF IInv, Lives, Served
<1>10. Lives'
  <2> SUFFICES ASSUME NEW i \in Job PROVE (Lives!(i))'
    BY DEF Lives
  <2>1. (Called(i)' <=> Called(i)) /\ (Queued(i)' <=> Queued(i))
    BY <1>1 DEF Called, Queued
  <2>2. CASE i = j
    <3>1. i \in abandoned => Served(i)'
      BY <1>2, <2>2 DEF Served
    <3>2. \A v \in Worker : worker'[v].job = i =>
            v = w /\ i \in abandoned /\ worker'[v].pc = "destroy"
      BY <1>2, <1>3, <2>2
    <3>3. \A c \in Caller : caller'[c].job = i =>
            query[i] = caller[c].query /\ caller[c].pc = "wait"
      BY <1>1, <1>3, <1>8, <2>2 DEF IInv, Lives
    <3>4. /\ query' = query /\ query[i] # None
          /\ done' = done \union {i} /\ abandoned' = abandoned /\ caller' = caller
          /\ ~Queued(i) /\ (Called(i) <=> i \notin abandoned)
      BY <1>1, <1>3, <1>9, <2>2
    <3> HIDE DEF j
    <3> QED
      BY <2>1, <3>1, <3>2, <3>3, <3>4
  <2>3. CASE i # j
    <3> HIDE DEF j
    <3> QED
      BY <1>1, <1>2, <1>7, <2>1, <2>3 DEF IInv, Lives
  <2> QED
    BY <2>2, <2>3
<1> QED
  BY <1>4, <1>5, <1>6, <1>10 DEF IInv

\* A worker frees the job whose caller gave up.
LEMMA WorkerFrees ==
  ASSUME IInv, NEW w \in Worker, DestroyAbandoned(w)
  PROVE  IInv'
<1> USE NoneIsNoJob
<1> DEFINE j == worker[w].job
<1>1. /\ worker[w].pc = "destroy"
      /\ worker' = [worker EXCEPT ![w] = [pc |-> "next", job |-> None]]
      /\ query' = [query EXCEPT ![j] = None]
      /\ done' = done \ {j} /\ abandoned' = abandoned \ {j}
      /\ UNCHANGED <<pool, queue, inflight, caller>>
  BY DEF DestroyAbandoned, Destroy, WAt, listVars
<1>2. /\ worker' \in [Worker -> [pc : WorkerPC, job : Job \union {None}]]
      /\ \A v \in Worker : v # w => worker'[v] = worker[v]
      /\ worker'[w].pc = "next" /\ worker'[w].job = None
  BY <1>1 DEF IInv, Shape, WorkerPC
<1>3. j \in Job /\ ~Queued(j) /\ \A v \in Worker : worker[v].job = j => v = w
  BY <1>1 DEF IInv, Shape, ServingPC, OneHolder, Served
<1>4. j \in abandoned /\ ~Called(j)
  BY <1>1, <1>3 DEF IInv, Lives, Served
<1>5. j \notin inflight
  BY <1>1, <1>3 DEF IInv, Flying
<1>6. Shape' /\ PoolStarts'
  BY <1>1, <1>2, <1>3 DEF IInv, Shape, PoolStarts, ServingPC
<1>7. OneHolder' /\ Flying' /\ OneInFlight'
  BY SMTT(30), <1>1, <1>2, <1>3, <1>5
  DEF IInv, Shape, OneHolder, Flying, OneInFlight, Queued, Served
<1>8. Lives'
  <2> SUFFICES ASSUME NEW i \in Job PROVE (Lives!(i))'
    BY DEF Lives
  <2>1. (Called(i)' <=> Called(i)) /\ (Queued(i)' <=> Queued(i))
    BY <1>1 DEF Called, Queued
  <2>2. Served(i)' <=> Served(i) /\ i # j
    BY <1>2, <1>3 DEF Served
  <2>3. query'[i] = IF i = j THEN None ELSE query[i]
    BY <1>1 DEF IInv, Shape
  <2>4. CASE i = j
    <3>1. /\ \A c \in Caller : caller'[c].job # j
          /\ \A v \in Worker : worker'[v].job # j
      BY <1>1, <1>2, <1>3, <1>4 DEF Called
    <3> HIDE DEF j
    <3> QED
      BY <1>1, <1>3, <1>4, <2>1, <2>2, <2>3, <2>4, <3>1
  <2>5. CASE i # j
    <3> HIDE DEF j
    <3> QED
      BY <1>1, <1>2, <2>1, <2>2, <2>3, <2>5 DEF IInv, Lives
  <2> QED
    BY <2>4, <2>5
<1> QED
  BY <1>6, <1>7, <1>8 DEF IInv

\* Every step of the resolver preserves the invariant.
LEMMA Step == IInv /\ [Next]_vars => IInv'
<1> SUFFICES ASSUME IInv, [Next]_vars PROVE IInv'
  OBVIOUS
<1>1. ASSUME NEW c \in Caller, Proceed(c) PROVE IInv'
  BY <1>1, CallerKeeps, SpawnStep, EnqueueStep, CallerFrees DEF Proceed
<1>2. ASSUME NEW c \in Caller, Expire(c) \/ \E q \in Query : Call(c, q) PROVE IInv'
  BY <1>2, CallerKeeps
<1>3. ASSUME NEW w \in Worker, Serve(w) PROVE IInv'
  BY <1>3, DequeueStep, ResolveStep, PublishStep, WorkerFrees DEF Serve
<1>4. CASE UNCHANGED vars \/ \E q \in Query : Evict(q)
  <2>1. UNCHANGED <<pool, queue, inflight, query, done, abandoned, caller, worker>>
    BY <1>4 DEF vars, Evict, listVars, jobVars
  <2>2. Shape' /\ PoolStarts' /\ OneHolder' /\ Flying'
    BY <2>1 DEF IInv, Shape, PoolStarts, OneHolder, Flying, Queued, Served
  <2>3. Lives' /\ OneInFlight'
    BY <2>1 DEF IInv, Lives, OneInFlight, Called, Queued, Served
  <2> QED
    BY <2>2, <2>3 DEF IInv
<1> QED
  BY <1>1, <1>2, <1>3, <1>4 DEF Next

LEMMA Invariant == Spec => []IInv
BY Initial, Step, PTL DEF Spec

\* A set whose members are all equal has at most one.
LEMMA AtMostOne ==
  ASSUME NEW S, \A x, y \in S : x = y
  PROVE  Cardinality(S) <= 1
<1>1. CASE S = {}
  BY <1>1, FS_EmptySet
<1>2. CASE S # {}
  <2>1. PICK x : x \in S
    BY <1>2
  <2>2. S = {x}
    BY <2>1
  <2> QED
    BY <2>2, FS_Singleton
<1> QED
  BY <1>1, <1>2

\* Each job of getaddrinfo_with_deadline is freed once, by the last that holds it: its
\* caller, or the worker when the caller gave up first; nobody uses it afterwards.
LEMMA Ownership == Spec => []JobsOwned
<1>1. ASSUME IInv PROVE JobsOwned
  <2> USE <1>1, NoneIsNoJob
  <2>1. \A j \in Job : Cardinality(CallerHolds(j)) <= 1 /\ Cardinality(WorkerHolds(j)) <= 1
    <3> TAKE j \in Job
    <3>1. \A c, d \in CallerHolds(j) : c = d
      BY DEF IInv, OneHolder, CallerHolds
    <3>2. \A v, w \in WorkerHolds(j) : v = w
      BY DEF IInv, OneHolder, WorkerHolds
    <3> QED
      BY <3>1, <3>2, AtMostOne
  <2>2. QueuedJobs \union inflight \subseteq Allocated
    BY DEF IInv, Shape, Lives, Flying, Queued, Served, QueuedJobs, Allocated
  <2>3. ASSUME NEW j \in Job
        PROVE  /\ CallerHolds(j) \union WorkerHolds(j) # {} => j \in Allocated
               /\ j \in Allocated => (CallerHolds(j) = {}) = (j \in abandoned)
               /\ j \in abandoned => j \in QueuedJobs \/ WorkerHolds(j) # {}
    <3>1. /\ CallerHolds(j) # {} <=> Called(j)
          /\ WorkerHolds(j) # {} <=> Served(j)
          /\ j \in QueuedJobs <=> Queued(j)
      BY DEF CallerHolds, WorkerHolds, QueuedJobs, Called, Served, Queued
    <3> QED
      BY <3>1 DEF IInv, Lives, Allocated
  <2> QED
    BY <2>1, <2>2, <2>3 DEF JobsOwned
<1> QED
  BY Invariant, <1>1, PTL

\* resolver_find_inflight_locked and the insertion are one critical section: a query is
\* in flight at most once, whoever asks it.
LEMMA Coalescing == Spec => []OneInFlight
<1>1. IInv => OneInFlight
  BY DEF IInv
<1> QED
  BY Invariant, <1>1, PTL

Reserved == {c \in Caller : caller[c].pc \in {"refused", "allocate"}}

\* One element more, or less.
LEMMA OneMore ==
  ASSUME NEW S, IsFiniteSet(S), NEW x, x \notin S
  PROVE  Cardinality(S \union {x}) = Cardinality(S) + 1 /\ Cardinality(S) \in Nat
BY FS_AddElement, FS_CardinalityType

LEMMA OneLess ==
  ASSUME NEW S, IsFiniteSet(S), NEW x \in S
  PROVE  Cardinality(S \ {x}) = Cardinality(S) - 1 /\ Cardinality(S) \in Nat
BY FS_RemoveElement, FS_CardinalityType

\* Jobs and callers are finitely many.
LEMMA Finite == IsFiniteSet(Allocated) /\ IsFiniteSet(Reserved)
<1>1. IsFiniteSet(Job) /\ IsFiniteSet(Caller)
  BY FS_Interval, ResolverAssumption DEF Job
<1>2. Allocated \subseteq Job /\ Reserved \subseteq Caller
  BY DEF Allocated, Reserved
<1> QED
  BY <1>1, <1>2, FS_Subset

\* A step counts what it allocates, reserves or frees.
LEMMA CountStep ==
  ASSUME IInv, PendingExact, [Next]_vars
  PROVE  PendingExact'
<1> USE NoneIsNoJob DEF At, Goto, Return, Idle
<1> DEFINE total == Cardinality(Allocated) + Cardinality(Reserved)
<1>1. pending = total /\ total \in Nat
  BY Finite, FS_CardinalityType DEF PendingExact, Reserved
<1> SUFFICES pending' = total'
  BY DEF PendingExact, Reserved
<1>2. ASSUME NEW c \in Caller, Reserve(c) PROVE pending' = total'
  <2>1. Allocated' = Allocated
    BY <1>2 DEF Reserve, jobVars, Allocated
  <2>2. c \notin Reserved /\ Reserved' = Reserved \union {c}
    BY <1>2 DEF Reserve, Reserved, IInv, Shape
  <2>3. pending' = pending + 1
    BY <1>2 DEF Reserve
  <2> QED
    BY <1>1, <2>1, <2>2, <2>3, Finite, OneMore, FS_CardinalityType
<1>3. ASSUME NEW c \in Caller, Refused(c) PROVE pending' = total'
  <2>1. Allocated' = Allocated
    BY <1>3 DEF Refused, jobVars, Allocated
  <2>2. c \in Reserved /\ Reserved' = Reserved \ {c}
    BY <1>3 DEF Refused, Reserved, IInv, Shape
  <2>3. pending' = pending - 1
    BY <1>3 DEF Refused
  <2> QED
    BY <1>1, <2>1, <2>2, <2>3, Finite, OneLess, FS_CardinalityType
<1>4. ASSUME NEW c \in Caller, Allocate(c) PROVE pending' = total'
  <2> PICK j \in Job :
         /\ query[j] = None
         /\ query' = [query EXCEPT ![j] = caller[c].query]
         /\ caller' = [caller EXCEPT ![c].pc = "pool", ![c].job = j]
    BY <1>4 DEF Allocate
  <2>1. caller[c].pc = "allocate" /\ caller[c].query # None /\ pending' = pending
    BY <1>4 DEF Allocate, IInv, Shape
  <2>2. j \notin Allocated /\ Allocated' = Allocated \union {j}
    BY <2>1 DEF Allocated, IInv, Shape
  <2>3. c \in Reserved /\ Reserved' = Reserved \ {c}
    BY <2>1 DEF Reserved, IInv, Shape
  <2>4. Cardinality(Allocated') = Cardinality(Allocated) + 1 /\ Cardinality(Allocated) \in Nat
    BY <2>2, Finite, OneMore
  <2>5. Cardinality(Reserved') = Cardinality(Reserved) - 1 /\ Cardinality(Reserved) \in Nat
    BY <2>3, Finite, OneLess
  <2> QED
    BY <1>1, <2>1, <2>4, <2>5
<1>5. ASSUME NEW j \in Job, query[j] # None, Destroy(j), Reserved' = Reserved
      PROVE  pending' = total'
  <2>1. j \in Allocated /\ Allocated' = Allocated \ {j} /\ pending' = pending - 1
    BY <1>5 DEF Allocated, Destroy, IInv, Shape
  <2> QED
    BY <1>1, <1>5, <2>1, Finite, OneLess, FS_CardinalityType
<1>6. ASSUME NEW c \in Caller, Discard(c) \/ GiveUp(c) \/ FreeJob(c)
      PROVE  pending' = total'
  <2>1. caller[c].job \in Job
    BY <1>6 DEF Discard, GiveUp, FreeJob, IInv, Shape, HoldingPC
  <2>2. query[caller[c].job] # None
    BY <2>1 DEF IInv, Lives, Called
  <2>3. Destroy(caller[c].job)
    BY <1>6 DEF Discard, GiveUp, FreeJob
  <2>4. Reserved' = Reserved
    BY <1>6 DEF Discard, GiveUp, FreeJob, Reserved, IInv, Shape
  <2> QED
    BY <1>5, <2>1, <2>2, <2>3, <2>4
<1>7. ASSUME NEW w \in Worker, DestroyAbandoned(w) PROVE pending' = total'
  <2>1. worker[w].job \in Job
    BY <1>7 DEF DestroyAbandoned, WAt, IInv, Shape, ServingPC
  <2>2. query[worker[w].job] # None
    BY <2>1 DEF IInv, Lives, Served
  <2>3. Destroy(worker[w].job) /\ Reserved' = Reserved
    BY <1>7 DEF DestroyAbandoned, Reserved
  <2> QED
    BY <1>5, <2>1, <2>2, <2>3
<1>8. ASSUME UNCHANGED <<pending, query>>, Reserved' = Reserved PROVE pending' = total'
  BY <1>1, <1>8 DEF Allocated
<1>9. ASSUME NEW c \in Caller,
             \/ EnsurePool(c) \/ Spawn(c) \/ PublishPool(c) \/ Enqueue(c)
             \/ Coalesce(c) \/ Abandon(c) \/ Expire(c) \/ \E q \in Query : Call(c, q)
      PROVE  pending' = total'
  <2>1. UNCHANGED <<pending, query>>
    BY <1>9 DEF EnsurePool, Spawn, PublishPool, Enqueue, Coalesce, Abandon, Expire, Call,
                jobVars
  <2>2. Reserved' = Reserved
    <3>1. CASE EnsurePool(c)
      BY <3>1 DEF EnsurePool, Reserved, IInv, Shape
    <3>2. CASE Spawn(c) \/ PublishPool(c)
      <4>1. /\ caller[c].pc \in {"spawn", "spawned"}
            /\ \E pc \in {"spawned", "failed", "enqueue"} :
                 caller' = [caller EXCEPT ![c].pc = pc]
        BY <3>2 DEF Spawn, PublishPool
      <4> QED
        BY <4>1 DEF Reserved, IInv, Shape
    <3>3. CASE Enqueue(c)
      BY SMTT(30), <3>3 DEF Enqueue, Queue, Reserved, IInv, Shape
    <3>4. CASE Coalesce(c) \/ Abandon(c) \/ Expire(c)
      BY <3>4 DEF Coalesce, Abandon, Expire, Reserved, IInv, Shape
    <3>5. CASE \E q \in Query : Call(c, q)
      BY <3>5 DEF Call, Reserved, IInv, Shape
    <3> QED
      BY <1>9, <3>1, <3>2, <3>3, <3>4, <3>5
  <2> QED
    BY <1>8, <2>1, <2>2
<1>10. ASSUME NEW w \in Worker, Dequeue(w) \/ Resolve(w) \/ EndFlight(w) \/ Publish(w)
       PROVE  pending' = total'
  BY <1>8, <1>10 DEF Dequeue, Resolve, EndFlight, Publish, jobVars, Reserved
<1>11. CASE UNCHANGED vars \/ \E q \in Query : Evict(q)
  BY <1>8, <1>11 DEF vars, Evict, jobVars, Reserved
<1> QED
  BY <1>2, <1>3, <1>4, <1>6, <1>7, <1>9, <1>10, <1>11 DEF Next, Proceed, Serve

\* g_pending_resolvers, which limits the queries that wait for the host, is exact: no
\* way out of getaddrinfo_with_deadline forgets to lower it or lowers it twice.
LEMMA PendingCount == Spec => []PendingExact
<1>1. Init => PendingExact
  <2> SUFFICES ASSUME Init PROVE PendingExact
    OBVIOUS
  <2>1. Allocated = {} /\ Reserved = {} /\ pending = 0
    BY DEF Init, Allocated, Reserved, Idle
  <2> QED
    BY <2>1, FS_EmptySet DEF PendingExact, Reserved
<1> QED
  BY <1>1, Invariant, CountStep, PTL DEF Spec

\* Who sleeps, and why: a worker for a job, a caller for the workers or for an answer.
Asleep ==
  /\ asleep \subseteq Caller \union Worker
  /\ \A w \in Worker \intersect asleep : worker[w].pc = "next"
  /\ \A c \in Caller \intersect asleep :
       \/ caller[c].pc = "pool" /\ pool = "starting"
       \/ caller[c].pc = "coalesce" /\ InFlight(caller[c].query)

\* There is a worker once there may be a job for it, and one is awake if there is.
Manned ==
  /\ pool = "ready" => \E w \in Worker : worker[w].pc # "none"
  /\ \A c \in Caller : caller[c].pc = "enqueue" => pool = "ready"
  /\ queue # <<>> => \E w \in Worker : worker[w].pc # "none" /\ w \notin asleep

Rest == cache \subseteq Query /\ expired \subseteq Caller

WInv == Asleep /\ Manned /\ Rest

\* Callers and workers are different threads.
LEMMA Apart == \A c \in Caller, w \in Worker : c # w
BY ResolverAssumption

\* The one that is woken when all workers sleep is a worker: a caller that sleeps as
\* well has a query in flight, and the worker of that query is awake.
LEMMA WorkerWakes ==
  ASSUME IInv, WInv, pool = "ready", WakeOne
  PROVE  \E w \in Worker : worker[w].pc # "none" /\ w \notin asleep'
<1> USE NoneIsNoJob, Apart
<1>0. asleep' \subseteq asleep
  BY DEF WakeOne
<1>1. CASE \E w \in Worker : worker[w].pc # "none" /\ w \notin asleep
  BY <1>0, <1>1
<1>2. CASE \A w \in Worker : worker[w].pc # "none" => w \in asleep
  <2>1. queue = <<>>
    BY <1>2 DEF WInv, Manned
  <2>2. inflight = {}
    <3> SUFFICES ASSUME NEW j \in inflight PROVE FALSE
      OBVIOUS
    <3>1. j \in Job /\ ~Queued(j)
      BY <2>1 DEF IInv, Shape, Queued
    <3>2. PICK w \in Worker : worker[w].pc \in {"resolve", "remove"}
      BY <3>1 DEF IInv, Flying
    <3> QED
      BY <1>2, <3>2 DEF WInv, Asleep
  <2>3. Caller \intersect asleep = {}
    BY <2>2 DEF WInv, Asleep, InFlight
  <2>4. PICK w \in Worker : worker[w].pc # "none"
    BY DEF WInv, Manned
  <2>5. w \in asleep
    BY <1>2, <2>4
  <2>6. PICK t \in asleep : asleep' = asleep \ {t}
    BY <2>5 DEF WakeOne
  <2>7. t \in Worker /\ worker[t].pc = "next" /\ t \notin asleep'
    BY <2>3, <2>6 DEF WInv, Asleep
  <2> QED
    BY <2>7
<1> QED
  BY <1>1, <1>2

\* What is in flight stays so, unless a worker removes it.
LEMMA StaysInFlight ==
  ASSUME IInv, inflight \subseteq inflight', \A j \in inflight : query'[j] = query[j]
  PROVE  \A q \in Query : InFlight(q) => InFlight(q)'
BY DEF InFlight

\* The steps of callers, but the three that meet the condition variable with others on it.
LEMMA CallerWakes ==
  ASSUME IInv, WInv, NEW c \in Caller,
         \/ \E q \in Query : Call(c, q)
         \/ Reserve(c) \/ Refused(c) \/ Allocate(c) \/ EnsurePool(c)
         \/ Coalesce(c) \/ Expire(c) \/ Abandon(c)
         \/ Discard(c) \/ GiveUp(c) \/ FreeJob(c)
  PROVE  WInv'
<1> USE NoneIsNoJob, Apart
<1>1. UNCHANGED <<queue, inflight, worker, cache>> /\ expired' \subseteq expired \union {c}
  <2>1. CASE \/ \E q \in Query : Call(c, q)
             \/ Reserve(c) \/ Refused(c) \/ Allocate(c) \/ EnsurePool(c)
    BY <2>1 DEF Call, Reserve, Refused, Allocate, EnsurePool, Return, listVars
  <2>2. CASE \/ Coalesce(c) \/ Expire(c) \/ Abandon(c)
             \/ Discard(c) \/ GiveUp(c) \/ FreeJob(c)
    BY <2>2 DEF Coalesce, Expire, Abandon, Discard, GiveUp, FreeJob, Return, listVars
  <2> QED
    BY <2>1, <2>2
<1>2. \A d \in Caller : d # c => caller'[d] = caller[d]
  <2>1. CASE \/ \E q \in Query : Call(c, q)
             \/ Reserve(c) \/ Refused(c) \/ Allocate(c) \/ EnsurePool(c)
    BY <2>1 DEF Call, Reserve, Refused, Allocate, EnsurePool, Return, Goto, IInv, Shape
  <2>2. CASE \/ Coalesce(c) \/ Expire(c) \/ Abandon(c)
             \/ Discard(c) \/ GiveUp(c) \/ FreeJob(c)
    BY <2>2 DEF Coalesce, Expire, Abandon, Discard, GiveUp, FreeJob, Return, IInv, Shape
  <2> QED
    BY <2>1, <2>2
<1>3. /\ \/ pool' = pool
         \/ pool = "stopped" /\ pool' = "starting"
      /\ caller'[c].pc = "enqueue" => pool' = "ready"
  <2>1. CASE EnsurePool(c)
    BY <2>1 DEF EnsurePool, Goto, At, IInv, Shape
  <2>2. CASE \/ \E q \in Query : Call(c, q)
             \/ Reserve(c) \/ Refused(c) \/ Allocate(c)
    <3>1. pool' = pool
      BY <2>2 DEF Call, Reserve, Refused, Allocate
    <3>2. caller'[c].pc # "enqueue"
      <4>1. CASE \E q \in Query : Call(c, q)
        <5> PICK q \in Query : caller' = [caller EXCEPT ![c] = [Idle EXCEPT !.pc = "reserve",
                                                                            !.query = q]]
          BY <4>1 DEF Call
        <5>1. [Idle EXCEPT !.pc = "reserve", !.query = q].pc = "reserve"
          BY DEF Idle
        <5>2. caller'[c] = [Idle EXCEPT !.pc = "reserve", !.query = q]
          BY DEF IInv, Shape
        <5> QED
          BY <5>1, <5>2
      <4>2. CASE Reserve(c)
        BY <4>2 DEF Reserve, Goto, IInv, Shape
      <4>3. CASE Refused(c)
        BY <4>3 DEF Refused, Return, Idle, IInv, Shape
      <4>4. CASE Allocate(c)
        <5> PICK j \in Job : caller' = [caller EXCEPT ![c].pc = "pool", ![c].job = j]
          BY <4>4 DEF Allocate
        <5> QED
          BY DEF IInv, Shape
      <4> QED
        BY <2>2, <4>1, <4>2, <4>3, <4>4
    <3> QED
      BY <3>1, <3>2
  <2>3. CASE \/ Coalesce(c) \/ Expire(c) \/ Abandon(c)
             \/ Discard(c) \/ GiveUp(c) \/ FreeJob(c)
    BY <2>3 DEF Coalesce, Expire, Abandon, Discard, GiveUp, FreeJob, Return, At, Idle,
                IInv, Shape
  <2> QED
    BY <2>1, <2>2, <2>3
<1>4. \A q \in Query : InFlight(q) => InFlight(q)'
  <2>1. \A j \in inflight : query'[j] = query[j]
    <3>1. \A j \in inflight : query[j] # None /\ (Queued(j) \/ Served(j)) /\ j \in Job
      BY DEF IInv, Shape, Flying, Lives, Served
    <3>2. CASE Allocate(c)
      BY <3>1, <3>2 DEF Allocate, IInv, Shape
    <3>3. CASE Discard(c) \/ GiveUp(c) \/ FreeJob(c)
      <4>1. /\ query' = [query EXCEPT ![caller[c].job] = None]
            /\ caller[c].pc \in {"duplicate", "failed"} \/ caller[c].job \in done
            /\ caller[c].pc \in {"duplicate", "failed", "wait"}
        BY <3>3 DEF Discard, GiveUp, FreeJob, Destroy, At
      <4>2. caller[c].job \in Job
        BY <4>1 DEF IInv, Shape, HoldingPC
      <4>3. caller[c].job \notin inflight
        <5>1. CASE caller[c].pc \in {"duplicate", "failed"}
          BY <3>1, <4>2, <5>1 DEF IInv, Lives
        <5>2. CASE caller[c].job \in done
          BY <4>2, <5>2 DEF IInv, Lives, Flying
        <5> QED
          BY <4>1, <5>1, <5>2
      <4> QED
        BY <3>1, <4>1, <4>3 DEF IInv, Shape
    <3>4. CASE \/ \E q \in Query : Call(c, q)
               \/ Reserve(c) \/ Refused(c) \/ EnsurePool(c)
               \/ Coalesce(c) \/ Expire(c) \/ Abandon(c)
      BY <3>4 DEF Call, Reserve, Refused, EnsurePool, Coalesce, Expire, Abandon, jobVars
    <3> QED
      BY <3>2, <3>3, <3>4
  <2> QED
    BY <1>1, <2>1, StaysInFlight
<1>5. /\ asleep' \subseteq asleep \union {c}
      /\ \A w \in Worker : w \in asleep' <=> w \in asleep
      /\ c \in asleep' => \/ caller'[c].pc = "pool" /\ pool' = "starting"
                          \/ caller'[c].pc = "coalesce" /\ InFlight(caller[c].query)'
  <2>1. CASE EnsurePool(c)
    BY <2>1 DEF EnsurePool, Sleep, At
  <2>2. CASE Coalesce(c)
    <3>1. CASE asleep' = asleep
      BY <2>2, <3>1 DEF Coalesce, At
    <3>2. CASE Sleep(c) /\ InFlight(caller[c].query) /\ caller' = caller
      BY <2>2, <3>2, <1>4 DEF Coalesce, Sleep, At, IInv, Shape
    <3> QED
      BY <2>2, <3>1, <3>2 DEF Coalesce
  <2>3. CASE Expire(c)
    BY <2>3 DEF Expire
  <2>4. CASE \/ \E q \in Query : Call(c, q)
             \/ Reserve(c) \/ Refused(c) \/ Allocate(c) \/ Abandon(c)
             \/ Discard(c) \/ GiveUp(c) \/ FreeJob(c)
    BY <2>4 DEF Call, Reserve, Refused, Allocate, Abandon, Discard, GiveUp, FreeJob, At
  <2> QED
    BY <2>1, <2>2, <2>3, <2>4
<1>6. Asleep'
  <2> SUFFICES ASSUME NEW d \in Caller \intersect asleep', d # c
               PROVE  \/ caller'[d].pc = "pool" /\ pool' = "starting"
                      \/ caller'[d].pc = "coalesce" /\ InFlight(caller[d].query)'
    BY <1>1, <1>5 DEF Asleep, WInv
  <2>1. \/ caller[d].pc = "pool" /\ pool = "starting"
        \/ caller[d].pc = "coalesce" /\ InFlight(caller[d].query)
    BY <1>5 DEF Asleep, WInv
  <2>2. caller[d].pc = "coalesce" => caller[d].query \in Query
    BY DEF IInv, Shape
  <2> QED
    BY <1>2, <1>3, <1>4, <2>1, <2>2
<1>7. Manned' /\ Rest'
  BY <1>1, <1>2, <1>3, <1>5 DEF WInv, Manned, Rest
<1> QED
  BY <1>6, <1>7 DEF WInv

\* The steps of a caller that wake others, or start what they wait for.
LEMMA CallerRouses ==
  ASSUME IInv, WInv, NEW c \in Caller, Spawn(c) \/ PublishPool(c) \/ Enqueue(c)
  PROVE  WInv'
<1> USE NoneIsNoJob, Apart
<1>1. CASE Spawn(c)
  <2>1. /\ UNCHANGED <<pool, queue, inflight, query, asleep, cache, expired>>
        /\ caller[c].pc = "spawn" /\ caller' = [caller EXCEPT ![c].pc = "spawned"]
        /\ c \notin asleep
    BY <1>1 DEF Spawn, At, Goto, listVars, jobVars
  <2>2. pool = "starting" /\ \A w \in Worker : worker[w].pc = "none"
    BY <2>1 DEF IInv, PoolStarts
  <2>3. Worker \intersect asleep = {} /\ queue = <<>>
    BY <2>2 DEF WInv, Asleep, Manned
  <2>4. Asleep'
    BY <2>1, <2>3 DEF WInv, Asleep, InFlight, IInv, Shape
  <2>5. Manned' /\ Rest'
    BY <2>1, <2>2, <2>3 DEF WInv, Manned, Rest, IInv, Shape
  <2> QED
    BY <2>4, <2>5 DEF WInv
<1>2. CASE PublishPool(c)
  <2>1. /\ UNCHANGED <<queue, inflight, query, worker, cache, expired>> /\ asleep' = {}
        /\ caller[c].pc = "spawned" /\ pool' = IF NoWorker THEN "stopped" ELSE "ready"
        /\ caller' = [caller EXCEPT ![c].pc = IF NoWorker THEN "failed" ELSE "enqueue"]
    BY <1>2 DEF PublishPool, WakeAll, At, Goto, listVars, jobVars
  <2>2. pool = "starting"
    BY <2>1 DEF IInv, PoolStarts
  <2>3. \A d \in Caller : caller'[d].pc = "enqueue" => d = c /\ ~NoWorker
    BY <2>1, <2>2 DEF WInv, Manned, IInv, Shape
  <2>4. Manned'
    BY <2>1, <2>3 DEF WInv, Manned, NoWorker
  <2> QED
    BY <2>1, <2>4 DEF WInv, Asleep, Rest
<1>3. CASE Enqueue(c)
  <2>1. /\ UNCHANGED <<pool, query, worker, cache, expired>>
        /\ caller[c].pc = "enqueue" /\ c \notin asleep
        /\ \E pc \in {"duplicate", "wait"} : caller' = [caller EXCEPT ![c].pc = pc]
        /\ inflight \subseteq inflight'
        /\ \/ UNCHANGED <<queue, asleep>>
           \/ WakeOne
    BY <1>3 DEF Enqueue, Queue, At, Goto, listVars, jobVars
  <2>2. pool = "ready" /\ asleep' \subseteq asleep
    BY <2>1 DEF WInv, Manned, WakeOne
  <2>3. \A d \in Caller : /\ caller'[d].query = caller[d].query
                          /\ IF d = c THEN caller'[d].pc \in {"duplicate", "wait"}
                             ELSE caller'[d].pc = caller[d].pc
    BY <2>1 DEF IInv, Shape
  <2>4. Asleep'
    BY <2>1, <2>2, <2>3 DEF WInv, Asleep, InFlight
  <2>5. queue' # <<>> => \E w \in Worker : worker'[w].pc # "none" /\ w \notin asleep'
    BY <2>1, <2>2, WorkerWakes DEF WInv, Manned
  <2>6. Manned' /\ Rest'
    BY <2>1, <2>2, <2>3, <2>5 DEF WInv, Manned, Rest
  <2> QED
    BY <2>4, <2>6 DEF WInv
<1> QED
  BY <1>1, <1>2, <1>3

\* The steps of workers.
LEMMA WorkerSleeps ==
  ASSUME IInv, WInv, NEW w \in Worker, Serve(w)
  PROVE  WInv'
<1> USE NoneIsNoJob, Apart
<1>1. CASE Dequeue(w)
  <2>1. /\ UNCHANGED <<pool, inflight, query, caller, cache, expired>>
        /\ worker[w].pc = "next" /\ w \notin asleep
        /\ \/ queue = <<>> /\ queue' = queue /\ worker' = worker /\ asleep' = asleep \union {w}
           \/ /\ asleep' = asleep
              /\ worker' = [worker EXCEPT ![w] = [pc |-> "resolve", job |-> Head(queue)]]
    BY <1>1 DEF Dequeue, WAt, Sleep, jobVars
  <2>2. \A v \in Worker : /\ worker'[v].pc # "none" <=> worker[v].pc # "none"
                          /\ v # w => worker'[v] = worker[v]
    BY <2>1 DEF IInv, Shape
  <2>3. Asleep'
    BY <2>1, <2>2 DEF WInv, Asleep, InFlight
  <2>4. Manned' /\ Rest'
    BY <2>1, <2>2 DEF WInv, Manned, Rest
  <2> QED
    BY <2>3, <2>4 DEF WInv
<1>2. CASE Resolve(w)
  <2>1. /\ UNCHANGED <<pool, queue, inflight, query, caller, expired, asleep>>
        /\ worker[w].pc = "resolve" /\ worker' = [worker EXCEPT ![w].pc = "remove"]
        /\ w \notin asleep
        /\ cache' \in {cache, cache \union {query[worker[w].job]}}
    BY <1>2 DEF Resolve, WAt, WGoto, listVars, jobVars
  <2>2. query[worker[w].job] \in Query
    BY <2>1 DEF IInv, Shape, ServingPC, Lives, Served
  <2>3. \A v \in Worker : worker'[v].pc = IF v = w THEN "remove" ELSE worker[v].pc
    BY <2>1 DEF IInv, Shape
  <2> QED
    BY <2>1, <2>2, <2>3 DEF WInv, Asleep, Manned, Rest, InFlight
<1>3. CASE EndFlight(w)
  <2>1. /\ UNCHANGED <<pool, queue, caller, cache, expired>> /\ asleep' = {}
        /\ worker[w].pc = "remove" /\ worker' = [worker EXCEPT ![w].pc = "publish"]
    BY <1>3 DEF EndFlight, WAt, WGoto, WakeAll
  <2>2. \A v \in Worker : worker'[v].pc = IF v = w THEN "publish" ELSE worker[v].pc
    BY <2>1 DEF IInv, Shape
  <2> QED
    BY <2>1, <2>2 DEF WInv, Asleep, Manned, Rest
<1>4. CASE Publish(w) \/ DestroyAbandoned(w)
  <2>1. /\ UNCHANGED <<pool, queue, inflight, caller, cache, expired, asleep>>
        /\ worker[w].pc \in {"publish", "destroy"} /\ w \notin asleep
        /\ worker' \in [Worker -> [pc : WorkerPC, job : Job \union {None}]]
        /\ worker'[w].pc \in {"next", "destroy"}
        /\ \A v \in Worker : v # w => worker'[v] = worker[v]
    <3>1. CASE Publish(w)
      BY <3>1 DEF Publish, WAt, listVars, IInv, Shape, WorkerPC
    <3>2. CASE DestroyAbandoned(w)
      BY <3>2 DEF DestroyAbandoned, WAt, listVars, IInv, Shape, WorkerPC
    <3> QED
      BY <1>4, <3>1, <3>2
  <2>2. \A j \in inflight : query'[j] = query[j]
    <3>1. CASE Publish(w)
      BY <3>1 DEF Publish
    <3>2. CASE DestroyAbandoned(w)
      <4>1. worker[w].pc = "destroy" /\ query' = [query EXCEPT ![worker[w].job] = None]
        BY <3>2 DEF DestroyAbandoned, Destroy, WAt
      <4>2. worker[w].job \in Job /\ worker[w].job \in done
        BY <4>1 DEF IInv, Shape, ServingPC, Lives
      <4>3. worker[w].job \notin inflight
        BY <4>2 DEF IInv, Lives, Flying
      <4> QED
        BY <4>1, <4>3 DEF IInv, Shape
    <3> QED
      BY <1>4, <3>1, <3>2
  <2>3. Asleep'
    BY <2>1, <2>2 DEF WInv, Asleep, InFlight
  <2>4. Manned' /\ Rest'
    BY <2>1 DEF WInv, Manned, Rest
  <2> QED
    BY <2>3, <2>4 DEF WInv
<1> QED
  BY <1>1, <1>2, <1>3, <1>4 DEF Serve

LEMMA WakeInvariant == Spec => []WInv
<1>1. Init => WInv
  BY DEF Init, WInv, Asleep, Manned, Rest, Idle
<1>2. ASSUME IInv, WInv, [Next]_vars PROVE WInv'
  <2>1. CASE UNCHANGED vars \/ \E q \in Query : Evict(q)
    BY <1>2, <2>1
    DEF vars, Evict, listVars, jobVars, WInv, Asleep, Manned, Rest, InFlight
  <2> QED
    BY <1>2, <2>1, CallerWakes, CallerRouses, WorkerSleeps DEF Next, Proceed
<1> QED
  BY <1>1, <1>2, Invariant, PTL DEF Spec

(* Nobody sleeps through what it waits for on g_resolver_queue_cond, which   *)
(* workers and two kinds of callers share: the single wakeup that            *)
(* enqueue_resolver_job gives reaches a worker whenever all of them sleep.   *)
THEOREM WakeupSafety == Spec => []NoLostWakeup
<1>1. WInv => NoLostWakeup
  BY DEF WInv, Asleep, Manned, NoLostWakeup
<1> QED
  BY <1>1, WakeInvariant, PTL

(* g_pending_resolvers exceeds the limit by the callers that are about to be *)
(* refused, and every other variable has its type.                           *)
THEOREM TypeCorrect == Spec => []TypeOK
<1>1. ASSUME IInv, WInv, PendingExact PROVE TypeOK
  <2>1. Cardinality(Allocated) \in Nat /\ Cardinality(Allocated) <= MaxPending
    <3>1. IsFiniteSet(Job) /\ Cardinality(Job) = MaxPending
      BY FS_Interval, ResolverAssumption DEF Job
    <3>2. Allocated \subseteq Job
      BY DEF Allocated
    <3> QED
      BY <3>1, <3>2, FS_Subset, FS_CardinalityType
  <2>2. Cardinality(Reserved) \in Nat /\ Cardinality(Reserved) <= Cardinality(Caller)
    <3>1. Reserved \subseteq Caller
      BY DEF Reserved
    <3> QED
      BY <3>1, FS_Subset, FS_CardinalityType, ResolverAssumption
  <2>3. Cardinality(Caller) \in Nat /\ MaxPending \in Nat
    BY FS_CardinalityType, ResolverAssumption
  <2>4. pending = Cardinality(Allocated) + Cardinality(Reserved)
    BY <1>1 DEF PendingExact, Reserved
  <2>5. pending \in 0..(MaxPending + Cardinality(Caller))
    BY <2>1, <2>2, <2>3, <2>4
  <2> QED
    BY <1>1, <2>5 DEF TypeOK, IInv, Shape, WInv, Asleep, Rest
<1> QED
  BY <1>1, Invariant, WakeInvariant, PendingCount, PTL

(* Each job of getaddrinfo_with_deadline is freed once, by its caller or by  *)
(* the worker when the caller gave up first, and used by nobody afterwards;  *)
(* no way out of the call forgets to lower g_pending_resolvers, or lowers it *)
(* twice; and a query is in flight once.                                     *)
THEOREM JobSafety == Spec => []JobsAccounted
BY TypeCorrect, Ownership, PendingCount, Coalescing, PTL DEF JobsAccounted
=============================================================================
