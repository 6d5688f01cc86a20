----------------------------- MODULE Semaphores -----------------------------
(***************************************************************************)
(* Bionic semaphores (libc_shim.c 8864-9003): a count inside the guest's   *)
(* object, -1 once somebody waits, and one condition variable for all      *)
(* semaphores of the process.  A post wakes it only if the count was -1.   *)
(*                                                                         *)
(* g_sem_lock makes each call, up to its wait, one action.  A timed wait   *)
(* sleeps in slices and may leave the mark -1 behind.                      *)
(***************************************************************************)
EXTENDS Integers, FiniteSets

CONSTANTS SemThreads, Sems, MaxCount

\* 0 marks a thread that waits for no semaphore.
ASSUME SemAssumption == 0 \notin Sems

VARIABLES
  count,    \* bionic_sem_value of each semaphore
  waiting,  \* waiting[t]: the semaphore t waits for, or the idle marker 0
  asleepOn, \* threads in condvarWait on g_sem_cond
  timed     \* waiting threads that have a deadline

semVars == <<count, waiting, asleepOn, timed>>

SemInit ==
  /\ count \in [Sems -> {0, 1}]
  /\ waiting = [t \in SemThreads |-> 0]
  /\ asleepOn = {} /\ timed = {}

Leaves(t) ==
  /\ waiting' = [waiting EXCEPT ![t] = 0]
  /\ timed' = timed \ {t} /\ asleepOn' = asleepOn \ {t}

TurnUnmarked(t, s, hasDeadline) ==
  IF count[s] > 0
  THEN /\ count' = [count EXCEPT ![s] = @ - 1]
       /\ Leaves(t)
  ELSE /\ count' = count
       /\ waiting' = [waiting EXCEPT ![t] = s]
       /\ asleepOn' = asleepOn \cup {t}
       /\ timed' = IF hasDeadline THEN timed \cup {t} ELSE timed \ {t}
\* One turn of the loop in sem_wait_fake: take a token, or mark and sleep.
Turn(t, s, hasDeadline) ==
  IF count[s] > 0
  THEN /\ count' = [count EXCEPT ![s] = @ - 1]
       /\ Leaves(t)
  ELSE /\ count' = [count EXCEPT ![s] = -1]
       /\ waiting' = [waiting EXCEPT ![t] = s]
       /\ asleepOn' = asleepOn \cup {t}
       /\ timed' = IF hasDeadline THEN timed \cup {t} ELSE timed \ {t}

SemWait(t, s, hasDeadline) == waiting[t] = 0 /\ Turn(t, s, hasDeadline)
SemRetry(t) == waiting[t] # 0 /\ t \notin asleepOn /\ Turn(t, waiting[t], t \in timed)

\* condvarWaitTimeout returns at the end of a slice, or without a reason.
SliceOver(t) ==
  /\ t \in asleepOn
  /\ asleepOn' = asleepOn \ {t}
  /\ UNCHANGED <<count, waiting, timed>>

\* The deadline has passed or is invalid, and no token is there.
SemTimedOut(t) ==
  /\ t \in timed \ asleepOn /\ count[waiting[t]] <= 0
  /\ count' = [count EXCEPT ![waiting[t]] = -1]
  /\ Leaves(t)

\* sem_trywait_fake changes something only when a token is there.
SemTryWait(t, s) ==
  /\ waiting[t] = 0 /\ count[s] > 0
  /\ count' = [count EXCEPT ![s] = @ - 1]
  /\ UNCHANGED <<waiting, asleepOn, timed>>

\* sem_post_fake
SemPost(s) ==
  /\ count[s] < MaxCount
  /\ count' = [count EXCEPT ![s] = IF @ < 0 THEN 1 ELSE @ + 1]
  /\ asleepOn' = IF count[s] < 0 THEN {} ELSE asleepOn
  /\ UNCHANGED <<waiting, timed>>

SemNext ==
  \/ \E t \in SemThreads : \/ SemRetry(t) \/ SliceOver(t) \/ SemTimedOut(t)
                           \/ \E s \in Sems : SemTryWait(t, s)
                           \/ \E s \in Sems, d \in BOOLEAN : SemWait(t, s, d)
  \/ \E s \in Sems : SemPost(s)

SemSpec == SemInit /\ [][SemNext]_semVars

(* Nobody sleeps on a semaphore without the contended mark that makes the    *)
(* next post wake everybody: a token never lies there while its waiter       *)
(* sleeps, though other semaphores share the condition variable and a timed  *)
(* wait that ends leaves its mark behind (sem_post_fake, sem_timedwait_fake, *)
(* libc_shim.c:8979).                                                        *)
SleeperIsMarked == \A t \in asleepOn : count[waiting[t]] = -1

SemTypeOK ==
  /\ count \in [Sems -> -1 .. MaxCount]
  /\ timed \cup asleepOn \subseteq {t \in SemThreads : waiting[t] # 0}
=============================================================================
