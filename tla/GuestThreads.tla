---------------------------- MODULE GuestThreads ----------------------------
(***************************************************************************)
(* The registry of guest threads of source/imports.c: NxGuestThreadRef     *)
(* records, pthread_create/join/detach/exit of the Android binary, the     *)
(* detached reaper, the lazily registered host threads and the strong      *)
(* references ("borrowers") the GC bridge and the diagnostics take.        *)
(*                                                                         *)
(* One step is one critical section of guest_thread_lock, or one call that *)
(* is made outside of it (pthread_create, pthread_join of the host).       *)
(* A pthread_t names one thread for the whole behaviour (libnx may reuse   *)
(* the address only after the record is gone).                             *)
(***************************************************************************)
EXTENDS Integers, FiniteSets

CONSTANTS
  Thread,     \* threads made by pthread_create_fake, each created at most once
  Host,       \* main, SDL and callback threads: registered by pthread_self_fake
  Borrower,   \* holders of strong references: the GC cycle, a context capture
  Reaper,     \* the thread that runs detached_reaper_main
  None        \* no thread

Actor  == Thread \union Host
Joiner == Actor \union {Reaper}

ASSUME ThreadAssumption ==
  /\ Thread \intersect Host = {}
  /\ Reaper \notin Actor
  /\ None \notin Joiner

ASSUME FiniteThreads == IsFiniteSet(Thread)

VARIABLES
  pc,           \* where each thread is in the calls below
  target,       \* the thread its call is about
  state,        \* NxGuestThreadState of the record; "absent", "freed": no record
  registered,   \* records linked into guest_threads
  childReady,   \* ref->child_ready
  published,    \* ref->creator_published
  returned,     \* ref->creator_returned
  detached,     \* ref->detached
  reapClaimed,  \* ref->reap_claimed
  reapFailed,   \* ref->reap_failed
  borrowers,    \* the holders whose number is ref->borrowers
  host,         \* the native thread behind pthread_t
  stack,        \* ref->stack_backing: "heap" (NULL), "pool", "released"
  stackBytes,   \* guest_thread_stack_bytes, in stacks
  reaperState   \* detached_reaper_state

vars == << pc, target, state, registered, childReady, published, returned,
           detached, reapClaimed, reapFailed, borrowers, host, stack,
           stackBytes, reaperState >>

recordVars == << state, registered, childReady, published, returned, detached,
                 reapClaimed, reapFailed, borrowers >>
nativeVars == << host, stack, stackBytes, reaperState >>

CallPC == {"guest", "publish", "awaitChild", "startReaper", "drainJoin",
           "hostJoin", "removeRecord", "account"}
PC == CallPC \union
      {"unborn", "trampoline", "awaitCreator", "draining", "dtors", "ended",
       "selfKey", "selfUndo", "hostDrain", "reap"}

Record == {"absent", "CREATING", "LIVE", "EXITING", "EXITED", "freed"}

TypeOK ==
  /\ pc \in [Joiner -> PC]
  /\ target \in [Joiner -> Thread \union {None}]
  /\ state \in [Actor -> Record]
  /\ registered \subseteq Actor
  /\ childReady \subseteq Thread
  /\ published \subseteq Thread
  /\ returned \subseteq Thread
  /\ detached \subseteq Thread
  /\ reapClaimed \subseteq Thread
  /\ reapFailed \subseteq Thread
  /\ borrowers \in [Actor -> SUBSET Borrower]
  /\ host \in [Thread -> {"none", "running", "finished", "joined"}]
  /\ stack \in [Thread -> {"none", "heap", "pool", "released"}]
  /\ stackBytes \in Int
  /\ reaperState \in {"STOPPED", "STARTING", "RUNNING"}

Init ==
  /\ pc = [a \in Joiner |-> IF a \in Thread THEN "unborn"
                            ELSE IF a = Reaper THEN "reap" ELSE "guest"]
  /\ target = [a \in Joiner |-> None]
  /\ state = [a \in Actor |-> "absent"]
  /\ registered = {}
  /\ childReady = {} /\ published = {} /\ returned = {}
  /\ detached = {} /\ reapClaimed = {} /\ reapFailed = {}
  /\ borrowers = [a \in Actor |-> {}]
  /\ host = [t \in Thread |-> "none"]
  /\ stack = [t \in Thread |-> "none"]
  /\ stackBytes = 0
  /\ reaperState = "STOPPED"

Goto(a, to) == pc' = [pc EXCEPT ![a] = to]

-----------------------------------------------------------------------------
(* ensure_detached_reaper: the first caller starts the worker, the others   *)
(* wait on guest_thread_cond while it is STARTING, that is, find no step    *)
(* enabled.  A failed pthread_create leaves it STOPPED for the next caller. *)

EnsureReaper(a) ==
  /\ pc[a] = "guest"
  /\ reaperState = "STOPPED"
  /\ reaperState' = "STARTING"
  /\ Goto(a, "startReaper")
  /\ UNCHANGED << target, recordVars, host, stack, stackBytes >>

StartReaper(a) ==
  /\ pc[a] = "startReaper"
  /\ reaperState' \in {"RUNNING", "STOPPED"}
  /\ Goto(a, "guest")
  /\ UNCHANGED << target, recordVars, host, stack, stackBytes >>

-----------------------------------------------------------------------------
(* pthread_create_fake.  Its failures free what they allocated and change   *)
(* nothing else, so only the creation that succeeds is a step.              *)

\* Seeded fault: nobody makes sure that the reaper runs.
CreateWithoutReaper(a, t, isDetached) ==
  /\ pc[a] = "guest"
  /\ pc[t] = "unborn"
  /\ state' = [state EXCEPT ![t] = "CREATING"]
  /\ detached' = IF isDetached THEN detached \union {t} ELSE detached
  /\ host' = [host EXCEPT ![t] = "running"]
  /\ \E backing \in {"heap", "pool"} : stack' = [stack EXCEPT ![t] = backing]
  /\ pc' = [pc EXCEPT ![a] = "publish", ![t] = "trampoline"]
  /\ target' = [target EXCEPT ![a] = t]
  /\ UNCHANGED << registered, childReady, published, returned, reapClaimed,
                  reapFailed, borrowers, stackBytes, reaperState >>

CreateHostThread(a, t, isDetached) ==
  /\ pc[a] = "guest"
  /\ pc[t] = "unborn"
  /\ isDetached => reaperState = "RUNNING"
  /\ state' = [state EXCEPT ![t] = "CREATING"]
  /\ detached' = IF isDetached THEN detached \union {t} ELSE detached
  /\ host' = [host EXCEPT ![t] = "running"]
  /\ \E backing \in {"heap", "pool"} : stack' = [stack EXCEPT ![t] = backing]
  /\ pc' = [pc EXCEPT ![a] = "publish", ![t] = "trampoline"]
  /\ target' = [target EXCEPT ![a] = t]
  /\ UNCHANGED << registered, childReady, published, returned, reapClaimed,
                  reapFailed, borrowers, stackBytes, reaperState >>

\* The tail of pthread_create_fake, in the critical section that published
\* the record: the accounting comes before creator_returned lets the child go.
ReturnFromCreate(a) ==
  LET t == target[a] IN
  /\ state' = [state EXCEPT ![t] = "LIVE"]
  /\ stackBytes' = stackBytes + 1
  /\ returned' = returned \union {t}
  /\ Goto(a, "guest")
  /\ target' = [target EXCEPT ![a] = None]

PublishRecord(a) ==
  /\ pc[a] = "publish"
  /\ registered' = registered \union {target[a]}
  /\ published' = published \union {target[a]}
  /\ \/ /\ target[a] \in childReady
        /\ ReturnFromCreate(a)
     \/ /\ target[a] \notin childReady
        /\ Goto(a, "awaitChild")
        /\ UNCHANGED << target, state, stackBytes, returned >>
  /\ UNCHANGED << childReady, detached, reapClaimed, reapFailed, borrowers,
                  host, stack, reaperState >>

AwaitChild(a) ==
  /\ pc[a] = "awaitChild"
  /\ target[a] \in childReady
  /\ ReturnFromCreate(a)
  /\ UNCHANGED << registered, childReady, published, detached, reapClaimed,
                  reapFailed, borrowers, host, stack, reaperState >>

-----------------------------------------------------------------------------
(* thread_trampoline, release_thread_start and pthread_exit_fake.           *)

ChildStart(t) ==
  /\ pc[t] = "trampoline"
  /\ childReady' = childReady \union {t}
  /\ state' = IF t \in published THEN [state EXCEPT ![t] = "LIVE"] ELSE state
  /\ Goto(t, "awaitCreator")
  /\ UNCHANGED << target, registered, published, returned, detached,
                  reapClaimed, reapFailed, borrowers, nativeVars >>

EnterGuest(t) ==
  /\ pc[t] = "awaitCreator"
  /\ t \in returned
  /\ Goto(t, "guest")
  /\ UNCHANGED << target, recordVars, nativeVars >>

BeginExit(t) ==
  /\ pc[t] = "guest"
  /\ state' = IF state[t] = "LIVE" THEN [state EXCEPT ![t] = "EXITING"]
              ELSE state
  /\ Goto(t, "draining")
  /\ UNCHANGED << target, registered, childReady, published, returned,
                  detached, reapClaimed, reapFailed, borrowers, nativeVars >>

ExitDrained(t) ==
  /\ pc[t] = "draining"
  /\ borrowers[t] = {}
  /\ Goto(t, "dtors")
  /\ UNCHANGED << target, recordVars, nativeVars >>

FinishExit(t) ==
  /\ pc[t] = "dtors"
  /\ state' = [state EXCEPT ![t] = "EXITED"]
  /\ Goto(t, "ended")
  /\ UNCHANGED << target, registered, childReady, published, returned,
                  detached, reapClaimed, reapFailed, borrowers, nativeVars >>

\* The rest of the trampoline and newlib's teardown: the native thread ends.
NativeExit(t) ==
  /\ pc[t] = "ended"
  /\ host[t] = "running"
  /\ host' = [host EXCEPT ![t] = "finished"]
  /\ UNCHANGED << pc, target, recordVars, stack, stackBytes, reaperState >>

-----------------------------------------------------------------------------
(* pthread_join_fake and detached_reaper_main: claim, drain the references, *)
(* join the native thread, unlink the record, release what it owned.        *)

JoinClaim(a, t) ==
  /\ pc[a] = "guest"
  /\ a # t
  /\ t \in registered \intersect returned
  /\ t \notin detached \union reapClaimed
  /\ reapClaimed' = reapClaimed \union {t}
  /\ target' = [target EXCEPT ![a] = t]
  /\ Goto(a, "drainJoin")
  /\ UNCHANGED << state, registered, childReady, published, returned,
                  detached, reapFailed, borrowers, nativeVars >>

JoinDrained(a) ==
  /\ pc[a] = "drainJoin"
  /\ borrowers[target[a]] = {}
  /\ Goto(a, "hostJoin")
  /\ UNCHANGED << target, recordVars, nativeVars >>

\* detached_reap_candidate_locked.  The list order is left out: any candidate
\* may be the first one.
ReapCandidate(t) ==
  /\ t \in registered \intersect detached \intersect returned
  /\ state[t] = "EXITED"
  /\ borrowers[t] = {}
  /\ t \notin reapClaimed \union reapFailed

ReapClaim(t) ==
  /\ pc[Reaper] = "reap"
  /\ reaperState = "RUNNING"
  /\ ReapCandidate(t)
  /\ reapClaimed' = reapClaimed \union {t}
  /\ target' = [target EXCEPT ![Reaper] = t]
  /\ Goto(Reaper, "hostJoin")
  /\ UNCHANGED << state, registered, childReady, published, returned,
                  detached, reapFailed, borrowers, nativeVars >>

Home(j) == IF j = Reaper THEN "reap" ELSE "guest"

HostJoin(j) ==
  /\ pc[j] = "hostJoin"
  /\ host[target[j]] = "finished"
  /\ host' = [host EXCEPT ![target[j]] = "joined"]
  /\ Goto(j, "removeRecord")
  /\ UNCHANGED << target, recordVars, stack, stackBytes, reaperState >>

\* Seeded faults: the error of the host join is ignored; the quarantined stack
\* is subtracted all the same.
HostJoinIgnored(j) ==
  /\ pc[j] = "hostJoin"
  /\ reapFailed' = reapFailed \union {target[j]}
  /\ Goto(j, "removeRecord")
  /\ UNCHANGED << target, state, registered, childReady, published, returned,
                  detached, reapClaimed, borrowers, nativeVars >>

HostJoinSubtracts(j) ==
  /\ pc[j] = "hostJoin"
  /\ reapFailed' = reapFailed \union {target[j]}
  /\ stackBytes' = stackBytes - 1
  /\ Goto(j, Home(j))
  /\ target' = [target EXCEPT ![j] = None]
  /\ UNCHANGED << state, registered, childReady, published, returned,
                  detached, reapClaimed, borrowers, host, stack, reaperState >>

\* pthread_join of the host failed: the record is quarantined, never freed.
HostJoinFails(j) ==
  /\ pc[j] = "hostJoin"
  /\ reapFailed' = reapFailed \union {target[j]}
  /\ Goto(j, Home(j))
  /\ target' = [target EXCEPT ![j] = None]
  /\ UNCHANGED << state, registered, childReady, published, returned,
                  detached, reapClaimed, borrowers, nativeVars >>

RemoveRecord(j) ==
  /\ pc[j] = "removeRecord"
  /\ registered' = registered \ {target[j]}
  /\ Goto(j, "account")
  /\ UNCHANGED << target, state, childReady, published, returned, detached,
                  reapClaimed, reapFailed, borrowers, nativeVars >>

AccountAndFree(j) ==
  LET t == target[j] IN
  /\ pc[j] = "account"
  /\ stackBytes' = stackBytes - 1
  /\ stack' = IF stack[t] = "pool" THEN [stack EXCEPT ![t] = "released"]
              ELSE stack
  /\ state' = [state EXCEPT ![t] = "freed"]
  /\ Goto(j, Home(j))
  /\ target' = [target EXCEPT ![j] = None]
  /\ UNCHANGED << registered, childReady, published, returned, detached,
                  reapClaimed, reapFailed, borrowers, host, reaperState >>

\* Seeded fault: detaching takes a thread over from the joiner that claimed it.
DetachClaimed(a, t) ==
  /\ pc[a] = "guest"
  /\ reaperState = "RUNNING"
  /\ t \in registered \intersect returned
  /\ t \notin detached
  /\ detached' = detached \union {t}
  /\ reapClaimed' = reapClaimed \ {t}
  /\ UNCHANGED << pc, target, state, registered, childReady, published,
                  returned, reapFailed, borrowers, nativeVars >>

\* pthread_detach_fake, once ensure_detached_reaper has succeeded.
Detach(a, t) ==
  /\ pc[a] = "guest"
  /\ reaperState = "RUNNING"
  /\ t \in registered \intersect returned
  /\ t \notin detached \union reapClaimed
  /\ detached' = detached \union {t}
  /\ UNCHANGED << pc, target, state, registered, childReady, published,
                  returned, reapClaimed, reapFailed, borrowers, nativeVars >>

-----------------------------------------------------------------------------
(* pthread_self_fake on a thread this layer did not create, and the key     *)
(* destructor external_thread_ref_dtor that retires the record.             *)

SelfRegister(h) ==
  /\ pc[h] = "guest"
  /\ h \notin registered
  /\ registered' = registered \union {h}
  /\ state' = [state EXCEPT ![h] = "LIVE"]
  /\ Goto(h, "selfKey")
  /\ UNCHANGED << target, childReady, published, returned, detached,
                  reapClaimed, reapFailed, borrowers, nativeVars >>

SelfKeySet(h) ==
  /\ pc[h] = "selfKey"
  /\ Goto(h, "guest")
  /\ UNCHANGED << target, recordVars, nativeVars >>

SelfKeyFails(h) ==
  /\ pc[h] = "selfKey"
  /\ state' = [state EXCEPT ![h] = "EXITING"]
  /\ Goto(h, "selfUndo")
  /\ UNCHANGED << target, registered, childReady, published, returned,
                  detached, reapClaimed, reapFailed, borrowers, nativeVars >>

HostExit(h) ==
  /\ pc[h] = "guest"
  /\ h \in registered
  /\ state' = IF state[h] = "LIVE" THEN [state EXCEPT ![h] = "EXITING"]
              ELSE state
  /\ Goto(h, "hostDrain")
  /\ UNCHANGED << target, registered, childReady, published, returned,
                  detached, reapClaimed, reapFailed, borrowers, nativeVars >>

RetireExternal(h) ==
  /\ borrowers[h] = {}
  /\ registered' = registered \ {h}
  /\ \/ /\ pc[h] = "selfUndo"
        /\ Goto(h, "guest")
        /\ state' = [state EXCEPT ![h] = "absent"]
     \/ /\ pc[h] = "hostDrain"
        /\ Goto(h, "ended")
        /\ state' = [state EXCEPT ![h] = "freed"]
  /\ UNCHANGED << target, childReady, published, returned, detached,
                  reapClaimed, reapFailed, borrowers, nativeVars >>

-----------------------------------------------------------------------------
(* nx_guest_thread_acquire, _snapshot and _release.                         *)

\* Seeded fault: records of threads that exit are handed out too.
AcquirableExiting == registered \ reapClaimed

Acquirable == {t \in registered : state[t] = "LIVE" /\ t \notin reapClaimed}

Acquire(b, t) ==
  /\ t \in Acquirable
  /\ b \notin borrowers[t]
  /\ borrowers' = [borrowers EXCEPT ![t] = @ \union {b}]
  /\ UNCHANGED << pc, target, state, registered, childReady, published,
                  returned, detached, reapClaimed, reapFailed, nativeVars >>

Snapshot(b) ==
  /\ \A t \in Actor : b \notin borrowers[t]
  /\ borrowers' = [t \in Actor |-> IF t \in Acquirable
                                   THEN borrowers[t] \union {b}
                                   ELSE borrowers[t]]
  /\ UNCHANGED << pc, target, state, registered, childReady, published,
                  returned, detached, reapClaimed, reapFailed, nativeVars >>

Release(b, t) ==
  /\ b \in borrowers[t]
  /\ borrowers' = [borrowers EXCEPT ![t] = @ \ {b}]
  /\ UNCHANGED << pc, target, state, registered, childReady, published,
                  returned, detached, reapClaimed, reapFailed, nativeVars >>

-----------------------------------------------------------------------------
Create(a) == PublishRecord(a) \/ AwaitChild(a)
Trampoline(t) == ChildStart(t) \/ EnterGuest(t)
Exit(t) == ExitDrained(t) \/ FinishExit(t) \/ NativeExit(t)
Reclaim(j) == HostJoin(j) \/ RemoveRecord(j) \/ AccountAndFree(j)

Next ==
  \/ \E a \in Actor :
       \/ EnsureReaper(a) \/ StartReaper(a) \/ Create(a) \/ JoinDrained(a)
       \/ \E t \in Thread :
            \/ \E isDetached \in BOOLEAN : CreateHostThread(a, t, isDetached)
            \/ JoinClaim(a, t)
            \/ Detach(a, t)
  \/ \E t \in Thread : Trampoline(t) \/ BeginExit(t) \/ Exit(t) \/ ReapClaim(t)
  \/ \E j \in Joiner : Reclaim(j) \/ HostJoinFails(j)
  \/ \E h \in Host : SelfRegister(h) \/ SelfKeySet(h) \/ SelfKeyFails(h)
                       \/ HostExit(h) \/ RetireExternal(h)
  \/ \E b \in Borrower :
       \/ Snapshot(b)
       \/ \E t \in Actor : Acquire(b, t) \/ Release(b, t)

Spec == Init /\ [][Next]_vars

\* The scheduler runs every thread that can run; whoever holds a reference
\* gives it back (a collection and a capture end).  Nothing obliges guest code
\* to create, join, detach or exit.
Fairness ==
  /\ \A a \in Actor : WF_vars(StartReaper(a)) /\ WF_vars(Create(a))
                        /\ WF_vars(JoinDrained(a))
  /\ \A t \in Thread : WF_vars(Trampoline(t)) /\ WF_vars(Exit(t))
  /\ \A j \in Joiner : WF_vars(Reclaim(j))
  /\ WF_vars(\E t \in Thread : ReapClaim(t))
  /\ \A h \in Host : WF_vars(SelfKeySet(h) \/ SelfKeyFails(h))
                       /\ WF_vars(RetireExternal(h))
  /\ \A b \in Borrower, t \in Actor : WF_vars(Release(b, t))

FairSpec == Spec /\ Fairness

-----------------------------------------------------------------------------
(* Safety.                                                                  *)

\* A strong reference keeps its thread inspectable: while anyone borrows the
\* record, it is linked and not freed, and the native Thread and its handle
\* (which the GC bridge pauses, dumps and resumes) are still the running ones:
\* the owner cannot pass begin_thread_exit, nor a joiner close the handle.
BorrowedThreadRuns ==
  \A t \in Actor : borrowers[t] # {} =>
    /\ t \in registered
    /\ state[t] \in {"LIVE", "EXITING"}
    /\ pc[t] \notin {"dtors", "ended"}
    /\ t \in Thread => host[t] = "running"

\* A joiner in pthread_join_fake or the detached reaper is tearing t down.
TearingDown(j, t) ==
  /\ target[j] = t
  /\ pc[j] \in {"drainJoin", "hostJoin", "removeRecord", "account"}

\* reap_claimed gives each thread one reclaimer: whatever the order of join,
\* detach and exit, the native join, the unlink and the free of a record are
\* done by one thread, on a record nobody has freed, and never by itself.
OneReclaimer ==
  \A t \in Thread, j \in Joiner : TearingDown(j, t) =>
    /\ t \in reapClaimed
    /\ state[t] # "freed"
    /\ t # j
    /\ \A k \in Joiner \ {j} : ~TearingDown(k, t)

\* The stack a thread runs on goes back to the sparse pool only after the host
\* joined the thread, and a record is freed only then and only when unlinked;
\* a failed join leaks both instead.
StackOutlivesThread ==
  \A t \in Thread :
    /\ stack[t] = "released" => host[t] = "joined"
    /\ state[t] = "freed" => host[t] = "joined" /\ t \notin registered
    /\ t \in reapFailed => host[t] # "joined" /\ t \in registered

\* guest_thread_stack_bytes counts exactly the threads whose creator returned
\* and that were not reclaimed yet: the order "account, then release the
\* child" keeps even a detached thread that ends at once from being subtracted
\* before it was added, which would wrap the unsigned counter.
StackAccounting ==
  stackBytes = Cardinality({t \in returned : state[t] # "freed"})

-----------------------------------------------------------------------------
(* What the GC bridge says of the snapshot it takes.                        *)

\* gc_begin_cycle_locked: "Holding one strong reference to every live guest
\* thread for the complete collection cycle".  A thread that executes guest
\* code is in each snapshot.
SnapshotHoldsEveryLiveThread ==
  [][\A b \in Borrower : Snapshot(b) =>
       \A t \in registered : pc[t] = "guest" => b \in borrowers'[t]]_vars

-----------------------------------------------------------------------------
(* Liveness.                                                                *)

\* begin_thread_exit waits for the references to drain: since an EXITING
\* record gives out no new one, a thread that starts to exit does end, however
\* often collections and captures go on.
ExitCompletes ==
  \A t \in Thread : pc[t] = "draining" ~> host[t] \in {"finished", "joined"}

\* A detached thread that has ended is reclaimed (or quarantined after a failed
\* host join): no wakeup of the reaper is lost, and the reaper is running.
DetachedReaped ==
  \A t \in Thread : (t \in detached /\ state[t] = "EXITED")
                      ~> (state[t] = "freed" \/ t \in reapFailed)

\* The teardown of a thread ends, with and without a joiner (imports.c:1173, 1353).
TeardownEnds == ExitCompletes /\ DetachedReaped

=============================================================================
