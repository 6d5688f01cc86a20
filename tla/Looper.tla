------------------------------- MODULE Looper -------------------------------
(***************************************************************************)
(* ALooper (android_native_unity.c 262-902): a table of loopers under one  *)
(* lock, each owned by a thread, with registered descriptors, queued       *)
(* responses and a wake generation, and ALooper_pollOnce, which gives the  *)
(* lock up to sleep, to poll the descriptors and to run callbacks.         *)
(*                                                                         *)
(* Each section under g_loopers_lock is one action.  Which descriptors are *)
(* ready is arbitrary.  A registration is known by its generation alone:   *)
(* events, ident and data are left out, and so is the one-time creation of *)
(* the key whose destructor ends a thread's looper.                        *)
(***************************************************************************)
EXTENDS Integers, Sequences, FiniteSets

CONSTANTS
  Loopers, LThreads, Fds, \* slots of g_loopers, threads, descriptors
  LSlots,                 \* slots of fds, numbered from 1
  MaxRegs, MaxWakes, MaxLives, MaxRefs, \* bounds on the generations and references
  Nobody

ASSUME LooperAssumption ==
  /\ Nobody \notin LThreads /\ Nobody \notin [l : Loopers, gen : Nat]
  /\ IsFiniteSet(LSlots)

VARIABLES
  looper, \* the table
  cookie, \* g_looper_thread_cookie: the looper of a thread and its generation
  poll,   \* where each thread stands in ALooper_pollOnce
  wanted  \* registrations the game made and has not taken back (history)

looperVars == <<looper, cookie, poll, wanted>>

NoEntry == [fd |-> Nobody, cb |-> FALSE, reg |-> 0]
Cleared == [i \in LSlots |-> NoEntry]
Out     == [at |-> "out"]

LooperInit ==
  /\ looper = [l \in Loopers |-> [used |-> FALSE, gen |-> 0, owner |-> Nobody,
                 refs |-> 0, ids |-> FALSE, wake |-> 0, consumed |-> 0, regs |-> 0,
                 fds |-> Cleared, resp |-> <<>>]]
  /\ cookie = [t \in LThreads |-> Nobody]
  /\ poll = [t \in LThreads |-> Out]
  /\ wanted = [l \in Loopers |-> {}]

LiveLooper(l, gen) == looper[l].used /\ looper[l].gen = gen
\* looper_current_locked
HasLooper(t) == cookie[t] # Nobody /\ LiveLooper(cookie[t].l, cookie[t].gen)
                /\ looper[cookie[t].l].owner = t
HasWake(L) == L.wake # L.consumed
EntriesOf(L) == {L.fds[i] : i \in LSlots} \ {NoEntry}

\* looper_notify_locked: whoever sleeps on the looper scans again.
Woken(l) == [t \in LThreads |->
  IF poll[t].at = "asleep" /\ poll[t].l = l THEN [poll[t] EXCEPT !.at = "scan"] ELSE poll[t]]

\* looper_retire_locked and looper_disassociate_thread_locked, on a looper L.
Retired(L) ==
  [L EXCEPT !.used = FALSE, !.gen = @ + 1, !.owner = Nobody, !.refs = 0,
            !.ids = FALSE, !.wake = 0, !.consumed = 0, !.fds = Cleared, !.resp = <<>>]
Disowned(L) ==
  IF L.refs <= 1 THEN Retired([L EXCEPT !.gen = @ + 1])
  ELSE [L EXCEPT !.owner = Nobody, !.gen = @ + 1, !.refs = @ - 1]

-----------------------------------------------------------------------------
(* The game's calls; the callbacks of a poll make them too.                 *)

\* ALooper_prepare takes the first free slot, unless the thread has a looper.
Prepare(t, ids) ==
  /\ ~HasLooper(t)
  /\ \E l \in Loopers :
       /\ ~looper[l].used /\ \A k \in Loopers : k < l => looper[k].used
       /\ looper[l].gen < MaxLives
       /\ looper' = [looper EXCEPT ![l].used = TRUE, ![l].gen = @ + 1,
                       ![l].owner = t, ![l].refs = 1, ![l].ids = ids]
       /\ cookie' = [cookie EXCEPT ![t] = [l |-> l, gen |-> looper[l].gen + 1]]
  /\ UNCHANGED <<poll, wanted>>

AcquireLooper(l) ==
  /\ looper[l].used /\ looper[l].refs < MaxRefs
  /\ looper' = [looper EXCEPT ![l].refs = @ + 1]
  /\ UNCHANGED <<cookie, poll, wanted>>

ReleaseRef(l) ==
  /\ looper[l].used
  /\ IF looper[l].refs = 1
     THEN /\ looper' = [looper EXCEPT ![l] = Retired(@)]
          /\ poll' = Woken(l) /\ wanted' = [wanted EXCEPT ![l] = {}]
     ELSE looper' = [looper EXCEPT ![l].refs = @ - 1] /\ UNCHANGED <<poll, wanted>>
  /\ UNCHANGED cookie

\* looper_thread_destructor, when a thread that does not poll ends.
ThreadDestructor(t) ==
  /\ cookie[t] # Nobody /\ poll[t] = Out
  /\ LET l == cookie[t].l IN
     IF LiveLooper(l, cookie[t].gen)
     THEN /\ looper' = [looper EXCEPT ![l] = Disowned(@)]
          /\ poll' = Woken(l)
          /\ wanted' = IF looper[l].refs = 1 THEN [wanted EXCEPT ![l] = {}] ELSE wanted
     ELSE UNCHANGED <<looper, poll, wanted>>
  /\ cookie' = [cookie EXCEPT ![t] = Nobody]

Wake(l) ==
  /\ looper[l].used /\ looper[l].wake < MaxWakes
  /\ looper' = [looper EXCEPT ![l].wake = @ + 1]
  /\ poll' = Woken(l) /\ UNCHANGED <<cookie, wanted>>

\* ALooper_addFd: the slot of the same descriptor, else the first free one.
SlotFor(L, fd) ==
  LET same == {i \in LSlots : L.fds[i].fd = fd}
      free == {i \in LSlots : L.fds[i] = NoEntry}
      some == IF same # {} THEN same ELSE free
  IN {i \in some : \A j \in some : i <= j}
AddFd(l, fd, cb) ==
  /\ looper[l].used /\ (cb \/ looper[l].ids) /\ looper[l].regs < MaxRegs
  /\ \E i \in SlotFor(looper[l], fd) :
       LET reg == looper[l].regs + 1 IN
       /\ looper' = [looper EXCEPT ![l].regs = reg,
                       ![l].fds[i] = [fd |-> fd, cb |-> cb, reg |-> reg]]
       /\ wanted' = [wanted EXCEPT ![l] = (@ \ {looper[l].fds[i].reg}) \cup {reg}]
  /\ poll' = Woken(l) /\ UNCHANGED cookie

\* ALooper_removeFd of one looper, android_native_looper_forget_fd of all.
WithoutFd(L, fd) == [L EXCEPT !.fds = [i \in LSlots |-> IF @[i].fd = fd THEN NoEntry ELSE @[i]]]
RegsOf(L, fd) == {e.reg : e \in {f \in EntriesOf(L) : f.fd = fd}}
RemoveFd(where, fd) ==
  /\ \E l \in where : looper[l].used /\ RegsOf(looper[l], fd) # {}
  /\ looper' = [l \in Loopers |-> IF l \in where THEN WithoutFd(looper[l], fd) ELSE looper[l]]
  /\ wanted' = [l \in Loopers |-> IF l \in where THEN wanted[l] \ RegsOf(looper[l], fd)
                                  ELSE wanted[l]]
  /\ poll' = [t \in LThreads |->
       IF \E l \in where : RegsOf(looper[l], fd) # {} /\ Woken(l)[t] # poll[t]
       THEN [poll[t] EXCEPT !.at = "scan"] ELSE poll[t]]
  /\ UNCHANGED cookie

-----------------------------------------------------------------------------
(* ALooper_pollOnce, by the owner.                                          *)

Returns(t) == poll' = [poll EXCEPT ![t] = Out]
TakeResponse(l) == looper' = [looper EXCEPT ![l].resp = Tail(@)]

\* A response left by an earlier call is the answer; otherwise the loop begins.
PollBegin(t, limit) ==
  /\ poll[t] = Out /\ HasLooper(t)
  /\ LET l == cookie[t].l IN
     IF looper[l].resp # <<>>
     THEN TakeResponse(l) /\ UNCHANGED poll
     ELSE /\ poll' = [poll EXCEPT ![t] = [at |-> "scan", l |-> l, gen |-> cookie[t].gen,
                        limit |-> limit, seen |-> {}, batch |-> {}, through |-> 0]]
          /\ UNCHANGED looper
  /\ UNCHANGED <<cookie, wanted>>

\* The head of the loop.  A timeout that is neither zero nor infinite may
\* have passed already.  A response is there only after a poll from inside a
\* callback, which is left out.
Scan(t) ==
  /\ poll[t].at = "scan"
  /\ LET l == poll[t].l  L == looper[l]  alive == LiveLooper(l, poll[t].gen) IN
     \/ ~alive /\ Returns(t) /\ UNCHANGED looper
     \/ /\ alive /\ EntriesOf(L) = {} /\ HasWake(L)
        /\ looper' = [looper EXCEPT ![l].consumed = L.wake] /\ Returns(t)
     \/ /\ alive /\ EntriesOf(L) = {} /\ ~HasWake(L) /\ UNCHANGED looper
        /\ \/ poll[t].limit # "forever" /\ Returns(t)
           \/ poll[t].limit # "zero" /\ poll' = [poll EXCEPT ![t].at = "asleep"]
     \/ /\ alive /\ EntriesOf(L) # {} /\ UNCHANGED looper
        /\ poll' = [poll EXCEPT ![t].at = "probe", ![t].seen = EntriesOf(L)]
  /\ UNCHANGED <<cookie, wanted>>

\* The condition wait ends on a timeout or without a reason, or fails.
SleepEnds(t) ==
  /\ poll[t].at = "asleep"
  /\ \/ Returns(t)
     \/ poll' = [poll EXCEPT ![t].at = "scan"]
  /\ UNCHANGED <<looper, cookie, wanted>>

\* poll_fake is interrupted, which counts as a wake, or fails.
ProbeInterrupted(t) ==
  /\ poll[t].at = "probe" /\ Returns(t)
  /\ \/ UNCHANGED looper
     \/ /\ LiveLooper(poll[t].l, poll[t].gen)
        /\ looper' = [looper EXCEPT ![poll[t].l].consumed = looper[poll[t].l].wake]
  /\ UNCHANGED <<cookie, wanted>>

\* The end of the loop's body, where the section leaves the looper as L: a
\* response is the answer, or else a wake, the deadline or another turn.
Answer(t, L, through) ==
  /\ L.resp # <<>> /\ Returns(t)
  /\ looper' = [looper EXCEPT ![poll[t].l] =
                  [L EXCEPT !.resp = Tail(@), !.consumed = through]]
WakeOrTurn(t, L) ==
  /\ L.resp = <<>> /\ looper' = [looper EXCEPT ![poll[t].l].consumed = L.wake]
  /\ \/ (HasWake(L) \/ poll[t].limit # "forever") /\ Returns(t)
     \/ /\ ~HasWake(L) /\ poll[t].limit # "zero"
        /\ poll' = [poll EXCEPT ![t].at = "scan"]

\* poll_fake answers with the ready entries: those still registered as they
\* were are queued as responses or copied into the batch of callbacks.
ProbeReturns(t) ==
  /\ poll[t].at = "probe"
  /\ LET l == poll[t].l  L == looper[l] IN
     \/ ~LiveLooper(l, poll[t].gen) /\ Returns(t) /\ UNCHANGED looper
     \/ /\ LiveLooper(l, poll[t].gen)
        /\ \E ready \in SUBSET poll[t].seen :
             LET valid  == ready \cap EntriesOf(L)
                 called == {e \in valid : e.cb}
                 M == [L EXCEPT !.resp = @ \o [i \in 1 .. Cardinality(valid \ called) |-> 0]]
             IN \/ called = {} /\ (Answer(t, M, L.wake) \/ WakeOrTurn(t, M))
                \/ /\ called # {} /\ looper' = [looper EXCEPT ![l] = M]
                     /\ poll' = [poll EXCEPT ![t].at = "calls", ![t].batch = called,
                                   ![t].through = L.wake, ![t].seen = {}]
  /\ UNCHANGED <<cookie, wanted>>

\* A callback returns; 0 takes its own registration back, never a later one.
UnregisteredByFd(e, old) == IF e.fd = old.fd THEN NoEntry ELSE e
Unregistered(e, old) == IF e = old THEN NoEntry ELSE e
CallbackReturns(t, keep) ==
  /\ poll[t].at = "calls"
  /\ \E e \in poll[t].batch :
       LET l == poll[t].l IN
       /\ \A f \in poll[t].batch : e.reg <= f.reg
       /\ poll' = [poll EXCEPT ![t].batch = @ \ {e}]
       /\ IF ~keep /\ LiveLooper(l, poll[t].gen)
          THEN /\ looper' = [looper EXCEPT ![l].fds = [i \in LSlots |-> Unregistered(@[i], e)]]
               /\ wanted' = [wanted EXCEPT ![l] = @ \ {e.reg}]
          ELSE UNCHANGED <<looper, wanted>>
  /\ UNCHANGED cookie

BatchEnds(t) ==
  /\ poll[t].at = "calls" /\ poll[t].batch = {}
  /\ LET l == poll[t].l IN
     \/ ~LiveLooper(l, poll[t].gen) /\ Returns(t) /\ UNCHANGED looper
     \/ LiveLooper(l, poll[t].gen) /\ Answer(t, looper[l], poll[t].through)
     \/ /\ LiveLooper(l, poll[t].gen) /\ looper[l].resp = <<>> /\ Returns(t)
        /\ looper' = [looper EXCEPT ![l].consumed = poll[t].through]
  /\ UNCHANGED <<cookie, wanted>>

PollStep(t) ==
  \/ Scan(t) \/ ProbeReturns(t) \/ BatchEnds(t)
  \/ \E keep \in BOOLEAN : CallbackReturns(t, keep)

LooperNext ==
  \/ \E t \in LThreads : \/ PollStep(t) \/ SleepEnds(t) \/ ProbeInterrupted(t)
                         \/ ThreadDestructor(t)
                         \/ \E ids \in BOOLEAN : Prepare(t, ids)
                         \/ \E limit \in {"zero", "finite", "forever"} : PollBegin(t, limit)
  \/ \E l \in Loopers : \/ AcquireLooper(l) \/ ReleaseRef(l) \/ Wake(l)
                        \/ \E fd \in Fds, cb \in BOOLEAN : AddFd(l, fd, cb)
  \/ \E fd \in Fds, where \in {{l} : l \in Loopers} \cup {Loopers} : RemoveFd(where, fd)

LooperSpec == LooperInit /\ [][LooperNext]_looperVars

-----------------------------------------------------------------------------
\* A thread sleeps only on a looper of its own with nothing to report.
SleepersHaveNothing ==
  \A t \in LThreads : poll[t].at = "asleep" =>
    LET L == looper[poll[t].l] IN
    LiveLooper(poll[t].l, poll[t].gen) /\ ~HasWake(L) /\ EntriesOf(L) = {} /\ L.resp = <<>>
\* What is registered is what the game registered and did not take back.
RegistrationsKept ==
  \A l \in Loopers : {e.reg : e \in EntriesOf(looper[l])} = wanted[l]
OneOwner ==
  \A l \in Loopers : looper[l].used /\ looper[l].owner # Nobody =>
    cookie[looper[l].owner] = [l |-> l, gen |-> looper[l].gen]

(* No wake, new descriptor or retirement is missed by a thread that goes to *)
(* sleep in ALooper_pollOnce; a callback that returns 0 never takes away a   *)
(* registration that another call made in the meantime; and a looper's slot, *)
(* reused across threads, belongs to the one thread whose cookie names it   *)
(* (android_native_unity.c:720, 833).                                       *)
LooperSound == SleepersHaveNothing /\ RegistrationsKept /\ OneOwner
=============================================================================
