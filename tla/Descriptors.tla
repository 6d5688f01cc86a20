----------------------------- MODULE Descriptors -----------------------------
(***************************************************************************)
(* Descriptor numbers: the fake descriptors of source/fakefd.c (pipes and  *)
(* eventfds, a table of high numbers and aliases on low ones), the native  *)
(* numbers libnx hands out, the read-ahead windows over native files, and  *)
(* the route stripes of source/libc_shim.c that keep close, dup2 and the   *)
(* operations on one number apart.                                         *)
(*                                                                         *)
(* One step is one critical section (of a stripe, of fakefd's g_lock, of   *)
(* g_ra_lock) or one call of the host.  A call that fails without changing *)
(* anything is no step.  What a description is (a pipe's end, an eventfd)   *)
(* does not matter here, only whether it has something to read.             *)
(***************************************************************************)
EXTENDS Integers, FiniteSets

CONSTANTS
  Thread,      \* callers
  Open,        \* open descriptions (FakeOpen) that may exist
  File,        \* native files
  High, Low,   \* descriptor numbers: indices of g_fds, native numbers
  Stripe(_),   \* fd_route_index
  MaxAliases,  \* MAX_FAKE_ALIASES
  Blocking,    \* whether descriptions are used without O_NONBLOCK
  WindowRaces, \* whether the host may give out a number that dup2 has closed
  None         \* nothing

Reservation == "reservation"   \* the file that open_reservation opens

ASSUME DescriptorAssumption ==
  /\ High \subseteq Nat /\ Low \subseteq Nat
  /\ \A h \in High, n \in Low : n < h
  /\ \A fd \in High \union Low : Stripe(fd) \in Nat
  /\ MaxAliases \in Nat
  /\ Blocking \in BOOLEAN /\ WindowRaces \in BOOLEAN
  /\ None \notin Thread \union High \union Low \union Open \union File
  /\ Reservation \notin Open \union File \union {None}
  /\ IsFiniteSet(Thread) /\ IsFiniteSet(High) /\ IsFiniteSet(Low)

Fd == High \union Low
Stripes == {Stripe(fd) : fd \in Fd}

VARIABLES
  lock,       \* the owner of each FdRouteStripe.lock
  replacing,  \* stripes with replacing set
  valid,      \* threads whose route ticket has the current sequence
  high,       \* g_fds: the description behind each high number
  alias,      \* g_aliases with used = 1: pairs of number and description
  refs,       \* FakeOpen.refs
  data,       \* descriptions with something to read
  native,     \* what the host has open: a file, a reservation, None
  ra,         \* the file each attached read-ahead window was opened for
  raLock,     \* the owner of g_ra_lock
  call        \* the call each thread is in

routeVars == << lock, replacing, valid >>
fakeVars  == << high, alias, refs, data >>
raVars    == << ra, raLock >>
vars == << routeVars, fakeVars, native, raVars, call >>

PC == {"idle", "op", "ticket", "raRead", "attach", "close", "closeNative",
       "settle", "pairFirst", "pairSecond", "pairLocked", "waitSource",
       "waitTarget", "pin", "install", "reserved", "closeTarget",
       "closeTargetNative", "moveHolder", "vacated", "closeHolder", "dropHolder",
       "unreserve", "publish", "installed", "failed"}

Pairing == {"pairFirst", "pairSecond", "pairLocked", "waitSource", "waitTarget"}
Replacing == PC \ ({"idle", "op", "ticket", "raRead", "attach"} \union Pairing)

\* open: what the call works on; stable, holder: its private numbers.
Call == [pc : PC, fd : Fd \union {None}, to : Fd \union {None},
         write : BOOLEAN, open : Open \union File \union {None},
         stable : Fd \union {None}, holder : Low \union {None}]

Idle == [pc |-> "idle", fd |-> None, to |-> None, write |-> FALSE,
         open |-> None, stable |-> None, holder |-> None]

TypeOK ==
  /\ lock \in [Stripes -> Thread \union {None}]
  /\ replacing \subseteq Stripes
  /\ valid \subseteq Thread
  /\ high \in [High -> Open \union {None}]
  /\ alias \subseteq Low \X Open
  /\ refs \in [Open -> Nat]
  /\ data \subseteq Open
  /\ native \in [Low -> File \union {Reservation, None}]
  /\ ra \in [Low -> File \union {None}]
  /\ raLock \in Thread \union {None}
  /\ call \in [Thread -> Call]

Init ==
  /\ lock = [s \in Stripes |-> None]
  /\ replacing = {} /\ valid = {}
  /\ high = [h \in High |-> None]
  /\ alias = {}
  /\ refs = [o \in Open |-> 0]
  /\ data = {}
  /\ native = [n \in Low |-> None]
  /\ ra = [n \in Low |-> None]
  /\ raLock = None
  /\ call = [t \in Thread |-> Idle]

At(t, pc) == call[t].pc = pc
Goto(t, pc) == call' = [call EXCEPT ![t].pc = pc]
Begin(t, c) == call' = [call EXCEPT ![t] = c]
Done(t) == call' = [call EXCEPT ![t] = Idle]

\* alias_locked and descriptor_locked.
OpenAt(fd) ==
  IF fd \in High THEN high[fd]
  ELSE IF \E o \in Open : <<fd, o>> \in alias
       THEN CHOOSE o \in Open : <<fd, o>> \in alias
       ELSE None

\* fakefd_is_fake: the high range as a whole, and the aliases.
IsFake(fd) == fd \in High \/ OpenAt(fd) # None

\* Nothing is open at a number: close, dup and dup2 answer EBADF.
Bad(fd) == OpenAt(fd) = None /\ (fd \in Low => native[fd] = None)

Retain(o)  == refs' = [refs EXCEPT ![o] = @ + 1]
Release(o) == refs' = [refs EXCEPT ![o] = @ - 1]

\* A free number that a call of another thread is about to replace or duplicate.
\* No program does that to a number that is not open or that it closes elsewhere,
\* so it is given to nobody else; the one such number a correct program can meet
\* is one that a dup2 in progress has closed itself, and is about to take again.
Claimed(t, fd) ==
  \E u \in Thread \ {t} :
    \/ call[u].to = fd /\ ~At(u, "settle") /\ ~(WindowRaces /\ At(u, "vacated"))
    \/ call[u].fd = fd /\ (call[u].pc \in Pairing \/ At(u, "pin"))

\* allocate_fd_locked takes the lowest free number, fcntl one from a minimum on.
FreeHigh(t) == {h \in High : high[h] = None /\ ~Claimed(t, h)}
LowestHigh(t, h) ==
  /\ h \in FreeHigh(t)
  /\ \A i \in High : high[i] = None => h <= i

\* The number the host gives to a new native descriptor.
Allocates(t, n) ==
  /\ native[n] = None /\ ~Claimed(t, n)
  /\ \A m \in Low : native[m] = None => n <= m

\* Numbers the program was not given yet: those of an open that has not returned,
\* and those that only the dup2 in progress knows.
Private == (UNION {{call[t].stable, call[t].holder} : t \in Thread})
           \union {call[t].fd : t \in {u \in Thread : At(u, "attach")}}
UserFd == Fd \ Private

-----------------------------------------------------------------------------
(* Route stripes.                                                           *)

\* mutexLock followed by fd_route_wait_clear_locked.
Clear(s) == lock[s] = None /\ s \notin replacing

\* Each change of a stripe's sequence invalidates the tickets taken on it.
Invalidate(s) == valid' = {t \in valid : Stripe(call[t].fd) # s}

MarkReplacing(s) == replacing' = replacing \union {s} /\ Invalidate(s)

\* nx_fd_route_replace_end, once the ordered locks are released.
Settle(t) ==
  LET s == Stripe(call[t].to) IN
  /\ At(t, "settle")
  /\ lock[s] = None
  /\ replacing' = replacing \ {s}
  /\ Invalidate(s)
  /\ Done(t)
  /\ UNCHANGED << lock, fakeVars, native, raVars >>

-----------------------------------------------------------------------------
(* fakefd_eventfd and fakefd_dup.  A dead description is allocated anew     *)
(* under its old name, as malloc may do.                                    *)

\* Whether there is something to read, which only matters where calls may block.
Becomes(o, readable) ==
  \E r \in readable :
    data' = IF ~Blocking THEN data ELSE IF r THEN data \union {o} ELSE data \ {o}

Create(t, o) ==
  /\ refs[o] = 0
  /\ \E h \in High : LowestHigh(t, h) /\ high' = [high EXCEPT ![h] = o]
  /\ refs' = [refs EXCEPT ![o] = 1]
  /\ Becomes(o, BOOLEAN)
  /\ UNCHANGED << routeVars, alias, native, raVars, call >>

\* dup_fake and F_DUPFD: under the source's stripe from beginning to end, so one
\* step.  F_DUPFD asks for a number from some minimum on.
DupFake(t, fd) ==
  /\ Clear(Stripe(fd))
  /\ OpenAt(fd) # None
  /\ \E h \in FreeHigh(t) : high' = [high EXCEPT ![h] = OpenAt(fd)]
  /\ Retain(OpenAt(fd))
  /\ UNCHANGED << routeVars, alias, data, native, raVars, call >>

DupNative(t, fd) ==
  /\ Clear(Stripe(fd)) /\ raLock = None
  /\ ~IsFake(fd) /\ native[fd] # None
  /\ ra' = [ra EXCEPT ![fd] = None]
  /\ \E n \in Low : Allocates(t, n) /\ native' = [native EXCEPT ![n] = native[fd]]
  /\ UNCHANGED << routeVars, fakeVars, raLock, call >>

-----------------------------------------------------------------------------
(* nx_read and nx_write on a fake descriptor: the stripe stays locked over  *)
(* fakefd_operation_read and _write, which may wait on fakefd's g_cond.     *)

BeginOp(t, fd, write) ==
  LET o == OpenAt(fd) IN
  /\ Begin(t, [Idle EXCEPT !.pc = "op", !.fd = fd, !.write = write, !.open = o])
  /\ Clear(Stripe(fd))
  /\ o # None
  /\ lock' = [lock EXCEPT ![Stripe(fd)] = t]
  /\ Retain(o)
  /\ UNCHANGED << replacing, valid, high, alias, data, native, raVars >>

\* An eventfd can be written (short of its limit) and, with data, read.
Ready(o, write) == write \/ o \in data

\* Reading leaves a semaphore what is left.
Transfer(o, write) == Becomes(o, IF write THEN {TRUE} ELSE {FALSE, (o \in data)})

FinishOp(t) ==
  LET o == call[t].open IN
  /\ At(t, "op")
  /\ Ready(o, call[t].write) \/ ~Blocking
  /\ Transfer(o, call[t].write)
  /\ Release(o)
  /\ lock' = [lock EXCEPT ![Stripe(call[t].fd)] = None]
  /\ Done(t)
  /\ UNCHANGED << replacing, valid, high, alias, native, raVars >>

-----------------------------------------------------------------------------
(* open_fake of a native file, and read_fake through its read-ahead window. *)

OpenFile(t, f) ==
  \E n \in Low :
    /\ Begin(t, [Idle EXCEPT !.pc = "attach", !.fd = n, !.open = f])
    /\ Allocates(t, n)
    /\ native' = [native EXCEPT ![n] = f]
    /\ UNCHANGED << routeVars, fakeVars, raVars >>

\* ra_attach, for a large file that was not opened for writing.
Attach(t) ==
  /\ At(t, "attach")
  /\ raLock = None
  /\ ra' \in {ra, [ra EXCEPT ![call[t].fd] = call[t].open]}
  /\ Done(t)
  /\ UNCHANGED << routeVars, fakeVars, native, raLock >>

\* read_fake where a window is attached; elsewhere it goes on to nx_read.
TakeTicket(t, fd) ==
  /\ ra[fd] # None
  /\ Begin(t, [Idle EXCEPT !.pc = "ticket", !.fd = fd])
  /\ Clear(Stripe(fd))
  /\ valid' = valid \union {t}
  /\ UNCHANGED << lock, replacing, fakeVars, native, raVars >>

\* ra_read_if_attached.  With a stale ticket the caller starts over.
ReadAhead(t) ==
  /\ At(t, "ticket")
  /\ raLock = None
  /\ valid' = valid \ {t}
  /\ IF t \in valid /\ ra[call[t].fd] # None
     THEN raLock' = t /\ Goto(t, "raRead")
     ELSE Done(t) /\ UNCHANGED raLock
  /\ UNCHANGED << lock, replacing, fakeVars, native, ra >>

ReadAheadDone(t) ==
  /\ At(t, "raRead")
  /\ raLock' = None
  /\ Done(t)
  /\ UNCHANGED << routeVars, fakeVars, native, ra >>

-----------------------------------------------------------------------------
(* close_fake: the number is marked as being replaced, its backend closed.  *)

CloseBegin(t, fd) ==
  /\ Begin(t, [Idle EXCEPT !.pc = "close", !.to = fd])
  /\ fd \in UserFd /\ ~Bad(fd)
  /\ Clear(Stripe(fd))
  /\ MarkReplacing(Stripe(fd))
  /\ UNCHANGED << lock, fakeVars, native, raVars >>

\* Seeded fault: the native reservation of an alias is closed first.
CloseReservationFirst(t, aliasPC, donePC) ==
  LET fd == call[t].to IN
  /\ raLock = None
  /\ OpenAt(fd) # None \/ fd \in Low
  /\ ra' = [n \in Low |-> IF n = fd THEN None ELSE ra[n]]
  /\ native' = [n \in Low |-> IF n = fd THEN None ELSE native[n]]
  /\ high' = [h \in High |-> IF h = fd THEN None ELSE high[h]]
  /\ IF fd \in High THEN Release(OpenAt(fd)) ELSE UNCHANGED refs
  /\ Goto(t, IF fd \in Low /\ IsFake(fd) THEN aliasPC ELSE donePC)
  /\ UNCHANGED << routeVars, alias, data, raLock >>

\* close_fake_backend: detach the window, then fakefd_close or close.
\* The reservation under an alias is closed in a step of its own, at aliasPC.
CloseBackend(t, aliasPC, donePC) ==
  LET fd == call[t].to
      o  == OpenAt(fd)
  IN
  \/ /\ o # None
     /\ raLock = None
     /\ ra' = [n \in Low |-> IF n = fd THEN None ELSE ra[n]]
     /\ high' = [h \in High |-> IF h = fd THEN None ELSE high[h]]
     /\ alias' = alias \ {<<fd, o>>}
     /\ Release(o)
     /\ Goto(t, IF fd \in Low THEN aliasPC ELSE donePC)
     /\ UNCHANGED << routeVars, data, native, raLock >>
  \/ /\ ~IsFake(fd) /\ ~Bad(fd)
     /\ raLock = None
     /\ ra' = [ra EXCEPT ![fd] = None]
     /\ native' = [native EXCEPT ![fd] = None]
     /\ Goto(t, donePC)
     /\ UNCHANGED << routeVars, fakeVars, raLock >>

CloseNative(t, donePC) ==
  /\ native' = [native EXCEPT ![call[t].to] = None]
  /\ Goto(t, donePC)
  /\ UNCHANGED << routeVars, fakeVars, raVars >>

Close(t) ==
  \/ At(t, "close") /\ CloseBackend(t, "closeNative", "settle")
  \/ At(t, "closeNative") /\ CloseNative(t, "settle")

-----------------------------------------------------------------------------
(* dup2_fake: nx_fd_route_pair_begin locks both stripes, the lower one      *)
(* first, and waits outside of the locks while either is being replaced.    *)

Dup2Begin(t, fd, to) ==
  /\ fd # to
  /\ fd \in UserFd /\ to \in UserFd
  /\ Begin(t, [Idle EXCEPT !.pc = "pairFirst", !.fd = fd, !.to = to])
  /\ UNCHANGED << routeVars, fakeVars, native, raVars >>

Source(t) == Stripe(call[t].fd)
Target(t) == Stripe(call[t].to)

FirstStripe(t) == IF Source(t) < Target(t) THEN Source(t) ELSE Target(t)
SecondStripe(t) == IF FirstStripe(t) = Source(t) THEN Target(t) ELSE Source(t)

PairFirst(t) ==
  /\ At(t, "pairFirst")
  /\ lock[FirstStripe(t)] = None
  /\ lock' = [lock EXCEPT ![FirstStripe(t)] = t]
  /\ Goto(t, IF Source(t) = Target(t) THEN "pairLocked" ELSE "pairSecond")
  /\ UNCHANGED << replacing, valid, fakeVars, native, raVars >>

PairSecond(t) ==
  /\ At(t, "pairSecond")
  /\ lock[SecondStripe(t)] = None
  /\ lock' = [lock EXCEPT ![SecondStripe(t)] = t]
  /\ Goto(t, "pairLocked")
  /\ UNCHANGED << replacing, valid, fakeVars, native, raVars >>

\* What a thread holds of the stripes, by where it is.
Held(t) ==
  {s \in Stripes : \/ At(t, "op") /\ s = Stripe(call[t].fd)
                   \/ At(t, "pairSecond") /\ s = FirstStripe(t)
                   \/ call[t].pc \in {"pairLocked", "pin"} /\ s \in {Source(t), Target(t)}}

UnlockPair(t) == lock' = [lock EXCEPT ![Source(t)] = None, ![Target(t)] = None]

PairRetry(t) ==
  /\ At(t, "pairLocked")
  /\ {Source(t), Target(t)} \intersect replacing # {}
  /\ UnlockPair(t)
  /\ Goto(t, IF Source(t) \in replacing THEN "waitSource" ELSE "waitTarget")
  /\ UNCHANGED << replacing, valid, fakeVars, native, raVars >>

PairWait(t) ==
  /\ \/ At(t, "waitSource") /\ Clear(Source(t))
     \/ At(t, "waitTarget") /\ Clear(Target(t))
  /\ Goto(t, "pairFirst")
  /\ UNCHANGED << routeVars, fakeVars, native, raVars >>

\* Seeded faults: the marks are not looked at again; the target is not marked.
PairUnchecked(t) ==
  /\ At(t, "pairLocked")
  /\ MarkReplacing(Target(t))
  /\ Goto(t, "pin")
  /\ UNCHANGED << lock, fakeVars, native, raVars >>

PairUnmarked(t) ==
  /\ At(t, "pairLocked")
  /\ {Source(t), Target(t)} \intersect replacing = {}
  /\ Goto(t, "pin")
  /\ UNCHANGED << routeVars, fakeVars, native, raVars >>

PairReplace(t) ==
  /\ At(t, "pairLocked")
  /\ {Source(t), Target(t)} \intersect replacing = {}
  /\ MarkReplacing(Target(t))
  /\ Goto(t, "pin")
  /\ UNCHANGED << lock, fakeVars, native, raVars >>

\* Seeded fault: only the source's window is flushed.
FlushSource(t) ==
  ra' = [n \in Low |-> IF n = call[t].fd THEN None ELSE ra[n]]

\* The windows of native numbers are flushed and detached, the target's always ...
FlushWindows(t) ==
  ra' = [n \in Low |->
           IF n = call[t].to \/ (n = call[t].fd /\ ~IsFake(n)) THEN None ELSE ra[n]]

\* ... and a private duplicate keeps the source's description, whatever happens
\* to the source's number once nx_fd_route_pair_release gives up the locks.
\* A free target may itself become that duplicate, and dup2 is done.
PinFake(t, h) ==
  LET o == OpenAt(call[t].fd) IN
  /\ At(t, "pin") /\ raLock = None
  /\ o # None
  /\ LowestHigh(t, h)
  /\ FlushWindows(t)
  /\ high' = [high EXCEPT ![h] = o]
  /\ Retain(o)
  /\ UnlockPair(t)
  /\ call' = [call EXCEPT ![t].pc = IF h = call[t].to THEN "settle" ELSE "install",
                          ![t].fd = None,
                          ![t].open = IF h = call[t].to THEN None ELSE o,
                          ![t].stable = IF h = call[t].to THEN None ELSE h]
  /\ UNCHANGED << replacing, valid, alias, data, native, raLock >>

PinNative(t, n) ==
  LET fd == call[t].fd IN
  /\ At(t, "pin") /\ raLock = None
  /\ ~IsFake(fd) /\ native[fd] # None
  /\ ~IsFake(call[t].to)
  /\ Allocates(t, n)
  /\ FlushWindows(t)
  /\ native' = [native EXCEPT ![n] = native[fd]]
  /\ UnlockPair(t)
  /\ call' = [call EXCEPT ![t].pc = IF n = call[t].to THEN "settle" ELSE "install",
                          ![t].fd = None,
                          ![t].open = IF n = call[t].to THEN None ELSE native[fd],
                          ![t].stable = IF n = call[t].to THEN None ELSE n]
  /\ UNCHANGED << replacing, valid, fakeVars, raLock >>

\* EBADF, EOPNOTSUPP, or no number for the duplicate (only then are the windows
\* gone already): nx_fd_route_replace_end with both locks held.
PinFails(t) ==
  LET fd == call[t].fd
      refused == Bad(fd) \/ (~IsFake(fd) /\ IsFake(call[t].to))
  IN
  /\ At(t, "pin") /\ raLock = None
  /\ \/ refused /\ UNCHANGED ra
     \/ /\ ~refused
        /\ IF IsFake(fd) THEN \A h \in High : ~LowestHigh(t, h)
           ELSE \A n \in Low : ~Allocates(t, n)
        /\ FlushWindows(t)
  /\ replacing' = replacing \ {Target(t)}
  /\ Invalidate(Target(t))
  /\ UnlockPair(t)
  /\ Done(t)
  /\ UNCHANGED << fakeVars, native, raLock >>

-----------------------------------------------------------------------------
(* fakefd_dup2 and the native dup2, on the pinned duplicate.                *)

\* A high target is replaced in one critical section.
InstallHigh(t) ==
  LET o == OpenAt(call[t].stable)
      to == call[t].to
  IN
  /\ At(t, "install") /\ call[t].stable \in High /\ to \in High
  /\ refs' = [x \in Open |-> refs[x] + (IF x = o THEN 1 ELSE 0)
                                     - (IF x = high[to] THEN 1 ELSE 0)]
  /\ high' = [high EXCEPT ![to] = o]
  /\ Goto(t, "installed")
  /\ UNCHANGED << routeVars, alias, data, native, raVars >>

InstallNative(t) ==
  /\ At(t, "install") /\ call[t].stable \in Low
  /\ native' = [native EXCEPT ![call[t].to] = native[call[t].stable]]
  /\ Goto(t, "installed")
  /\ UNCHANGED << routeVars, fakeVars, raVars >>

\* A low target becomes an alias over a native reservation of its number.
Installing == {"reserved", "closeTarget", "closeTargetNative", "moveHolder", "vacated",
               "closeHolder", "dropHolder", "unreserve", "publish"}
Reservers == {t \in Thread : call[t].pc \in Installing}

Reserve(t) ==
  /\ At(t, "install") /\ call[t].stable \in High /\ call[t].to \in Low
  /\ IF Cardinality(alias) + Cardinality(Reservers) < MaxAliases
     THEN Goto(t, "reserved") /\ Retain(call[t].open)
     ELSE /\ call' = [call EXCEPT ![t].pc = "failed", ![t].open = None]
          /\ UNCHANGED refs
  /\ UNCHANGED << routeVars, high, alias, data, native, raVars >>

OpenHolder(t) ==
  /\ At(t, "reserved")
  /\ \/ Goto(t, "unreserve") /\ UNCHANGED native
     \/ \E n \in Low :
          /\ Allocates(t, n)
          /\ native' = [native EXCEPT ![n] = Reservation]
          /\ call' = [call EXCEPT
               ![t].pc = IF n = call[t].to THEN "publish" ELSE "closeTarget",
               ![t].holder = IF n = call[t].to THEN None ELSE n]
  /\ UNCHANGED << routeVars, fakeVars, raVars >>

CloseTarget(t) ==
  \/ /\ At(t, "closeTarget") /\ Bad(call[t].to)
     /\ Goto(t, "moveHolder")
     /\ UNCHANGED << routeVars, fakeVars, native, raVars >>
  \/ At(t, "closeTarget") /\ CloseBackend(t, "closeTargetNative", "vacated")
  \/ At(t, "closeTargetNative") /\ CloseNative(t, "vacated")

\* dup2(holder, target) of the host, which closes what it finds at target.
MoveHolder(t) ==
  /\ call[t].pc \in {"moveHolder", "vacated"}
  /\ \/ /\ native' = [native EXCEPT ![call[t].to] = native[call[t].holder]]
        /\ Goto(t, "closeHolder")
     \/ Goto(t, "dropHolder") /\ UNCHANGED native
  /\ UNCHANGED << routeVars, fakeVars, raVars >>

CloseHolder(t) ==
  /\ call[t].pc \in {"closeHolder", "dropHolder"}
  /\ native' = [native EXCEPT ![call[t].holder] = None]
  /\ call' = [call EXCEPT
       ![t].pc = IF At(t, "closeHolder") THEN "publish" ELSE "unreserve",
       ![t].holder = None]
  /\ UNCHANGED << routeVars, fakeVars, raVars >>

Unreserve(t) ==
  /\ At(t, "unreserve")
  /\ Release(call[t].open)
  /\ call' = [call EXCEPT ![t].pc = "failed", ![t].open = None]
  /\ UNCHANGED << routeVars, high, alias, data, native, raVars >>

Publish(t) ==
  /\ At(t, "publish")
  /\ alias' = alias \union {<<call[t].to, call[t].open>>}
  /\ Goto(t, "installed")
  /\ UNCHANGED << routeVars, high, refs, data, native, raVars >>

\* The private duplicate is closed, with or without success.
DropStable(t) ==
  LET stable == call[t].stable IN
  /\ call[t].pc \in {"installed", "failed"}
  /\ IF stable \in High
     THEN /\ high' = [high EXCEPT ![stable] = None]
          /\ Release(high[stable])
          /\ UNCHANGED native
     ELSE /\ native' = [native EXCEPT ![stable] = None]
          /\ UNCHANGED << high, refs >>
  /\ call' = [call EXCEPT ![t] = [Idle EXCEPT !.pc = "settle", !.to = call[t].to]]
  /\ UNCHANGED << routeVars, alias, data, raVars >>

-----------------------------------------------------------------------------
Pair(t) ==
  \/ PairFirst(t) \/ PairSecond(t) \/ PairRetry(t) \/ PairWait(t)
  \/ PairReplace(t)

Pin(t) ==
  \/ \E h \in High : PinFake(t, h)
  \/ \E n \in Low : PinNative(t, n)
  \/ PinFails(t)

Install(t) ==
  \/ InstallHigh(t) \/ InstallNative(t) \/ Reserve(t) \/ OpenHolder(t)
  \/ CloseTarget(t) \/ MoveHolder(t) \/ CloseHolder(t) \/ Unreserve(t)
  \/ Publish(t) \/ DropStable(t)

\* What a thread does in a call it has begun.
Continue(t) ==
  \/ FinishOp(t) \/ Attach(t) \/ ReadAhead(t) \/ ReadAheadDone(t)
  \/ Close(t) \/ Pair(t) \/ Pin(t) \/ Install(t) \/ Settle(t)

Start(t) ==
  /\ At(t, "idle")
  /\ \/ \E o \in Open : Create(t, o)
     \/ \E f \in File : OpenFile(t, f)
     \/ \E fd \in UserFd :
          \/ DupFake(t, fd) \/ CloseBegin(t, fd)
          \/ \E write \in BOOLEAN : BeginOp(t, fd, write)
          \/ \E to \in UserFd : Dup2Begin(t, fd, to)
     \/ \E fd \in UserFd \intersect Low : DupNative(t, fd) \/ TakeTicket(t, fd)

Next == \E t \in Thread : Start(t) \/ Continue(t)

Spec == Init /\ [][Next]_vars

-----------------------------------------------------------------------------
(* Properties.                                                              *)

\* fakefd's reference counts are exact at each step of each call: a description
\* dies with its last number and its last operation, and no number, operation
\* or half-done dup2 is left with one that died.
RefsExact ==
  \A o \in Open :
    refs[o] = Cardinality({h \in High : high[h] = o})
            + Cardinality({n \in Low : <<n, o>> \in alias})
            + Cardinality({t \in Thread : At(t, "op") /\ call[t].open = o})
            + Cardinality({t \in Reservers : call[t].open = o})

\* While nx_read or nx_write works under the stripe of its number, neither a
\* close nor a dup2 puts anything else behind that number.
OpKeepsTarget ==
  \A t \in Thread : At(t, "op") => OpenAt(call[t].fd) = call[t].open

\* A published alias sits on a native reservation of its number (or the host
\* would give the number to another file), and there is one per number.
AliasReserved ==
  \A a \in alias :
    /\ native[a[1]] = Reservation
    /\ \A b \in alias : a[1] = b[1] => a = b

\* A successful dup2 leaves at the target what the source denoted when the pair
\* was locked, although the locks were given up before the target is replaced
\* and the source may have been closed or replaced since.
Dup2Installs ==
  \A t \in Thread : At(t, "installed") =>
    IF call[t].stable \in High
    THEN OpenAt(call[t].to) = call[t].open
    ELSE native[call[t].to] = call[t].open

\* The table is well formed, and its fake side is exact (fakefd.c:97-262).
AliasesExact == TypeOK /\ RefsExact /\ AliasReserved

\* A number means one thing to the call that uses or installs it, whatever other
\* threads close and replace (genshin_compat.c:1346, imports.c:2046).
NumbersKept == OpKeepsTarget /\ Dup2Installs

\* A read through a read-ahead window refills from the file the window was
\* opened for: close and dup2 cannot recycle the number under its lseek and read.
WindowReadsItsFile ==
  \A t \in Thread : At(t, "raRead") => native[call[t].fd] = ra[call[t].fd]

\* Every mark and every lock of a stripe belongs to exactly one call that will
\* take it back: two replacements never overlap on a stripe, and none leaves a
\* mark or a lock behind, which would hang every later call on its numbers.
StripesAccounted ==
  \A s \in Stripes :
    /\ Cardinality({t \in Thread : call[t].pc \in Replacing /\ Target(t) = s})
         = IF s \in replacing THEN 1 ELSE 0
    /\ {t \in Thread : s \in Held(t)} = {lock[s]} \ {None}

\* dup2_fake calls its replacement atomic: the number of an open descriptor that
\* it replaces is never handed to an open in another thread, whose new file the
\* host's dup2 would then close.
ReplacementAtomic ==
  \A t \in Thread : At(t, "vacated") => native[call[t].to] = None

\* The comment at FdRouteStripe: "blocking I/O never holds one of these locks".
BlockingHoldsNoStripe ==
  \A t \in Thread :
    At(t, "op") /\ Blocking /\ ~Ready(call[t].open, call[t].write) =>
      \A s \in Stripes : lock[s] # t

=============================================================================
