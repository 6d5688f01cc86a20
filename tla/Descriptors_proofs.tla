-------------------------- MODULE Descriptors_proofs --------------------------
(***************************************************************************)
(* Theorems about Descriptors, for any threads, numbers, descriptions and  *)
(* stripes, in three parts: the locks, what a number means, and what the   *)
(* tables say of each other.                                               *)
(***************************************************************************)
EXTENDS Descriptors, FiniteSetTheorems, TLAPS

(***************************************************************************)
(* 1. Each lock and each mark of a route stripe belongs to one call that   *)
(* takes it back, and they keep a number's meaning while it is used.       *)
(***************************************************************************)

\* The calls that have two numbers, and those with a second native one.
Paired == Pairing \union {"pin"}
Holding == {"closeTarget", "closeTargetNative", "moveHolder", "vacated", "closeHolder",
            "dropHolder"}

Calls == [pc : PC, fd : Fd \union {None}, to : Fd \union {None},
          write : BOOLEAN, open : Open \union File \union {Reservation, None},
          stable : Fd \union {None}, holder : Low \union {None}]

\* The types that the argument needs, and the numbers that a call has.
Shape ==
  /\ lock \in [Stripes -> Thread \union {None}]
  /\ replacing \subseteq Stripes
  /\ high \in [High -> Open \union {None}]
  /\ native \in [Low -> File \union {Reservation, None}]
  /\ call \in [Thread -> Calls]
  /\ \A t \in Thread :
       /\ call[t].pc \in Paired \union {"op"} => call[t].fd \in Fd
       /\ call[t].pc \in Paired \union Replacing => call[t].to \in Fd
       /\ call[t].pc \in Holding => call[t].holder \in Low

Replaces(t) == call[t].pc \in Replacing

\* A mark is there for one call, which replaces a number of the stripe.
Marks ==
  /\ \A t \in Thread : Replaces(t) => Target(t) \in replacing
  /\ \A t, u \in Thread : Replaces(t) /\ Replaces(u) /\ Target(t) = Target(u) => t = u
  /\ \A s \in replacing : \E t \in Thread : Replaces(t) /\ Target(t) = s

\* A lock is held where the call holds it.
Locks == \A s \in Stripes, t \in Thread : lock[s] = t <=> s \in Held(t)

\* No number of a marked stripe is in use.
Apart == \A t \in Thread : At(t, "op") => Stripe(call[t].fd) \notin replacing

IInv == Shape /\ Marks /\ Locks /\ Apart

\* No thread is None.
LEMMA Named == \A t \in Thread : t # None
BY DescriptorAssumption

LEMMA StripeOf == \A fd \in Fd : Stripe(fd) \in Stripes
BY DEF Stripes

LEMMA OpenTyped == ASSUME Shape PROVE \A fd \in Fd : OpenAt(fd) \in Open \union {None}
BY DEF Shape, OpenAt, Fd

\* Steps that take or give back neither a lock nor a mark.
LEMMA Quiet ==
  ASSUME IInv, Shape', NEW t \in Thread,
         \A u \in Thread \ {t} : call'[u] = call[u],
         UNCHANGED <<lock, replacing>>,
         call[t].pc \notin {"op", "pairSecond", "pairLocked", "pin"},
         call'[t].pc \notin {"op", "pairSecond", "pairLocked", "pin"},
         call[t].pc \in Replacing <=> call'[t].pc \in Replacing,
         call[t].pc \in Replacing => call'[t].to = call[t].to
  PROVE  IInv'
<1>1. \A u \in Thread : Held(u)' = Held(u)
  <2>1. Held(t) = {} /\ Held(t)' = {}
    BY DEF Held, At
  <2>2. ASSUME NEW u \in Thread \ {t} PROVE Held(u)' = Held(u)
    BY DEF Held, At, FirstStripe, Source, Target
  <2> QED
    BY <2>1, <2>2
<1>2. \A u \in Thread : /\ Replaces(u)' <=> Replaces(u)
                        /\ Replaces(u) => Target(u)' = Target(u)
  BY DEF Replaces, Target
<1>3. Locks'
  BY <1>1 DEF IInv, Locks
<1>4. Marks'
  BY <1>2 DEF IInv, Marks
<1>5. Apart'
  BY DEF IInv, Apart, At
<1> QED
  BY <1>3, <1>4, <1>5 DEF IInv

LEMMA Initial == Init => IInv
<1> SUFFICES ASSUME Init PROVE IInv
  OBVIOUS
<1> USE DEF Init
<1>1. Idle \in Calls /\ Idle.pc = "idle"
  BY DEF Idle, Calls, PC
<1>2. \A t \in Thread : call[t] = Idle /\ Held(t) = {}
  BY <1>1 DEF Held, At
<1>3. Shape
  BY <1>1 DEF Shape, Paired, Pairing, Replacing, Holding
<1>4. Marks /\ Locks /\ Apart
  BY <1>1, <1>2, Named DEF Marks, Locks, Apart, Replaces, Replacing, At
<1> QED
  BY <1>3, <1>4 DEF IInv

\* The call of a thread after a step.
LEMMA Stepped ==
  ASSUME Shape, NEW t \in Thread, NEW c \in Calls, call' = [call EXCEPT ![t] = c],
         lock' \in [Stripes -> Thread \union {None}], replacing' \subseteq Stripes,
         high' \in [High -> Open \union {None}],
         native' \in [Low -> File \union {Reservation, None}],
         c.pc \in Paired \union {"op"} => c.fd \in Fd,
         c.pc \in Paired \union Replacing => c.to \in Fd,
         c.pc \in Holding => c.holder \in Low
  PROVE  Shape'
BY DEF Shape

\* Calls that a thread begins.
LEMMA StartTyped ==
  ASSUME Shape, NEW t \in Thread, Start(t)
  PROVE  Shape'
<1> USE DEF Shape, Fd
<1>0. UserFd \subseteq Fd
  BY DEF UserFd
<1>1. CASE \/ \E o \in Open : Create(t, o)
           \/ \E fd \in UserFd : DupFake(t, fd)
           \/ \E fd \in UserFd \intersect Low : DupNative(t, fd)
  <2>1. CASE \E o \in Open : Create(t, o)
    BY <2>1 DEF Create, routeVars
  <2>2. CASE \E fd \in UserFd : DupFake(t, fd)
    BY <2>2, <1>0, OpenTyped DEF DupFake, routeVars
  <2>3. CASE \E fd \in UserFd \intersect Low : DupNative(t, fd)
    BY <2>3 DEF DupNative, routeVars, fakeVars
  <2> QED
    BY <1>1, <2>1, <2>2, <2>3
<1>2. ASSUME NEW f \in File, OpenFile(t, f) PROVE Shape'
  <2>0. PICK n \in Low :
         /\ call' = [call EXCEPT ![t] = [Idle EXCEPT !.pc = "attach", !.fd = n, !.open = f]]
         /\ native' = [native EXCEPT ![n] = f]
         /\ UNCHANGED << routeVars, fakeVars, raVars >>
    BY <1>2 DEF OpenFile, Begin
  <2> DEFINE c == [Idle EXCEPT !.pc = "attach", !.fd = n, !.open = f]
  <2>1. c \in Calls /\ c.pc = "attach"
    BY DEF Idle, Calls, PC
  <2>2. c.pc \notin Paired \union {"op"} \union Replacing \union Holding
    BY <2>1 DEF Paired, Pairing, Replacing, Holding
  <2>3. /\ call' = [call EXCEPT ![t] = c] /\ native' = [native EXCEPT ![n] = f]
        /\ UNCHANGED << routeVars, fakeVars >>
    BY <2>0
  <2> HIDE DEF c
  <2> QED
    BY <2>1, <2>2, <2>3, Stepped DEF routeVars, fakeVars
<1>3. ASSUME NEW fd \in UserFd, CloseBegin(t, fd) PROVE Shape'
  <2> DEFINE c == [Idle EXCEPT !.pc = "close", !.to = fd]
  <2>1. c \in Calls /\ c.pc = "close" /\ c.to = fd
    BY <1>0 DEF Idle, Calls, PC
  <2>2. c.pc \notin Paired \union {"op"} \union Holding
    BY <2>1 DEF Paired, Pairing, Holding
  <2>3. /\ call' = [call EXCEPT ![t] = c] /\ replacing' = replacing \union {Stripe(fd)}
        /\ UNCHANGED << lock, fakeVars, native >>
    BY <1>3 DEF CloseBegin, Begin, MarkReplacing
  <2> HIDE DEF c
  <2> QED
    BY <1>0, <2>1, <2>2, <2>3, StripeOf, Stepped DEF fakeVars
<1>4. ASSUME NEW fd \in UserFd, NEW write \in BOOLEAN, BeginOp(t, fd, write) PROVE Shape'
  <2> DEFINE c == [Idle EXCEPT !.pc = "op", !.fd = fd, !.write = write, !.open = OpenAt(fd)]
  <2>1. c \in Calls /\ c.pc = "op" /\ c.fd = fd
    BY <1>0, OpenTyped DEF Idle, Calls, PC
  <2>2. c.pc \notin Paired \union Replacing \union Holding
    BY <2>1 DEF Paired, Pairing, Replacing, Holding
  <2>3. /\ call' = [call EXCEPT ![t] = c] /\ lock' = [lock EXCEPT ![Stripe(fd)] = t]
        /\ UNCHANGED << replacing, high, alias, native >>
    BY <1>4 DEF BeginOp, Begin
  <2> HIDE DEF c
  <2> QED
    BY <1>0, <2>1, <2>2, <2>3, StripeOf, Stepped
<1>5. ASSUME NEW fd \in UserFd, NEW to \in UserFd, Dup2Begin(t, fd, to) PROVE Shape'
  <2> DEFINE c == [Idle EXCEPT !.pc = "pairFirst", !.fd = fd, !.to = to]
  <2>1. c \in Calls /\ c.pc = "pairFirst" /\ c.fd = fd /\ c.to = to
    BY <1>0 DEF Idle, Calls, PC
  <2>2. c.pc \notin Holding
    BY <2>1 DEF Holding
  <2>3. call' = [call EXCEPT ![t] = c] /\ UNCHANGED << routeVars, fakeVars, native >>
    BY <1>5 DEF Dup2Begin, Begin
  <2> HIDE DEF c
  <2> QED
    BY <1>0, <2>1, <2>2, <2>3, Stepped DEF routeVars, fakeVars
<1>6. ASSUME NEW fd \in UserFd \intersect Low, TakeTicket(t, fd) PROVE Shape'
  <2> DEFINE c == [Idle EXCEPT !.pc = "ticket", !.fd = fd]
  <2>1. c \in Calls /\ c.pc = "ticket"
    BY <1>0 DEF Idle, Calls, PC
  <2>2. c.pc \notin Paired \union {"op"} \union Replacing \union Holding
    BY <2>1 DEF Paired, Pairing, Replacing, Holding
  <2>3. call' = [call EXCEPT ![t] = c] /\ UNCHANGED << lock, replacing, fakeVars, native >>
    BY <1>6 DEF TakeTicket, Begin
  <2> HIDE DEF c
  <2> QED
    BY <2>1, <2>2, <2>3, Stepped DEF fakeVars
<1> QED
  BY <1>1, <1>2, <1>3, <1>4, <1>5, <1>6 DEF Start

\* The rest of a call, when it goes on elsewhere.
LEMMA Went ==
  ASSUME Shape, NEW t \in Thread, NEW pc \in PC, call' = [call EXCEPT ![t].pc = pc],
         lock' \in [Stripes -> Thread \union {None}], replacing' \subseteq Stripes,
         high' \in [High -> Open \union {None}],
         native' \in [Low -> File \union {Reservation, None}],
         pc \in Paired \union {"op"} => call[t].fd \in Fd,
         pc \in Paired \union Replacing => call[t].to \in Fd,
         pc \in Holding => call[t].holder \in Low
  PROVE  Shape'
<1> DEFINE c == [call[t] EXCEPT !.pc = pc]
<1>1. /\ c \in Calls /\ c.pc = pc /\ c.fd = call[t].fd /\ c.to = call[t].to
      /\ c.holder = call[t].holder
  BY DEF Shape, Calls
<1>2. call' = [call EXCEPT ![t] = c]
  BY DEF Shape
<1> HIDE DEF c
<1> QED
  BY <1>1, <1>2, Stepped

\* The end of a call.
LEMMA Ended ==
  ASSUME Shape, NEW t \in Thread, Done(t),
         lock' \in [Stripes -> Thread \union {None}], replacing' \subseteq Stripes,
         high' \in [High -> Open \union {None}],
         native' \in [Low -> File \union {Reservation, None}]
  PROVE  Shape'
<1>1. Idle \in Calls /\ Idle.pc = "idle"
  BY DEF Idle, Calls, PC
<1>2. Idle.pc \notin Paired \union {"op"} \union Replacing \union Holding
  BY <1>1 DEF Paired, Pairing, Replacing, Holding
<1> QED
  BY <1>1, <1>2, Stepped DEF Done

\* What is locked and unlocked has its type.
LEMMA UnlockTyped ==
  ASSUME Shape, NEW t \in Thread, UnlockPair(t)
  PROVE  lock' \in [Stripes -> Thread \union {None}]
BY DEF Shape, UnlockPair

\* close_fake_backend and the reservation under an alias.
LEMMA BackendTyped ==
  ASSUME Shape, NEW t \in Thread, NEW aliasPC \in PC, NEW donePC \in PC,
         CloseBackend(t, aliasPC, donePC) \/ CloseNative(t, donePC)
  PROVE  /\ \E pc \in {aliasPC, donePC} : call' = [call EXCEPT ![t].pc = pc]
         /\ UNCHANGED routeVars
         /\ high' \in [High -> Open \union {None}]
         /\ native' \in [Low -> File \union {Reservation, None}]
<1>1. CASE CloseBackend(t, aliasPC, donePC)
  BY <1>1 DEF CloseBackend, Goto, Shape, fakeVars
<1>2. CASE CloseNative(t, donePC)
  BY <1>2 DEF CloseNative, Goto, Shape, fakeVars
<1> QED
  BY <1>1, <1>2

LEMMA ContinueTyped ==
  ASSUME Shape, NEW t \in Thread, Continue(t)
  PROVE  Shape'
<1>0. /\ lock \in [Stripes -> Thread \union {None}] /\ replacing \subseteq Stripes
      /\ high \in [High -> Open \union {None}]
      /\ native \in [Low -> File \union {Reservation, None}]
  BY DEF Shape
<1> USE DEF Goto, At
<1>1. CASE FinishOp(t) \/ Attach(t) \/ ReadAhead(t) \/ ReadAheadDone(t) \/ Settle(t)
  <2>1. CASE ReadAhead(t) /\ call' = [call EXCEPT ![t].pc = "raRead"]
    BY <1>0, <2>1, Went
    DEF ReadAhead, fakeVars, PC, Paired, Pairing, Replacing, Holding
  <2>2. CASE Done(t) /\ \/ ReadAhead(t) \/ Attach(t) \/ ReadAheadDone(t)
    BY <1>0, <2>2, Ended DEF ReadAhead, Attach, ReadAheadDone, routeVars, fakeVars
  <2>3. CASE FinishOp(t)
    BY <1>0, <2>3, Ended DEF FinishOp
  <2>4. CASE Settle(t)
    BY <1>0, <2>4, Ended DEF Settle, fakeVars
  <2> QED
    BY <1>1, <2>1, <2>2, <2>3, <2>4 DEF ReadAhead, Attach, ReadAheadDone
<1>2. CASE Close(t) \/ CloseTarget(t)
  <2>1. call[t].pc \in {"close", "closeNative", "closeTarget", "closeTargetNative"}
    BY <1>2 DEF Close, CloseTarget
  <2>2. call[t].to \in Fd /\ (call[t].pc \in Holding => call[t].holder \in Low)
    BY <2>1 DEF Shape, Paired, Pairing, Replacing, PC
  <2>3. \E pc \in {"closeNative", "settle", "closeTargetNative", "vacated", "moveHolder"} :
          /\ call' = [call EXCEPT ![t].pc = pc]
          /\ pc \in Holding => call[t].pc \in Holding
    <3>0. {"closeNative", "settle", "closeTargetNative", "vacated"} \subseteq PC
      BY DEF PC
    <3>1. ASSUME NEW aliasPC \in PC, NEW donePC \in PC,
                 CloseBackend(t, aliasPC, donePC) \/ CloseNative(t, donePC)
          PROVE  \E pc \in {aliasPC, donePC} : call' = [call EXCEPT ![t].pc = pc]
      BY <3>1, BackendTyped
    <3>2. CASE Close(t)
      <4>1. \E pc \in {"closeNative", "settle"} : call' = [call EXCEPT ![t].pc = pc]
        BY <3>0, <3>1, <3>2 DEF Close
      <4> QED
        BY <4>1 DEF Holding
    <3>3. CASE CloseTarget(t)
      <4>1. \E pc \in {"closeTargetNative", "vacated", "moveHolder"} :
              call' = [call EXCEPT ![t].pc = pc]
        BY <3>0, <3>1, <3>3 DEF CloseTarget
      <4> QED
        BY <3>3, <4>1 DEF CloseTarget, Holding
    <3> QED
      BY <1>2, <3>2, <3>3
  <2>4. /\ UNCHANGED routeVars
        /\ high' \in [High -> Open \union {None}]
        /\ native' \in [Low -> File \union {Reservation, None}]
    <3>1. CASE Close(t)
      BY <3>1, BackendTyped DEF Close, PC
    <3>2. CASE CloseTarget(t)
      BY ZenonT(60), <1>0, <3>2, BackendTyped DEF CloseTarget, PC, fakeVars
    <3> QED
      BY <1>2, <3>1, <3>2
  <2> QED
    BY <1>0, <2>2, <2>3, <2>4, Went DEF routeVars, PC, Paired, Pairing, Replacing
<1>3. CASE Pair(t)
  <2>1. /\ call[t].pc \in Pairing
        /\ \E pc \in Pairing \union {"pin"} : call' = [call EXCEPT ![t].pc = pc]
        /\ UNCHANGED << high, alias, native >>
    BY <1>3 DEF Pair, PairFirst, PairSecond, PairRetry, PairWait, PairReplace, Pairing,
                fakeVars
  <2>2. call[t].fd \in Fd /\ call[t].to \in Fd
    BY <2>1 DEF Shape, Paired
  <2>3. FirstStripe(t) \in Stripes /\ SecondStripe(t) \in Stripes /\ Target(t) \in Stripes
    BY <2>2, StripeOf DEF FirstStripe, SecondStripe, Source, Target
  <2>4. lock' \in [Stripes -> Thread \union {None}] /\ replacing' \subseteq Stripes
    <3>1. CASE PairFirst(t) \/ PairSecond(t)
      BY <1>0, <2>3, <3>1 DEF PairFirst, PairSecond
    <3>2. CASE PairRetry(t)
      BY <1>0, <3>2, UnlockTyped DEF PairRetry
    <3>3. CASE PairWait(t) \/ PairReplace(t)
      BY <1>0, <2>3, <3>3 DEF PairWait, PairReplace, MarkReplacing, routeVars
    <3> QED
      BY <1>3, <3>1, <3>2, <3>3 DEF Pair
  <2> QED
    BY <1>0, <2>1, <2>2, <2>4, Went DEF Pairing, PC, Paired, Holding
<1>4. CASE Pin(t)
  <2>1. call[t].pc = "pin" /\ call[t].fd \in Fd /\ call[t].to \in Fd
    BY <1>4 DEF Pin, PinFake, PinNative, PinFails, Shape, Paired
  <2>2. CASE PinFails(t)
    BY <1>0, <2>1, <2>2, Ended, UnlockTyped DEF PinFails, fakeVars
  <2>3. CASE \/ \E h \in High : PinFake(t, h)
             \/ \E n \in Low : PinNative(t, n)
    <3> DEFINE Opens == Open \union File \union {Reservation, None}
               Moves(pc, open, stable) ==
                 call' = [call EXCEPT ![t].pc = pc, ![t].fd = None, ![t].open = open,
                                      ![t].stable = stable]
    <3>1. \E pc \in {"settle", "install"}, open \in Opens, stable \in Fd \union {None} :
            Moves(pc, open, stable)
      <4>1. ASSUME NEW h \in High, PinFake(t, h)
            PROVE  \E pc \in {"settle", "install"}, open \in Opens,
                      stable \in Fd \union {None} : Moves(pc, open, stable)
        <5> DEFINE o == OpenAt(call[t].fd)
        <5>1. o \in Open
          BY <2>1, <4>1, OpenTyped DEF PinFake
        <5>2. Moves(IF h = call[t].to THEN "settle" ELSE "install",
                    IF h = call[t].to THEN None ELSE o, IF h = call[t].to THEN None ELSE h)
          BY <4>1 DEF PinFake
        <5> HIDE DEF o, Moves
        <5> QED
          BY <5>1, <5>2 DEF Fd
      <4>2. ASSUME NEW n \in Low, PinNative(t, n)
            PROVE  \E pc \in {"settle", "install"}, open \in Opens,
                      stable \in Fd \union {None} : Moves(pc, open, stable)
        <5> DEFINE f == native[call[t].fd]
        <5>1. f \in Opens
          BY <1>0, <2>1, <4>2 DEF PinNative, IsFake, Fd
        <5>2. Moves(IF n = call[t].to THEN "settle" ELSE "install",
                    IF n = call[t].to THEN None ELSE f, IF n = call[t].to THEN None ELSE n)
          BY <4>2 DEF PinNative
        <5> HIDE DEF f, Moves
        <5> QED
          BY <5>1, <5>2 DEF Fd
      <4> QED
        BY <2>3, <4>1, <4>2
    <3>2. PICK pc \in {"settle", "install"}, open \in Opens, stable \in Fd \union {None} :
                 Moves(pc, open, stable)
      BY <3>1
    <3> DEFINE c == [call[t] EXCEPT !.pc = pc, !.fd = None, !.open = open, !.stable = stable]
    <3>3. c \in Calls /\ c.pc = pc /\ c.to = call[t].to
      BY ZenonT(60) DEF Shape, Calls, PC
    <3>4. call' = [call EXCEPT ![t] = c]
      BY <3>2 DEF Shape, Calls
    <3>5. /\ lock' \in [Stripes -> Thread \union {None}] /\ replacing' = replacing
          /\ high' \in [High -> Open \union {None}]
          /\ native' \in [Low -> File \union {Reservation, None}]
      <4>1. CASE \E h \in High : PinFake(t, h)
        BY <1>0, <2>1, <4>1, OpenTyped, UnlockTyped DEF PinFake
      <4>2. CASE \E n \in Low : PinNative(t, n)
        BY <1>0, <2>1, <4>2, UnlockTyped DEF PinNative, IsFake, Fd, fakeVars
      <4> QED
        BY <2>3, <4>1, <4>2
    <3>6. pc \notin Paired \union {"op"} \union Holding
      BY DEF Paired, Pairing, Holding
    <3> HIDE DEF c
    <3> QED
      BY <1>0, <2>1, <3>3, <3>4, <3>5, <3>6, Stepped
  <2> QED
    BY <1>4, <2>2, <2>3 DEF Pin
<1>5. CASE \/ InstallHigh(t) \/ InstallNative(t) \/ OpenHolder(t) \/ MoveHolder(t)
           \/ CloseHolder(t) \/ Reserve(t) \/ Unreserve(t) \/ Publish(t) \/ DropStable(t)
  <2>0. call[t].pc \in Replacing /\ call[t].to \in Fd
    BY <1>5 DEF InstallHigh, InstallNative, OpenHolder, MoveHolder, CloseHolder, Reserve,
                Unreserve, Publish, DropStable, Shape, Replacing, PC, Pairing
  <2>1. CASE InstallHigh(t) \/ InstallNative(t) \/ MoveHolder(t)
    <3>1. CASE InstallHigh(t)
      BY <1>0, <2>0, <3>1, OpenTyped, Went
      DEF InstallHigh, routeVars, Fd, PC, Paired, Pairing, Holding
    <3>2. CASE InstallNative(t)
      BY <1>0, <2>0, <3>2, Went
      DEF InstallNative, routeVars, fakeVars, PC, Paired, Pairing, Holding
    <3>3. CASE MoveHolder(t)
      <4>1. call[t].holder \in Low
        BY <3>3 DEF MoveHolder, Shape, Holding
      <4> QED
        BY <1>0, <2>0, <3>3, <4>1, Went
        DEF MoveHolder, routeVars, fakeVars, PC, Paired, Pairing
    <3> QED
      BY <2>1, <3>1, <3>2, <3>3
  <2>2. CASE \/ Publish(t)
             \/ Reserve(t) /\ call' = [call EXCEPT ![t].pc = "reserved"]
             \/ OpenHolder(t) /\ native' = native
                  /\ call' = [call EXCEPT ![t].pc = "unreserve"]
    <3>1. /\ UNCHANGED <<lock, replacing, high, native>>
          /\ \E pc \in {"installed", "reserved", "unreserve"} :
               call' = [call EXCEPT ![t].pc = pc]
      <4>1. CASE Publish(t)
        BY <4>1 DEF Publish, routeVars
      <4>2. CASE Reserve(t) /\ call' = [call EXCEPT ![t].pc = "reserved"]
        BY <4>2 DEF Reserve, routeVars
      <4>3. CASE OpenHolder(t) /\ native' = native
                   /\ call' = [call EXCEPT ![t].pc = "unreserve"]
        BY <4>3 DEF OpenHolder, routeVars, fakeVars
      <4> QED
        BY <2>2, <4>1, <4>2, <4>3
    <3>2. PICK pc \in {"installed", "reserved", "unreserve"} :
            call' = [call EXCEPT ![t].pc = pc]
      BY <3>1
    <3>3. pc \in PC /\ pc \notin Paired \union {"op"} \union Holding
      BY DEF PC, Paired, Pairing, Holding
    <3> QED
      BY <1>0, <2>0, <3>1, <3>2, <3>3, Went
  <2>3. CASE \/ Reserve(t) /\ call' = [call EXCEPT ![t].pc = "failed", ![t].open = None]
             \/ Unreserve(t)
    <3> DEFINE c == [call[t] EXCEPT !.pc = "failed", !.open = None]
    <3>1. c \in Calls /\ c.pc = "failed" /\ c.to = call[t].to
      BY ZenonT(60) DEF Shape, Calls, PC
    <3>2. call' = [call EXCEPT ![t] = c] /\ UNCHANGED <<lock, replacing, high, native>>
      BY <2>3 DEF Shape, Calls, Reserve, Unreserve, routeVars
    <3> HIDE DEF c
    <3> QED
      BY <1>0, <2>0, <3>1, <3>2, Stepped DEF Paired, Pairing, Holding
  <2> DEFINE Opened(n) ==
               /\ native' = [native EXCEPT ![n] = Reservation]
               /\ UNCHANGED <<routeVars, fakeVars>>
               /\ call' = [call EXCEPT
                    ![t].pc = IF n = call[t].to THEN "publish" ELSE "closeTarget",
                    ![t].holder = IF n = call[t].to THEN None ELSE n]
  <2>4. CASE \E n \in Low : Opened(n)
    <3> PICK n \in Low : Opened(n)
      BY <2>4
    <3> DEFINE c == [call[t] EXCEPT !.pc = IF n = call[t].to THEN "publish" ELSE "closeTarget",
                                    !.holder = IF n = call[t].to THEN None ELSE n]
    <3>1. /\ c \in Calls /\ c.to = call[t].to
          /\ c.pc = "publish" \/ (c.pc = "closeTarget" /\ c.holder \in Low)
      BY ZenonT(60) DEF Shape, Calls, PC
    <3>2. /\ call' = [call EXCEPT ![t] = c]
          /\ UNCHANGED <<lock, replacing, high>>
          /\ native' \in [Low -> File \union {Reservation, None}]
      BY <1>0 DEF Shape, Calls, routeVars, fakeVars
    <3> HIDE DEF c
    <3> QED
      BY <1>0, <2>0, <3>1, <3>2, Stepped DEF Paired, Pairing, Holding
  <2>5. CASE CloseHolder(t)
    <3> DEFINE pc == IF call[t].pc = "closeHolder" THEN "publish" ELSE "unreserve"
               c == [call[t] EXCEPT !.pc = pc, !.holder = None]
    <3>1. c \in Calls /\ c.pc \in {"publish", "unreserve"} /\ c.to = call[t].to
      BY ZenonT(60) DEF Shape, Calls, PC
    <3>2. /\ call' = [call EXCEPT ![t] = c] /\ UNCHANGED <<lock, replacing, high>>
          /\ native' \in [Low -> File \union {Reservation, None}]
      BY <1>0, <2>5 DEF Shape, Calls, CloseHolder, routeVars, fakeVars
    <3> HIDE DEF c
    <3> QED
      BY <1>0, <2>0, <3>1, <3>2, Stepped DEF Paired, Pairing, Holding
  <2>6. CASE DropStable(t)
    <3> DEFINE c == [Idle EXCEPT !.pc = "settle", !.to = call[t].to]
    <3>1. c \in Calls /\ c.pc = "settle" /\ c.to = call[t].to
      BY <2>0 DEF Idle, Calls, PC
    <3>2. /\ call' = [call EXCEPT ![t] = c] /\ UNCHANGED <<lock, replacing>>
          /\ high' \in [High -> Open \union {None}]
          /\ native' \in [Low -> File \union {Reservation, None}]
      BY <1>0, <2>6 DEF DropStable, routeVars
    <3> HIDE DEF c
    <3> QED
      BY <1>0, <2>0, <3>1, <3>2, Stepped DEF Paired, Pairing, Holding
  <2> QED
    BY <1>5, <2>1, <2>2, <2>3, <2>4, <2>5, <2>6 DEF Reserve, OpenHolder
<1> QED
  BY <1>1, <1>2, <1>3, <1>4, <1>5 DEF Continue, Install

\* A thread takes free locks, or gives back some of its own.
LEMMA LockMoves ==
  ASSUME Locks, NEW t \in Thread, NEW S, Held(t)' = S,
         \A u \in Thread \ {t} : call'[u] = call[u],
         \A s \in Stripes :
           /\ s \in S => lock[s] \in {None, t}
           /\ lock'[s] = IF s \in S THEN t ELSE IF s \in Held(t) THEN None ELSE lock[s]
  PROVE  Locks'
<1> SUFFICES ASSUME NEW s \in Stripes, NEW u \in Thread
             PROVE  lock'[s] = u <=> s \in Held(u)'
  BY DEF Locks
<1>1. CASE u = t
  BY <1>1, Named DEF Locks
<1>2. CASE u # t
  <2>1. Held(u)' = Held(u)
    BY <1>2 DEF Held, At, FirstStripe, Source, Target
  <2> QED
    BY <1>2, <2>1, Named DEF Locks
<1> QED
  BY <1>1, <1>2

\* A call marks a stripe that no call has marked, and on which nothing is in use.
LEMMA MarkSet ==
  ASSUME IInv, NEW t \in Thread, NEW s \in Stripes, s \notin replacing,
         \A u \in Thread \ {t} : call'[u] = call[u],
         ~Replaces(t), call'[t].pc \in Replacing, call'[t].pc # "op", Stripe(call'[t].to) = s,
         replacing' = replacing \union {s},
         \A u \in Thread : ~(At(u, "op") /\ Stripe(call[u].fd) = s)
  PROVE  Marks' /\ Apart'
<1>1. Replaces(t)' /\ Target(t)' = s
  BY DEF Replaces, Target
<1>2. \A u \in Thread \ {t} : (Replaces(u)' <=> Replaces(u)) /\ Target(u)' = Target(u)
  BY DEF Replaces, Target
<1>3. Marks'
  BY <1>1, <1>2 DEF IInv, Marks
<1>4. Apart'
  BY DEF IInv, Apart, At
<1> QED
  BY <1>3, <1>4

\* It takes its mark back.
LEMMA MarkCleared ==
  ASSUME IInv, NEW t \in Thread, Replaces(t),
         \A u \in Thread \ {t} : call'[u] = call[u],
         call'[t].pc = "idle",
         replacing' = replacing \ {Target(t)}
  PROVE  Marks' /\ Apart'
<1>1. ~Replaces(t)'
  BY DEF Replaces, Replacing
<1>2. \A u \in Thread \ {t} : (Replaces(u)' <=> Replaces(u)) /\ Target(u)' = Target(u)
  BY DEF Replaces, Target
<1>3. Marks'
  BY <1>1, <1>2 DEF IInv, Marks
<1>4. Apart'
  BY DEF IInv, Apart, At
<1> QED
  BY <1>3, <1>4

\* Or it keeps what it has.
LEMMA MarkKept ==
  ASSUME IInv, NEW t \in Thread, UNCHANGED replacing,
         \A u \in Thread \ {t} : call'[u] = call[u],
         call[t].pc \in Replacing <=> call'[t].pc \in Replacing,
         call[t].pc \in Replacing => call'[t].to = call[t].to,
         call'[t].pc = "op" => Stripe(call'[t].fd) \notin replacing
  PROVE  Marks' /\ Apart'
<1>1. \A u \in Thread : /\ Replaces(u)' <=> Replaces(u)
                        /\ Replaces(u) => Target(u)' = Target(u)
  BY DEF Replaces, Target
<1>2. Marks'
  BY <1>1 DEF IInv, Marks
<1>3. Apart'
  BY DEF IInv, Apart, At
<1> QED
  BY <1>2, <1>3

\* Only the call that takes a step is at another place after it.
LEMMA OthersStay ==
  ASSUME Shape, NEW t \in Thread, Start(t) \/ Continue(t)
  PROVE  \A u \in Thread \ {t} : call'[u] = call[u]
<1> USE DEF Shape, Goto, Begin, Done
<1>1. CASE Start(t)
  BY <1>1 DEF Start, Create, OpenFile, DupFake, DupNative, CloseBegin, BeginOp, Dup2Begin,
              TakeTicket
<1>2. CASE FinishOp(t) \/ Attach(t) \/ ReadAhead(t) \/ ReadAheadDone(t) \/ Settle(t)
  BY <1>2 DEF FinishOp, Attach, ReadAhead, ReadAheadDone, Settle
<1>3. CASE Close(t) \/ CloseTarget(t)
  BY <1>3 DEF Close, CloseTarget, CloseBackend, CloseNative
<1>4. CASE Pair(t)
  BY <1>4 DEF Pair, PairFirst, PairSecond, PairRetry, PairWait, PairReplace
<1>5. CASE Pin(t)
  BY <1>5 DEF Pin, PinFake, PinNative, PinFails
<1>6. CASE InstallHigh(t) \/ InstallNative(t) \/ Reserve(t) \/ OpenHolder(t)
           \/ MoveHolder(t) \/ CloseHolder(t) \/ Unreserve(t) \/ Publish(t) \/ DropStable(t)
  BY <1>6 DEF InstallHigh, InstallNative, Reserve, OpenHolder, MoveHolder, CloseHolder,
              Unreserve, Publish, DropStable
<1> QED
  BY <1>1, <1>2, <1>3, <1>4, <1>5, <1>6 DEF Continue, Install

Locking == {"op", "pairSecond", "pairLocked", "pin"}

\* Where a call holds nothing.
LEMMA Empty == \A t \in Thread : call[t].pc \notin Locking => Held(t) = {}
BY DEF Held, At, Locking

\* Calls that begin: nx_read and nx_write lock, close marks.
LEMMA StartStep ==
  ASSUME IInv, NEW t \in Thread, Start(t)
  PROVE  IInv'
<1>0. /\ Shape' /\ call[t].pc = "idle" /\ UserFd \subseteq Fd
      /\ \A u \in Thread \ {t} : call'[u] = call[u]
  BY StartTyped, OthersStay DEF IInv, Start, At, UserFd
<1>1. ASSUME NEW fd \in UserFd, NEW write \in BOOLEAN, BeginOp(t, fd, write) PROVE IInv'
  <2> DEFINE s == Stripe(fd)
             c == [Idle EXCEPT !.pc = "op", !.fd = fd, !.write = write, !.open = OpenAt(fd)]
  <2>1. /\ lock[s] = None /\ s \notin replacing /\ lock' = [lock EXCEPT ![s] = t]
        /\ replacing' = replacing /\ call' = [call EXCEPT ![t] = c]
    BY <1>1 DEF BeginOp, Clear, Begin
  <2>2. c.pc = "op" /\ c.fd = fd
    BY DEF Idle
  <2> HIDE DEF c
  <2>3. call'[t].pc = "op" /\ call'[t].fd = fd
    BY <2>1, <2>2 DEF IInv, Shape
  <2>4. Held(t) = {} /\ Held(t)' = {s} /\ s \in Stripes
    BY <1>0, <2>3, Empty, StripeOf DEF Locking, Held, At
  <2>5. Locks'
    BY <1>0, <2>1, <2>4, LockMoves DEF IInv, Shape
  <2>6. Marks' /\ Apart'
    BY <1>0, <2>1, <2>3, MarkKept DEF Replacing
  <2> QED
    BY <1>0, <2>5, <2>6 DEF IInv
<1>2. ASSUME NEW fd \in UserFd, CloseBegin(t, fd) PROVE IInv'
  <2> DEFINE s == Stripe(fd)
             c == [Idle EXCEPT !.pc = "close", !.to = fd]
  <2>1. /\ lock[s] = None /\ s \notin replacing /\ lock' = lock
        /\ replacing' = replacing \union {s} /\ call' = [call EXCEPT ![t] = c]
    BY <1>2 DEF CloseBegin, Clear, MarkReplacing, Begin
  <2>2. c.pc = "close" /\ c.to = fd
    BY DEF Idle
  <2> HIDE DEF c
  <2>3. call'[t].pc = "close" /\ call'[t].to = fd
    BY <2>1, <2>2 DEF IInv, Shape
  <2>4. Held(t) = {} /\ Held(t)' = {} /\ s \in Stripes
    BY <1>0, <2>3, Empty, StripeOf DEF Locking, Held, At
  <2>5. Locks'
    BY <1>0, <2>1, <2>4, LockMoves DEF IInv
  <2>6. \A u \in Thread : ~(At(u, "op") /\ Stripe(call[u].fd) = s)
    BY <2>1, <2>4, Named DEF IInv, Locks, Held
  <2>7. Marks' /\ Apart'
    BY <1>0, <2>1, <2>3, <2>4, <2>6, MarkSet DEF Replaces, Replacing, PC, Pairing
  <2> QED
    BY <1>0, <2>5, <2>7 DEF IInv
<1>3. CASE \/ \E o \in Open : Create(t, o)
           \/ \E fd \in UserFd : DupFake(t, fd)
           \/ \E fd \in UserFd \intersect Low : DupNative(t, fd)
  <2>1. UNCHANGED <<lock, replacing, call>>
    BY <1>3 DEF Create, DupFake, DupNative, routeVars
  <2> QED
    BY <1>0, <2>1, Quiet DEF Replacing
<1>4. CASE \/ \E f \in File : OpenFile(t, f)
           \/ \E fd \in UserFd, to \in UserFd : Dup2Begin(t, fd, to)
           \/ \E fd \in UserFd \intersect Low : TakeTicket(t, fd)
  <2>1. UNCHANGED <<lock, replacing>>
    BY <1>4 DEF OpenFile, Dup2Begin, TakeTicket, routeVars
  <2>2. call'[t].pc \in {"attach", "pairFirst", "ticket"}
    <3>1. ASSUME NEW c, call' = [call EXCEPT ![t] = c] PROVE call'[t] = c
      BY <3>1 DEF IInv, Shape
    <3>2. ASSUME NEW f \in File, OpenFile(t, f) PROVE call'[t].pc = "attach"
      <4>1. PICK n \in Low :
              call' = [call EXCEPT ![t] = [Idle EXCEPT !.pc = "attach", !.fd = n, !.open = f]]
        BY <3>2 DEF OpenFile, Begin
      <4>2. [Idle EXCEPT !.pc = "attach", !.fd = n, !.open = f].pc = "attach"
        BY DEF Idle
      <4> QED
        BY <3>1, <4>1, <4>2
    <3>3. ASSUME NEW fd \in UserFd, NEW to \in UserFd, Dup2Begin(t, fd, to)
          PROVE  call'[t].pc = "pairFirst"
      <4>1. call' = [call EXCEPT ![t] = [Idle EXCEPT !.pc = "pairFirst", !.fd = fd, !.to = to]]
        BY <3>3 DEF Dup2Begin, Begin
      <4>2. [Idle EXCEPT !.pc = "pairFirst", !.fd = fd, !.to = to].pc = "pairFirst"
        BY DEF Idle
      <4> QED
        BY <3>1, <4>1, <4>2
    <3>4. ASSUME NEW fd \in UserFd \intersect Low, TakeTicket(t, fd)
          PROVE  call'[t].pc = "ticket"
      <4>1. call' = [call EXCEPT ![t] = [Idle EXCEPT !.pc = "ticket", !.fd = fd]]
        BY <3>4 DEF TakeTicket, Begin
      <4>2. [Idle EXCEPT !.pc = "ticket", !.fd = fd].pc = "ticket"
        BY DEF Idle
      <4> QED
        BY <3>1, <4>1, <4>2
    <3> QED
      BY <1>4, <3>2, <3>3, <3>4
  <2> QED
    BY <1>0, <2>1, <2>2, Quiet DEF Replacing, Pairing
<1> QED
  BY <1>1, <1>2, <1>3, <1>4 DEF Start

\* nx_fd_route_pair_begin: the locks are taken one by one, and given up together.
LEMMA PairStep ==
  ASSUME IInv, NEW t \in Thread, Pair(t)
  PROVE  IInv'
<1>0. /\ Shape' /\ call[t].fd \in Fd /\ call[t].to \in Fd
      /\ \A u \in Thread \ {t} : call'[u] = call[u]
  <2>1. call[t].pc \in Pairing
    BY DEF Pair, PairFirst, PairSecond, PairRetry, PairWait, PairReplace, At, Pairing
  <2> QED
    BY <2>1, ContinueTyped, OthersStay DEF IInv, Shape, Continue, Paired
<1>1. /\ Source(t) \in Stripes /\ Target(t) \in Stripes
      /\ {FirstStripe(t), SecondStripe(t)} = {Source(t), Target(t)}
      /\ Source(t) # Target(t) => FirstStripe(t) # SecondStripe(t)
  BY <1>0, StripeOf DEF FirstStripe, SecondStripe, Source, Target
<1>2. /\ call'[t].fd = call[t].fd /\ call'[t].to = call[t].to
      /\ call[t].pc \in Pairing /\ call'[t].pc \in Pairing \union {"pin"}
  BY DEF Pair, PairFirst, PairSecond, PairRetry, PairWait, PairReplace, At, Goto, Pairing,
         IInv, Shape, Calls
<1>3. Source(t)' = Source(t) /\ Target(t)' = Target(t) /\ FirstStripe(t)' = FirstStripe(t)
  BY <1>2 DEF Source, Target, FirstStripe
<1>4. ~PairReplace(t) => Marks' /\ Apart'
  <2> SUFFICES ASSUME ~PairReplace(t) PROVE Marks' /\ Apart'
    OBVIOUS
  <2>1. replacing' = replacing /\ call'[t].pc \in Pairing
    <3>1. /\ replacing' = replacing
          /\ \E pc \in Pairing : call' = [call EXCEPT ![t].pc = pc]
      BY DEF Pair, PairFirst, PairSecond, PairRetry, PairWait, Goto, Pairing, routeVars
    <3> QED
      BY <3>1 DEF IInv, Shape
  <2> QED
    BY <1>0, <1>2, <2>1, MarkKept DEF Replacing, Pairing
<1>5. CASE PairFirst(t) \/ PairSecond(t) \/ PairRetry(t) \/ PairWait(t)
  <2>1. CASE PairFirst(t)
    <3>1. /\ call[t].pc = "pairFirst" /\ lock[FirstStripe(t)] = None
          /\ lock' = [lock EXCEPT ![FirstStripe(t)] = t]
          /\ call'[t].pc = IF Source(t) = Target(t) THEN "pairLocked" ELSE "pairSecond"
      BY <2>1 DEF PairFirst, At, Goto, IInv, Shape
    <3>2. Held(t) = {}
      BY <3>1, Empty DEF Locking
    <3>3. Held(t)' = {FirstStripe(t)}
      BY <1>1, <1>3, <3>1 DEF Held, At
    <3> QED
      BY <1>0, <1>1, <3>1, <3>2, <3>3, LockMoves, <2>1, <1>4
      DEF IInv, Shape, PairReplace, At
  <2>2. CASE PairSecond(t)
    <3>1. /\ call[t].pc = "pairSecond" /\ lock[SecondStripe(t)] = None
          /\ lock' = [lock EXCEPT ![SecondStripe(t)] = t]
          /\ call'[t].pc = "pairLocked"
      BY <2>2 DEF PairSecond, At, Goto, IInv, Shape
    <3>2. Held(t) = {FirstStripe(t)}
      BY <1>1, <3>1 DEF Held, At
    <3>3. Held(t)' = {FirstStripe(t), SecondStripe(t)}
      BY <1>1, <1>3, <3>1 DEF Held, At
    <3>4. lock[FirstStripe(t)] = t
      BY <1>1, <3>2 DEF IInv, Locks
    <3> QED
      BY <1>0, <1>1, <3>1, <3>2, <3>3, <3>4, LockMoves, <2>2, <1>4
      DEF IInv, Shape, PairReplace, At
  <2>3. CASE PairRetry(t)
    <3>1. /\ call[t].pc = "pairLocked" /\ UnlockPair(t)
          /\ call'[t].pc \in {"waitSource", "waitTarget"}
          /\ {Source(t), Target(t)} \intersect replacing # {}
      BY <2>3 DEF PairRetry, At, Goto, IInv, Shape
    <3>2. Held(t) = {Source(t), Target(t)}
      BY <1>1, <3>1 DEF Held, At
    <3>3. Held(t)' = {}
      BY <3>1 DEF Held, At
    <3>4. Locks'
      BY <1>0, <1>1, <3>1, <3>2, <3>3, LockMoves DEF IInv, Shape, UnlockPair
    <3> QED
      BY <1>0, <1>4, <3>1, <3>4 DEF IInv, PairReplace
  <2>4. CASE PairWait(t)
    <3>1. /\ UNCHANGED lock /\ call[t].pc \in {"waitSource", "waitTarget"}
          /\ call'[t].pc = "pairFirst"
      BY <2>4 DEF PairWait, At, Goto, routeVars, IInv, Shape
    <3>2. Held(t) = {} /\ Held(t)' = {}
      BY <3>1 DEF Held, At
    <3> QED
      BY <1>0, <3>1, <3>2, LockMoves, <1>4 DEF IInv, PairReplace, At
  <2> QED
    BY <1>5, <2>1, <2>2, <2>3, <2>4
<1>6. CASE PairReplace(t)
  <2>1. /\ call[t].pc = "pairLocked" /\ call'[t].pc = "pin" /\ lock' = lock
        /\ Target(t) \notin replacing /\ replacing' = replacing \union {Target(t)}
    BY <1>6 DEF PairReplace, MarkReplacing, At, Goto, IInv, Shape
  <2>2. Held(t) = {Source(t), Target(t)} /\ Held(t)' = {Source(t), Target(t)}
    BY <1>1, <1>3, <2>1 DEF Held, At
  <2>3. lock[Source(t)] = t /\ lock[Target(t)] = t
    BY <1>1, <2>2 DEF IInv, Locks
  <2>4. Locks'
    BY <1>0, <2>1, <2>2, <2>3, LockMoves DEF IInv
  <2>5. \A u \in Thread : ~(At(u, "op") /\ Stripe(call[u].fd) = Target(t))
    BY <1>1, <2>1, <2>3 DEF IInv, Locks, Held, At
  <2>6. Marks' /\ Apart'
    BY <1>0, <1>1, <1>2, <2>1, <2>5, MarkSet DEF Replaces, Replacing, PC, Pairing, Target
  <2> QED
    BY <1>0, <2>4, <2>6 DEF IInv
<1> QED
  BY <1>5, <1>6 DEF Pair

\* Steps of a call that has its locks and marks, or none.
LEMMA OnlyPlaces ==
  ASSUME IInv, NEW t \in Thread, Continue(t),
         UNCHANGED <<lock, replacing>>,
         call[t].pc \notin Locking, call'[t].pc \notin Locking,
         call[t].pc \in Replacing <=> call'[t].pc \in Replacing,
         call[t].pc \in Replacing => call'[t].to = call[t].to
  PROVE  IInv'
<1>1. Shape' /\ \A u \in Thread \ {t} : call'[u] = call[u]
  BY ContinueTyped, OthersStay DEF IInv
<1> QED
  BY <1>1, Quiet DEF Locking

\* The calls that read and write, and the mark that a replacement takes back.
LEMMA UseStep ==
  ASSUME IInv, NEW t \in Thread,
         FinishOp(t) \/ Attach(t) \/ ReadAhead(t) \/ ReadAheadDone(t) \/ Settle(t)
  PROVE  IInv'
<1>0. Continue(t) /\ Shape' /\ \A u \in Thread \ {t} : call'[u] = call[u]
  BY ContinueTyped, OthersStay DEF IInv, Continue
<1>1. Done(t) => call'[t].pc = "idle"
  BY DEF Done, Idle, IInv, Shape
<1>2. CASE FinishOp(t)
  <2>1. /\ call[t].pc = "op" /\ lock' = [lock EXCEPT ![Stripe(call[t].fd)] = None]
        /\ call'[t].pc = "idle" /\ replacing' = replacing
    BY <1>1, <1>2 DEF FinishOp, At
  <2>2. Held(t) = {Stripe(call[t].fd)} /\ Held(t)' = {}
    BY <2>1, StripeOf DEF Held, At, IInv, Shape
  <2>3. Locks'
    BY <1>0, <2>1, <2>2, LockMoves DEF IInv, Shape
  <2>4. Marks' /\ Apart'
    BY <1>0, <2>1, MarkKept DEF Replacing
  <2> QED
    BY <1>0, <2>3, <2>4 DEF IInv
<1>3. CASE Settle(t)
  <2>1. /\ call[t].pc = "settle" /\ replacing' = replacing \ {Target(t)}
        /\ call'[t].pc = "idle" /\ lock' = lock
    BY <1>1, <1>3 DEF Settle, At, Target
  <2>2. Held(t) = {} /\ Held(t)' = {}
    BY <2>1 DEF Held, At
  <2>3. Locks'
    BY <1>0, <2>1, <2>2, LockMoves DEF IInv
  <2>4. Marks' /\ Apart'
    BY <1>0, <2>1, MarkCleared DEF Replaces, Replacing, PC, Pairing
  <2> QED
    BY <1>0, <2>3, <2>4 DEF IInv
<1>4. CASE Attach(t) \/ ReadAhead(t) \/ ReadAheadDone(t)
  <2>1. /\ UNCHANGED <<lock, replacing>>
        /\ call[t].pc \in {"attach", "ticket", "raRead"}
        /\ Done(t) \/ Goto(t, "raRead")
    BY <1>4 DEF Attach, ReadAhead, ReadAheadDone, routeVars, At
  <2>2. call'[t].pc \in {"idle", "raRead"}
    <3>1. Goto(t, "raRead") => call'[t].pc = "raRead"
      BY DEF Goto, IInv, Shape, Calls
    <3> QED
      BY <1>1, <2>1, <3>1
  <2> QED
    BY <1>0, <2>1, <2>2, OnlyPlaces DEF Locking, Replacing
<1> QED
  BY <1>2, <1>3, <1>4

\* The source is pinned and the locks are given up; the mark stays.
LEMMA PinStep ==
  ASSUME IInv, NEW t \in Thread, Pin(t)
  PROVE  IInv'
<1>0. Continue(t) /\ Shape' /\ \A u \in Thread \ {t} : call'[u] = call[u]
  BY ContinueTyped, OthersStay DEF IInv, Continue
<1>1. /\ call[t].pc = "pin" /\ UnlockPair(t) /\ call[t].fd \in Fd /\ call[t].to \in Fd
  BY DEF Pin, PinFake, PinNative, PinFails, At, IInv, Shape, Paired
<1>2. /\ Source(t) \in Stripes /\ Target(t) \in Stripes /\ Held(t) = {Source(t), Target(t)}
  BY <1>1, StripeOf DEF Source, Target, Held, At
<1>3. ASSUME call'[t].pc \notin Locking PROVE Locks'
  <2>1. Held(t)' = {}
    BY <1>3 DEF Held, At, Locking
  <2> QED
    BY <1>0, <1>1, <1>2, <2>1, LockMoves DEF UnlockPair, IInv, Shape
<1>4. CASE PinFails(t)
  <2>1. call'[t].pc = "idle" /\ replacing' = replacing \ {Target(t)}
    BY <1>4 DEF PinFails, Done, Idle, IInv, Shape
  <2>2. Marks' /\ Apart'
    BY <1>0, <1>1, <2>1, MarkCleared DEF Replaces, Replacing, PC, Pairing
  <2> QED
    BY <1>0, <1>3, <2>1, <2>2 DEF IInv, Locking
<1>5. CASE \/ \E h \in High : PinFake(t, h)
           \/ \E n \in Low : PinNative(t, n)
  <2>1. /\ call'[t].pc \in {"settle", "install"} /\ call'[t].to = call[t].to
        /\ replacing' = replacing
    <3>1. CASE \E h \in High : PinFake(t, h)
      BY <3>1 DEF PinFake, IInv, Shape, Calls
    <3>2. CASE \E n \in Low : PinNative(t, n)
      BY <3>2 DEF PinNative, IInv, Shape, Calls
    <3> QED
      BY <1>5, <3>1, <3>2
  <2>2. Marks' /\ Apart'
    BY <1>0, <1>1, <2>1, MarkKept DEF Replacing, PC, Pairing
  <2> QED
    BY <1>0, <1>3, <2>1, <2>2 DEF IInv, Locking
<1> QED
  BY <1>4, <1>5 DEF Pin

\* The backend of the target is closed and replaced under its mark alone.
LEMMA ReplaceStep ==
  ASSUME IInv, NEW t \in Thread, Close(t) \/ Install(t)
  PROVE  IInv'
<1>0. Continue(t) /\ call \in [Thread -> Calls]
  BY DEF Continue, IInv, Shape
<1> DEFINE Moved == /\ call[t].pc \in Replacing \ {"pin"} /\ call'[t].to = call[t].to
                    /\ call'[t].pc \in Replacing \ {"pin"}
                    /\ UNCHANGED <<lock, replacing>>
<1>1. CASE Close(t) \/ CloseTarget(t)
  <2>1. /\ call[t].pc \in {"close", "closeNative", "closeTarget", "closeTargetNative"}
        /\ \E pc \in {"closeNative", "settle", "closeTargetNative", "vacated", "moveHolder"} :
             call' = [call EXCEPT ![t].pc = pc]
        /\ UNCHANGED <<lock, replacing>>
    <3>1. CASE Close(t)
      BY <3>1 DEF Close, CloseBackend, CloseNative, At, Goto, routeVars
    <3>2. CASE CloseTarget(t)
      BY <3>2 DEF CloseTarget, CloseBackend, CloseNative, At, Goto, routeVars
    <3> QED
      BY <1>1, <3>1, <3>2
  <2>2. Moved
    BY <1>0, <2>1 DEF Replacing, PC, Pairing, Calls
  <2> QED
    BY <1>0, <2>2, OnlyPlaces DEF Locking, Replacing, Pairing
<1>2. CASE InstallHigh(t) \/ InstallNative(t) \/ MoveHolder(t) \/ Publish(t)
  <2>1. /\ call[t].pc \in {"install", "moveHolder", "vacated", "publish"}
        /\ \E pc \in {"installed", "closeHolder", "dropHolder"} :
             call' = [call EXCEPT ![t].pc = pc]
        /\ UNCHANGED <<lock, replacing>>
    BY <1>2 DEF InstallHigh, InstallNative, MoveHolder, Publish, At, Goto, routeVars
  <2>2. Moved
    BY <1>0, <2>1 DEF Replacing, PC, Pairing, Calls
  <2> QED
    BY <1>0, <2>2, OnlyPlaces DEF Locking, Replacing, Pairing
<1>3. CASE Reserve(t) \/ OpenHolder(t) \/ CloseHolder(t) \/ Unreserve(t) \/ DropStable(t)
  <2>1. /\ call[t].pc \in {"install", "reserved", "closeHolder", "dropHolder", "unreserve",
                           "installed", "failed"}
        /\ UNCHANGED <<lock, replacing>>
    BY <1>3 DEF Reserve, OpenHolder, CloseHolder, Unreserve, DropStable, At, routeVars
  <2>2. /\ call'[t].pc \in {"reserved", "failed", "unreserve", "publish", "closeTarget",
                            "settle"}
        /\ call'[t].to = call[t].to
    <3>1. CASE Reserve(t)
      BY <1>0, <3>1 DEF Reserve, Goto, Calls
    <3>2. CASE OpenHolder(t)
      <4>1. CASE call' = [call EXCEPT ![t].pc = "unreserve"]
        BY <1>0, <4>1 DEF Calls
      <4>2. ASSUME NEW n \in Low,
                   call' = [call EXCEPT
                     ![t].pc = IF n = call[t].to THEN "publish" ELSE "closeTarget",
                     ![t].holder = IF n = call[t].to THEN None ELSE n]
            PROVE  call'[t].pc \in {"publish", "closeTarget"} /\ call'[t].to = call[t].to
        BY <1>0, <4>2 DEF Calls
      <4> QED
        BY <3>2, <4>1, <4>2 DEF OpenHolder, Goto
    <3>3. CASE CloseHolder(t) \/ Unreserve(t)
      BY <1>0, <3>3 DEF CloseHolder, Unreserve, Calls
    <3>4. CASE DropStable(t)
      <4>1. call' = [call EXCEPT ![t] = [Idle EXCEPT !.pc = "settle", !.to = call[t].to]]
        BY <3>4 DEF DropStable
      <4>2. call'[t] = [Idle EXCEPT !.pc = "settle", !.to = call[t].to]
        BY <1>0, <4>1
      <4> QED
        BY <4>2 DEF Idle
    <3> QED
      BY <1>3, <3>1, <3>2, <3>3, <3>4
  <2>3. Moved
    BY <2>1, <2>2 DEF Replacing, PC, Pairing
  <2> QED
    BY <1>0, <2>3, OnlyPlaces DEF Locking, Replacing, Pairing
<1> QED
  BY <1>1, <1>2, <1>3 DEF Install

\* Every step keeps the invariant.
LEMMA Step == IInv /\ [Next]_vars => IInv'
<1> SUFFICES ASSUME IInv, [Next]_vars PROVE IInv'
  OBVIOUS
<1>1. ASSUME NEW t \in Thread, Start(t) PROVE IInv'
  BY <1>1, StartStep
<1>2. ASSUME NEW t \in Thread, Continue(t) PROVE IInv'
  BY <1>2, UseStep, PairStep, PinStep, ReplaceStep DEF Continue
<1>3. CASE UNCHANGED vars
  <2>1. UNCHANGED <<lock, replacing, high, native, call>>
    BY <1>3 DEF vars, routeVars, fakeVars
  <2>2. Shape' /\ Marks'
    BY <2>1 DEF IInv, Shape, Marks, Replaces, Target
  <2>3. Locks' /\ Apart'
    BY <2>1 DEF IInv, Locks, Apart, Held, At, FirstStripe, Source, Target
  <2> QED
    BY <2>2, <2>3 DEF IInv
<1> QED
  BY <1>1, <1>2, <1>3 DEF Next

LEMMA Invariant == Spec => []IInv
BY Initial, Step, PTL DEF Spec

(* Every lock and every mark of a route stripe belongs to one call that will *)
(* take it back, however many calls wait for the same stripes                *)
(* (nx_fd_route_pair_begin, nx_fd_route_replace_end).                        *)
THEOREM StripeSafety == Spec => []StripesAccounted
<1>1. ASSUME IInv PROVE StripesAccounted
  <2> SUFFICES ASSUME NEW s \in Stripes
               PROVE  /\ Cardinality({t \in Thread : Replaces(t) /\ Target(t) = s})
                           = IF s \in replacing THEN 1 ELSE 0
                      /\ {t \in Thread : s \in Held(t)} = {lock[s]} \ {None}
    BY DEF StripesAccounted, Replaces
  <2> DEFINE R == {t \in Thread : Replaces(t) /\ Target(t) = s}
  <2>0. {t \in Thread : s \in Held(t)} = {lock[s]} \ {None}
    <3>1. lock[s] \in Thread \union {None} /\ \A t \in Thread : lock[s] = t <=> s \in Held(t)
      BY <1>1 DEF IInv, Locks, Shape
    <3> QED
      BY <3>1, Named
  <2>1. CASE s \in replacing
    <3>1. PICK t \in Thread : Replaces(t) /\ Target(t) = s
      BY <1>1, <2>1 DEF IInv, Marks
    <3>2. R = {t}
      BY <1>1, <3>1 DEF IInv, Marks
    <3> QED
      BY <2>0, <2>1, <3>2, FS_Singleton
  <2>2. CASE s \notin replacing
    <3>1. R = {}
      BY <1>1, <2>2 DEF IInv, Marks
    <3> QED
      BY <2>0, <2>2, <3>1, FS_EmptySet
  <2> QED
    BY <2>1, <2>2
<1> QED
  BY Invariant, <1>1, PTL

(* No call uses a number of a stripe that a close or a dup2 in progress has  *)
(* marked: nx_read and nx_write see the mark, and who sets it waits for them *)
(* (nx_fd_route_source_lock).                                                *)
THEOREM StripesApart ==
  Spec => [](\A t, u \in Thread : At(t, "op") /\ call[u].pc \in Replacing =>
                                    Stripe(call[t].fd) # Target(u))
<1>1. IInv => (\A t, u \in Thread : At(t, "op") /\ call[u].pc \in Replacing =>
                                      Stripe(call[t].fd) # Target(u))
  BY DEF IInv, Marks, Apart, Replaces
<1> QED
  BY Invariant, <1>1, PTL

-------------------------------------------------------------------------------
(***************************************************************************)
(* 2. What a number means while a call uses it or installs it, for any     *)
(* threads, numbers and descriptions, unless the host gives out a number   *)
(* that a dup2 has closed (WindowRaces).                                   *)
(***************************************************************************)

Dup2PCs == Installing \union {"install", "installed", "failed"}

\* The numbers that only one dup2 knows.
Own(t) == {call[t].stable, call[t].holder} \ {None}

\* The number that a call replaces, as long as it does.
Aim(t) == IF Replaces(t) /\ ~At(t, "settle") THEN {call[t].to} ELSE {}

Aliased(n) == \E o \in Open : <<n, o>> \in alias

\* A dup2 has its duplicate, and one with a low target its holder, where it uses them.
Fields(t) ==
  /\ call[t].stable # None <=> call[t].pc \in Dup2PCs
  /\ call[t].holder # None <=> call[t].pc \in Holding
  /\ call[t].pc \in Installing \union {"failed"} => call[t].stable \in High
  /\ call[t].pc \in Installing => call[t].to \in Low

\* They denote what was pinned, and a reservation.
Pinned(t) ==
  /\ call[t].stable \in High =>
       high[call[t].stable] \in Open
         /\ (call[t].pc # "failed" => call[t].open = high[call[t].stable])
  /\ call[t].stable \in Low =>
       call[t].open # None /\ native[call[t].stable] = call[t].open
  /\ call[t].holder # None => native[call[t].holder] = Reservation

\* A number is no alias when its native side is closed or replaced.
VacantPCs == {"closeNative", "closeTargetNative", "moveHolder", "vacated", "closeHolder",
              "publish"}
Vacant(t) ==
  /\ call[t].pc \in VacantPCs \/ call[t].stable \in Low =>
       call[t].to \in Low /\ ~Aliased(call[t].to)
  /\ call[t].pc \in {"closeHolder", "publish"} => native[call[t].to] = Reservation

\* A call works on what its number denotes, and leaves there what it pinned.
InUse(t) == At(t, "op") => call[t].open \in Open /\ OpenAt(call[t].fd) = call[t].open

Installed(t) ==
  At(t, "installed") =>
    IF call[t].stable \in High THEN OpenAt(call[t].to) = call[t].open
    ELSE native[call[t].to] = call[t].open

Local(t) == Fields(t) /\ Pinned(t) /\ Vacant(t) /\ InUse(t) /\ Installed(t)

\* One alias per number, on a reservation that is nobody's private one.
Aliases ==
  /\ alias \subseteq Low \X Open
  /\ \A n \in Low, o, p \in Open : <<n, o>> \in alias /\ <<n, p>> \in alias => o = p
  /\ \A n \in Low : Aliased(n) =>
       native[n] = Reservation /\ \A t \in Thread : n \notin Own(t)

\* No other call knows a private number.
Owned ==
  \A t, u \in Thread :
    /\ t # u => Own(t) \intersect Own(u) = {}
    /\ call[u].to \in Own(t) => At(u, "settle")
    /\ At(u, "op") => call[u].fd \notin Own(t)

NInv == (\A t \in Thread : Local(t)) /\ Aliases /\ Owned
-----------------------------------------------------------------------------
(* What a step of one call leaves to the others.                            *)

\* A number that is open nowhere and that no other call is about to replace.
Vacancy(t, x) ==
  ~Claimed(t, x) /\ (x \in High => high[x] = None) /\ (x \in Low => native[x] = None)

\* A call changes vacant numbers, the one that it replaces and its private ones.
Foot(t) ==
  /\ \A u \in Thread \ {t} : call'[u] = call[u]
  /\ \A h \in High :
       high'[h] = high[h] \/ Vacancy(t, h) \/ h \in Aim(t) \/ h \in Own(t)
  /\ \A n \in Low :
       native'[n] = native[n] \/ Vacancy(t, n) \/ n \in Aim(t) \/ n \in Own(t)
  /\ \A n \in Low \ Aim(t), o \in Open : <<n, o>> \in alias' <=> <<n, o>> \in alias
  /\ \A x \in Own(t)' \ Own(t) : Vacancy(t, x) /\ x \notin {call[t].to, call'[t].to}
  /\ \/ call'[t] = call[t]
     \/ call'[t].to \in {None} \union UserFd
     \/ call'[t].to = call[t].to /\ ~At(t, "settle")
  /\ At(t, "op")' => call'[t].fd \in UserFd \ Own(t)'

\* At the number that a call replaces, an alias has its reservation.
Landed(t) ==
  /\ alias' \subseteq Low \X Open
  /\ \A n \in Aim(t) \intersect Low :
       /\ \A o, p \in Open : <<n, o>> \in alias' /\ <<n, p>> \in alias' => o = p
       /\ \A o \in Open : <<n, o>> \in alias' => native'[n] = Reservation

\* The two ranges of numbers are apart.
LEMMA Ranges == High \intersect Low = {} /\ None \notin Fd /\ None \notin Open
BY DescriptorAssumption DEF Fd

\* What is open at a low number, when it has at most one alias.
LEMMA OpenIs ==
  ASSUME Aliases, NEW n \in Low
  PROVE  /\ \A o \in Open : OpenAt(n) = o <=> <<n, o>> \in alias
         /\ OpenAt(n) = None <=> ~Aliased(n)
<1>1. n \notin High
  BY Ranges
<1>2. CASE Aliased(n)
  <2>1. PICK o \in Open : <<n, o>> \in alias
    BY <1>2 DEF Aliased
  <2>2. OpenAt(n) \in Open /\ <<n, OpenAt(n)>> \in alias
    BY <1>1, <2>1 DEF OpenAt
  <2> QED
    BY <1>2, <2>2, Ranges DEF Aliases
<1>3. CASE ~Aliased(n)
  BY <1>1, <1>3, Ranges DEF OpenAt, Aliased
<1> QED
  BY <1>2, <1>3

\* Where nothing changes, the same is open.
LEMMA OpenStays ==
  ASSUME Aliases, NEW fd \in Fd, fd \in High => high'[fd] = high[fd],
         \A o \in Open : <<fd, o>> \in alias' <=> <<fd, o>> \in alias
  PROVE  OpenAt(fd)' = OpenAt(fd)
<1>1. CASE fd \in High
  BY <1>1 DEF OpenAt
<1>2. CASE fd \notin High /\ Aliased(fd)
  <2>1. PICK o \in Open : <<fd, o>> \in alias
    BY <1>2 DEF Aliased
  <2>2. \A p \in Open : <<fd, p>> \in alias => p = o
    BY <2>1, <1>2 DEF Aliases, Fd
  <2>3. OpenAt(fd) = o
    BY <1>2, <2>1, <2>2 DEF OpenAt
  <2>4. OpenAt(fd)' = o
    BY <1>2, <2>1, <2>2 DEF OpenAt
  <2> QED
    BY <2>3, <2>4
<1>3. CASE fd \notin High /\ ~Aliased(fd)
  BY <1>3 DEF OpenAt, Aliased
<1> QED
  BY <1>1, <1>2, <1>3

\* The numbers that a call relies on.
Kept(u) == Own(u) \union Aim(u) \union {fd \in {call[u].fd} : At(u, "op")}

LEMMA KeptIsFd == ASSUME Shape, NEW u \in Thread PROVE Kept(u) \subseteq Fd
<1>1. Own(u) \subseteq Fd
  BY DEF Shape, Calls, Own, Fd
<1>2. Aim(u) \subseteq Fd
  BY DEF Shape, Aim, Replaces
<1>3. At(u, "op") => call[u].fd \in Fd
  BY DEF Shape, At
<1> QED
  BY <1>1, <1>2, <1>3 DEF Kept

\* Private numbers and those of a read or write are open.
LEMMA OwnIsOpen ==
  ASSUME Shape, NInv, NEW u \in Thread, NEW x \in Own(u)
  PROVE  (x \in High => high[x] # None) /\ (x \in Low => native[x] # None)
<1>1. Local(u) /\ Shape /\ x \in {call[u].stable, call[u].holder} /\ x # None
  BY DEF NInv, Own
<1>2. CASE x = call[u].stable
  BY <1>1, <1>2, Ranges, DescriptorAssumption DEF Local, Pinned
<1>3. CASE x = call[u].holder
  <2>1. x \in Low /\ native[x] = Reservation
    BY <1>1, <1>3 DEF Local, Pinned, Shape, Calls
  <2> QED
    BY <2>1, Ranges, DescriptorAssumption
<1> QED
  BY <1>1, <1>2, <1>3

LEMMA UsedIsOpen ==
  ASSUME Shape, NInv, NEW u \in Thread, At(u, "op")
  PROVE  /\ call[u].fd \in High => high[call[u].fd] # None
         /\ call[u].fd \in Low => native[call[u].fd] # None
<1>1. OpenAt(call[u].fd) \in Open
  BY DEF NInv, Local, InUse
<1>2. CASE call[u].fd \in High
  BY <1>1, <1>2, Ranges DEF OpenAt
<1>3. CASE call[u].fd \in Low
  <2>1. Aliases
    BY DEF NInv
  <2>2. Aliased(call[u].fd)
    BY <1>1, <1>3, <2>1, OpenIs, Ranges
  <2> QED
    BY <1>3, <2>1, <2>2, Ranges, DescriptorAssumption DEF Aliases
<1> QED
  BY <1>2, <1>3, Ranges

\* A step leaves them alone.
LEMMA Elsewhere ==
  ASSUME ~WindowRaces, IInv, NInv, NEW t \in Thread, Foot(t),
         NEW u \in Thread \ {t}, NEW x \in Kept(u)
  PROVE  /\ x \in High => high'[x] = high[x]
         /\ x \in Low => native'[x] = native[x]
         /\ x \in Low => \A o \in Open : <<x, o>> \in alias' <=> <<x, o>> \in alias
         /\ OpenAt(x)' = OpenAt(x)
<1>1. x \in Fd /\ Shape /\ Aliases /\ Owned /\ Marks /\ Apart
  BY KeptIsFd DEF IInv, NInv
<1>2. x \notin Aim(t) /\ x \notin Own(t)
  <2>1. CASE x \in Own(u)
    BY <1>1, <2>1 DEF Owned, Aim
  <2>2. CASE x \in Aim(u)
    <3>1. Replaces(u) /\ ~At(u, "settle") /\ x = call[u].to
      BY <2>2 DEF Aim
    <3>2. Replaces(t) => Target(t) # Target(u)
      BY <1>1, <3>1 DEF Marks
    <3> QED
      BY <1>1, <3>1, <3>2 DEF Owned, Aim, Target
  <2>3. CASE At(u, "op") /\ x = call[u].fd
    <3>1. Replaces(t) => Stripe(x) # Target(t)
      BY <1>1, <2>3 DEF Marks, Apart
    <3> QED
      BY <1>1, <2>3, <3>1 DEF Owned, Aim, Target
  <2> QED
    BY <2>1, <2>2, <2>3 DEF Kept
<1>3. ~Vacancy(t, x)
  <2>1. CASE x \in Own(u)
    BY <1>1, <2>1, OwnIsOpen DEF Vacancy, Fd
  <2>2. CASE x \in Aim(u)
    BY <2>2 DEF Aim, Vacancy, Claimed
  <2>3. CASE At(u, "op") /\ x = call[u].fd
    BY <1>1, <2>3, UsedIsOpen DEF Vacancy, Fd
  <2> QED
    BY <2>1, <2>2, <2>3 DEF Kept
<1>4. /\ x \in High => high'[x] = high[x]
      /\ x \in Low => native'[x] = native[x]
      /\ x \in Low => \A o \in Open : <<x, o>> \in alias' <=> <<x, o>> \in alias
  BY <1>2, <1>3 DEF Foot
<1>5. CASE x \in Low
  BY <1>1, <1>4, <1>5, OpenStays
<1>6. CASE x \in High
  BY <1>4, <1>6 DEF OpenAt
<1> QED
  BY <1>1, <1>4, <1>5, <1>6 DEF Fd

LEMMA OthersKeep ==
  ASSUME ~WindowRaces, IInv, NInv, NEW t \in Thread, Foot(t), NEW u \in Thread \ {t}
  PROVE  Local(u)'
<1>1. call'[u] = call[u] /\ Local(u) /\ Shape
  BY DEF Foot, NInv, IInv
<1>2. Fields(u)'
  BY <1>1 DEF Local, Fields
<1>3. Pinned(u)'
  <2>1. call[u].stable \in High => high'[call[u].stable] = high[call[u].stable]
    BY Elsewhere, Ranges DEF Kept, Own, Fd
  <2>2. call[u].stable \in Low => native'[call[u].stable] = native[call[u].stable]
    BY Elsewhere, Ranges DEF Kept, Own, Fd
  <2>3. call[u].holder # None => native'[call[u].holder] = native[call[u].holder]
    BY <1>1, Elsewhere DEF Kept, Own, Shape, Calls
  <2> QED
    BY <1>1, <2>1, <2>2, <2>3 DEF Local, Pinned
<1>4. Vacant(u)'
  <2>1. call[u].pc \in VacantPCs \/ call[u].stable \in Low => call[u].to \in Aim(u)
    BY <1>1, Ranges
    DEF Local, Fields, Dup2PCs, Installing, VacantPCs, Aim, Replaces, Replacing, PC, Pairing,
        At, Fd
  <2>2. call[u].to \in Aim(u) /\ call[u].to \in Low =>
          /\ native'[call[u].to] = native[call[u].to]
          /\ Aliased(call[u].to)' <=> Aliased(call[u].to)
    BY <1>1, Elsewhere DEF Kept, Aliased
  <2> QED
    BY <1>1, <2>1, <2>2 DEF Local, Vacant, VacantPCs
<1>5. InUse(u)'
  BY <1>1, Elsewhere DEF Local, InUse, At, Kept
<1>6. Installed(u)'
  <2> SUFFICES ASSUME At(u, "installed")
               PROVE  IF call[u].stable \in High THEN OpenAt(call[u].to)' = call[u].open
                      ELSE native'[call[u].to] = call[u].open
    BY <1>1 DEF Installed, At
  <2>1. call[u].to \in Aim(u)
    BY DEF Aim, Replaces, Replacing, PC, Pairing, At
  <2>2. CASE call[u].stable \in High
    BY <1>1, <2>1, <2>2, Elsewhere DEF Local, Installed, Kept
  <2>3. CASE call[u].stable \notin High
    <3>1. call[u].stable \in Low
      BY <1>1, <2>3 DEF Local, Fields, Dup2PCs, At, Shape, Calls, Fd
    <3>2. call[u].to \in Low
      BY <1>1, <3>1 DEF Local, Vacant
    <3> QED
      BY <1>1, <2>1, <2>3, <3>2, Elsewhere DEF Local, Installed, Kept
  <2> QED
    BY <2>2, <2>3
<1> QED
  BY <1>2, <1>3, <1>4, <1>5, <1>6 DEF Local

LEMMA OwnedKept ==
  ASSUME ~WindowRaces, IInv, NInv, NEW t \in Thread, Foot(t)
  PROVE  Owned'
<1>1. Owned /\ Shape /\ \A u \in Thread \ {t} : call'[u] = call[u]
  BY DEF Foot, NInv, IInv
<1>2. \A u \in Thread \ {t} : Own(u)' = Own(u)
  BY <1>1 DEF Own
<1>3. \A x \in Own(t)' \ Own(t) : Vacancy(t, x) /\ x \notin {call[t].to, call'[t].to}
  BY DEF Foot
<1>4. ASSUME NEW u \in Thread \ {t}, NEW x \in Own(u) PROVE x \notin Own(t)'
  <2>1. x \in Fd /\ ~Vacancy(t, x)
    BY <1>1, <1>4, OwnIsOpen, KeptIsFd DEF Vacancy, Kept, Fd
  <2> QED
    BY <1>1, <1>3, <2>1 DEF Owned
<1>5. ASSUME NEW u \in Thread \ {t}, call[u].to \in Own(t)' PROVE At(u, "settle")
  BY <1>1, <1>3, <1>5 DEF Owned, Vacancy, Claimed
<1>6. ASSUME NEW u \in Thread \ {t}, At(u, "op") PROVE call[u].fd \notin Own(t)'
  <2>1. call[u].fd \in Fd /\ ~Vacancy(t, call[u].fd)
    BY <1>1, <1>6, UsedIsOpen DEF Vacancy, Fd, Shape, At
  <2> QED
    BY <1>1, <1>3, <1>6, <2>1 DEF Owned
<1>7. \A v \in Thread : UserFd \intersect Own(v) = {} /\ None \notin Own(v)
  BY DEF UserFd, Private, Own
<1>8. ASSUME NEW v \in Thread, call'[t].to \in Own(v)', call'[t] # call[t] PROVE FALSE
  <2>1. CASE v = t
    <3>1. call'[t].to \in Own(t)
      BY <1>3, <1>8, <2>1
    <3> QED
      BY <1>1, <1>7, <1>8, <3>1 DEF Owned, Foot
  <2>2. CASE v # t
    BY <1>1, <1>2, <1>7, <1>8, <2>2 DEF Owned, Foot
  <2> QED
    BY <2>1, <2>2
<1>9. ASSUME NEW v \in Thread, call'[t].to \in Own(v)' PROVE At(t, "settle")'
  <2>1. call'[t] = call[t]
    BY <1>8, <1>9
  <2>2. Own(v)' = Own(v)
    BY <1>2, <2>1 DEF Own
  <2> QED
    BY <1>1, <1>9, <2>1, <2>2 DEF Owned, At
<1>10. ASSUME NEW v \in Thread, At(t, "op")' PROVE call'[t].fd \notin Own(v)'
  BY <1>2, <1>7, <1>10 DEF Foot
<1> QED
  <2> SUFFICES ASSUME NEW v \in Thread, NEW u \in Thread
               PROVE  /\ v # u => (Own(v) \intersect Own(u))' = {}
                      /\ call'[u].to \in Own(v)' => At(u, "settle")'
                      /\ At(u, "op")' => call'[u].fd \notin Own(v)'
    BY DEF Owned
  <2>1. CASE u # t /\ v # t
    BY <1>1, <1>2, <2>1 DEF Owned, At
  <2>2. CASE u # t /\ v = t
    BY <1>1, <1>2, <1>4, <1>5, <1>6, <2>2 DEF At
  <2>3. CASE u = t
    BY <1>2, <1>4, <1>9, <1>10, <2>3
  <2> QED
    BY <2>1, <2>2, <2>3

LEMMA AliasesKept ==
  ASSUME ~WindowRaces, IInv, NInv, NEW t \in Thread, Foot(t), Landed(t)
  PROVE  Aliases'
<1>1. Aliases /\ Owned /\ Shape /\ \A u \in Thread \ {t} : Own(u)' = Own(u)
  BY DEF Foot, NInv, IInv, Own
<1>2. ASSUME NEW n \in Low, NEW o \in Open, <<n, o>> \in alias'
      PROVE  /\ \A p \in Open : <<n, p>> \in alias' => o = p
             /\ native'[n] = Reservation
             /\ \A u \in Thread : n \notin Own(u)'
  <2>1. CASE n \in Aim(t)
    <3>1. n = call[t].to /\ Replaces(t) /\ ~At(t, "settle")
      BY <2>1 DEF Aim
    <3>2. \A u \in Thread : n \notin Own(u)
      BY <1>1, <3>1 DEF Owned
    <3>3. n \notin Own(t)' \ Own(t)
      BY <3>1 DEF Foot
    <3> QED
      BY <1>1, <1>2, <2>1, <3>2, <3>3 DEF Landed
  <2>2. CASE n \notin Aim(t)
    <3>1. <<n, o>> \in alias /\ \A p \in Open : <<n, p>> \in alias' => <<n, p>> \in alias
      BY <1>2, <2>2 DEF Foot
    <3>2. native[n] = Reservation /\ \A u \in Thread : n \notin Own(u)
      BY <1>1, <3>1 DEF Aliases, Aliased
    <3>3. ~Vacancy(t, n)
      BY <3>2, DescriptorAssumption DEF Vacancy
    <3> QED
      BY <1>1, <2>2, <3>1, <3>2, <3>3 DEF Foot, Aliases
  <2> QED
    BY <2>1, <2>2
<1> QED
  BY <1>2 DEF Aliases, Aliased, Landed

\* What is left to show of a step.
LEMMA StepKeeps ==
  ASSUME ~WindowRaces, IInv, NInv, NEW t \in Thread, Foot(t), Landed(t), Local(t)'
  PROVE  NInv'
<1>1. \A u \in Thread : Local(u)'
  BY OthersKeep
<1> QED
  BY <1>1, OwnedKept, AliasesKept DEF NInv

-----------------------------------------------------------------------------
(* The steps of the calls.                                                  *)

\* A call that has no private number and does not replace one.
LEMMA Plain ==
  ASSUME NEW t \in Thread, call'[t].stable = None, call'[t].holder = None,
         call'[t].pc \notin Dup2PCs \union Holding \union VacantPCs \union {"op"}
  PROVE  Local(t)' /\ Own(t)' = {}
<1>1. Own(t)' = {}
  BY DEF Own
<1>2. Fields(t)'
  BY DEF Fields, Dup2PCs
<1>3. Pinned(t)' /\ Vacant(t)'
  BY Ranges DEF Pinned, Vacant, VacantPCs, Fd
<1>4. InUse(t)' /\ Installed(t)'
  BY DEF InUse, Installed, At, Dup2PCs
<1> QED
  BY <1>1, <1>2, <1>3, <1>4 DEF Local

\* Outside of dup2 a call has no private number.
LEMMA Private0 ==
  ASSUME NInv, NEW t \in Thread, call[t].pc \notin Dup2PCs
  PROVE  call[t].stable = None /\ call[t].holder = None /\ Own(t) = {}
BY DEF NInv, Local, Fields, Own, Holding, Dup2PCs, Installing

\* What the host and the table give out is vacant.
LEMMA GivenOut ==
  ASSUME NEW t \in Thread
  PROVE  /\ \A n \in Low : Allocates(t, n) => Vacancy(t, n)
         /\ \A h \in FreeHigh(t) : Vacancy(t, h)
         /\ \A h : LowestHigh(t, h) => h \in FreeHigh(t)
BY Ranges DEF Allocates, FreeHigh, LowestHigh, Vacancy

\* Calls that begin.
LEMMA NumbersStart ==
  ASSUME IInv, NInv, NEW t \in Thread, Start(t)
  PROVE  Foot(t) /\ Landed(t) /\ Local(t)'
<1>0. /\ call \in [Thread -> Calls] /\ call[t].pc = "idle" /\ UserFd \subseteq Fd
      /\ \A u \in Thread \ {t} : call'[u] = call[u]
      /\ alias \subseteq Low \X Open /\ Shape
  BY OthersStay DEF IInv, NInv, Aliases, Shape, Start, At, UserFd
<1>1. /\ call[t].stable = None /\ call[t].holder = None /\ Own(t) = {} /\ Aim(t) = {}
  BY <1>0, Private0 DEF Dup2PCs, Installing, Aim, Replaces, Replacing
<1>2. ASSUME alias' = alias PROVE Landed(t)
  BY <1>0, <1>1, <1>2 DEF Landed
<1>3. CASE \/ \E o \in Open : Create(t, o)
           \/ \E fd \in UserFd : DupFake(t, fd)
           \/ \E fd \in UserFd \intersect Low : DupNative(t, fd)
  <2>1. UNCHANGED <<alias, call>>
    BY <1>3 DEF Create, DupFake, DupNative, fakeVars
  <2>2. /\ \A h \in High : high'[h] = high[h] \/ Vacancy(t, h)
        /\ \A n \in Low : native'[n] = native[n] \/ Vacancy(t, n)
    <3>1. ASSUME NEW o \in Open, Create(t, o)
          PROVE  native' = native /\ \A h \in High : high'[h] = high[h] \/ Vacancy(t, h)
      BY <1>0, <3>1, GivenOut DEF Create, Shape
    <3>2. ASSUME NEW fd \in UserFd, DupFake(t, fd)
          PROVE  native' = native /\ \A h \in High : high'[h] = high[h] \/ Vacancy(t, h)
      BY <1>0, <3>2, GivenOut DEF DupFake, Shape
    <3>3. ASSUME NEW fd \in UserFd \intersect Low, DupNative(t, fd)
          PROVE  high' = high /\ \A n \in Low : native'[n] = native[n] \/ Vacancy(t, n)
      BY <1>0, <3>3, GivenOut DEF DupNative, Shape, fakeVars
    <3> QED
      BY <1>3, <3>1, <3>2, <3>3
  <2>3. Foot(t)
    BY <1>0, <1>1, <2>1, <2>2 DEF Foot, Own, At
  <2>4. Local(t)'
    BY <1>0, <1>1, <2>1, Plain DEF Dup2PCs, Installing, Holding, VacantPCs
  <2> QED
    BY <1>2, <2>1, <2>3, <2>4
<1>4. ASSUME NEW c, call' = [call EXCEPT ![t] = c], c.stable = None, c.holder = None,
             c.pc \in {"attach", "ticket", "close", "pairFirst"},
             c.to \in {None} \union UserFd, alias' = alias, high' = high,
             \A n \in Low : native'[n] = native[n] \/ Vacancy(t, n)
      PROVE  Foot(t) /\ Landed(t) /\ Local(t)'
  <2>1. call'[t] = c
    BY <1>0, <1>4
  <2>2. Local(t)' /\ Own(t)' = {}
    BY <1>4, <2>1, Plain DEF Dup2PCs, Installing, Holding, VacantPCs
  <2>3. Foot(t)
    BY <1>0, <1>4, <2>1, <2>2 DEF Foot, At
  <2> QED
    BY <1>2, <1>4, <2>2, <2>3
<1>5. ASSUME NEW f \in File, OpenFile(t, f) PROVE Foot(t) /\ Landed(t) /\ Local(t)'
  <2>1. PICK n \in Low :
          /\ call' = [call EXCEPT ![t] = [Idle EXCEPT !.pc = "attach", !.fd = n, !.open = f]]
          /\ Allocates(t, n) /\ native' = [native EXCEPT ![n] = f]
          /\ UNCHANGED << alias, high >>
    BY <1>5 DEF OpenFile, Begin, fakeVars
  <2> DEFINE c == [Idle EXCEPT !.pc = "attach", !.fd = n, !.open = f]
  <2>2. c.stable = None /\ c.holder = None /\ c.pc = "attach" /\ c.to = None
    BY DEF Idle
  <2>3. call' = [call EXCEPT ![t] = c]
    BY <2>1
  <2>4. \A m \in Low : native'[m] = native[m] \/ Vacancy(t, m)
    BY <1>0, <2>1, GivenOut DEF Shape
  <2> HIDE DEF c
  <2> QED
    BY <1>4, <2>1, <2>2, <2>3, <2>4
<1>6. ASSUME NEW fd \in UserFd, CloseBegin(t, fd)
      PROVE  Foot(t) /\ Landed(t) /\ Local(t)'
  <2> DEFINE c == [Idle EXCEPT !.pc = "close", !.to = fd]
  <2>1. c.stable = None /\ c.holder = None /\ c.pc = "close" /\ c.to = fd
    BY DEF Idle
  <2>2. call' = [call EXCEPT ![t] = c] /\ UNCHANGED <<alias, high, native>>
    BY <1>6 DEF CloseBegin, Begin, fakeVars
  <2> HIDE DEF c
  <2> QED
    BY <1>4, <2>1, <2>2
<1>7. ASSUME NEW fd \in UserFd, NEW to \in UserFd, Dup2Begin(t, fd, to)
      PROVE  Foot(t) /\ Landed(t) /\ Local(t)'
  <2> DEFINE c == [Idle EXCEPT !.pc = "pairFirst", !.fd = fd, !.to = to]
  <2>1. c.stable = None /\ c.holder = None /\ c.pc = "pairFirst" /\ c.to = to
    BY DEF Idle
  <2>2. call' = [call EXCEPT ![t] = c] /\ UNCHANGED <<alias, high, native>>
    BY <1>7 DEF Dup2Begin, Begin, fakeVars
  <2> HIDE DEF c
  <2> QED
    BY <1>4, <2>1, <2>2
<1>8. ASSUME NEW fd \in UserFd \intersect Low, TakeTicket(t, fd)
      PROVE  Foot(t) /\ Landed(t) /\ Local(t)'
  <2> DEFINE c == [Idle EXCEPT !.pc = "ticket", !.fd = fd]
  <2>1. c.stable = None /\ c.holder = None /\ c.pc = "ticket" /\ c.to = None
    BY DEF Idle
  <2>2. call' = [call EXCEPT ![t] = c] /\ UNCHANGED <<alias, high, native>>
    BY <1>8 DEF TakeTicket, Begin, fakeVars
  <2> HIDE DEF c
  <2> QED
    BY <1>4, <2>1, <2>2
<1>9. ASSUME NEW fd \in UserFd, NEW write \in BOOLEAN, BeginOp(t, fd, write)
      PROVE  Foot(t) /\ Landed(t) /\ Local(t)'
  <2> DEFINE c == [Idle EXCEPT !.pc = "op", !.fd = fd, !.write = write, !.open = OpenAt(fd)]
  <2>1. /\ c.stable = None /\ c.holder = None /\ c.pc = "op" /\ c.to = None
        /\ c.fd = fd /\ c.open = OpenAt(fd)
    BY DEF Idle
  <2>2. /\ call' = [call EXCEPT ![t] = c] /\ UNCHANGED <<alias, high, native>>
        /\ OpenAt(fd) \in Open
    BY <1>0, <1>9, OpenTyped DEF BeginOp, Begin
  <2> HIDE DEF c
  <2>3. call'[t] = c
    BY <1>0, <2>2
  <2>4. Own(t)' = {}
    BY <2>1, <2>3 DEF Own
  <2>5. Foot(t)
    BY <1>0, <2>1, <2>2, <2>3, <2>4 DEF Foot, At
  <2>6. OpenAt(fd)' = OpenAt(fd)
    BY <2>2 DEF OpenAt
  <2>7. InUse(t)'
    BY <2>1, <2>2, <2>3, <2>6 DEF InUse, At
  <2>8. Fields(t)' /\ Pinned(t)' /\ Vacant(t)' /\ Installed(t)'
    BY <2>1, <2>3, Ranges
    DEF Fields, Pinned, Vacant, Installed, At, Fd, Dup2PCs, Installing, Holding, VacantPCs
  <2> QED
    BY <1>2, <2>2, <2>5, <2>7, <2>8 DEF Local
<1> QED
  BY <1>3, <1>5, <1>6, <1>7, <1>8, <1>9 DEF Start

\* Steps that change no table and leave the call without a private number.
LEMMA NoTable ==
  ASSUME IInv, NInv, NEW t \in Thread, UNCHANGED <<high, alias, native>>,
         \A u \in Thread \ {t} : call'[u] = call[u],
         call[t].pc \notin Dup2PCs,
         call'[t].pc \notin Dup2PCs \union Holding \union VacantPCs \union {"op"},
         call'[t].stable = None, call'[t].holder = None,
         call'[t].to = None \/ (call'[t].to = call[t].to /\ ~At(t, "settle"))
  PROVE  Foot(t) /\ Landed(t) /\ Local(t)'
<1>1. Local(t)' /\ Own(t)' = {} /\ Own(t) = {}
  BY Plain, Private0
<1>2. Foot(t)
  BY <1>1 DEF Foot, At
<1>3. Landed(t)
  BY DEF Landed, NInv, Aliases, Aliased
<1> QED
  BY <1>1, <1>2, <1>3

LEMMA NumbersUse ==
  ASSUME IInv, NInv, NEW t \in Thread,
         \/ FinishOp(t) \/ Attach(t) \/ ReadAhead(t) \/ ReadAheadDone(t) \/ Settle(t)
         \/ Pair(t) \/ PinFails(t)
  PROVE  Foot(t) /\ Landed(t) /\ Local(t)'
<1>0. call \in [Thread -> Calls] /\ \A u \in Thread \ {t} : call'[u] = call[u]
  BY OthersStay DEF IInv, Shape, Continue, Pin
<1>1. UNCHANGED <<high, alias, native>>
  BY DEF FinishOp, Attach, ReadAhead, ReadAheadDone, Settle, Pair, PairFirst, PairSecond,
         PairRetry, PairWait, PairReplace, PinFails, fakeVars
<1>2. call[t].pc \notin Dup2PCs
  BY DEF FinishOp, Attach, ReadAhead, ReadAheadDone, Settle, Pair, PairFirst, PairSecond,
         PairRetry, PairWait, PairReplace, PinFails, At, Dup2PCs, Installing
<1>3. call[t].stable = None /\ call[t].holder = None
  BY <1>2, Private0
<1>4. CASE Done(t)
  <2>1. call'[t] = Idle
    BY <1>0, <1>4 DEF Done
  <2>2. call'[t].pc = "idle" /\ call'[t].stable = None /\ call'[t].holder = None
        /\ call'[t].to = None
    BY <2>1 DEF Idle
  <2> QED
    BY <1>0, <1>1, <1>2, <2>2, NoTable DEF Dup2PCs, Installing, Holding, VacantPCs
<1>5. CASE /\ call[t].pc \in Pairing \union {"ticket"}
           /\ \E pc \in Pairing \union {"pin", "raRead"} : call' = [call EXCEPT ![t].pc = pc]
  <2>1. /\ call'[t].pc \in Pairing \union {"pin", "raRead"}
        /\ call'[t].stable = None /\ call'[t].holder = None /\ call'[t].to = call[t].to
    BY <1>0, <1>3, <1>5 DEF Calls
  <2>2. ~At(t, "settle")
    BY <1>5 DEF At, Pairing
  <2>3. call'[t].pc \notin Dup2PCs \union Holding \union VacantPCs \union {"op"}
    BY <2>1 DEF Dup2PCs, Installing, Holding, VacantPCs, Pairing
  <2> QED
    BY <1>0, <1>1, <1>2, <2>1, <2>2, <2>3, NoTable
<1> QED
  <2>1. Pair(t) => /\ call[t].pc \in Pairing
                   /\ \E pc \in Pairing \union {"pin"} : call' = [call EXCEPT ![t].pc = pc]
    BY DEF Pair, PairFirst, PairSecond, PairRetry, PairWait, PairReplace, Pairing, At, Goto
  <2>2. ReadAhead(t) => Done(t) \/ (At(t, "ticket") /\ Goto(t, "raRead"))
    BY DEF ReadAhead
  <2>3. FinishOp(t) \/ Attach(t) \/ ReadAheadDone(t) \/ Settle(t) \/ PinFails(t) => Done(t)
    BY DEF FinishOp, Attach, ReadAheadDone, Settle, PinFails
  <2> QED
    BY <1>4, <1>5, <2>1, <2>2, <2>3 DEF At, Goto

\* close_fake_backend and the native close under an alias, in close and in dup2: what was
\* at the number is gone, and the rest is as before.
LEMMA BackendGone ==
  ASSUME IInv, NInv, NEW t \in Thread, NEW aliasPC, NEW donePC,
         NEW fd \in Fd, fd = call[t].to,
         \/ CloseBackend(t, aliasPC, donePC)
         \/ CloseNative(t, donePC) /\ fd \in Low /\ ~Aliased(fd)
  PROVE  /\ \A h \in High \ {fd} : high'[h] = high[h]
         /\ \A n \in Low \ {fd} : native'[n] = native[n]
         /\ alias' \subseteq alias
         /\ \A n \in Low \ {fd}, o \in Open : <<n, o>> \in alias' <=> <<n, o>> \in alias
         /\ fd \in Low => ~Aliased(fd)'
         /\ \E pc \in {aliasPC, donePC} :
              /\ call' = [call EXCEPT ![t].pc = pc]
              /\ pc # donePC => fd \in Low
<1>0. Shape /\ Aliases
  BY DEF IInv, NInv
<1>1. CASE CloseNative(t, donePC) /\ fd \in Low /\ ~Aliased(fd)
  BY <1>0, <1>1 DEF CloseNative, Shape, fakeVars, Goto, Aliased
<1>2. CASE CloseBackend(t, aliasPC, donePC)
  <2>1. CASE /\ OpenAt(fd) # None
             /\ high' = [h \in High |-> IF h = fd THEN None ELSE high[h]]
             /\ alias' = alias \ {<<fd, OpenAt(fd)>>}
             /\ Goto(t, IF fd \in Low THEN aliasPC ELSE donePC)
             /\ UNCHANGED native
    <3>1. ASSUME fd \in Low, NEW o \in Open, <<fd, o>> \in alias' PROVE FALSE
      <4>1. <<fd, o>> \in alias /\ o # OpenAt(fd)
        BY <2>1, <3>1
      <4> QED
        BY <1>0, <3>1, <4>1, OpenIs
    <3>2. fd \in Low => ~Aliased(fd)'
      BY <3>1 DEF Aliased
    <3> QED
      BY <1>0, <2>1, <3>2 DEF Goto
  <2>2. CASE /\ ~IsFake(fd)
             /\ native' = [native EXCEPT ![fd] = None]
             /\ Goto(t, donePC) /\ UNCHANGED fakeVars
    <3>1. fd \in Low /\ ~Aliased(fd)
      BY <1>0, <2>2, OpenIs DEF IsFake, Fd
    <3> QED
      BY <1>0, <2>2, <3>1 DEF fakeVars, Goto, Aliased, Shape
  <2> QED
    BY <1>2, <2>1, <2>2 DEF CloseBackend
<1> QED
  BY <1>1, <1>2

\* close, and the close of a dup2's target.
LEMMA NumbersClose ==
  ASSUME IInv, NInv, NEW t \in Thread, Close(t) \/ CloseTarget(t)
  PROVE  Foot(t) /\ Landed(t) /\ Local(t)'
<1>0. /\ call \in [Thread -> Calls] /\ \A u \in Thread \ {t} : call'[u] = call[u]
      /\ Local(t) /\ Aliases
  BY OthersStay DEF IInv, NInv, Shape, Continue, Install
<1>1. /\ call[t].pc \in {"close", "closeNative", "closeTarget", "closeTargetNative"}
      /\ call[t].to \in Fd /\ Aim(t) = {call[t].to}
  <2>1. call[t].pc \in {"close", "closeNative", "closeTarget", "closeTargetNative"}
    BY DEF Close, CloseTarget, At
  <2> QED
    BY <2>1 DEF Aim, Replaces, Replacing, PC, Pairing, At, IInv, Shape
<1> DEFINE Gone ==
      /\ \A h \in High \ {call[t].to} : high'[h] = high[h]
      /\ \A n \in Low \ {call[t].to} : native'[n] = native[n]
      /\ alias' \subseteq alias
      /\ \A n \in Low \ {call[t].to}, o \in Open : <<n, o>> \in alias' <=> <<n, o>> \in alias
      /\ call[t].to \in Low => \A o \in Open : <<call[t].to, o>> \notin alias'
<1>2. /\ Gone
      /\ \E pc \in {"closeNative", "settle", "closeTargetNative", "vacated", "moveHolder"} :
           /\ call' = [call EXCEPT ![t].pc = pc]
           /\ pc # "settle" => call[t].to \in Low
           /\ pc \in {"closeNative", "settle"} <=> call[t].pc \in {"close", "closeNative"}
  <2> DEFINE Ends(aliasPC, donePC) ==
        \E pc \in {aliasPC, donePC} :
          call' = [call EXCEPT ![t].pc = pc] /\ (pc # donePC => call[t].to \in Low)
  <2>0. ASSUME NEW aliasPC, NEW donePC,
               \/ CloseBackend(t, aliasPC, donePC)
               \/ CloseNative(t, donePC) /\ call[t].to \in Low /\ ~Aliased(call[t].to)
        PROVE  Gone /\ Ends(aliasPC, donePC)
    <3> DEFINE fd == call[t].to
    <3>1. PICK to \in Fd : to = fd
      BY <1>1
    <3>2. /\ \A h \in High \ {to} : high'[h] = high[h]
          /\ \A n \in Low \ {to} : native'[n] = native[n]
          /\ alias' \subseteq alias
          /\ \A n \in Low \ {to}, o \in Open : <<n, o>> \in alias' <=> <<n, o>> \in alias
          /\ to \in Low => ~Aliased(to)'
          /\ \E pc \in {aliasPC, donePC} :
               call' = [call EXCEPT ![t].pc = pc] /\ (pc # donePC => to \in Low)
      BY <2>0, <3>1, BackendGone
    <3> QED
      BY <3>1, <3>2 DEF Aliased
  <2>1. CASE Close(t)
    <3>1. At(t, "closeNative") => call[t].to \in Low /\ ~Aliased(call[t].to)
      BY <1>0 DEF Local, Vacant, VacantPCs, At
    <3>2. call[t].pc \in {"close", "closeNative"}
      BY <2>1 DEF Close, At
    <3>3. \/ CloseBackend(t, "closeNative", "settle")
          \/ CloseNative(t, "settle") /\ call[t].to \in Low /\ ~Aliased(call[t].to)
      BY <2>1, <3>1 DEF Close
    <3>4. Gone /\ Ends("closeNative", "settle")
      BY <2>0, <3>3
    <3> QED
      BY <3>2, <3>4
  <2>2. CASE CloseTarget(t)
    <3>0. call[t].pc \in {"closeTarget", "closeTargetNative"} /\ call[t].to \in Low
      BY <1>0, <2>2 DEF CloseTarget, At, Local, Fields, Installing
    <3>1. CASE Bad(call[t].to) /\ Goto(t, "moveHolder") /\ UNCHANGED <<fakeVars, native>>
      <4>1. \A o \in Open : <<call[t].to, o>> \notin alias
        BY <1>0, <3>0, <3>1, OpenIs DEF Bad, Aliased
      <4> QED
        BY <3>0, <3>1, <4>1 DEF Goto, fakeVars
    <3>2. At(t, "closeTargetNative") => ~Aliased(call[t].to)
      BY <1>0 DEF Local, Vacant, VacantPCs, At
    <3>3. CASE \/ At(t, "closeTarget") /\ CloseBackend(t, "closeTargetNative", "vacated")
               \/ At(t, "closeTargetNative") /\ CloseNative(t, "vacated")
      <4>1. Gone /\ Ends("closeTargetNative", "vacated")
        BY <2>0, <3>0, <3>2, <3>3
      <4> QED
        BY <3>0, <4>1
    <3> QED
      BY <2>2, <3>1, <3>3 DEF CloseTarget
  <2> QED
    BY <2>1, <2>2
<1>3. PICK pc \in {"closeNative", "settle", "closeTargetNative", "vacated", "moveHolder"} :
           /\ call' = [call EXCEPT ![t].pc = pc]
           /\ pc # "settle" => call[t].to \in Low
           /\ pc \in {"closeNative", "settle"} <=> call[t].pc \in {"close", "closeNative"}
  BY <1>2
<1>4. /\ call'[t].pc = pc /\ call'[t].to = call[t].to /\ call'[t].stable = call[t].stable
      /\ call'[t].holder = call[t].holder /\ call'[t].open = call[t].open
  BY <1>0, <1>3 DEF Calls
<1>5. Own(t)' = Own(t) /\ call[t].to \notin Own(t)
  <2>1. ~At(t, "settle")
    BY <1>1 DEF At
  <2> QED
    BY <1>4, <2>1 DEF Own, NInv, Owned
<1>6. Foot(t)
  BY <1>0, <1>1, <1>2, <1>4, <1>5 DEF Foot, At
<1>7. Landed(t)
  BY <1>0, <1>1, <1>2 DEF Landed, Aliases
<1>8. Fields(t)'
  BY <1>0, <1>1, <1>3, <1>4 DEF Local, Fields, Dup2PCs, Installing, Holding
<1>9. call[t].stable \notin Low
  BY <1>0, <1>1, Ranges DEF Local, Fields, Dup2PCs, Installing, Fd
<1>10. Pinned(t)'
  <2>1. call[t].stable \in High =>
          call[t].stable # call[t].to /\ high'[call[t].stable] = high[call[t].stable]
    BY <1>2, <1>5, Ranges DEF Own, Fd
  <2>2. call[t].holder # None =>
          call[t].holder # call[t].to /\ native'[call[t].holder] = native[call[t].holder]
    BY <1>0, <1>2, <1>5 DEF Own, Calls
  <2>3. call[t].pc # "failed"
    BY <1>1
  <2> QED
    BY <1>0, <1>4, <1>9, <2>1, <2>2, <2>3 DEF Local, Pinned
<1>11. Vacant(t)'
  BY <1>2, <1>3, <1>4, <1>9 DEF Vacant, VacantPCs, Aliased
<1>12. InUse(t)' /\ Installed(t)'
  BY <1>3, <1>4 DEF InUse, Installed, At
<1> QED
  BY <1>6, <1>7, <1>8, <1>10, <1>11, <1>12 DEF Local

\* Where a dup2 is, and what it knows then.
LEMMA InDup2 ==
  ASSUME IInv, NInv, NEW t \in Thread,
         call[t].pc \in {"pin"} \union Installing \union {"install", "installed", "failed"}
  PROVE  /\ Shape /\ Aliases /\ Local(t) /\ call \in [Thread -> Calls] /\ call[t].to \in Fd
         /\ Aim(t) = {call[t].to} /\ call[t].to \notin Own(t) /\ ~At(t, "settle")
<1>1. /\ Replaces(t) /\ ~At(t, "settle")
  BY DEF Replaces, Replacing, PC, Pairing, Installing, At
<1> QED
  BY <1>1 DEF IInv, Shape, NInv, Owned, Aim, Replaces

\* The aliases stay as they are, and so does the reservation under the target's.
LEMMA LandedSame ==
  ASSUME NInv, NEW t \in Thread, UNCHANGED alias,
         \A n \in Aim(t) \intersect Low : Aliased(n) => native'[n] = native[n]
  PROVE  Landed(t)
<1>1. ASSUME NEW n \in Aim(t) \intersect Low, NEW o \in Open, <<n, o>> \in alias'
      PROVE  native'[n] = Reservation
  BY <1>1 DEF NInv, Aliases, Aliased
<1>2. ASSUME NEW n \in Aim(t) \intersect Low, NEW o \in Open, NEW p \in Open,
             <<n, o>> \in alias', <<n, p>> \in alias'
      PROVE  o = p
  BY <1>2 DEF NInv, Aliases
<1> QED
  BY <1>1, <1>2 DEF Landed, NInv, Aliases

\* The source is pinned.
LEMMA NumbersPin ==
  ASSUME IInv, NInv, NEW t \in Thread,
         \/ \E h \in High : PinFake(t, h)
         \/ \E n \in Low : PinNative(t, n)
  PROVE  Foot(t) /\ Landed(t) /\ Local(t)'
<1>0. /\ Shape /\ Aliases /\ call \in [Thread -> Calls] /\ call[t].to \in Fd
      /\ Aim(t) = {call[t].to} /\ call[t].fd \in Fd /\ ~At(t, "settle")
      /\ \A u \in Thread \ {t} : call'[u] = call[u]
  <2>1. call[t].pc = "pin"
    BY DEF PinFake, PinNative, At
  <2> QED
    BY <2>1, InDup2, OthersStay DEF Shape, Paired, Continue, Pin
<1>1. call[t].holder = None /\ call[t].stable = None /\ Own(t) = {}
  <2>1. call[t].pc = "pin"
    BY DEF PinFake, PinNative, At
  <2> QED
    BY <2>1, Private0 DEF Dup2PCs, Installing
<1>2. ASSUME NEW x \in Fd, NEW o, o # None, Vacancy(t, x),
             x \in High => o \in Open /\ high' = [high EXCEPT ![x] = o] /\ native' = native,
             x \in Low => /\ native' = [native EXCEPT ![x] = o] /\ high' = high
                          /\ call[t].to \in Low /\ ~Aliased(call[t].to),
             alias' = alias,
             call' = [call EXCEPT ![t].pc = IF x = call[t].to THEN "settle" ELSE "install",
                                  ![t].fd = None,
                                  ![t].open = IF x = call[t].to THEN None ELSE o,
                                  ![t].stable = IF x = call[t].to THEN None ELSE x]
      PROVE  Foot(t) /\ Landed(t) /\ Local(t)'
  <2>1. /\ call'[t].pc = IF x = call[t].to THEN "settle" ELSE "install"
        /\ call'[t].open = IF x = call[t].to THEN None ELSE o
        /\ call'[t].stable = IF x = call[t].to THEN None ELSE x
        /\ call'[t].holder = None /\ call'[t].to = call[t].to
    BY <1>0, <1>1, <1>2 DEF Calls
  <2>2. Own(t)' = IF x = call[t].to THEN {} ELSE {x}
    BY <1>2, <2>1, Ranges DEF Own
  <2>3. /\ \A h \in High : high'[h] = high[h] \/ Vacancy(t, h)
        /\ \A n \in Low : native'[n] = native[n] \/ Vacancy(t, n)
    BY <1>0, <1>2 DEF Shape, Fd
  <2>4. Foot(t)
    BY <1>0, <1>1, <1>2, <2>1, <2>2, <2>3 DEF Foot, At
  <2>5. ASSUME NEW n \in Low, Aliased(n) PROVE native'[n] = native[n]
    <3>1. native[n] # None
      BY <1>0, <2>5, DescriptorAssumption DEF Aliases
    <3> QED
      BY <1>0, <1>2, <2>5, <3>1 DEF Shape, Vacancy, Fd
  <2>6. Landed(t)
    BY <1>2, <2>5, LandedSame
  <2>7. CASE x = call[t].to
    BY <2>1, <2>4, <2>6, <2>7, Plain DEF Dup2PCs, Installing, Holding, VacantPCs
  <2>8. CASE x # call[t].to
    <3>1. /\ call'[t].pc = "install" /\ call'[t].stable = x /\ call'[t].open = o
          /\ call'[t].holder = None /\ x # None
      BY <2>1, <2>8, Ranges
    <3>2. Fields(t)'
      BY <3>1 DEF Fields, Dup2PCs, Installing, Holding
    <3>3. Pinned(t)'
      BY <1>0, <1>2, <3>1, Ranges DEF Pinned, Shape
    <3>4. Vacant(t)'
      <4>1. x \in Low => call[t].to \in Low /\ \A q \in Open : <<call[t].to, q>> \notin alias
        BY <1>2 DEF Aliased
      <4>2. call'[t].to = call[t].to /\ alias' = alias
        BY <1>2, <2>1
      <4>3. call'[t].pc \notin VacantPCs
        BY <3>1 DEF VacantPCs
      <4>4. x \in Low => call'[t].to \in Low /\ ~Aliased(call[t].to)'
        BY <4>1, <4>2 DEF Aliased
      <4> QED
        BY <3>1, <4>3, <4>4 DEF Vacant, VacantPCs
    <3>5. InUse(t)' /\ Installed(t)'
      BY <3>1 DEF InUse, Installed, At
    <3> QED
      BY <2>4, <2>6, <3>2, <3>3, <3>4, <3>5 DEF Local
  <2> QED
    BY <2>7, <2>8
<1>3. ASSUME NEW h \in High, PinFake(t, h) PROVE Foot(t) /\ Landed(t) /\ Local(t)'
  <2> DEFINE o == OpenAt(call[t].fd)
  <2>1. o \in Open /\ o # None
    BY <1>0, <1>3, OpenTyped, Ranges DEF PinFake
  <2>2. /\ LowestHigh(t, h) /\ high' = [high EXCEPT ![h] = o] /\ UNCHANGED <<alias, native>>
        /\ call' = [call EXCEPT ![t].pc = IF h = call[t].to THEN "settle" ELSE "install",
                                ![t].fd = None,
                                ![t].open = IF h = call[t].to THEN None ELSE o,
                                ![t].stable = IF h = call[t].to THEN None ELSE h]
    BY <1>3 DEF PinFake
  <2>3. Vacancy(t, h) /\ h \in Fd /\ h \notin Low
    BY <2>2, GivenOut, Ranges DEF Fd
  <2> HIDE DEF o
  <2> QED
    BY <1>2, <2>1, <2>2, <2>3
<1>4. ASSUME NEW n \in Low, PinNative(t, n) PROVE Foot(t) /\ Landed(t) /\ Local(t)'
  <2> DEFINE o == native[call[t].fd]
  <2>1. /\ o # None /\ ~IsFake(call[t].to)
        /\ Allocates(t, n) /\ native' = [native EXCEPT ![n] = o] /\ UNCHANGED <<alias, high>>
        /\ call' = [call EXCEPT ![t].pc = IF n = call[t].to THEN "settle" ELSE "install",
                                ![t].fd = None,
                                ![t].open = IF n = call[t].to THEN None ELSE o,
                                ![t].stable = IF n = call[t].to THEN None ELSE n]
    BY <1>4 DEF PinNative, fakeVars
  <2>2. Vacancy(t, n) /\ n \in Fd /\ n \notin High
    BY <2>1, GivenOut, Ranges DEF Fd
  <2>3. call[t].to \in Low /\ ~Aliased(call[t].to)
    BY <1>0, <2>1, OpenIs DEF IsFake, Fd
  <2> HIDE DEF o
  <2> QED
    BY <1>2, <2>1, <2>2, <2>3
<1> QED
  BY <1>3, <1>4

\* The call goes on with the numbers it has.
LEMMA SameNumbers ==
  ASSUME IInv, NInv, NEW t \in Thread,
         call[t].pc \in Installing \union {"install", "installed", "failed"},
         call'[t].pc \in Dup2PCs, ~At(t, "settle")',
         \A u \in Thread \ {t} : call'[u] = call[u],
         call'[t].to = call[t].to, Own(t)' \subseteq Own(t),
         \A h \in High : high'[h] = high[h] \/ h = call[t].to \/ h \in Own(t),
         \A n \in Low : native'[n] = native[n] \/ n = call[t].to \/ n \in Own(t),
         \A n \in Low, o \in Open :
           n # call[t].to => (<<n, o>> \in alias' <=> <<n, o>> \in alias)
  PROVE  Foot(t)
<1>1. Aim(t) = {call[t].to} /\ ~At(t, "settle")
  BY InDup2
<1>2. ~At(t, "op")'
  BY DEF At, Dup2PCs, Installing
<1> QED
  BY <1>1, <1>2 DEF Foot

\* The target is replaced by the duplicate in one step.
LEMMA NumbersInstall ==
  ASSUME IInv, NInv, NEW t \in Thread, InstallHigh(t) \/ InstallNative(t)
  PROVE  Foot(t) /\ Landed(t) /\ Local(t)'
<1>0. call[t].pc = "install"
  BY DEF InstallHigh, InstallNative, At
<1>1. /\ Shape /\ Aliases /\ Local(t) /\ call \in [Thread -> Calls] /\ call[t].to \in Fd
      /\ Aim(t) = {call[t].to} /\ call[t].to \notin Own(t)
      /\ \A u \in Thread \ {t} : call'[u] = call[u]
  BY <1>0, InDup2, OthersStay DEF Continue, Install
<1>2. /\ call'[t].pc = "installed" /\ call'[t].to = call[t].to /\ call'[t].open = call[t].open
      /\ call'[t].stable = call[t].stable /\ call'[t].holder = call[t].holder
      /\ alias' = alias
  BY <1>1 DEF InstallHigh, InstallNative, Goto, Calls, fakeVars
<1>3. /\ call[t].stable \in Own(t) /\ call[t].stable # call[t].to /\ call[t].holder = None
      /\ call[t].stable \in Fd
  BY <1>0, <1>1 DEF Local, Fields, Dup2PCs, Own, Holding, Calls
<1>4. Own(t)' = Own(t)
  BY <1>2 DEF Own
<1>5. Fields(t)'
  BY <1>0, <1>1, <1>2, <1>3, Ranges DEF Fields, Dup2PCs, Installing, Holding
<1>6. InUse(t)'
  BY <1>2 DEF InUse, At
<1>7. CASE InstallHigh(t)
  <2>1. /\ call[t].stable \in High /\ call[t].to \in High /\ native' = native
        /\ high' = [high EXCEPT ![call[t].to] = high[call[t].stable]]
    BY <1>7 DEF InstallHigh, OpenAt
  <2>2. high[call[t].stable] = call[t].open /\ call[t].open \in Open
    BY <1>0, <1>1, <2>1 DEF Local, Pinned
  <2>3. high'[call[t].to] = call[t].open /\ high'[call[t].stable] = call[t].open
    BY <1>1, <1>3, <2>1, <2>2 DEF Shape
  <2>4. Foot(t)
    <3>1. \A h \in High : high'[h] = high[h] \/ h = call[t].to
      BY <1>1, <2>1 DEF Shape
    <3> QED
      BY <1>0, <1>1, <1>2, <1>4, <2>1, <3>1, SameNumbers DEF Dup2PCs, At
  <2>5. Landed(t)
    BY <1>2, <2>1, LandedSame
  <2>6. Pinned(t)' /\ Vacant(t)'
    BY <1>2, <1>3, <2>1, <2>2, <2>3, Ranges DEF Pinned, Vacant, VacantPCs
  <2>7. Installed(t)'
    <3>1. OpenAt(call[t].to)' = high'[call'[t].to]
      BY <1>2, <2>1 DEF OpenAt
    <3> QED
      BY <1>2, <2>1, <2>3, <3>1 DEF Installed
  <2> QED
    BY <1>5, <1>6, <2>4, <2>5, <2>6, <2>7 DEF Local
<1>8. CASE InstallNative(t)
  <2>1. /\ call[t].stable \in Low /\ high' = high
        /\ native' = [native EXCEPT ![call[t].to] = native[call[t].stable]]
    BY <1>8 DEF InstallNative, fakeVars
  <2>2. /\ native[call[t].stable] = call[t].open /\ call[t].open # None
        /\ call[t].to \in Low /\ ~Aliased(call[t].to)
    BY <1>1, <2>1 DEF Local, Pinned, Vacant
  <2>3. native'[call[t].to] = call[t].open /\ native'[call[t].stable] = call[t].open
    BY <1>1, <1>3, <2>1, <2>2 DEF Shape
  <2>4. Foot(t)
    <3>1. \A n \in Low : native'[n] = native[n] \/ n = call[t].to
      BY <1>1, <2>1 DEF Shape
    <3> QED
      BY <1>0, <1>1, <1>2, <1>4, <2>1, <3>1, SameNumbers DEF Dup2PCs, At
  <2>5. Landed(t)
    BY <1>1, <1>2, <2>2, LandedSame
  <2>6. Pinned(t)'
    BY <1>2, <1>3, <2>1, <2>2, <2>3, Ranges DEF Pinned
  <2>7. Vacant(t)'
    <3>1. \A o \in Open : <<call'[t].to, o>> \notin alias'
      BY <1>2, <2>2 DEF Aliased
    <3> QED
      BY <1>2, <2>2, <3>1 DEF Vacant, VacantPCs, Aliased
  <2>8. Installed(t)'
    BY <1>2, <2>1, <2>3, Ranges DEF Installed
  <2> QED
    BY <1>5, <1>6, <2>4, <2>5, <2>6, <2>7, <2>8 DEF Local
<1> QED
  BY <1>7, <1>8

\* Steps of a dup2 with a low target that leave the tables alone.
LEMMA NumbersPlace ==
  ASSUME IInv, NInv, NEW t \in Thread,
         \/ Reserve(t) \/ Unreserve(t)
         \/ At(t, "reserved") /\ Goto(t, "unreserve") /\ UNCHANGED <<fakeVars, native>>
         \/ MoveHolder(t) /\ Goto(t, "dropHolder") /\ UNCHANGED native,
         \A u \in Thread \ {t} : call'[u] = call[u]
  PROVE  Foot(t) /\ Landed(t) /\ Local(t)'
<1>0. /\ call[t].pc \in {"install", "reserved", "moveHolder", "vacated", "unreserve"}
      /\ UNCHANGED <<high, alias, native>>
  BY DEF Reserve, Unreserve, MoveHolder, At, fakeVars
<1>1. /\ Shape /\ Local(t) /\ call \in [Thread -> Calls]
  BY <1>0, InDup2 DEF Installing
<1>2. call[t].stable \in High /\ call[t].to \in Low
  BY <1>0, <1>1 DEF Local, Fields, Installing, Reserve, Unreserve, MoveHolder, At
<1>3. /\ call'[t].to = call[t].to /\ call'[t].stable = call[t].stable
      /\ call'[t].holder = call[t].holder
      /\ call'[t].pc \in {"reserved", "failed", "unreserve", "dropHolder"}
      /\ call'[t].pc # "failed" => call'[t].open = call[t].open
      /\ call'[t].pc = "dropHolder" <=> call[t].pc \in {"moveHolder", "vacated"}
  <2>1. CASE Reserve(t)
    BY <1>1, <2>1 DEF Reserve, Goto, Calls, At
  <2>2. CASE Unreserve(t)
    BY <1>1, <2>2 DEF Unreserve, Calls, At
  <2>3. CASE At(t, "reserved") /\ Goto(t, "unreserve")
    BY <1>1, <2>3 DEF Goto, Calls, At
  <2>4. CASE MoveHolder(t) /\ Goto(t, "dropHolder")
    BY <1>1, <2>4 DEF MoveHolder, Goto, Calls, At
  <2> QED
    BY <2>1, <2>2, <2>3, <2>4
<1>4. Own(t)' = Own(t)
  BY <1>3 DEF Own
<1>5. Foot(t)
  BY <1>0, <1>3, <1>4, SameNumbers DEF Dup2PCs, Installing, At
<1>6. Landed(t)
  BY <1>0, LandedSame
<1>7. Fields(t)'
  BY <1>0, <1>1, <1>2, <1>3, Ranges DEF Local, Fields, Dup2PCs, Installing, Holding
<1>8. Pinned(t)'
  BY <1>0, <1>1, <1>2, <1>3, Ranges DEF Local, Pinned
<1>9. Vacant(t)' /\ InUse(t)' /\ Installed(t)'
  BY <1>2, <1>3, Ranges DEF Vacant, VacantPCs, InUse, Installed, At
<1> QED
  BY <1>5, <1>6, <1>7, <1>8, <1>9 DEF Local

\* The holder of a reservation is opened ...
LEMMA NumbersHolder ==
  ASSUME IInv, NInv, NEW t \in Thread, OpenHolder(t)
  PROVE  Foot(t) /\ Landed(t) /\ Local(t)'
<1>0. At(t, "reserved") /\ call[t].pc = "reserved" /\ high' = high /\ alias' = alias
  BY DEF OpenHolder, At, fakeVars
<1>1. /\ Shape /\ Aliases /\ Local(t) /\ call \in [Thread -> Calls]
      /\ Aim(t) = {call[t].to} /\ ~At(t, "settle")
      /\ \A u \in Thread \ {t} : call'[u] = call[u]
  BY <1>0, InDup2, OthersStay DEF Installing, Continue, Install
<1>2. /\ call[t].stable \in High /\ call[t].to \in Low /\ call[t].holder = None
      /\ high[call[t].stable] \in Open /\ call[t].open = high[call[t].stable]
  BY <1>0, <1>1 DEF Local, Fields, Pinned, Installing, Holding
<1>3. ASSUME NEW n \in Low, Allocates(t, n), native' = [native EXCEPT ![n] = Reservation],
             call' = [call EXCEPT
               ![t].pc = IF n = call[t].to THEN "publish" ELSE "closeTarget",
               ![t].holder = IF n = call[t].to THEN None ELSE n]
      PROVE  Foot(t) /\ Landed(t) /\ Local(t)'
  <2>1. /\ call'[t].pc = IF n = call[t].to THEN "publish" ELSE "closeTarget"
        /\ call'[t].holder = IF n = call[t].to THEN None ELSE n
        /\ call'[t].to = call[t].to /\ call'[t].stable = call[t].stable
        /\ call'[t].open = call[t].open
    BY <1>1, <1>3 DEF Calls
  <2>2. native[n] = None /\ Vacancy(t, n) /\ n # None
    BY <1>3, GivenOut, Ranges DEF Allocates, Fd
  <2>3. /\ \A m \in Low : native'[m] = native[m] \/ m = n
        /\ native'[n] = Reservation
    BY <1>1, <1>3 DEF Shape
  <2>4. \A x \in Own(t)' \ Own(t) : x = n /\ n # call[t].to
    BY <2>1 DEF Own
  <2>5. Foot(t)
    <3>1. ~At(t, "op")'
      BY <2>1 DEF At
    <3> QED
      BY <1>0, <1>1, <2>1, <2>2, <2>3, <2>4, <3>1 DEF Foot
  <2>6. ~Aliased(n)
    BY <1>1, <2>2, DescriptorAssumption DEF Aliases
  <2>7. Landed(t)
    BY <1>0, <2>3, <2>6, LandedSame
  <2>8. Fields(t)'
    BY <1>2, <2>1, <2>2, Ranges DEF Fields, Dup2PCs, Installing, Holding, Fd
  <2>9. Pinned(t)'
    BY <1>0, <1>2, <2>1, <2>3, Ranges DEF Pinned
  <2>10. Vacant(t)'
    <3>1. n = call[t].to => \A o \in Open : <<call'[t].to, o>> \notin alias'
      BY <1>0, <2>1, <2>6 DEF Aliased
    <3> QED
      BY <1>2, <2>1, <2>3, <3>1, Ranges DEF Vacant, VacantPCs, Aliased
  <2>11. InUse(t)' /\ Installed(t)'
    BY <2>1 DEF InUse, Installed, At
  <2> QED
    BY <2>5, <2>7, <2>8, <2>9, <2>10, <2>11 DEF Local
<1>4. CASE Goto(t, "unreserve") /\ UNCHANGED native
  BY <1>0, <1>1, <1>4, NumbersPlace DEF OpenHolder
<1> QED
  BY <1>3, <1>4 DEF OpenHolder

\* ... moved to the target, and closed.
LEMMA NumbersMove ==
  ASSUME IInv, NInv, NEW t \in Thread, MoveHolder(t) \/ CloseHolder(t)
  PROVE  Foot(t) /\ Landed(t) /\ Local(t)'
<1>0. /\ call[t].pc \in {"moveHolder", "vacated", "closeHolder", "dropHolder"}
      /\ high' = high /\ alias' = alias
  BY DEF MoveHolder, CloseHolder, fakeVars
<1>1. /\ Shape /\ Aliases /\ Local(t) /\ call \in [Thread -> Calls]
      /\ Aim(t) = {call[t].to} /\ call[t].to \notin Own(t)
      /\ \A u \in Thread \ {t} : call'[u] = call[u]
  BY <1>0, InDup2, OthersStay DEF Installing, Continue, Install
<1>2. /\ call[t].stable \in High /\ call[t].to \in Low /\ call[t].holder \in Own(t)
      /\ call[t].holder \in Low /\ call[t].holder # call[t].to /\ call[t].holder # None
      /\ high[call[t].stable] \in Open /\ call[t].open = high[call[t].stable]
      /\ native[call[t].holder] = Reservation
  <2>1. call[t].holder # None /\ call[t].holder \in Low
    BY <1>0, <1>1 DEF Local, Fields, Holding, Shape
  <2> QED
    BY <1>0, <1>1, <2>1 DEF Local, Fields, Pinned, Installing, Own
<1>3. call[t].pc # "dropHolder" => \A o \in Open : <<call[t].to, o>> \notin alias
  BY <1>0, <1>1 DEF Local, Vacant, VacantPCs, Aliased
<1>4. CASE MoveHolder(t) /\ Goto(t, "dropHolder") /\ UNCHANGED native
  BY <1>1, <1>4, NumbersPlace
<1>5. CASE /\ MoveHolder(t) /\ Goto(t, "closeHolder")
           /\ native' = [native EXCEPT ![call[t].to] = native[call[t].holder]]
  <2>1. /\ call'[t].pc = "closeHolder" /\ call'[t].holder = call[t].holder
        /\ call'[t].to = call[t].to /\ call'[t].stable = call[t].stable
        /\ call'[t].open = call[t].open
    BY <1>1, <1>5 DEF Goto, Calls
  <2>2. /\ \A n \in Low : native'[n] = native[n] \/ n = call[t].to
        /\ native'[call[t].to] = Reservation /\ native'[call[t].holder] = Reservation
    BY <1>1, <1>2, <1>5 DEF Shape
  <2>3. Own(t)' = Own(t)
    BY <2>1 DEF Own
  <2>4. Foot(t)
    BY <1>0, <1>1, <2>1, <2>2, <2>3, SameNumbers DEF Dup2PCs, Installing, At
  <2>5. Landed(t)
    <3>1. call[t].pc # "dropHolder"
      BY <1>5 DEF MoveHolder
    <3> QED
      BY <1>0, <1>1, <1>3, <3>1, LandedSame DEF Aliased
  <2>6. Fields(t)' /\ Pinned(t)'
    BY <1>0, <1>2, <2>1, <2>2, Ranges
    DEF Fields, Pinned, Dup2PCs, Installing, Holding, Fd
  <2>7. Vacant(t)'
    <3>1. \A o \in Open : <<call'[t].to, o>> \notin alias'
      BY <1>0, <1>3, <1>5, <2>1 DEF MoveHolder
    <3> QED
      BY <1>2, <2>1, <2>2, <3>1 DEF Vacant, Aliased
  <2>8. InUse(t)' /\ Installed(t)'
    BY <2>1 DEF InUse, Installed, At
  <2> QED
    BY <2>4, <2>5, <2>6, <2>7, <2>8 DEF Local
<1>6. CASE CloseHolder(t)
  <2>1. /\ call'[t].pc = IF call[t].pc = "closeHolder" THEN "publish" ELSE "unreserve"
        /\ call'[t].holder = None /\ call[t].pc \in {"closeHolder", "dropHolder"}
        /\ call'[t].to = call[t].to /\ call'[t].stable = call[t].stable
        /\ call'[t].open = call[t].open
    BY <1>1, <1>6 DEF CloseHolder, Calls, At
  <2>2. /\ \A n \in Low : native'[n] = native[n] \/ n = call[t].holder
        /\ native'[call[t].to] = native[call[t].to]
    BY <1>1, <1>2, <1>6 DEF CloseHolder, Shape
  <2>3. Own(t)' \subseteq Own(t)
    BY <2>1 DEF Own
  <2>4. Foot(t)
    BY <1>0, <1>1, <1>2, <2>1, <2>2, <2>3, SameNumbers DEF Dup2PCs, Installing, At
  <2>5. Landed(t)
    BY <1>0, <1>1, <2>2, LandedSame
  <2>6. Fields(t)' /\ Pinned(t)'
    BY <1>0, <1>2, <2>1, <2>2, Ranges
    DEF Fields, Pinned, Dup2PCs, Installing, Holding, Fd
  <2>7. Vacant(t)'
    <3>1. call[t].pc = "closeHolder" => native[call[t].to] = Reservation
      BY <1>1 DEF Local, Vacant
    <3>2. call[t].pc = "closeHolder" => \A o \in Open : <<call'[t].to, o>> \notin alias'
      BY <1>0, <1>3, <2>1
    <3> QED
      BY <1>2, <2>1, <2>2, <3>1, <3>2, Ranges DEF Vacant, VacantPCs, Aliased
  <2>8. InUse(t)' /\ Installed(t)'
    BY <2>1 DEF InUse, Installed, At
  <2> QED
    BY <2>4, <2>5, <2>6, <2>7, <2>8 DEF Local
<1> QED
  BY <1>4, <1>5, <1>6 DEF MoveHolder

\* The alias is published, and the duplicate dropped.
LEMMA NumbersEnd ==
  ASSUME IInv, NInv, NEW t \in Thread, Publish(t) \/ DropStable(t)
  PROVE  Foot(t) /\ Landed(t) /\ Local(t)'
<1>0. call[t].pc \in {"publish", "installed", "failed"}
  BY DEF Publish, DropStable, At
<1>1. /\ Shape /\ Aliases /\ Local(t) /\ call \in [Thread -> Calls]
      /\ Aim(t) = {call[t].to} /\ call[t].to \notin Own(t) /\ ~At(t, "settle")
      /\ \A u \in Thread \ {t} : call'[u] = call[u]
  BY <1>0, InDup2, OthersStay DEF Installing, Continue, Install
<1>2. CASE Publish(t)
  <2>1. /\ call[t].pc = "publish" /\ call'[t].pc = "installed" /\ call'[t].to = call[t].to
        /\ call'[t].stable = call[t].stable /\ call'[t].holder = call[t].holder
        /\ call'[t].open = call[t].open /\ UNCHANGED <<high, native>>
        /\ alias' = alias \union {<<call[t].to, call[t].open>>}
    BY <1>1, <1>2 DEF Publish, Goto, Calls, At
  <2>2. /\ call[t].stable \in High /\ call[t].to \in Low /\ call[t].holder = None
        /\ high[call[t].stable] \in Open /\ call[t].open = high[call[t].stable]
        /\ call[t].open \in Open
    BY <1>1, <2>1 DEF Local, Fields, Pinned, Installing, Holding
  <2>3. /\ native[call[t].to] = Reservation
        /\ \A o \in Open : <<call[t].to, o>> \notin alias
    BY <1>1, <2>1 DEF Local, Vacant, VacantPCs, Aliased
  <2>4. Own(t)' = Own(t)
    BY <2>1 DEF Own
  <2>5. Foot(t)
    BY <1>1, <2>1, <2>4, SameNumbers DEF Dup2PCs, Installing, At
  <2>6. Landed(t)
    BY <1>1, <2>1, <2>2, <2>3 DEF Landed, Aliases
  <2>7. Fields(t)' /\ Pinned(t)'
    BY <2>1, <2>2, Ranges DEF Fields, Pinned, Dup2PCs, Installing, Holding, Fd
  <2>8. Vacant(t)' /\ InUse(t)'
    BY <2>1, <2>2, Ranges DEF Vacant, VacantPCs, InUse, At
  <2>9. Installed(t)'
    <3>1. \A o \in Open : <<call[t].to, o>> \in alias' <=> o = call[t].open
      BY <2>1, <2>2, <2>3
    <3>2. OpenAt(call[t].to)' = call[t].open
      BY <2>1, <2>2, <3>1, Ranges DEF OpenAt
    <3> QED
      BY <2>1, <2>2, <3>2 DEF Installed
  <2> QED
    BY <2>5, <2>6, <2>7, <2>8, <2>9 DEF Local
<1>3. CASE DropStable(t)
  <2> DEFINE c == [Idle EXCEPT !.pc = "settle", !.to = call[t].to]
  <2>1. c.pc = "settle" /\ c.to = call[t].to /\ c.stable = None /\ c.holder = None
    BY DEF Idle
  <2>2. call' = [call EXCEPT ![t] = c] /\ alias' = alias
    BY <1>3 DEF DropStable
  <2> HIDE DEF c
  <2>3. call'[t] = c
    BY <1>1, <2>2
  <2>4. Local(t)' /\ Own(t)' = {}
    BY <2>1, <2>3, Plain DEF Dup2PCs, Installing, Holding, VacantPCs
  <2>5. call[t].stable \in Own(t) /\ call[t].stable # call[t].to
    BY <1>0, <1>1, <1>3 DEF Local, Fields, Dup2PCs, Installing, DropStable, At, Own
  <2>6. /\ \A h \in High : high'[h] = high[h] \/ h = call[t].stable
        /\ \A n \in Low : native'[n] = native[n] \/ n = call[t].stable
    BY <1>1, <1>3 DEF DropStable, Shape
  <2>7. Foot(t)
    BY <1>1, <2>1, <2>2, <2>3, <2>4, <2>5, <2>6 DEF Foot, At
  <2>8. Landed(t)
    BY <1>1, <2>2, <2>5, <2>6, LandedSame
  <2> QED
    BY <2>4, <2>7, <2>8
<1> QED
  BY <1>2, <1>3

\* Every step is local to its call.
LEMMA EachStep ==
  ASSUME IInv, NInv, NEW t \in Thread, Start(t) \/ Continue(t)
  PROVE  Foot(t) /\ Landed(t) /\ Local(t)'
<1>1. CASE Start(t)
  BY <1>1, NumbersStart
<1>2. CASE \/ FinishOp(t) \/ Attach(t) \/ ReadAhead(t) \/ ReadAheadDone(t) \/ Settle(t)
           \/ Pair(t) \/ PinFails(t)
  BY <1>2, NumbersUse
<1>3. CASE \/ Close(t) \/ CloseTarget(t)
  BY <1>3, NumbersClose
<1>4. CASE \/ \E h \in High : PinFake(t, h)
           \/ \E n \in Low : PinNative(t, n)
  BY <1>4, NumbersPin
<1>5. CASE InstallHigh(t) \/ InstallNative(t)
  BY <1>5, NumbersInstall
<1>6. CASE Reserve(t) \/ Unreserve(t)
  <2>1. \A u \in Thread \ {t} : call'[u] = call[u]
    BY OthersStay DEF IInv
  <2> QED
    BY <1>6, <2>1, NumbersPlace
<1>7. CASE OpenHolder(t)
  BY <1>7, NumbersHolder
<1>8. CASE MoveHolder(t) \/ CloseHolder(t)
  BY <1>8, NumbersMove
<1>9. CASE Publish(t) \/ DropStable(t)
  BY <1>9, NumbersEnd
<1> QED
  BY <1>1, <1>2, <1>3, <1>4, <1>5, <1>6, <1>7, <1>8, <1>9
  DEF Continue, Pin, Install

\* Every step keeps the meaning of the numbers.
LEMMA NumbersStep ==
  ASSUME ~WindowRaces, IInv, NInv, [Next]_vars
  PROVE  NInv'
<1>1. ASSUME NEW t \in Thread, Start(t) \/ Continue(t) PROVE NInv'
  BY <1>1, EachStep, StepKeeps
<1>2. CASE UNCHANGED vars
  <2>1. UNCHANGED <<high, alias, native, call>>
    BY <1>2 DEF vars, fakeVars
  <2>2. ASSUME NEW t \in Thread PROVE Local(t)'
    <3>1. \A fd : OpenAt(fd)' = OpenAt(fd)
      BY <2>1 DEF OpenAt
    <3>2. Local(t)
      BY DEF NInv
    <3>3. Fields(t)' /\ Pinned(t)'
      BY <2>1, <3>2 DEF Local, Fields, Pinned
    <3>4. Vacant(t)'
      BY <2>1, <3>2 DEF Local, Vacant, Aliased
    <3>5. InUse(t)' /\ Installed(t)'
      BY <2>1, <3>1, <3>2 DEF Local, InUse, Installed, At
    <3> QED
      BY <3>3, <3>4, <3>5 DEF Local
  <2>3. Aliases' /\ Owned'
    BY <2>1 DEF NInv, Aliases, Aliased, Owned, Own, At
  <2> QED
    BY <2>2, <2>3 DEF NInv
<1> QED
  BY <1>1, <1>2 DEF Next

LEMMA NumbersInitial == Init => NInv
<1> SUFFICES ASSUME Init PROVE NInv
  OBVIOUS
<1>1. /\ Idle.pc = "idle" /\ Idle.stable = None /\ Idle.holder = None /\ Idle.to = None
  BY DEF Idle
<1>2. \A t \in Thread : call[t] = Idle
  BY DEF Init
<1>3. ASSUME NEW t \in Thread PROVE Local(t)
  <2>1. Fields(t)
    BY <1>1, <1>2 DEF Fields, Dup2PCs, Installing, Holding
  <2>2. Pinned(t) /\ Vacant(t)
    BY <1>1, <1>2, Ranges DEF Pinned, Vacant, VacantPCs, Fd
  <2>3. InUse(t) /\ Installed(t)
    BY <1>1, <1>2 DEF InUse, Installed, At
  <2> QED
    BY <2>1, <2>2, <2>3 DEF Local
<1>4. Aliases /\ Owned
  BY <1>1, <1>2 DEF Init, Aliases, Aliased, Owned, Own, At
<1> QED
  BY <1>3, <1>4 DEF NInv

LEMMA Numbers == ~WindowRaces => (Spec => []NInv)
<1> SUFFICES ASSUME ~WindowRaces PROVE Spec => []NInv
  OBVIOUS
<1>1. IInv /\ NInv /\ [Next]_vars => NInv'
  BY NumbersStep
<1> QED
  BY <1>1, NumbersInitial, Invariant, PTL DEF Spec

(* While nx_read or nx_write works on a number, it denotes the same          *)
(* description, and a dup2 leaves at its target what its source denoted when *)
(* both stripes were locked, whatever is closed and replaced meanwhile       *)
(* (nx_fd_route_pair_release, fakefd_dup2).                                  *)
THEOREM NumberSafety == ~WindowRaces => (Spec => []NumbersKept)
<1>1. NInv => NumbersKept
  BY DEF NInv, Local, InUse, Installed, NumbersKept, OpKeepsTarget, Dup2Installs
<1> QED
  BY <1>1, Numbers, PTL

(* Every published alias lies on a native reservation of its number, and a   *)
(* number has one alias (fakefd_dup2).                                       *)
THEOREM AliasSafety == ~WindowRaces => (Spec => []AliasReserved)
<1>1. NInv => AliasReserved
  <2> SUFFICES ASSUME NInv, NEW a \in alias
               PROVE  /\ native[a[1]] = Reservation
                      /\ \A b \in alias : a[1] = b[1] => a = b
    BY DEF AliasReserved
  <2>1. \A b \in alias : b[1] \in Low /\ b[2] \in Open /\ b = <<b[1], b[2]>>
    BY DEF NInv, Aliases
  <2>2. Aliased(a[1])
    BY <2>1 DEF Aliased
  <2> QED
    BY <2>1, <2>2 DEF NInv, Aliases
<1> QED
  BY <1>1, Numbers, PTL

-------------------------------------------------------------------------------
(***************************************************************************)
(* 3. What the tables say of each other, for any threads, numbers and      *)
(* descriptions: a window reads the file it was opened for, a reservation  *)
(* carries an alias, and the counts of the descriptions are exact.         *)
(***************************************************************************)

\* The target of these has no window.
Flushed == Dup2PCs \union {"closeNative"}

\* A window is over the file that it was opened for, and a refill holds g_ra_lock.
Attached ==
  /\ ra \in [Low -> File \union {None}]
  /\ \A n \in Low : ra[n] # None => native[n] = ra[n]
  /\ \A t \in Thread :
       /\ call[t].pc \in {"attach", "ticket", "raRead"} => call[t].fd \in Low
       /\ At(t, "raRead") => raLock = t /\ ra[call[t].fd] # None

\* Private numbers and those about to be replaced have none.
Detached ==
  \A t \in Thread, n \in Low :
    n \in Own(t) \/ (call[t].pc \in Flushed /\ call[t].to = n) => ra[n] = None

\* The number of an open that has not returned is nobody else's.
Opening ==
  \A t \in Thread : At(t, "attach") =>
    /\ call[t].open \in File /\ native[call[t].fd] = call[t].open
    /\ \A u \in Thread : /\ call[t].fd \notin Own(u)
                         /\ call[u].to = call[t].fd => At(u, "settle")

Windows == Attached /\ Detached /\ Opening

-----------------------------------------------------------------------------
(* Windows.                                                                 *)

\* What a step does to the windows and to the calls that rely on them.
WindowFoot(t) ==
  /\ ra' \in [Low -> File \union {None}]
  /\ \A n \in Low :
       \/ ra'[n] = ra[n]
       \/ raLock = None /\ ra'[n] = None
       \/ /\ raLock = None /\ At(t, "attach") /\ n = call[t].fd /\ ra'[n] = call[t].open
          /\ native' = native
  /\ \A n \in Low \intersect Aim(t) : native'[n] # native[n] => ra'[n] = None
  /\ \A n \in Low : call'[t].pc \in Flushed /\ call'[t].to = n =>
       ra'[n] = None \/ (call[t].pc \in Flushed /\ call[t].to = n)
  /\ call'[t].pc \in {"attach", "ticket", "raRead"} => call'[t].fd \in Low
  /\ At(t, "raRead")' => raLock' = t /\ ra'[call'[t].fd] # None
  /\ raLock' = raLock \/ raLock = None \/ At(t, "raRead")
  /\ At(t, "attach")' =>
       /\ call'[t].open \in File /\ native'[call'[t].fd] = call'[t].open
       /\ Vacancy(t, call'[t].fd) /\ call'[t].to = None /\ Own(t)' = {}
  /\ At(t, "attach") => Own(t)' = {} /\ call'[t].pc \notin Flushed

\* A window that another call attaches is not over these numbers.
LEMMA WindowsKept ==
  ASSUME ~WindowRaces, IInv, NInv, Windows, NEW t \in Thread,
         Foot(t), Local(t)', WindowFoot(t)
  PROVE  Windows'
<1>0. /\ Shape /\ Attached /\ Detached /\ Opening /\ None \notin File /\ t # None
      /\ \A u \in Thread : u # None
  BY DescriptorAssumption DEF IInv, Windows
<1>1. \A u \in Thread \ {t} : call'[u] = call[u]
  BY DEF Foot
<1>2. ASSUME NEW n \in Low, ra'[n] # None PROVE native'[n] = ra'[n]
  <2>1. CASE ra'[n] = ra[n]
    <3>1. native[n] = ra[n] /\ native[n] # None /\ n \notin Own(t) /\ ~Vacancy(t, n)
      BY <1>0, <1>2, <2>1 DEF Attached, Detached, Vacancy
    <3> QED
      BY <1>2, <2>1, <3>1 DEF Foot, WindowFoot
  <2>2. CASE /\ At(t, "attach") /\ n = call[t].fd /\ ra'[n] = call[t].open
             /\ native' = native
    BY <1>0, <2>2 DEF Opening
  <2> QED
    BY <1>2, <2>1, <2>2 DEF WindowFoot
<1>3. ASSUME NEW u \in Thread
      PROVE  /\ call'[u].pc \in {"attach", "ticket", "raRead"} => call'[u].fd \in Low
             /\ At(u, "raRead")' => raLock' = u /\ ra'[call'[u].fd] # None
  <2>1. CASE u = t
    BY <2>1 DEF WindowFoot
  <2>2. CASE u # t
    <3>1. At(u, "raRead") => raLock = u /\ ra[call[u].fd] # None /\ call[u].fd \in Low
      BY <1>0 DEF Attached, At
    <3>2. At(u, "raRead") => raLock' = raLock /\ ra'[call[u].fd] = ra[call[u].fd]
      BY <1>0, <2>2, <3>1 DEF WindowFoot, Attached
    <3> QED
      BY <1>0, <1>1, <2>2, <3>1, <3>2 DEF Attached, At
  <2> QED
    BY <2>1, <2>2
<1>4. Attached'
  BY <1>2, <1>3 DEF Attached, WindowFoot
<1>5. ASSUME NEW u \in Thread, NEW n \in Low,
             n \in Own(u)' \/ (call'[u].pc \in Flushed /\ call'[u].to = n)
      PROVE  ra'[n] = None
  <2>1. CASE u # t
    <3>1. Own(u)' = Own(u) /\ call'[u] = call[u]
      BY <1>1, <2>1 DEF Own
    <3>2. ra[n] = None
      BY <1>0, <1>5, <3>1 DEF Detached
    <3>3. ~(At(t, "attach") /\ n = call[t].fd)
      BY <1>0, <1>5, <3>1 DEF Opening, Flushed, Dup2PCs, Installing, At
    <3> QED
      BY <3>2, <3>3 DEF WindowFoot
  <2>2. CASE u = t
    <3>1. ~At(t, "attach")
      BY <1>5, <2>2 DEF WindowFoot
    <3>2. ra'[n] = ra[n] \/ ra'[n] = None
      BY <3>1 DEF WindowFoot
    <3>3. CASE n \in Own(t)'
      <4>1. n \in Own(t) \/ native[n] = None
        BY <3>3 DEF Foot, Vacancy
      <4>2. ra[n] = None
        BY <1>0, <4>1 DEF Detached, Attached
      <4> QED
        BY <3>2, <4>2
    <3>4. CASE call'[t].pc \in Flushed /\ call'[t].to = n
      BY <1>0, <3>2, <3>4 DEF WindowFoot, Detached
    <3> QED
      BY <1>5, <2>2, <3>3, <3>4
  <2> QED
    BY <2>1, <2>2
<1>6. ASSUME NEW u \in Thread, At(u, "attach")'
      PROVE  /\ call'[u].open \in File /\ native'[call'[u].fd] = call'[u].open
             /\ \A v \in Thread : /\ call'[u].fd \notin Own(v)'
                                  /\ call'[v].to = call'[u].fd => At(v, "settle")'
  <2>1. CASE u # t
    <3> DEFINE n == call[u].fd
    <3>1. At(u, "attach") /\ call'[u] = call[u] /\ n \in Low
      BY <1>0, <1>1, <1>6, <2>1 DEF At, Attached
    <3>2. /\ call[u].open \in File /\ native[n] = call[u].open /\ native[n] # None
          /\ \A v \in Thread : n \notin Own(v) /\ (call[v].to = n => At(v, "settle"))
      BY <1>0, <3>1 DEF Opening
    <3>3. n \notin Aim(t) /\ ~Vacancy(t, n)
      BY <3>1, <3>2 DEF Aim, Vacancy
    <3>4. native'[n] = native[n]
      BY <3>1, <3>2, <3>3 DEF Foot
    <3>5. n \notin UserFd
      <4>1. u \in {v \in Thread : At(v, "attach")}
        BY <3>1
      <4>2. n \in {call[v].fd : v \in {w \in Thread : At(w, "attach")}}
        BY <4>1
      <4>3. n \in Private
        BY <4>2 DEF Private
      <4> QED
        BY <4>3 DEF UserFd
    <3>6. n \notin Own(t)' /\ (call'[t].to = n => At(t, "settle")')
      BY <1>0, <3>1, <3>2, <3>3, <3>5, Ranges DEF Foot, At, Fd
    <3>7. \A v \in Thread \ {t} : Own(v)' = Own(v) /\ call'[v] = call[v]
      BY <1>1 DEF Own
    <3> QED
      BY <3>1, <3>2, <3>4, <3>6, <3>7 DEF At
  <2>2. CASE u = t
    <3> DEFINE n == call'[t].fd
    <3>1. /\ call'[t].open \in File /\ native'[n] = call'[t].open
          /\ Vacancy(t, n) /\ call'[t].to = None /\ Own(t)' = {} /\ n \in Low
      BY <1>6, <2>2 DEF WindowFoot, At
    <3>2. \A v \in Thread : n \notin Own(v)
      BY <1>0, <3>1, OwnIsOpen DEF Vacancy
    <3>3. \A v \in Thread \ {t} : call[v].to = n => At(v, "settle")
      BY <3>1 DEF Vacancy, Claimed
    <3>4. \A v \in Thread \ {t} : Own(v)' = Own(v) /\ call'[v] = call[v]
      BY <1>1 DEF Own
    <3> QED
      BY <2>2, <3>1, <3>2, <3>3, <3>4, Ranges DEF At, Fd
  <2> QED
    BY <2>1, <2>2
<1> QED
  BY <1>4, <1>5, <1>6 DEF Windows, Detached, Opening

Reads == {"attach", "ticket", "raRead"}

\* Steps that touch no window.
LEMMA WindowQuiet ==
  ASSUME Windows, NEW t \in Thread, UNCHANGED <<ra, raLock>>,
         native' = native \/ call[t].pc \in Flushed,
         call'[t].pc \in Flushed => call[t].pc \in Flushed /\ call'[t].to = call[t].to,
         call'[t].pc \notin Reads, call[t].pc # "attach"
  PROVE  WindowFoot(t)
<1>1. \A n \in Low \intersect Aim(t) : native'[n] # native[n] => ra'[n] = None
  BY DEF Windows, Detached, Aim
<1> QED
  BY <1>1 DEF WindowFoot, Windows, Attached, Reads, At

\* Calls that begin.
LEMMA WindowStart ==
  ASSUME IInv, NInv, Windows, NEW t \in Thread, Start(t)
  PROVE  WindowFoot(t)
<1>0. /\ At(t, "idle") /\ call \in [Thread -> Calls] /\ Shape
      /\ ra \in [Low -> File \union {None}]
  BY DEF Start, IInv, Shape, Windows, Attached
<1>1. call[t].pc = "idle" /\ Aim(t) = {} /\ call[t].pc \notin Flushed
  BY <1>0 DEF At, Aim, Replaces, Replacing, Flushed, Dup2PCs, Installing
<1>2. ASSUME NEW f \in File, OpenFile(t, f) PROVE WindowFoot(t)
  <2>1. PICK n \in Low :
          /\ call' = [call EXCEPT ![t] = [Idle EXCEPT !.pc = "attach", !.fd = n, !.open = f]]
          /\ Allocates(t, n) /\ native' = [native EXCEPT ![n] = f] /\ UNCHANGED <<ra, raLock>>
    BY <1>2 DEF OpenFile, Begin, raVars
  <2>2. /\ call'[t].pc = "attach" /\ call'[t].fd = n /\ call'[t].open = f
        /\ call'[t].to = None /\ call'[t].stable = None /\ call'[t].holder = None
    BY <1>0, <2>1 DEF Idle
  <2>3. native'[n] = f /\ Vacancy(t, n) /\ Own(t)' = {}
    BY <1>0, <2>1, <2>2, GivenOut DEF Shape, Own
  <2> QED
    BY <1>0, <1>1, <2>1, <2>2, <2>3 DEF WindowFoot, At, Flushed, Dup2PCs, Installing
<1>3. ASSUME NEW fd \in UserFd \intersect Low, TakeTicket(t, fd) PROVE WindowFoot(t)
  <2>1. call' = [call EXCEPT ![t] = [Idle EXCEPT !.pc = "ticket", !.fd = fd]]
        /\ UNCHANGED <<native, ra, raLock>>
    BY <1>3 DEF TakeTicket, Begin, raVars
  <2>2. call'[t].pc = "ticket" /\ call'[t].fd = fd
    BY <1>0, <2>1 DEF Idle
  <2> QED
    BY <1>0, <1>1, <2>1, <2>2 DEF WindowFoot, At, Flushed, Dup2PCs, Installing
<1>4. ASSUME NEW fd \in UserFd \intersect Low, DupNative(t, fd) PROVE WindowFoot(t)
  <2>1. /\ raLock = None /\ ra' = [ra EXCEPT ![fd] = None] /\ UNCHANGED <<raLock, call>>
    BY <1>4 DEF DupNative
  <2> QED
    BY <1>0, <1>1, <2>1 DEF WindowFoot, At
<1>5. CASE \/ \E o \in Open : Create(t, o)
           \/ \E fd \in UserFd : DupFake(t, fd)
  BY <1>1, <1>5, WindowQuiet DEF Create, DupFake, raVars, Reads
<1>6. ASSUME NEW fd \in UserFd, NEW write \in BOOLEAN, BeginOp(t, fd, write)
      PROVE WindowFoot(t)
  <2>1. call'[t].pc = "op" /\ UNCHANGED <<native, ra, raLock>>
    BY <1>0, <1>6 DEF BeginOp, Begin, Idle, raVars
  <2> QED
    BY <1>1, <2>1, WindowQuiet DEF Reads, Flushed, Dup2PCs, Installing
<1>7. ASSUME NEW fd \in UserFd, CloseBegin(t, fd) PROVE WindowFoot(t)
  <2>1. call'[t].pc = "close" /\ UNCHANGED <<native, ra, raLock>>
    BY <1>0, <1>7 DEF CloseBegin, Begin, Idle, raVars
  <2> QED
    BY <1>1, <2>1, WindowQuiet DEF Reads, Flushed, Dup2PCs, Installing
<1>8. ASSUME NEW fd \in UserFd, NEW to \in UserFd, Dup2Begin(t, fd, to) PROVE WindowFoot(t)
  <2>1. call'[t].pc = "pairFirst" /\ UNCHANGED <<native, ra, raLock>>
    BY <1>0, <1>8 DEF Dup2Begin, Begin, Idle, raVars
  <2> QED
    BY <1>1, <2>1, WindowQuiet DEF Reads, Flushed, Dup2PCs, Installing
<1> QED
  BY <1>2, <1>3, <1>4, <1>5, <1>6, <1>7, <1>8 DEF Start

\* The backend of a number goes with its window.
LEMMA WindowBackend ==
  ASSUME Windows, Shape, NEW t \in Thread, NEW aliasPC \in PC, NEW donePC \in PC,
         CloseBackend(t, aliasPC, donePC), Replaces(t), call[t].pc # "attach",
         {aliasPC, donePC} \intersect Reads = {}
  PROVE  WindowFoot(t)
<1>1. /\ raLock = None /\ raLock' = raLock
      /\ call' = [call EXCEPT ![t].pc = aliasPC] \/ call' = [call EXCEPT ![t].pc = donePC]
  BY DEF CloseBackend, Goto
<1>2. /\ ra' \in [Low -> File \union {None}]
      /\ \A n \in Low : ra'[n] = ra[n] \/ ra'[n] = None
      /\ call[t].to \in Low => ra'[call[t].to] = None
  BY DEF CloseBackend, Windows, Attached, IsFake
<1>3. call'[t].to = call[t].to /\ call'[t].pc \in {aliasPC, donePC}
  BY <1>1 DEF Shape, Calls
<1> QED
  BY <1>1, <1>2, <1>3 DEF WindowFoot, Aim, Reads, At

\* What a dup2 flushes.
LEMMA WindowFlush ==
  ASSUME Windows, Shape, NEW t \in Thread, FlushWindows(t), raLock = None, raLock' = raLock,
         call'[t].to \in {call[t].to, None}, call'[t].pc \notin Reads, At(t, "pin")
  PROVE  WindowFoot(t)
<1>1. /\ ra' \in [Low -> File \union {None}]
      /\ \A n \in Low : ra'[n] = ra[n] \/ ra'[n] = None
      /\ call[t].to \in Low => ra'[call[t].to] = None
  BY DEF FlushWindows, Windows, Attached
<1> QED
  BY <1>1, Ranges DEF WindowFoot, Aim, Reads, At, Fd

\* Calls that go on.
LEMMA WindowContinue ==
  ASSUME IInv, NInv, Windows, NEW t \in Thread, Continue(t)
  PROVE  WindowFoot(t)
<1>0. /\ call \in [Thread -> Calls] /\ Shape /\ Attached
      /\ ra \in [Low -> File \union {None}]
  BY DEF IInv, Shape, Windows, Attached
<1>1. CASE Attach(t)
  <2>1. /\ At(t, "attach") /\ call' = [call EXCEPT ![t] = Idle] /\ raLock = None
        /\ ra' \in {ra, [ra EXCEPT ![call[t].fd] = call[t].open]}
        /\ UNCHANGED <<native, raLock>> /\ call[t].open \in File
    BY <1>1 DEF Attach, Done, Windows, Opening
  <2>2. /\ call'[t].pc = "idle" /\ Own(t)' = {}
    BY <1>0, <2>1 DEF Idle, Own
  <2> QED
    BY <1>0, <2>1, <2>2 DEF WindowFoot, At, Flushed, Dup2PCs, Installing
<1>2. CASE ReadAhead(t)
  <2>1. /\ call[t].pc = "ticket" /\ raLock = None /\ UNCHANGED <<native, ra>>
        /\ \/ /\ ra[call[t].fd] # None /\ raLock' = t
              /\ call' = [call EXCEPT ![t].pc = "raRead"]
           \/ raLock' = raLock /\ call' = [call EXCEPT ![t] = Idle]
    BY <1>2 DEF ReadAhead, Goto, Done, At
  <2>2. \/ /\ ra[call[t].fd] # None /\ raLock' = t
           /\ call'[t].pc = "raRead" /\ call'[t].fd = call[t].fd
        \/ raLock' = raLock /\ call'[t].pc = "idle"
    BY <1>0, <2>1 DEF Idle, Calls
  <2> QED
    BY <1>0, <2>1, <2>2 DEF WindowFoot, At, Flushed, Dup2PCs, Installing, Attached
<1>3. CASE ReadAheadDone(t)
  <2>1. /\ call[t].pc = "raRead" /\ UNCHANGED <<native, ra>> /\ call'[t].pc = "idle"
    BY <1>0, <1>3 DEF ReadAheadDone, Done, Idle, At
  <2> QED
    BY <1>0, <2>1 DEF WindowFoot, At, Flushed, Dup2PCs, Installing
<1>4. CASE FinishOp(t) \/ Settle(t) \/ Pair(t)
  <2>1. /\ UNCHANGED <<native, ra, raLock>> /\ call[t].pc # "attach"
        /\ call'[t].pc \in {"idle", "pin"} \union Pairing
    <3>1. CASE FinishOp(t)
      BY <1>0, <3>1 DEF FinishOp, Done, Idle, raVars, At
    <3>2. CASE Settle(t)
      BY <1>0, <3>2 DEF Settle, Done, Idle, raVars, At
    <3>3. CASE Pair(t)
      <4>1. /\ UNCHANGED <<native, ra, raLock>> /\ call[t].pc # "attach"
            /\ \E pc \in {"pin"} \union Pairing : call' = [call EXCEPT ![t].pc = pc]
        BY <3>3 DEF Pair, PairFirst, PairSecond, PairRetry, PairWait, PairReplace, Goto, raVars,
                   At, Pairing
      <4> QED
        BY <1>0, <4>1 DEF Calls
    <3> QED
      BY <1>4, <3>1, <3>2, <3>3
  <2> QED
    BY <2>1, WindowQuiet DEF Reads, Flushed, Dup2PCs, Installing, Pairing
<1>5. CASE Pin(t)
  <2>1. CASE \E h \in High : PinFake(t, h)
    <3>1. /\ FlushWindows(t) /\ raLock = None /\ raLock' = raLock /\ At(t, "pin")
          /\ call'[t].to = call[t].to /\ call'[t].pc \in {"settle", "install"}
      BY <1>0, <2>1 DEF PinFake
    <3> QED
      BY <1>0, <3>1, WindowFlush DEF Reads
  <2>2. CASE \E n \in Low : PinNative(t, n)
    <3>1. /\ FlushWindows(t) /\ raLock = None /\ raLock' = raLock /\ At(t, "pin")
          /\ call'[t].to = call[t].to /\ call'[t].pc \in {"settle", "install"}
      BY <1>0, <2>2 DEF PinNative
    <3> QED
      BY <1>0, <3>1, WindowFlush DEF Reads
  <2>3. CASE PinFails(t)
    <3>1. /\ At(t, "pin") /\ raLock = None /\ raLock' = raLock
          /\ ra' = ra \/ FlushWindows(t)
          /\ native' = native /\ call'[t].pc = "idle" /\ call'[t].to = None
      BY <1>0, <2>3 DEF PinFails, Done, Idle
    <3>2. CASE ra' = ra
      BY <3>1, <3>2, WindowQuiet DEF Reads, Flushed, Dup2PCs, Installing, At
    <3> QED
      BY <1>0, <3>1, <3>2, WindowFlush DEF Reads
  <2> QED
    BY <1>5, <2>1, <2>2, <2>3 DEF Pin
<1>6. CASE \/ At(t, "close") /\ CloseBackend(t, "closeNative", "settle")
           \/ At(t, "closeTarget") /\ CloseBackend(t, "closeTargetNative", "vacated")
  BY <1>0, <1>6, WindowBackend
  DEF At, Reads, PC, Replaces, Replacing, Pairing
<1>7. CASE \/ At(t, "closeNative") /\ CloseNative(t, "settle")
           \/ At(t, "closeTargetNative") /\ CloseNative(t, "vacated")
           \/ At(t, "closeTarget") /\ Bad(call[t].to)
                /\ Goto(t, "moveHolder") /\ UNCHANGED <<native, raVars>>
           \/ InstallHigh(t) \/ InstallNative(t) \/ Reserve(t) \/ OpenHolder(t)
           \/ MoveHolder(t) \/ CloseHolder(t) \/ Unreserve(t) \/ Publish(t)
  <2>1. /\ call[t].pc \in Flushed /\ call[t].pc # "attach" /\ UNCHANGED <<ra, raLock>>
    BY <1>7
    DEF CloseNative, InstallHigh, InstallNative, Reserve, OpenHolder, MoveHolder, CloseHolder,
        Unreserve, Publish, At, raVars, Flushed, Dup2PCs, Installing
  <2>2. call'[t].to = call[t].to /\ call'[t].pc \notin Reads
    <3>1. CASE \/ InstallHigh(t) \/ InstallNative(t) \/ Publish(t) \/ MoveHolder(t)
               \/ CloseNative(t, "settle") \/ CloseNative(t, "vacated") \/ Goto(t, "moveHolder")
      <4>1. \E pc \in {"settle", "vacated", "moveHolder", "installed", "closeHolder",
                       "dropHolder"} : call' = [call EXCEPT ![t].pc = pc]
        BY <3>1 DEF InstallHigh, InstallNative, Publish, MoveHolder, CloseNative, Goto
      <4> QED
        BY <1>0, <4>1 DEF Calls, Reads
    <3>2. CASE Reserve(t) \/ Unreserve(t)
      BY <1>0, <3>2 DEF Reserve, Unreserve, Goto, Calls, Reads
    <3>3. CASE OpenHolder(t)
      <4>1. CASE Goto(t, "unreserve")
        BY <1>0, <4>1 DEF Goto, Calls, Reads
      <4>2. CASE \E n \in Low : call' = [call EXCEPT
               ![t].pc = IF n = call[t].to THEN "publish" ELSE "closeTarget",
               ![t].holder = IF n = call[t].to THEN None ELSE n]
        BY <1>0, <4>2 DEF Calls, Reads
      <4> QED
        BY <3>3, <4>1, <4>2 DEF OpenHolder
    <3>4. CASE CloseHolder(t)
      BY <1>0, <3>4 DEF CloseHolder, Calls, Reads
    <3> QED
      BY <1>7, <3>1, <3>2, <3>3, <3>4
  <2> QED
    BY <2>1, <2>2, WindowQuiet
<1>8. CASE DropStable(t)
  <2>1. /\ call[t].pc \in Flushed /\ call[t].pc # "attach" /\ UNCHANGED <<ra, raLock>>
        /\ call'[t].pc = "settle"
    BY <1>0, <1>8 DEF DropStable, Idle, raVars, Flushed, Dup2PCs
  <2> QED
    BY <2>1, WindowQuiet DEF Reads, Flushed, Dup2PCs, Installing
<1> QED
  BY <1>1, <1>2, <1>3, <1>4, <1>5, <1>6, <1>7, <1>8
  DEF Continue, Close, Install, CloseTarget, fakeVars, routeVars

LEMMA WindowsInitial == Init => Windows
<1> SUFFICES ASSUME Init PROVE Windows
  OBVIOUS
<1>1. \A t \in Thread : /\ call[t].pc = "idle" /\ call[t].stable = None /\ call[t].holder = None
  BY DEF Init, Idle
<1>2. Attached /\ Opening
  BY <1>1 DEF Init, Attached, Opening, At
<1>3. Detached
  BY <1>1 DEF Init, Detached, Own
<1> QED
  BY <1>2, <1>3 DEF Windows

LEMMA WindowsStep ==
  ASSUME ~WindowRaces, IInv, NInv, Windows, [Next]_vars
  PROVE  Windows'
<1>1. ASSUME NEW t \in Thread, Start(t) \/ Continue(t) PROVE Windows'
  <2>1. Foot(t) /\ Local(t)'
    BY <1>1, EachStep
  <2>2. WindowFoot(t)
    BY <1>1, WindowStart, WindowContinue
  <2> QED
    BY <2>1, <2>2, WindowsKept
<1>2. CASE UNCHANGED vars
  <2>1. UNCHANGED <<native, ra, raLock, call>>
    BY <1>2 DEF vars, raVars
  <2>2. \A t \in Thread : Own(t)' = Own(t)
    BY <2>1 DEF Own
  <2> QED
    BY <2>1, <2>2 DEF Windows, Attached, Detached, Opening, At
<1> QED
  BY <1>1, <1>2 DEF Next

LEMMA WindowsInvariant == ~WindowRaces => (Spec => []Windows)
<1> SUFFICES ASSUME ~WindowRaces PROVE Spec => []Windows
  OBVIOUS
<1>1. IInv /\ NInv /\ Windows /\ [Next]_vars => Windows'
  BY WindowsStep
<1> QED
  BY <1>1, WindowsInitial, Invariant, Numbers, PTL DEF Spec

(* A read through a read-ahead window refills from the file that the window  *)
(* was opened for: a close or dup2 takes the window away before it changes   *)
(* the number, and both need g_ra_lock (ra_read_if_attached, ra_detach).     *)
THEOREM WindowSafety == ~WindowRaces => (Spec => []WindowReadsItsFile)
<1>1. Windows => WindowReadsItsFile
  BY DEF Windows, Attached, WindowReadsItsFile, At
<1> QED
  BY <1>1, WindowsInvariant, PTL

-----------------------------------------------------------------------------
(* References.                                                              *)

Num(P) == IF P THEN 1 ELSE 0

\* Who refers to a description.
InHigh(o)     == {h \in High : high[h] = o}
InAlias(o)    == {n \in Low : <<n, o>> \in alias}
Operates(t, o) == At(t, "op") /\ call[t].open = o
Installs(t, o) == call[t].pc \in Installing /\ call[t].open = o
InOps(o)      == {t \in Thread : Operates(t, o)}
InInstalls(o) == {t \in Thread : Installs(t, o)}

Holders(o) == Cardinality(InHigh(o)) + Cardinality(InAlias(o)) + Cardinality(InOps(o))
                + Cardinality(InInstalls(o))

Refs == refs \in [Open -> Nat] /\ \A o \in Open : refs[o] = Holders(o)

\* A set that changes in one element.
LEMMA OneChange ==
  ASSUME NEW A, NEW B, IsFiniteSet(A), NEW x, \A y : y # x => (y \in A <=> y \in B)
  PROVE  /\ IsFiniteSet(B) /\ Cardinality(A) \in Nat /\ Cardinality(B) \in Nat
         /\ Cardinality(B) = Cardinality(A) + Num(x \in B) - Num(x \in A)
<1>1. CASE x \in A <=> x \in B
  <2>1. A = B
    BY <1>1
  <2> QED
    BY <2>1, <1>1, FS_CardinalityType DEF Num
<1>2. CASE x \notin A /\ x \in B
  <2>1. B = A \union {x}
    BY <1>2
  <2> QED
    <3>1. IsFiniteSet(B) /\ Cardinality(B) = Cardinality(A) + 1
      BY <2>1, <1>2, FS_AddElement
    <3>2. Cardinality(A) \in Nat /\ Cardinality(B) \in Nat
      BY <3>1, FS_CardinalityType
    <3> QED
      BY <1>2, <3>1, <3>2 DEF Num
<1>3. CASE x \in A /\ x \notin B
  <2>1. B = A \ {x}
    BY <1>3
  <2> QED
    <3>1. IsFiniteSet(B) /\ Cardinality(B) = Cardinality(A) - 1
      BY <2>1, <1>3, FS_RemoveElement
    <3>2. Cardinality(A) \in Nat /\ Cardinality(B) \in Nat
      BY <3>1, FS_CardinalityType
    <3> QED
      BY <1>3, <3>1, <3>2 DEF Num
<1> QED
  BY <1>1, <1>2, <1>3

LEMMA FiniteHolders ==
  \A o \in Open : /\ IsFiniteSet(InHigh(o)) /\ IsFiniteSet(InAlias(o))
                  /\ IsFiniteSet(InOps(o)) /\ IsFiniteSet(InInstalls(o))
BY DescriptorAssumption, FS_Subset DEF InHigh, InAlias, InOps, InInstalls

\* A step changes one high number, one alias and one call at most.
Change(t, h, n, o) ==
  Num(h \in High /\ high'[h] = o) - Num(h \in High /\ high[h] = o)
  + Num(n \in Low /\ <<n, o>> \in alias') - Num(n \in Low /\ <<n, o>> \in alias)
  + Num(Operates(t, o)') - Num(Operates(t, o))
  + Num(Installs(t, o)') - Num(Installs(t, o))

LEMMA RefsMove ==
  ASSUME Refs, NEW t \in Thread, NEW h, NEW n,
         \A x \in High : x # h => high'[x] = high[x],
         \A x \in Low, o \in Open : x # n => (<<x, o>> \in alias' <=> <<x, o>> \in alias),
         \A u \in Thread \ {t} : call'[u] = call[u],
         refs' \in [Open -> Int], \A o \in Open : refs'[o] = refs[o] + Change(t, h, n, o)
  PROVE  Refs'
<1>1. ASSUME NEW o \in Open PROVE refs'[o] = Holders(o)' /\ refs'[o] \in Nat
  <2>1. /\ \A x : x # h => (x \in InHigh(o) <=> x \in InHigh(o)')
        /\ \A x : x # n => (x \in InAlias(o) <=> x \in InAlias(o)')
        /\ \A x : x # t => (x \in InOps(o) <=> x \in InOps(o)')
        /\ \A x : x # t => (x \in InInstalls(o) <=> x \in InInstalls(o)')
    BY DEF InHigh, InAlias, InOps, InInstalls, Operates, Installs, At
  <2>2. /\ Cardinality(InHigh(o)) \in Nat /\ Cardinality(InHigh(o)') \in Nat
        /\ Cardinality(InHigh(o)') = Cardinality(InHigh(o))
             + Num(h \in InHigh(o)') - Num(h \in InHigh(o))
    BY <2>1, FiniteHolders, OneChange
  <2>3. /\ Cardinality(InAlias(o)) \in Nat /\ Cardinality(InAlias(o)') \in Nat
        /\ Cardinality(InAlias(o)') = Cardinality(InAlias(o))
             + Num(n \in InAlias(o)') - Num(n \in InAlias(o))
    BY <2>1, FiniteHolders, OneChange
  <2>4. /\ Cardinality(InOps(o)) \in Nat /\ Cardinality(InOps(o)') \in Nat
        /\ Cardinality(InOps(o)') = Cardinality(InOps(o))
             + Num(t \in InOps(o)') - Num(t \in InOps(o))
    BY <2>1, FiniteHolders, OneChange
  <2>5. /\ Cardinality(InInstalls(o)) \in Nat /\ Cardinality(InInstalls(o)') \in Nat
        /\ Cardinality(InInstalls(o)') = Cardinality(InInstalls(o))
             + Num(t \in InInstalls(o)') - Num(t \in InInstalls(o))
    BY <2>1, FiniteHolders, OneChange
  <2>6. /\ Num(h \in InHigh(o)') = Num(h \in High /\ high'[h] = o)
        /\ Num(h \in InHigh(o)) = Num(h \in High /\ high[h] = o)
        /\ Num(n \in InAlias(o)') = Num(n \in Low /\ <<n, o>> \in alias')
        /\ Num(n \in InAlias(o)) = Num(n \in Low /\ <<n, o>> \in alias)
        /\ Num(t \in InOps(o)') = Num(Operates(t, o)') /\ Num(t \in InOps(o)) = Num(Operates(t, o))
        /\ Num(t \in InInstalls(o)') = Num(Installs(t, o)')
        /\ Num(t \in InInstalls(o)) = Num(Installs(t, o))
    BY DEF Num, InHigh, InAlias, InOps, InInstalls
  <2>7. refs[o] = Holders(o) /\ \A P \in BOOLEAN : Num(P) \in {0, 1}
    BY DEF Refs, Num
  <2>8. /\ Num(h \in InHigh(o)') \in Int /\ Num(h \in InHigh(o)) \in Int
        /\ Num(n \in InAlias(o)') \in Int /\ Num(n \in InAlias(o)) \in Int
        /\ Num(t \in InOps(o)') \in Int /\ Num(t \in InOps(o)) \in Int
        /\ Num(t \in InInstalls(o)') \in Int /\ Num(t \in InInstalls(o)) \in Int
    BY DEF Num
  <2>9. refs'[o] = refs[o]
           + (Num(h \in InHigh(o)') - Num(h \in InHigh(o))
              + Num(n \in InAlias(o)') - Num(n \in InAlias(o))
              + Num(t \in InOps(o)') - Num(t \in InOps(o))
              + Num(t \in InInstalls(o)') - Num(t \in InInstalls(o)))
    BY <2>6, Zenon DEF Change
  <2>10. /\ Holders(o) = Cardinality(InHigh(o)) + Cardinality(InAlias(o))
                            + Cardinality(InOps(o)) + Cardinality(InInstalls(o))
         /\ Holders(o)' = Cardinality(InHigh(o)') + Cardinality(InAlias(o)')
                             + Cardinality(InOps(o)') + Cardinality(InInstalls(o)')
    BY DEF Holders
  <2>11. Holders(o)' \in Nat
    BY <2>2, <2>3, <2>4, <2>5, <2>10
  <2> HIDE DEF Num, InHigh, InAlias, InOps, InInstalls, Holders
  <2>12. refs'[o] = Holders(o)'
    BY <2>2, <2>3, <2>4, <2>5, <2>7, <2>8, <2>9, <2>10
  <2> QED
    BY <2>11, <2>12
<1> QED
  BY <1>1 DEF Refs

\* Steps that touch no reference.
LEMMA RefsQuiet ==
  ASSUME Refs, NEW t \in Thread, UNCHANGED <<high, alias, refs>>,
         \A u \in Thread \ {t} : call'[u] = call[u],
         call'[t] = call[t] \/ (call[t].pc # "op" /\ call'[t].pc # "op"),
         call'[t].pc \in Installing <=> call[t].pc \in Installing,
         call[t].pc \in Installing => call'[t].open = call[t].open
  PROVE  Refs'
<1>1. \A o \in Open : /\ Operates(t, o)' <=> Operates(t, o)
                      /\ Installs(t, o)' <=> Installs(t, o)
  BY DEF Operates, Installs, At
<1>2. \A o \in Open : Change(t, None, None, o) = 0
  BY <1>1, Ranges DEF Change, Num, Fd
<1>3. refs' \in [Open -> Int] /\ \A o \in Open : refs'[o] = refs[o] + Change(t, None, None, o)
  BY <1>2 DEF Refs
<1> QED
  BY <1>3, RefsMove

\* Calls that begin.
LEMMA RefsStart ==
  ASSUME IInv, NInv, Refs, NEW t \in Thread, Start(t)
  PROVE  Refs'
<1>0. /\ At(t, "idle") /\ call \in [Thread -> Calls] /\ Shape
      /\ call[t].pc = "idle" /\ call[t].pc \notin Installing
      /\ \A u \in Thread \ {t} : call'[u] = call[u]
  BY OthersStay DEF Start, IInv, Shape, At, Installing
<1>1. ASSUME NEW o0 \in Open, Create(t, o0) PROVE Refs'
  <2>1. PICK h \in High : LowestHigh(t, h) /\ high' = [high EXCEPT ![h] = o0]
    BY <1>1 DEF Create
  <2>2. high[h] = None /\ UNCHANGED <<alias, call>> /\ refs[o0] = 0
        /\ refs' = [refs EXCEPT ![o0] = 1]
    BY <1>1, <2>1 DEF Create, LowestHigh, FreeHigh
  <2>3. \A o \in Open : Change(t, h, None, o) = Num(o = o0)
    BY <1>0, <2>1, <2>2, Ranges DEF Change, Num, Operates, Installs, At, Shape, Fd
  <2>4. refs' \in [Open -> Int] /\ \A o \in Open : refs'[o] = refs[o] + Num(o = o0)
    BY <2>2 DEF Refs, Num
  <2>5. \A x \in High : x # h => high'[x] = high[x]
    BY <1>0, <2>1 DEF Shape
  <2> QED
    BY <1>0, <2>2, <2>3, <2>4, <2>5, RefsMove
<1>2. ASSUME NEW fd \in UserFd, DupFake(t, fd) PROVE Refs'
  <2> DEFINE o0 == OpenAt(fd)
  <2>1. PICK h \in FreeHigh(t) : high' = [high EXCEPT ![h] = o0]
    BY <1>2 DEF DupFake
  <2>2. /\ o0 \in Open /\ h \in High /\ high[h] = None /\ UNCHANGED <<alias, call>>
        /\ refs' = [refs EXCEPT ![o0] = @ + 1]
    BY <1>0, <1>2, <2>1, OpenTyped DEF DupFake, FreeHigh, Retain, UserFd
  <2> HIDE DEF o0
  <2>3. \A o \in Open : Change(t, h, None, o) = Num(o = o0)
    BY <1>0, <2>1, <2>2, Ranges DEF Change, Num, Operates, Installs, At, Shape, Fd
  <2>4. refs' \in [Open -> Int] /\ \A o \in Open : refs'[o] = refs[o] + Num(o = o0)
    BY <2>2 DEF Refs, Num
  <2>5. \A x \in High : x # h => high'[x] = high[x]
    BY <1>0, <2>1, <2>2 DEF Shape
  <2> QED
    BY <1>0, <2>2, <2>3, <2>4, <2>5, RefsMove
<1>3. ASSUME NEW fd \in UserFd, NEW write \in BOOLEAN, BeginOp(t, fd, write) PROVE Refs'
  <2> DEFINE o0 == OpenAt(fd)
  <2>1. /\ call' = [call EXCEPT ![t] = [Idle EXCEPT !.pc = "op", !.fd = fd, !.write = write,
                                               !.open = o0]]
        /\ o0 # None /\ UNCHANGED <<high, alias>> /\ refs' = [refs EXCEPT ![o0] = @ + 1]
    BY <1>3 DEF BeginOp, Begin, Retain
  <2>2. o0 \in Open /\ call'[t].pc = "op" /\ call'[t].open = o0
    BY <1>0, <2>1, OpenTyped DEF UserFd, Idle
  <2> HIDE DEF o0
  <2>3. \A o \in Open : Change(t, None, None, o) = Num(o = o0)
    BY <1>0, <2>1, <2>2, Ranges DEF Change, Num, Operates, Installs, At, Installing, Fd
  <2>4. refs' \in [Open -> Int] /\ \A o \in Open : refs'[o] = refs[o] + Num(o = o0)
    BY <2>1, <2>2 DEF Refs, Num
  <2> QED
    BY <1>0, <2>1, <2>3, <2>4, RefsMove
<1>4. CASE \/ \E f \in File : OpenFile(t, f)
           \/ \E fd \in UserFd : CloseBegin(t, fd) \/ \E to \in UserFd : Dup2Begin(t, fd, to)
           \/ \E fd \in UserFd \intersect Low : DupNative(t, fd) \/ TakeTicket(t, fd)
  <2>1. UNCHANGED <<high, alias, refs>>
    BY <1>4 DEF OpenFile, CloseBegin, Dup2Begin, DupNative, TakeTicket, fakeVars
  <2>2. call' = call \/ call'[t].pc \in {"attach", "close", "pairFirst", "ticket"}
    <3>1. CASE \E f \in File : OpenFile(t, f)
      BY <1>0, <3>1 DEF OpenFile, Begin, Idle
    <3>2. CASE \E fd \in UserFd : CloseBegin(t, fd) \/ \E to \in UserFd : Dup2Begin(t, fd, to)
      BY <1>0, <3>2 DEF CloseBegin, Dup2Begin, Begin, Idle
    <3>3. CASE \E fd \in UserFd \intersect Low : DupNative(t, fd) \/ TakeTicket(t, fd)
      BY <1>0, <3>3 DEF DupNative, TakeTicket, Begin, Idle
    <3> QED
      BY <1>4, <3>1, <3>2, <3>3
  <2> QED
    BY <1>0, <2>1, <2>2, RefsQuiet DEF Installing
<1> QED
  BY <1>1, <1>2, <1>3, <1>4 DEF Start

\* A step that gives a description one reference less.
LEMMA RefsLess ==
  ASSUME Refs, NEW t \in Thread, NEW h, NEW n, NEW o0 \in Open,
         \A x \in High : x # h => high'[x] = high[x],
         \A x \in Low, o \in Open : x # n => (<<x, o>> \in alias' <=> <<x, o>> \in alias),
         \A u \in Thread \ {t} : call'[u] = call[u],
         Release(o0), \A o \in Open : Change(t, h, n, o) = 0 - Num(o = o0)
  PROVE  Refs'
<1>1. refs' \in [Open -> Int] /\ \A o \in Open : refs'[o] = refs[o] + (0 - Num(o = o0))
  BY DEF Refs, Num, Release
<1> QED
  BY <1>1, RefsMove

\* A step that gives it one more.
LEMMA RefsMore ==
  ASSUME Refs, NEW t \in Thread, NEW h, NEW n, NEW o0 \in Open,
         \A x \in High : x # h => high'[x] = high[x],
         \A x \in Low, o \in Open : x # n => (<<x, o>> \in alias' <=> <<x, o>> \in alias),
         \A u \in Thread \ {t} : call'[u] = call[u],
         Retain(o0), \A o \in Open : Change(t, h, n, o) = Num(o = o0)
  PROVE  Refs'
<1>1. refs' \in [Open -> Int] /\ \A o \in Open : refs'[o] = refs[o] + Num(o = o0)
  BY DEF Refs, Num, Retain
<1> QED
  BY <1>1, RefsMove

\* A number that is closed gives back its reference.
LEMMA RefsBackend ==
  ASSUME IInv, NInv, Refs, NEW t \in Thread, NEW aliasPC, NEW donePC,
         \A u \in Thread \ {t} : call'[u] = call[u],
         \/ At(t, "close") /\ {aliasPC, donePC} \intersect (Installing \union {"op"}) = {}
         \/ At(t, "closeTarget") /\ {aliasPC, donePC} \subseteq Installing,
         CloseBackend(t, aliasPC, donePC)
  PROVE  Refs'
<1> DEFINE fd == call[t].to
           o0 == OpenAt(fd)
<1>0. /\ fd \in Fd /\ call \in [Thread -> Calls] /\ Shape /\ Aliases
      /\ call[t].pc # "op"
      /\ call[t].pc \in Installing <=> At(t, "closeTarget")
  BY DEF IInv, NInv, Shape, PC, Replacing, Pairing, At, Installing
<1>1. \E pc \in {aliasPC, donePC} : call' = [call EXCEPT ![t].pc = pc]
  BY DEF CloseBackend, Goto
<1>2. /\ call'[t].open = call[t].open /\ call'[t].pc # "op"
      /\ call'[t].pc \in Installing <=> call[t].pc \in Installing
  <2>1. call'[t].open = call[t].open /\ call'[t].pc \in {aliasPC, donePC}
    BY <1>0, <1>1 DEF Calls
  <2>2. CASE At(t, "close") /\ {aliasPC, donePC} \intersect (Installing \union {"op"}) = {}
    BY <1>0, <2>1, <2>2 DEF At
  <2>3. CASE At(t, "closeTarget") /\ {aliasPC, donePC} \subseteq Installing
    <3>1. "op" \notin Installing
      BY DEF Installing
    <3> QED
      BY <1>0, <2>1, <2>3, <3>1
  <2> QED
    BY <2>2, <2>3
<1>3. CASE UNCHANGED fakeVars
  BY <1>0, <1>2, <1>3, RefsQuiet DEF fakeVars
<1>4. CASE /\ o0 # None /\ high' = [h \in High |-> IF h = fd THEN None ELSE high[h]]
           /\ alias' = alias \ {<<fd, o0>>} /\ Release(o0)
  <2>1. o0 \in Open /\ \A o \in Open : /\ Operates(t, o)' <=> Operates(t, o)
                                       /\ Installs(t, o)' <=> Installs(t, o)
    BY <1>0, <1>2, <1>4, OpenTyped DEF Operates, Installs, At
  <2>2. CASE fd \in High
    <3>1. high[fd] = o0 /\ fd \notin Low
      BY <2>2, Ranges DEF OpenAt
    <3>2. alias' = alias
      BY <1>0, <1>4, <3>1 DEF Aliases
    <3>3. \A x \in High : x # fd => high'[x] = high[x]
      BY <1>4
    <3>4. high'[fd] = None
      BY <1>4, <2>2
    <3> HIDE DEF fd, o0
    <3>5. \A o \in Open : Change(t, fd, None, o) = 0 - Num(o = o0)
      BY <2>1, <2>2, <3>1, <3>2, <3>4, Ranges DEF Change, Num
    <3> QED
      BY <1>4, <2>1, <3>2, <3>3, <3>5, RefsLess
  <2>3. CASE fd \in Low
    <3>1. \A o \in Open : <<fd, o>> \in alias <=> o = o0
      BY <1>0, <2>1, <2>3, OpenIs
    <3>2. UNCHANGED high
      BY <1>0, <1>4, <2>3, Ranges DEF Shape
    <3>3. /\ \A x \in Low, o \in Open : x # fd => (<<x, o>> \in alias' <=> <<x, o>> \in alias)
          /\ \A o \in Open : <<fd, o>> \notin alias'
      BY <1>4, <3>1
    <3> HIDE DEF fd, o0
    <3>4. \A o \in Open : Change(t, None, fd, o) = 0 - Num(o = o0)
      BY <2>1, <2>3, <3>1, <3>2, <3>3, Ranges DEF Change, Num, Fd
    <3> QED
      BY <1>4, <2>1, <3>2, <3>3, <3>4, RefsLess
  <2> QED
    BY <1>0, <2>2, <2>3 DEF Fd
<1> QED
  BY <1>3, <1>4 DEF CloseBackend

\* Operations, windows, pairs and pins.
LEMMA RefsUse ==
  ASSUME IInv, NInv, Refs, NEW t \in Thread,
         \A u \in Thread \ {t} : call'[u] = call[u],
         \/ FinishOp(t) \/ Attach(t) \/ ReadAhead(t) \/ ReadAheadDone(t) \/ Close(t)
         \/ Pair(t) \/ Pin(t) \/ Settle(t)
  PROVE  Refs'
<1>0. call \in [Thread -> Calls] /\ Shape /\ Local(t)
  BY DEF IInv, NInv, Shape
<1>1. CASE FinishOp(t)
  <2> DEFINE o0 == call[t].open
  <2>1. o0 \in Open /\ call[t].pc = "op" /\ call'[t].pc = "idle" /\ UNCHANGED <<high, alias>>
        /\ Release(o0)
    BY <1>0, <1>1 DEF Local, InUse, FinishOp, At, Done, Idle
  <2>2. \A o \in Open : Change(t, None, None, o) = 0 - Num(o = o0)
    BY <2>1, Ranges DEF Change, Num, Operates, Installs, At, Installing, Fd
  <2> HIDE DEF o0
  <2> QED
    BY <2>1, <2>2, RefsLess
<1>2. CASE Attach(t) \/ ReadAhead(t) \/ ReadAheadDone(t) \/ Settle(t)
  <2>1. /\ UNCHANGED <<high, alias, refs>>
        /\ call[t].pc \in {"attach", "ticket", "raRead", "settle"}
    BY <1>2 DEF Attach, ReadAhead, ReadAheadDone, Settle, At, fakeVars
  <2>2. call'[t].pc \in {"idle", "raRead"}
    BY <1>0, <1>2 DEF Attach, ReadAhead, ReadAheadDone, Settle, Done, Goto, Idle, Calls
  <2> QED
    BY <2>1, <2>2, RefsQuiet DEF Installing
<1>3. CASE Close(t)
  <2>1. CASE At(t, "close") /\ CloseBackend(t, "closeNative", "settle")
    <3>1. {"closeNative", "settle"} \intersect (Installing \union {"op"}) = {}
      BY DEF Installing
    <3> QED
      BY <2>1, <3>1, RefsBackend
  <2>2. CASE At(t, "closeNative") /\ CloseNative(t, "settle")
    <3>1. /\ UNCHANGED <<high, alias, refs>> /\ call[t].pc = "closeNative"
          /\ call'[t].pc = "settle"
      BY <1>0, <2>2 DEF CloseNative, Goto, At, Calls, fakeVars
    <3> QED
      BY <3>1, RefsQuiet DEF Installing
  <2> QED
    BY <1>3, <2>1, <2>2 DEF Close
<1>4. CASE Pair(t)
  <2>1. /\ UNCHANGED <<high, alias, refs>> /\ call[t].pc \in Pairing
    BY <1>4 DEF Pair, PairFirst, PairSecond, PairRetry, PairWait, PairReplace, At, fakeVars,
                Pairing
  <2>2. \E pc \in Pairing \union {"pin"} : call' = [call EXCEPT ![t].pc = pc]
    BY <1>4 DEF Pair, PairFirst, PairSecond, PairRetry, PairWait, PairReplace, Goto, Pairing
  <2>3. call'[t].pc \in Pairing \union {"pin"}
    BY <1>0, <2>2 DEF Calls
  <2> QED
    BY <2>1, <2>3, RefsQuiet DEF Installing, Pairing
<1>5. ASSUME NEW h \in High, PinFake(t, h) PROVE Refs'
  <2> DEFINE o0 == OpenAt(call[t].fd)
  <2>1. /\ o0 # None /\ high[h] = None /\ high' = [high EXCEPT ![h] = o0] /\ Retain(o0)
        /\ UNCHANGED alias /\ call[t].pc = "pin"
    BY <1>5 DEF PinFake, LowestHigh, FreeHigh, At
  <2>2. call'[t].pc \in {"settle", "install"}
    BY <1>0, <1>5 DEF PinFake, Calls
  <2>3. o0 \in Open
    BY <1>0, <2>1, OpenTyped DEF Shape, Paired
  <2> HIDE DEF o0
  <2>4. high'[h] = o0 /\ \A x \in High : x # h => high'[x] = high[x]
    BY <1>0, <2>1 DEF Shape
  <2>5. \A o \in Open : Change(t, h, None, o) = Num(o = o0)
    BY <2>1, <2>2, <2>3, <2>4, Ranges
    DEF Change, Num, Operates, Installs, At, Installing, Fd
  <2> QED
    BY <2>1, <2>3, <2>4, <2>5, RefsMore
<1>6. CASE PinFails(t) \/ \E n \in Low : PinNative(t, n)
  <2>1. /\ UNCHANGED <<high, alias, refs>> /\ call[t].pc = "pin"
    BY <1>6 DEF PinFails, PinNative, At, fakeVars
  <2>2. call'[t].pc \in {"idle", "settle", "install"}
    <3>1. CASE PinFails(t)
      BY <1>0, <3>1 DEF PinFails, Done, Idle
    <3>2. ASSUME NEW n \in Low, PinNative(t, n) PROVE call'[t].pc \in {"settle", "install"}
      BY <1>0, <3>2 DEF PinNative, Calls
    <3> QED
      BY <1>6, <3>1, <3>2
  <2> QED
    BY <2>1, <2>2, RefsQuiet DEF Installing
<1> QED
  BY <1>1, <1>2, <1>3, <1>4, <1>5, <1>6 DEF Pin

\* The replacement of a target.
LEMMA RefsInstall ==
  ASSUME IInv, NInv, Refs, NEW t \in Thread,
         \A u \in Thread \ {t} : call'[u] = call[u], Install(t)
  PROVE  Refs'
<1>0. call \in [Thread -> Calls] /\ Shape /\ Local(t)
  BY DEF IInv, NInv, Shape
<1>1. CASE InstallHigh(t)
  <2> DEFINE o0 == OpenAt(call[t].stable)
             to == call[t].to
  <2>1. /\ to \in High /\ o0 = high[call[t].stable] /\ call[t].pc = "install"
        /\ refs' = [x \in Open |-> refs[x] + (IF x = o0 THEN 1 ELSE 0)
                                           - (IF x = high[to] THEN 1 ELSE 0)]
        /\ high' = [high EXCEPT ![to] = o0] /\ UNCHANGED alias
    BY <1>1 DEF InstallHigh, OpenAt, At
  <2>2. call'[t].pc = "installed"
    BY <1>0, <1>1 DEF InstallHigh, Goto, Calls
  <2> HIDE DEF o0, to
  <2>3. high'[to] = o0 /\ \A x \in High : x # to => high'[x] = high[x]
    BY <1>0, <2>1 DEF Shape
  <2>4. \A o \in Open : Change(t, to, None, o) = Num(o = o0) - Num(o = high[to])
    BY <2>1, <2>2, <2>3, Ranges
    DEF Change, Num, Operates, Installs, At, Installing, Fd
  <2>5. refs' \in [Open -> Int]
        /\ \A o \in Open : refs'[o] = refs[o] + (Num(o = o0) - Num(o = high[to]))
    BY <2>1 DEF Refs, Num
  <2> QED
    BY <2>1, <2>3, <2>4, <2>5, RefsMove
<1>2. CASE Reserve(t)
  <2> DEFINE o0 == call[t].open
  <2>1. /\ call[t].pc = "install" /\ o0 \in Open /\ UNCHANGED <<high, alias>>
    BY <1>0, <1>2 DEF Reserve, At, Local, Pinned
  <2>2. CASE Goto(t, "reserved") /\ Retain(o0)
    <3>1. call'[t].pc = "reserved" /\ call'[t].open = o0
      BY <1>0, <2>2 DEF Goto, Calls
    <3> HIDE DEF o0
    <3>2. \A o \in Open : Change(t, None, None, o) = Num(o = o0)
      BY <2>1, <3>1, Ranges DEF Change, Num, Operates, Installs, At, Installing, Fd
    <3> QED
      BY <2>1, <2>2, <3>2, RefsMore
  <2>3. CASE call' = [call EXCEPT ![t].pc = "failed", ![t].open = None] /\ UNCHANGED refs
    <3>1. call'[t].pc = "failed"
      BY <1>0, <2>3 DEF Calls
    <3> QED
      BY <2>1, <2>3, <3>1, RefsQuiet DEF Installing
  <2> QED
    BY <1>2, <2>2, <2>3 DEF Reserve
<1>3. CASE Unreserve(t)
  <2> DEFINE o0 == call[t].open
  <2>1. /\ call[t].pc = "unreserve" /\ o0 \in Open /\ UNCHANGED <<high, alias>> /\ Release(o0)
    BY <1>0, <1>3 DEF Unreserve, At, Local, Fields, Pinned, Installing
  <2>2. call'[t].pc = "failed"
    BY <1>0, <1>3 DEF Unreserve, Calls
  <2>3. \A o \in Open : Change(t, None, None, o) = 0 - Num(o = o0)
    BY <2>1, <2>2, Ranges DEF Change, Num, Operates, Installs, At, Installing, Fd
  <2> HIDE DEF o0
  <2> QED
    BY <2>1, <2>3, RefsLess
<1>4. CASE Publish(t)
  <2> DEFINE o0 == call[t].open
             to == call[t].to
  <2>1. /\ call[t].pc = "publish" /\ o0 \in Open /\ UNCHANGED <<high, refs>>
        /\ alias' = alias \union {<<to, o0>>} /\ to \in Low /\ ~Aliased(to)
    BY <1>0, <1>4 DEF Publish, At, Local, Fields, Pinned, Vacant, VacantPCs, Installing
  <2>2. call'[t].pc = "installed"
    BY <1>0, <1>4 DEF Publish, Goto, Calls
  <2>3. /\ \A x \in Low, o \in Open : x # to => (<<x, o>> \in alias' <=> <<x, o>> \in alias)
        /\ \A o \in Open : <<to, o>> \notin alias /\ (<<to, o>> \in alias' <=> o = o0)
    BY <2>1 DEF Aliased
  <2>4. \A o \in Open : Installs(t, o) <=> o = o0
    BY <2>1 DEF Installs, Installing
  <2> HIDE DEF o0, to
  <2>5. \A o \in Open : ~Installs(t, o)' /\ ~Operates(t, o)' /\ ~Operates(t, o)
    BY <2>1, <2>2 DEF Installs, Operates, At, Installing
  <2>6. \A o \in Open : Change(t, None, to, o) = 0
    BY <2>1, <2>3, <2>4, <2>5, Ranges DEF Change, Num, Fd
  <2>7. refs' \in [Open -> Int] /\ \A o \in Open : refs'[o] = refs[o] + Change(t, None, to, o)
    BY <2>1, <2>6 DEF Refs
  <2> QED
    BY <2>1, <2>3, <2>7, RefsMove
<1>5. CASE DropStable(t)
  <2>1. /\ call[t].pc \in {"installed", "failed"} /\ UNCHANGED alias /\ call'[t].pc = "settle"
    BY <1>0, <1>5 DEF DropStable, Idle
  <2>2. CASE call[t].stable \in High
    <3> DEFINE s == call[t].stable
               o0 == high[s]
    <3>1. /\ s \in High /\ o0 \in Open /\ high' = [high EXCEPT ![s] = None] /\ Release(o0)
      BY <1>0, <1>5, <2>2 DEF DropStable, Local, Pinned
    <3> HIDE DEF s
    <3>2. high'[s] = None /\ \A x \in High : x # s => high'[x] = high[x]
      BY <1>0, <3>1 DEF Shape
    <3>3. \A o \in Open : Change(t, s, None, o) = 0 - Num(o = o0)
      BY <2>1, <3>1, <3>2, Ranges DEF Change, Num, Operates, Installs, At, Installing, Fd
    <3> HIDE DEF o0
    <3> QED
      BY <2>1, <3>1, <3>2, <3>3, RefsLess
  <2>3. CASE call[t].stable \notin High
    <3>1. UNCHANGED <<high, refs>>
      BY <1>5, <2>3 DEF DropStable
    <3> QED
      BY <2>1, <3>1, RefsQuiet DEF Installing
  <2> QED
    BY <2>2, <2>3
<1>6. CASE InstallNative(t)
  <2>1. call[t].pc = "install" /\ UNCHANGED <<high, alias, refs>> /\ call'[t].pc = "installed"
    BY <1>0, <1>6 DEF InstallNative, At, Goto, Calls, fakeVars
  <2> QED
    BY <2>1, RefsQuiet DEF Installing
<1>7. CASE At(t, "closeTarget") /\ CloseBackend(t, "closeTargetNative", "vacated")
  <2>1. {"closeTargetNative", "vacated"} \subseteq Installing
    BY DEF Installing
  <2> QED
    BY <1>7, <2>1, RefsBackend
<1>8. CASE \/ OpenHolder(t) \/ MoveHolder(t) \/ CloseHolder(t)
           \/ At(t, "closeTargetNative") /\ CloseNative(t, "vacated")
           \/ At(t, "closeTarget") /\ Goto(t, "moveHolder") /\ UNCHANGED fakeVars
  <2>1. UNCHANGED <<high, alias, refs>> /\ call[t].pc \in Installing /\ call[t].pc # "op"
    BY <1>8 DEF OpenHolder, MoveHolder, CloseHolder, CloseNative, At, fakeVars, Installing
  <2>2. call'[t].pc \in Installing /\ call'[t].pc # "op" /\ call'[t].open = call[t].open
    <3>1. CASE MoveHolder(t) \/ CloseNative(t, "vacated") \/ Goto(t, "moveHolder")
      <4>1. \E pc \in {"closeHolder", "dropHolder", "vacated", "moveHolder"} :
               call' = [call EXCEPT ![t].pc = pc]
        BY <3>1 DEF MoveHolder, CloseNative, Goto
      <4> QED
        BY <1>0, <4>1 DEF Calls, Installing
    <3>2. CASE CloseHolder(t)
      BY <1>0, <3>2 DEF CloseHolder, Calls, Installing
    <3>3. CASE Goto(t, "unreserve")
      BY <1>0, <3>3 DEF Goto, Calls, Installing
    <3>4. CASE \E n \in Low : call' = [call EXCEPT
                 ![t].pc = IF n = call[t].to THEN "publish" ELSE "closeTarget",
                 ![t].holder = IF n = call[t].to THEN None ELSE n]
      BY <1>0, <3>4 DEF Calls, Installing
    <3> QED
      BY <1>8, <3>1, <3>2, <3>3, <3>4 DEF OpenHolder
  <2> QED
    BY <2>1, <2>2, RefsQuiet
<1> QED
  BY <1>1, <1>2, <1>3, <1>4, <1>5, <1>6, <1>7, <1>8 DEF Install, CloseTarget

LEMMA RefsInitial == Init => Refs
<1> SUFFICES ASSUME Init PROVE Refs
  OBVIOUS
<1>1. \A o \in Open : /\ InHigh(o) = {} /\ InAlias(o) = {} /\ InOps(o) = {}
                      /\ InInstalls(o) = {}
  BY Ranges DEF Init, Idle, InHigh, InAlias, InOps, InInstalls, Operates, Installs, At,
                Installing
<1>2. \A o \in Open : Holders(o) = 0
  BY <1>1, FS_EmptySet DEF Holders
<1> QED
  BY <1>2 DEF Init, Refs

LEMMA RefsStep ==
  ASSUME IInv, NInv, Refs, [Next]_vars
  PROVE  Refs'
<1>1. ASSUME NEW t \in Thread, Start(t) \/ Continue(t) PROVE Refs'
  <2>1. \A u \in Thread \ {t} : call'[u] = call[u]
    BY <1>1, OthersStay DEF IInv, Shape
  <2> QED
    BY <1>1, <2>1, RefsStart, RefsUse, RefsInstall DEF Continue
<1>2. CASE UNCHANGED vars
  <2>1. UNCHANGED <<high, alias, refs, call>>
    BY <1>2 DEF vars, fakeVars
  <2>2. \A o \in Open : Holders(o)' = Holders(o)
    BY <2>1 DEF Holders, InHigh, InAlias, InOps, InInstalls, Operates, Installs, At
  <2> QED
    BY <2>1, <2>2 DEF Refs
<1> QED
  BY <1>1, <1>2 DEF Next

LEMMA RefsInvariant == ~WindowRaces => (Spec => []Refs)
<1> SUFFICES ASSUME ~WindowRaces PROVE Spec => []Refs
  OBVIOUS
<1>1. IInv /\ NInv /\ Refs /\ [Next]_vars => Refs'
  BY RefsStep
<1> QED
  BY <1>1, RefsInitial, Invariant, Numbers, PTL DEF Spec

(* A description lives as long as a number, an operation or a half-done dup2  *)
(* refers to it, and is freed with the last of them (fakefd_close,            *)
(* fakefd_operation_end, fakefd_dup2).                                        *)
THEOREM RefsSafety == ~WindowRaces => (Spec => []RefsExact)
<1>1. ASSUME Refs, NEW o \in Open
      PROVE  refs[o] = Cardinality({h \in High : high[h] = o})
                         + Cardinality({n \in Low : <<n, o>> \in alias})
                         + Cardinality({t \in Thread : At(t, "op") /\ call[t].open = o})
                         + Cardinality({t \in Reservers : call[t].open = o})
  <2>1. {t \in Reservers : call[t].open = o} = InInstalls(o)
    BY DEF Reservers, InInstalls, Installs
  <2>2. {t \in Thread : At(t, "op") /\ call[t].open = o} = InOps(o)
    BY DEF InOps, Operates
  <2> QED
    BY <1>1, <2>1, <2>2 DEF Refs, Holders, InHigh, InAlias
<1>2. Refs => RefsExact
  BY <1>1 DEF RefsExact
<1> QED
  BY <1>2, RefsInvariant, PTL

-----------------------------------------------------------------------------
(* Reservations.                                                            *)

\* What a reservation is for: an alias on it, a holder, or an alias that a call is
\* about to put there or has just taken away.
ReservingPCs == {"closeNative", "closeTargetNative", "closeHolder", "publish"}
Reserved(t, n) ==
  \/ Aliased(n)
  \/ call[t].holder = n
  \/ call[t].pc \in ReservingPCs /\ call[t].to = n

\* So a dup2 never pins one: its source is no private number, and it is on no
\* stripe that another call has marked.
Reservations ==
  /\ \A n \in Low : native[n] = Reservation => \E t \in Thread : Reserved(t, n)
  /\ \A t \in Thread :
       /\ call[t].open \in Open \union File \union {None}
       /\ At(t, "pin") /\ Source(t) \in replacing => Source(t) = Target(t)
       /\ call[t].pc \in Paired => \A u \in Thread : call[t].fd \notin Own(u)

\* What a step may do to them.
ReservationFoot(t) ==
  /\ \A n \in Low : native'[n] = Reservation =>
       Reserved(t, n)' \/ (native[n] = Reservation /\ ~Reserved(t, n))
  /\ call'[t].open \in Open \union File \union {None}
  /\ \A s \in replacing' \ replacing : lock[s] \in {None, t}
  /\ At(t, "pin")' /\ Source(t)' \in replacing' => Source(t)' = Target(t)'
  /\ call'[t].pc \in Paired =>
       \/ call'[t].fd \in UserFd
       \/ call[t].pc \in Paired /\ call'[t].fd = call[t].fd

LEMMA ReservationsKept ==
  ASSUME IInv, Shape', NInv, Reservations, NEW t \in Thread,
         Foot(t), Local(t)', ReservationFoot(t)
  PROVE  Reservations'
<1>0. \A u \in Thread \ {t} : call'[u] = call[u]
  BY DEF Foot
<1>1. ASSUME NEW n \in Low, native'[n] = Reservation
      PROVE  \E u \in Thread : Reserved(u, n)'
  <2>1. CASE native[n] = Reservation /\ ~Reserved(t, n)
    <3>1. PICK u \in Thread : Reserved(u, n)
      BY <2>1 DEF Reservations
    <3>2. ~Aliased(n) /\ u # t
      BY <2>1, <3>1 DEF Reserved
    <3>3. Reserved(u, n)'
      BY <1>0, <3>1, <3>2 DEF Reserved
    <3> QED
      BY <3>3
  <2> QED
    BY <1>1, <2>1 DEF ReservationFoot
<1>2. ASSUME NEW u \in Thread PROVE call'[u].open \in Open \union File \union {None}
  BY <1>0 DEF ReservationFoot, Reservations
<1>3. ASSUME NEW u \in Thread \ {t}, At(u, "pin")', Source(u)' \in replacing'
      PROVE  Source(u)' = Target(u)'
  <2>1. At(u, "pin") /\ Source(u)' = Source(u) /\ Target(u)' = Target(u)
    BY <1>0, <1>3 DEF At, Source, Target
  <2>2. CASE Source(u) \in replacing
    BY <2>1, <2>2 DEF Reservations
  <2>3. CASE Source(u) \notin replacing
    <3>1. lock[Source(u)] \in {None, t}
      BY <1>3, <2>1, <2>3 DEF ReservationFoot
    <3>2. Source(u) \in Stripes /\ Source(u) \in Held(u)
      BY <2>1, StripeOf DEF IInv, Shape, Paired, Held, At, Source, Target
    <3> QED
      BY <3>1, <3>2, Named DEF IInv, Locks
  <2> QED
    BY <2>2, <2>3
<1>4. ASSUME NEW u \in Thread, NEW v \in Thread, call'[u].pc \in Paired
      PROVE  call'[u].fd \notin Own(v)'
  <2>1. \/ call[u].pc \in Paired /\ call'[u].fd = call[u].fd
        \/ u = t /\ call'[u].fd \in UserFd
    BY <1>0, <1>4 DEF ReservationFoot
  <2>2. call'[u].fd \notin Own(v)
    <3>1. CASE call[u].pc \in Paired /\ call'[u].fd = call[u].fd
      BY <3>1 DEF Reservations
    <3>2. CASE call'[u].fd \in UserFd
      BY <3>2 DEF UserFd, Private, Own
    <3> QED
      BY <2>1, <3>1, <3>2
  <2>3. CASE v # t
    BY <1>0, <2>2, <2>3 DEF Own
  <2>4. CASE v = t /\ u = t
    <3>1. Own(t)' = {}
      <4>1. call'[t].pc \notin Dup2PCs \union Holding
        BY <1>4, <2>4 DEF Paired, Pairing, Dup2PCs, Holding, Installing
      <4> QED
        BY <4>1 DEF Local, Fields, Own
    <3> QED
      BY <2>4, <3>1
  <2>5. CASE v = t /\ u # t
    <3>1. call[u].pc \in Paired /\ call'[u].fd = call[u].fd
      BY <2>1, <2>5
    <3>2. \A x : x = call[u].fd => Claimed(t, x)
      BY <2>5, <3>1 DEF Claimed, Paired, At
    <3> QED
      BY <2>2, <2>5, <3>1, <3>2 DEF Foot, Vacancy
  <2> QED
    BY <2>3, <2>4, <2>5
<1>5. At(t, "pin")' /\ Source(t)' \in replacing' => Source(t)' = Target(t)'
  BY DEF ReservationFoot
<1> QED
  BY <1>1, <1>2, <1>3, <1>4, <1>5 DEF Reservations

\* What else has a reservation would be seen by the call that reads it.
LEMMA Genuine ==
  ASSUME Reservations, NEW n \in Low, native[n] = Reservation, ~Aliased(n),
         \A u \in Thread : n \notin Own(u)
  PROVE  \E u \in Thread : Replaces(u) /\ ~At(u, "pin") /\ call[u].to = n
<1>1. PICK u \in Thread : Reserved(u, n)
  BY DEF Reservations
<1>2. call[u].pc \in ReservingPCs /\ call[u].to = n
  BY <1>1, Ranges DEF Reserved, Own, Fd
<1> QED
  BY <1>2 DEF ReservingPCs, Replaces, Replacing, PC, Pairing, At

\* A call that does not answer for a reservation before the step.
LEMMA Covers ==
  ASSUME NInv, NEW t \in Thread, call[t].pc \notin Holding \union ReservingPCs,
         \A n \in Low : Aliased(n) => Aliased(n)',
         \A n \in Low : \/ native'[n] = native[n] \/ native'[n] # Reservation
                        \/ Reserved(t, n)'
  PROVE  \A n \in Low : native'[n] = Reservation =>
           Reserved(t, n)' \/ (native[n] = Reservation /\ ~Reserved(t, n))
<1>1. \A n \in Low : Reserved(t, n) => Aliased(n)
  BY Ranges DEF NInv, Local, Fields, Reserved, Fd
<1> QED
  BY <1>1 DEF Reserved

\* A step that marks no stripe and begins no pair.
LEMMA ReservationRest ==
  ASSUME IInv, NInv, Reservations, NEW t \in Thread,
         call'[t].open \in {call[t].open, None}, replacing' \subseteq replacing,
         call'[t].pc \notin Paired,
         \A n \in Low : native'[n] = Reservation =>
           Reserved(t, n)' \/ (native[n] = Reservation /\ ~Reserved(t, n))
  PROVE  ReservationFoot(t)
BY DEF ReservationFoot, Reservations, Paired, At

\* Calls that begin.
LEMMA ReservationStart ==
  ASSUME IInv, NInv, Reservations, NEW t \in Thread, Start(t)
  PROVE  ReservationFoot(t)
<1>0. /\ call \in [Thread -> Calls] /\ Shape /\ call[t].pc = "idle" /\ UserFd \subseteq Fd
      /\ call[t].pc \notin Holding \union ReservingPCs \union Paired
      /\ Aliases
  BY DEF IInv, NInv, Shape, Start, At, UserFd, Holding, ReservingPCs, Paired, Pairing
<1>1. UNCHANGED alias
  BY DEF Start, Create, OpenFile, DupFake, DupNative, CloseBegin, BeginOp, Dup2Begin,
         TakeTicket, fakeVars
<1>2. \A n \in Low : native'[n] = native[n] \/ native'[n] # Reservation
  <2>1. ASSUME NEW f \in File, OpenFile(t, f)
        PROVE  \A n \in Low : native'[n] = native[n] \/ native'[n] # Reservation
    BY <1>0, <2>1, DescriptorAssumption DEF OpenFile, Shape
  <2>2. ASSUME NEW fd \in UserFd \intersect Low, DupNative(t, fd)
        PROVE  \A n \in Low : native'[n] = native[n] \/ native'[n] # Reservation
    <3>1. Clear(Stripe(fd)) /\ ~Aliased(fd)
      BY <1>0, <2>2, OpenIs DEF DupNative, IsFake
    <3>2. \A u \in Thread : Replaces(u) => call[u].to # fd
      BY <3>1 DEF IInv, Marks, Clear, Target
    <3>3. \A u \in Thread : fd \notin Own(u)
      BY DEF UserFd, Private, Own
    <3>4. native[fd] # Reservation
      BY <3>1, <3>2, <3>3, Genuine
    <3> QED
      BY <1>0, <2>2, <3>4 DEF DupNative, Shape
  <2>3. CASE \/ \E o \in Open : Create(t, o)
             \/ \E fd \in UserFd :
                  \/ DupFake(t, fd) \/ CloseBegin(t, fd)
                  \/ \E write \in BOOLEAN : BeginOp(t, fd, write)
                  \/ \E to \in UserFd : Dup2Begin(t, fd, to)
             \/ \E fd \in UserFd \intersect Low : TakeTicket(t, fd)
    BY <2>3 DEF Create, DupFake, CloseBegin, BeginOp, Dup2Begin, TakeTicket
  <2> QED
    BY <2>1, <2>2, <2>3 DEF Start
<1>3. \A n \in Low : native'[n] = Reservation =>
        Reserved(t, n)' \/ (native[n] = Reservation /\ ~Reserved(t, n))
  BY <1>0, <1>1, <1>2, Covers DEF Aliased
<1>4. /\ call'[t].open \in Open \union File \union {None}
      /\ call'[t].pc \notin Paired \/ (call'[t].pc = "pairFirst" /\ call'[t].fd \in UserFd)
  <2>1. CASE \/ \E o \in Open : Create(t, o)
             \/ \E fd \in UserFd : DupFake(t, fd)
             \/ \E fd \in UserFd \intersect Low : DupNative(t, fd)
    BY <1>0, <2>1 DEF Create, DupFake, DupNative, Reservations
  <2>2. ASSUME NEW f \in File, OpenFile(t, f)
        PROVE  call'[t].open \in File /\ call'[t].pc = "attach"
    BY <1>0, <2>2 DEF OpenFile, Begin, Idle
  <2>3. ASSUME NEW fd \in UserFd, NEW write \in BOOLEAN, BeginOp(t, fd, write)
        PROVE  call'[t].open \in Open \union {None} /\ call'[t].pc = "op"
    BY <1>0, <2>3, OpenTyped DEF BeginOp, Begin, Idle
  <2>4. ASSUME NEW fd \in UserFd, CloseBegin(t, fd) \/ (fd \in Low /\ TakeTicket(t, fd))
        PROVE  call'[t].open = None /\ call'[t].pc \in {"close", "ticket"}
    <3>1. CASE CloseBegin(t, fd)
      BY <1>0, <3>1 DEF CloseBegin, Begin, Idle
    <3>2. CASE fd \in Low /\ TakeTicket(t, fd)
      BY <1>0, <3>2 DEF TakeTicket, Begin, Idle
    <3> QED
      BY <2>4, <3>1, <3>2
  <2>5. ASSUME NEW fd \in UserFd, NEW to \in UserFd, Dup2Begin(t, fd, to)
        PROVE  call'[t].open = None /\ call'[t].pc = "pairFirst" /\ call'[t].fd \in UserFd
    BY <1>0, <2>5 DEF Dup2Begin, Begin, Idle
  <2> QED
    BY <2>1, <2>2, <2>3, <2>4, <2>5 DEF Start, Paired, Pairing
<1>5. \A s \in replacing' \ replacing : lock[s] = None
  BY DEF Start, Create, OpenFile, DupFake, DupNative, CloseBegin, BeginOp, Dup2Begin,
         TakeTicket, routeVars, MarkReplacing, Clear
<1>6. ~At(t, "pin")'
  BY <1>4 DEF At, Paired
<1> QED
  BY <1>3, <1>4, <1>5, <1>6 DEF ReservationFoot

\* Pairs.
LEMMA ReservationPair ==
  ASSUME IInv, NInv, Reservations, NEW t \in Thread, Pair(t)
  PROVE  ReservationFoot(t)
<1>0. /\ call \in [Thread -> Calls] /\ Shape /\ call[t].pc \in Pairing
      /\ call[t].pc \in Paired /\ call[t].pc \notin Holding \union ReservingPCs
  BY DEF IInv, Shape, Pair, PairFirst, PairSecond, PairRetry, PairWait, PairReplace, At,
         Pairing, Paired, Holding, ReservingPCs
<1>1. UNCHANGED <<native, alias>>
  BY DEF Pair, PairFirst, PairSecond, PairRetry, PairWait, PairReplace, fakeVars
<1>2. \A n \in Low : native'[n] = Reservation =>
        Reserved(t, n)' \/ (native[n] = Reservation /\ ~Reserved(t, n))
  BY <1>0, <1>1, Covers DEF Aliased
<1>3. \E pc \in Pairing \union {"pin"} : call' = [call EXCEPT ![t].pc = pc]
  BY DEF Pair, PairFirst, PairSecond, PairRetry, PairWait, PairReplace, Goto, Pairing
<1>4. /\ call'[t].open = call[t].open /\ call'[t].fd = call[t].fd /\ call'[t].to = call[t].to
      /\ Source(t)' = Source(t) /\ Target(t)' = Target(t)
  BY <1>0, <1>3 DEF Calls, Source, Target
<1>5. CASE PairReplace(t)
  <2>1. replacing' = replacing \union {Target(t)} /\ Source(t) \notin replacing
    BY <1>5 DEF PairReplace, MarkReplacing
  <2>2. lock[Target(t)] = t
    <3>1. Target(t) \in Stripes /\ Target(t) \in Held(t)
      BY <1>0, <1>5, StripeOf DEF Shape, Paired, Held, At, Target, PairReplace
    <3> QED
      BY <3>1 DEF IInv, Locks
  <2> QED
    BY <1>0, <1>2, <1>4, <2>1, <2>2 DEF ReservationFoot, Reservations
<1>6. CASE PairFirst(t) \/ PairSecond(t) \/ PairRetry(t) \/ PairWait(t)
  <2>1. UNCHANGED replacing
    BY <1>6 DEF PairFirst, PairSecond, PairRetry, PairWait, routeVars
  <2>2. \E pc \in Pairing : call' = [call EXCEPT ![t].pc = pc]
    BY <1>6 DEF PairFirst, PairSecond, PairRetry, PairWait, Goto, Pairing
  <2>3. ~At(t, "pin")'
    BY <1>0, <2>2 DEF Calls, Pairing, At
  <2> QED
    BY <1>0, <1>2, <1>4, <2>1, <2>3 DEF ReservationFoot, Reservations
<1> QED
  BY <1>5, <1>6 DEF Pair

\* Operations, windows and pins.
LEMMA ReservationUse ==
  ASSUME IInv, NInv, Reservations, NEW t \in Thread,
         \/ FinishOp(t) \/ Attach(t) \/ ReadAhead(t) \/ ReadAheadDone(t) \/ Pin(t) \/ Settle(t)
  PROVE  ReservationFoot(t)
<1>0. /\ call \in [Thread -> Calls] /\ Shape /\ Aliases
      /\ call[t].pc \notin Holding \union ReservingPCs
  BY DEF IInv, NInv, Shape, FinishOp, Attach, ReadAhead, ReadAheadDone, Pin, PinFake,
         PinNative, PinFails, Settle, At, Holding, ReservingPCs
<1>1. UNCHANGED alias
  BY DEF FinishOp, Attach, ReadAhead, ReadAheadDone, Pin, PinFake, PinNative, PinFails,
         Settle, fakeVars
<1>2. CASE \/ FinishOp(t) \/ Attach(t) \/ ReadAhead(t) \/ ReadAheadDone(t) \/ Settle(t)
           \/ PinFails(t)
  <2>1. UNCHANGED native /\ replacing' \subseteq replacing
    BY <1>2 DEF FinishOp, Attach, ReadAhead, ReadAheadDone, Settle, PinFails, routeVars
  <2>2. call'[t].open \in {call[t].open, None} /\ call'[t].pc \in {"idle", "raRead"}
    BY <1>0, <1>2 DEF FinishOp, Attach, ReadAhead, ReadAheadDone, Settle, PinFails, Done,
                      Goto, Idle, Calls
  <2>3. call'[t].pc \notin Paired
    BY <2>2 DEF Paired, Pairing
  <2>4. \A n \in Low : native'[n] = Reservation =>
          Reserved(t, n)' \/ (native[n] = Reservation /\ ~Reserved(t, n))
    BY <1>0, <1>1, <2>1, Covers DEF Aliased
  <2> QED
    BY <2>1, <2>2, <2>3, <2>4, ReservationRest
<1>3. CASE (\E h \in High : PinFake(t, h)) \/ (\E n \in Low : PinNative(t, n))
  <2>1. UNCHANGED replacing /\ At(t, "pin")
    BY <1>3 DEF PinFake, PinNative
  <2>2. call'[t].pc \in {"settle", "install"}
    <3>1. ASSUME NEW h \in High, PinFake(t, h) PROVE call'[t].pc \in {"settle", "install"}
      BY <1>0, <3>1 DEF PinFake, Calls
    <3>2. ASSUME NEW n \in Low, PinNative(t, n) PROVE call'[t].pc \in {"settle", "install"}
      BY <1>0, <3>2 DEF PinNative, Calls
    <3> QED
      BY <1>3, <3>1, <3>2
  <2>3. call'[t].pc \notin Paired /\ ~At(t, "pin")'
    BY <2>2 DEF Paired, Pairing, At
  <2>4. call[t].fd \in Fd
    BY <1>0, <2>1 DEF Shape, Paired, At
  <2>5. /\ call'[t].open \in Open \union File \union {None}
        /\ \A n \in Low : native'[n] = native[n] \/ native'[n] # Reservation
    <3>1. ASSUME NEW h \in High, PinFake(t, h)
          PROVE  call'[t].open \in Open \union {None} /\ UNCHANGED native
      BY <1>0, <2>4, <3>1, OpenTyped DEF PinFake, Calls
    <3>2. ASSUME NEW n \in Low, PinNative(t, n)
          PROVE  /\ call'[t].open \in File \union {None}
                 /\ \A m \in Low : native'[m] = native[m] \/ native'[m] # Reservation
      <4> DEFINE fd == call[t].fd
      <4>1. fd \in Low /\ ~Aliased(fd) /\ native[fd] # None
        <5>1. ~IsFake(fd) /\ native[fd] # None
          BY <3>2 DEF PinNative
        <5>2. fd \in Low
          BY <2>4, <5>1 DEF IsFake, Fd
        <5> QED
          BY <1>0, <5>1, <5>2, OpenIs DEF IsFake
      <4>2. ASSUME NEW u \in Thread, Replaces(u), ~At(u, "pin"), call[u].to = fd PROVE FALSE
        <5>1. Target(u) = Source(t) /\ Source(t) \in replacing
          BY <4>2 DEF IInv, Marks, Source, Target
        <5>2. Source(t) = Target(t)
          BY <2>1, <5>1 DEF Reservations
        <5>3. Replaces(t)
          BY <2>1 DEF Replaces, Replacing, PC, Pairing, At
        <5> QED
          BY <2>1, <4>2, <5>1, <5>2, <5>3 DEF IInv, Marks
      <4>3. native[fd] # Reservation
        <5>1. \A u \in Thread : fd \notin Own(u)
          BY <2>1 DEF Reservations, Paired, At
        <5> HIDE DEF fd
        <5> QED
          BY <4>1, <4>2, <5>1, Genuine
      <4>4. native[fd] \in File
        BY <1>0, <4>1, <4>3 DEF Shape
      <4>5. /\ native' = [native EXCEPT ![n] = native[fd]]
            /\ call'[t].open \in {None, native[fd]}
        BY <1>0, <3>2 DEF PinNative, Calls
      <4> HIDE DEF fd
      <4> QED
        BY <1>0, <4>3, <4>4, <4>5 DEF Shape
    <3> QED
      BY <1>3, <3>1, <3>2
  <2>6. \A n \in Low : native'[n] = Reservation =>
          Reserved(t, n)' \/ (native[n] = Reservation /\ ~Reserved(t, n))
    BY <1>0, <1>1, <2>5, Covers DEF Aliased
  <2> QED
    BY <2>1, <2>3, <2>5, <2>6 DEF ReservationFoot
<1> QED
  BY <1>2, <1>3 DEF Pin

\* A number that is closed: its reservation is closed after its alias.
LEMMA ReservationBackend ==
  ASSUME IInv, NInv, Reservations, NEW t \in Thread,
         NEW aliasPC \in ReservingPCs, NEW donePC \in {"settle", "vacated"},
         call[t].pc \in {"close", "closeTarget"}, CloseBackend(t, aliasPC, donePC)
  PROVE  ReservationFoot(t)
<1> DEFINE fd == call[t].to
           o0 == OpenAt(fd)
<1>0. /\ call \in [Thread -> Calls] /\ Shape /\ Aliases /\ fd \in Fd
      /\ call[t].pc \notin ReservingPCs
  BY DEF IInv, NInv, Shape, PC, Replacing, Pairing, ReservingPCs
<1>1. \E pc \in {aliasPC, donePC} : call' = [call EXCEPT ![t].pc = pc]
  BY DEF CloseBackend, Goto
<1>2. /\ call'[t].open = call[t].open /\ call'[t].pc \in {aliasPC, donePC}
      /\ call'[t].holder = call[t].holder /\ call'[t].to = fd
  BY <1>0, <1>1 DEF Calls
<1>3. UNCHANGED replacing /\ call'[t].pc \notin Paired
  BY <1>2 DEF CloseBackend, routeVars, ReservingPCs, Paired, Pairing
<1>4. CASE /\ o0 # None /\ alias' = alias \ {<<fd, o0>>} /\ UNCHANGED native
           /\ Goto(t, IF fd \in Low THEN aliasPC ELSE donePC)
  <2>1. ASSUME NEW n \in Low, Reserved(t, n) PROVE Reserved(t, n)'
    <3>1. CASE n = fd
      <4>1. call'[t].pc = aliasPC
        BY <1>0, <1>4, <3>1 DEF Goto, Calls
      <4> QED
        BY <1>2, <3>1, <4>1 DEF Reserved
    <3>2. CASE n # fd
      BY <1>0, <1>2, <1>4, <2>1, <3>2 DEF Reserved, Aliased
    <3> QED
      BY <3>1, <3>2
  <2> QED
    BY <1>2, <1>3, <1>4, <2>1, ReservationRest
<1>5. CASE UNCHANGED alias /\ native' = [native EXCEPT ![fd] = None]
  <2>1. \A n \in Low : native'[n] = Reservation => native[n] = Reservation
    BY <1>0, <1>5, DescriptorAssumption DEF Shape
  <2>2. \A n \in Low : Reserved(t, n) => Reserved(t, n)'
    BY <1>0, <1>2, <1>5 DEF Reserved, Aliased
  <2> QED
    BY <1>2, <1>3, <2>1, <2>2, ReservationRest
<1> QED
  BY <1>4, <1>5 DEF CloseBackend, fakeVars

\* The replacement of a target.
LEMMA ReservationInstall ==
  ASSUME IInv, NInv, Reservations, NEW t \in Thread, Close(t) \/ Install(t)
  PROVE  ReservationFoot(t)
<1>0. /\ call \in [Thread -> Calls] /\ Shape /\ Local(t) /\ Aliases
  BY DEF IInv, NInv, Shape
<1>1. CASE \/ At(t, "close") /\ CloseBackend(t, "closeNative", "settle")
           \/ At(t, "closeTarget") /\ CloseBackend(t, "closeTargetNative", "vacated")
  BY <1>1, ReservationBackend DEF At, ReservingPCs
<1>2. CASE \/ At(t, "closeNative") /\ CloseNative(t, "settle")
           \/ At(t, "closeTargetNative") /\ CloseNative(t, "vacated")
  <2>1. /\ UNCHANGED <<alias, replacing>> /\ native' = [native EXCEPT ![call[t].to] = None]
        /\ \E pc \in {"settle", "vacated"} : call' = [call EXCEPT ![t].pc = pc]
    BY <1>2 DEF CloseNative, Goto, fakeVars, routeVars
  <2>2. /\ call'[t].open = call[t].open /\ call'[t].pc \in {"settle", "vacated"}
        /\ call'[t].holder = call[t].holder
    BY <1>0, <2>1 DEF Calls
  <2>3. call'[t].pc \notin Paired
    BY <2>2 DEF Paired, Pairing
  <2>4. \A n \in Low : native'[n] = Reservation => native[n] = Reservation /\ n # call[t].to
    BY <1>0, <2>1, DescriptorAssumption DEF Shape
  <2>5. \A n \in Low : Reserved(t, n) /\ n # call[t].to => Reserved(t, n)'
    BY <2>1, <2>2 DEF Reserved, Aliased
  <2> QED
    BY <2>1, <2>2, <2>3, <2>4, <2>5, ReservationRest
<1>3. CASE \/ InstallHigh(t) \/ Reserve(t) \/ Unreserve(t)
           \/ At(t, "closeTarget") /\ Goto(t, "moveHolder")
                /\ UNCHANGED <<fakeVars, native, routeVars>>
  <2>1. UNCHANGED <<native, alias, replacing>> /\ call[t].pc \notin ReservingPCs
    BY <1>3 DEF InstallHigh, Reserve, Unreserve, At, fakeVars, routeVars, ReservingPCs
  <2>2. /\ call'[t].open \in {call[t].open, None} /\ call'[t].holder = call[t].holder
        /\ call'[t].pc \in {"installed", "reserved", "failed", "moveHolder"}
    BY <1>0, <1>3 DEF InstallHigh, Reserve, Unreserve, Goto, Calls
  <2>3. call'[t].pc \notin Paired
    BY <2>2 DEF Paired, Pairing
  <2>4. \A n \in Low : Reserved(t, n) => Reserved(t, n)'
    BY <2>1, <2>2 DEF Reserved, Aliased
  <2> QED
    BY <2>1, <2>2, <2>3, <2>4, ReservationRest
<1>4. CASE InstallNative(t)
  <2> DEFINE s == call[t].stable
  <2>1. /\ UNCHANGED <<alias, replacing>> /\ call[t].pc = "install" /\ s \in Low
        /\ native' = [native EXCEPT ![call[t].to] = native[s]]
    BY <1>4 DEF InstallNative, At, fakeVars, routeVars
  <2>2. call'[t].open = call[t].open /\ call'[t].pc = "installed"
    BY <1>0, <1>4 DEF InstallNative, Goto, Calls
  <2>3. native[s] # Reservation
    BY <1>0, <2>1, DescriptorAssumption DEF Local, Pinned, Reservations
  <2> HIDE DEF s
  <2>4. \A n \in Low : native'[n] = native[n] \/ native'[n] # Reservation
    BY <1>0, <2>1, <2>3 DEF Shape
  <2>5. call[t].pc \notin Holding \union ReservingPCs /\ call'[t].pc \notin Paired
    BY <2>1, <2>2 DEF Holding, ReservingPCs, Paired, Pairing
  <2>6. \A n \in Low : native'[n] = Reservation =>
          Reserved(t, n)' \/ (native[n] = Reservation /\ ~Reserved(t, n))
    BY <2>1, <2>4, <2>5, Covers DEF Aliased
  <2> QED
    BY <2>1, <2>2, <2>5, <2>6, ReservationRest
<1>5. CASE OpenHolder(t)
  <2>1. UNCHANGED <<alias, replacing>> /\ call[t].pc = "reserved"
    BY <1>5 DEF OpenHolder, At, fakeVars, routeVars
  <2>2. call[t].pc \notin Holding \union ReservingPCs
    BY <2>1 DEF Holding, ReservingPCs
  <2>3. CASE Goto(t, "unreserve") /\ UNCHANGED native
    <3>1. call'[t].open = call[t].open /\ call'[t].pc = "unreserve"
      BY <1>0, <2>3 DEF Goto, Calls
    <3>2. call'[t].pc \notin Paired
      BY <3>1 DEF Paired, Pairing
    <3>3. \A n \in Low : native'[n] = Reservation =>
            Reserved(t, n)' \/ (native[n] = Reservation /\ ~Reserved(t, n))
      BY <2>1, <2>2, <2>3, Covers DEF Aliased
    <3> QED
      BY <2>1, <3>1, <3>2, <3>3, ReservationRest
  <2>4. ASSUME NEW n0 \in Low, native' = [native EXCEPT ![n0] = Reservation],
               call' = [call EXCEPT
                 ![t].pc = IF n0 = call[t].to THEN "publish" ELSE "closeTarget",
                 ![t].holder = IF n0 = call[t].to THEN None ELSE n0]
        PROVE  ReservationFoot(t)
    <3>1. /\ call'[t].open = call[t].open /\ call'[t].to = call[t].to
          /\ call'[t].pc = IF n0 = call[t].to THEN "publish" ELSE "closeTarget"
          /\ call'[t].holder = IF n0 = call[t].to THEN None ELSE n0
      BY <1>0, <2>4 DEF Calls
    <3>2. call'[t].pc \notin Paired
      BY <3>1 DEF Paired, Pairing
    <3>3. Reserved(t, n0)' /\ \A n \in Low : n # n0 => native'[n] = native[n]
      BY <1>0, <2>4, <3>1 DEF Reserved, ReservingPCs, Shape
    <3>4. \A n \in Low : native'[n] = Reservation =>
            Reserved(t, n)' \/ (native[n] = Reservation /\ ~Reserved(t, n))
      <4>1. \A n \in Low : Aliased(n) => Aliased(n)'
        BY <2>1 DEF Aliased
      <4>2. \A n \in Low : native'[n] = native[n] \/ native'[n] # Reservation \/ Reserved(t, n)'
        BY <3>3
      <4> QED
        BY <2>2, <4>1, <4>2, Covers
    <3> QED
      BY <2>1, <3>1, <3>2, <3>4, ReservationRest
  <2> QED
    BY <1>5, <2>3, <2>4 DEF OpenHolder
<1>6. CASE MoveHolder(t)
  <2>1. /\ UNCHANGED <<alias, replacing>> /\ call[t].pc \in {"moveHolder", "vacated"}
        /\ \E pc \in {"closeHolder", "dropHolder"} : call' = [call EXCEPT ![t].pc = pc]
    BY <1>6 DEF MoveHolder, Goto, fakeVars, routeVars
  <2>2. /\ call'[t].open = call[t].open /\ call'[t].pc \in {"closeHolder", "dropHolder"}
        /\ call'[t].holder = call[t].holder /\ call'[t].to = call[t].to
    BY <1>0, <2>1 DEF Calls
  <2>3. call'[t].pc \notin Paired /\ call[t].pc \notin ReservingPCs
    BY <2>1, <2>2 DEF Paired, Pairing, ReservingPCs
  <2>4. \A n \in Low : Reserved(t, n) => Reserved(t, n)'
    BY <2>1, <2>2, <2>3 DEF Reserved, Aliased
  <2>5. CASE native' = native
    BY <2>1, <2>2, <2>3, <2>4, <2>5, ReservationRest
  <2>6. CASE /\ native' = [native EXCEPT ![call[t].to] = native[call[t].holder]]
             /\ Goto(t, "closeHolder")
    <3>1. call'[t].pc = "closeHolder"
      BY <1>0, <2>6 DEF Goto, Calls
    <3>2. \A n \in Low : n = call[t].to => Reserved(t, n)'
      BY <2>2, <3>1 DEF Reserved, ReservingPCs
    <3>3. \A n \in Low : n # call[t].to => native'[n] = native[n]
      BY <1>0, <2>6 DEF Shape
    <3>4. \A n \in Low : native'[n] = Reservation =>
            Reserved(t, n)' \/ (native[n] = Reservation /\ ~Reserved(t, n))
      BY <2>4, <3>2, <3>3
    <3> QED
      BY <2>1, <2>2, <2>3, <3>4, ReservationRest
  <2> QED
    BY <1>6, <2>5, <2>6 DEF MoveHolder
<1>7. CASE CloseHolder(t)
  <2>1. /\ UNCHANGED <<alias, replacing>> /\ call[t].pc \in {"closeHolder", "dropHolder"}
        /\ native' = [native EXCEPT ![call[t].holder] = None]
    BY <1>7 DEF CloseHolder, fakeVars, routeVars
  <2>2. /\ call'[t].open = call[t].open /\ call'[t].to = call[t].to
        /\ call'[t].pc = IF At(t, "closeHolder") THEN "publish" ELSE "unreserve"
    BY <1>0, <1>7 DEF CloseHolder, Calls
  <2>3. call'[t].pc \notin Paired
    BY <2>2 DEF Paired, Pairing
  <2>4. \A n \in Low : native'[n] = Reservation => native[n] = Reservation /\ n # call[t].holder
    BY <1>0, <2>1, DescriptorAssumption DEF Shape
  <2>5. \A n \in Low : Reserved(t, n) /\ n # call[t].holder => Reserved(t, n)'
    BY <2>1, <2>2 DEF Reserved, Aliased, ReservingPCs, At
  <2> QED
    BY <2>1, <2>2, <2>3, <2>4, <2>5, ReservationRest
<1>8. CASE Publish(t)
  <2> DEFINE o0 == call[t].open
  <2>1. /\ UNCHANGED <<native, replacing>> /\ call[t].pc = "publish"
        /\ alias' = alias \union {<<call[t].to, o0>>}
    BY <1>8 DEF Publish, At, routeVars
  <2>2. o0 \in Open
    BY <1>0, <2>1 DEF Local, Fields, Pinned, Installing
  <2>3. /\ call'[t].open = call[t].open /\ call'[t].pc = "installed"
        /\ call'[t].holder = call[t].holder
    BY <1>0, <1>8 DEF Publish, Goto, Calls
  <2>4. call'[t].pc \notin Paired
    BY <2>3 DEF Paired, Pairing
  <2>5. \A n \in Low : Aliased(n) \/ n = call[t].to => Aliased(n)'
    BY <2>1, <2>2 DEF Aliased
  <2>6. \A n \in Low : Reserved(t, n) => Reserved(t, n)'
    BY <2>3, <2>5 DEF Reserved
  <2> QED
    BY <2>1, <2>3, <2>4, <2>6, ReservationRest
<1>9. CASE DropStable(t)
  <2>1. /\ UNCHANGED <<alias, replacing>> /\ call[t].pc \in {"installed", "failed"}
        /\ native' = native \/ native' = [native EXCEPT ![call[t].stable] = None]
    BY <1>9 DEF DropStable, routeVars
  <2>2. call'[t].open = None /\ call'[t].pc = "settle"
    BY <1>0, <1>9 DEF DropStable, Idle
  <2>3. call[t].pc \notin Holding \union ReservingPCs /\ call'[t].pc \notin Paired
    BY <2>1, <2>2 DEF Holding, ReservingPCs, Paired, Pairing
  <2>4. \A n \in Low : native'[n] = native[n] \/ native'[n] # Reservation
    BY <1>0, <2>1, DescriptorAssumption DEF Shape
  <2>5. \A n \in Low : native'[n] = Reservation =>
          Reserved(t, n)' \/ (native[n] = Reservation /\ ~Reserved(t, n))
    BY <2>1, <2>3, <2>4, Covers DEF Aliased
  <2> QED
    BY <2>1, <2>2, <2>3, <2>5, ReservationRest
<1> QED
  BY <1>1, <1>2, <1>3, <1>4, <1>5, <1>6, <1>7, <1>8, <1>9 DEF Close, Install, CloseTarget

LEMMA ReservationsInitial == Init => Reservations
<1> SUFFICES ASSUME Init PROVE Reservations
  OBVIOUS
<1>1. \A t \in Thread : call[t].pc = "idle" /\ call[t].open = None
  BY DEF Init, Idle
<1> QED
  BY <1>1, DescriptorAssumption DEF Init, Reservations, At, Paired, Pairing

LEMMA ReservationsStep ==
  ASSUME ~WindowRaces, IInv, IInv', NInv, Reservations, [Next]_vars
  PROVE  Reservations'
<1>1. ASSUME NEW t \in Thread, Start(t) \/ Continue(t) PROVE Reservations'
  <2>1. ReservationFoot(t)
    BY <1>1, ReservationStart, ReservationPair, ReservationUse, ReservationInstall
    DEF Continue
  <2>2. Foot(t) /\ Local(t)'
    BY <1>1, EachStep
  <2> QED
    BY <2>1, <2>2, ReservationsKept DEF IInv
<1>2. CASE UNCHANGED vars
  <2>1. UNCHANGED <<native, alias, call, replacing>>
    BY <1>2 DEF vars, fakeVars, routeVars
  <2> QED
    BY <2>1 DEF Reservations, Reserved, Aliased, At, Source, Target, Own
<1> QED
  BY <1>1, <1>2 DEF Next

LEMMA ReservationsInvariant == ~WindowRaces => (Spec => []Reservations)
<1> SUFFICES ASSUME ~WindowRaces PROVE Spec => []Reservations
  OBVIOUS
<1>1. IInv /\ IInv' /\ NInv /\ Reservations /\ [Next]_vars => Reservations'
  BY ReservationsStep
<1> QED
  BY <1>1, ReservationsInitial, Invariant, Numbers, PTL DEF Spec

\* The rest of the types.
Rest == valid \subseteq Thread /\ data \subseteq Open /\ raLock \in Thread \union {None}

LEMMA RestStep ==
  ASSUME IInv, NInv, Rest, [Next]_vars
  PROVE  Rest'
<1>1. ASSUME NEW t \in Thread, Start(t) \/ Continue(t) PROVE Rest'
  <2>1. \A s : Invalidate(s) => valid' \subseteq Thread
    BY DEF Invalidate, Rest
  <2>2. valid' \subseteq Thread
    <3>1. CASE Start(t)
      BY <2>1, <3>1
      DEF Start, Create, OpenFile, DupFake, DupNative, CloseBegin, BeginOp, Dup2Begin,
          TakeTicket, routeVars, MarkReplacing, Rest
    <3>2. CASE Pair(t) \/ Pin(t) \/ Settle(t)
      BY <2>1, <3>2
      DEF Pair, PairFirst, PairSecond, PairRetry, PairWait, PairReplace, Pin, PinFake, PinNative,
          PinFails, Settle, routeVars, MarkReplacing, Rest
    <3>3. CASE FinishOp(t) \/ Attach(t) \/ ReadAhead(t) \/ ReadAheadDone(t)
      BY <3>3 DEF FinishOp, Attach, ReadAhead, ReadAheadDone, routeVars, Rest
    <3>4. CASE Close(t) \/ Install(t)
      BY <3>4
      DEF Close, Install, CloseBackend, CloseNative, InstallHigh, InstallNative, Reserve,
          OpenHolder, CloseTarget, MoveHolder, CloseHolder, Unreserve, Publish, DropStable,
          routeVars, Rest
    <3> QED
      BY <1>1, <3>1, <3>2, <3>3, <3>4 DEF Continue
  <2>3. data' \subseteq Open
    <3>1. \A r : \A o \in Open : Becomes(o, r) => data' \subseteq Open
      BY DEF Becomes, Rest
    <3>2. CASE \E o \in Open : Create(t, o)
      BY <3>1, <3>2 DEF Create
    <3>3. CASE FinishOp(t)
      <4>1. call[t].open \in Open
        BY <3>3 DEF NInv, Local, InUse, FinishOp
      <4> QED
        BY <3>1, <3>3, <4>1 DEF FinishOp, Transfer
    <3>4. CASE data' = data
      BY <3>4 DEF Rest
    <3>5. Start(t) => data' = data \/ \E o \in Open : Create(t, o)
      BY DEF Start, OpenFile, DupFake, DupNative, CloseBegin, BeginOp, Dup2Begin, TakeTicket,
             fakeVars
    <3>6. Continue(t) => data' = data \/ FinishOp(t)
      BY DEF Continue, Attach, ReadAhead, ReadAheadDone, Settle, Close, Install, Pair,
             PairFirst, PairSecond, PairRetry, PairWait, PairReplace, Pin, PinFake, PinNative,
             PinFails, CloseBackend, CloseNative, InstallHigh, InstallNative, Reserve,
             OpenHolder, CloseTarget, MoveHolder, CloseHolder, Unreserve, Publish, DropStable,
             fakeVars
    <3> QED
      BY <1>1, <3>2, <3>3, <3>4, <3>5, <3>6
  <2>4. raLock' \in {raLock, t, None}
    <3>1. CASE Start(t)
      BY <3>1
      DEF Start, Create, OpenFile, DupFake, DupNative, CloseBegin, BeginOp, Dup2Begin,
          TakeTicket, raVars
    <3>2. CASE Continue(t)
      BY <3>2
      DEF Continue, FinishOp, Attach, ReadAhead, ReadAheadDone, Settle, Close, Install, Pair,
          PairFirst, PairSecond, PairRetry, PairWait, PairReplace, Pin, PinFake, PinNative,
          PinFails, CloseBackend, CloseNative, InstallHigh, InstallNative, Reserve,
          OpenHolder, CloseTarget, MoveHolder, CloseHolder, Unreserve, Publish, DropStable,
          raVars
    <3> QED
      BY <1>1, <3>1, <3>2
  <2> QED
    BY <2>2, <2>3, <2>4 DEF Rest
<1>2. CASE UNCHANGED vars
  BY <1>2 DEF vars, routeVars, fakeVars, raVars, Rest
<1> QED
  BY <1>1, <1>2 DEF Next

(* The table is well formed, a description lives as long as a number, an      *)
(* operation or a half-done dup2 refers to it and is freed with the last of   *)
(* them, and each alias lies on its own reservation (fakefd_close,            *)
(* fakefd_operation_end, fakefd_dup2).                                        *)
THEOREM TableSafety == ~WindowRaces => (Spec => []AliasesExact)
<1> SUFFICES ASSUME ~WindowRaces PROVE Spec => []AliasesExact
  OBVIOUS
<1>1. Init => Rest
  BY DEF Init, Rest
<1>2. IInv /\ NInv /\ Rest /\ [Next]_vars => Rest'
  BY RestStep
<1>3. ASSUME IInv, NInv, Windows, Refs, Reservations, Rest PROVE TypeOK
  <2>1. call \in [Thread -> Call]
    BY <1>3 DEF IInv, Shape, Calls, Call, Reservations
  <2> QED
    BY <1>3, <2>1 DEF TypeOK, IInv, Shape, NInv, Aliases, Windows, Attached, Refs, Rest
<1>4. Spec => []TypeOK
  <2>1. IInv /\ NInv /\ Windows /\ Refs /\ Reservations /\ Rest => TypeOK
    BY <1>3
  <2> QED
    BY <1>1, <1>2, <2>1, Invariant, Numbers, WindowsInvariant, RefsInvariant,
       ReservationsInvariant, PTL DEF Spec
<1>5. TypeOK /\ RefsExact /\ AliasReserved => AliasesExact
  BY DEF AliasesExact
<1> QED
  BY <1>4, <1>5, RefsSafety, AliasSafety, PTL

===============================================================================
