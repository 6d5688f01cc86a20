------------------------------- MODULE FakePipe -------------------------------
(***************************************************************************)
(* The contents of a pipe in source/fakefd.c: a ring buffer under g_lock,   *)
(* writes that are whole up to PIPE_ATOMIC_CAP bytes and come in pieces     *)
(* beyond it, F_SETPIPE_SZ and O_NONBLOCK under the feet of blocked calls,  *)
(* the two ends with their references, and the slices in which poll_fake    *)
(* waits for a fake descriptor.                                             *)
(*                                                                         *)
(* One step is one critical section of g_lock.  g_cond is one condition     *)
(* variable for everybody, and always broadcast.  Descriptors models how    *)
(* numbers are made and shared, and the route stripes that serialise calls  *)
(* on one number; here each end has one number and fakefd's own locking is  *)
(* all there is.  The reference that an operation takes inside the one it   *)
(* already has is left out, and so are calls of size 0, which change        *)
(* nothing.                                                                 *)
(***************************************************************************)
EXTENDS Integers, Sequences, FiniteSets

CONSTANTS
  Writer, Reader, \* threads at the two ends; each also polls its own
  MaxSize,      \* bound: the bytes of one write
  MaxRead,      \* bound: the bytes of one read
  Atomic,       \* PIPE_ATOMIC_CAP and PIPE_DEFAULT_CAP
  MaxCapacity,  \* PIPE_MAX_CAP
  None          \* an uninitialized byte

Caller == Writer \union Reader

ASSUME PipeAssumption ==
  /\ Writer \intersect Reader = {}
  /\ IsFiniteSet(Caller)
  /\ MaxSize \in Nat /\ MaxRead \in 0..MaxSize /\ Atomic \in Nat \ {0}
  /\ MaxCapacity \in Nat \ {0} /\ MaxCapacity % Atomic = 0

VARIABLES
  buf,       \* pipe->buf, a function on 0..capacity-1
  head,      \* pipe->head
  len,       \* pipe->len
  number,    \* the ends whose descriptor is open
  refs,      \* FakeOpen.refs of each end; 0: pipe->readers or writers is 0
  nonblock,  \* FakeOpen.nonblock of each end
  call,      \* a read or write between fakefd_operation_acquire and _release
  poll,      \* where each thread is in poll_fake
  asleep     \* threads waiting on g_cond

ring == << buf, head, len >>
ends == << number, refs, nonblock >>
vars == << ring, ends, call, poll, asleep >>

End == {"read", "write"}
Size == 1..MaxSize
Sizes(t) == IF t \in Writer THEN Size ELSE 1..MaxRead
Byte == (Writer \X Size) \union {None}
Capacity == {n \in 1..MaxCapacity : n % Atomic = 0}
capacity == Cardinality(DOMAIN buf)

Idle == [size |-> 0, wrote |-> 0, data |-> << >>, answer |-> "none"]
Call == [size : 0..MaxSize, wrote : 0..MaxSize, data : Seq(Byte),
         answer : {"none", "done", "EAGAIN", "EPIPE"}]

TypeOK ==
  /\ \E n \in Capacity : buf \in [0..(n - 1) -> Byte]
  /\ head \in DOMAIN buf /\ len \in 0..capacity
  /\ number \subseteq End
  /\ refs \in [End -> Nat]
  /\ nonblock \in [End -> BOOLEAN]
  /\ call \in [Caller -> Call]
  /\ poll \in [Caller -> {"idle", "look", "wait"}]
  /\ asleep \subseteq Caller

EmptyRing(n) == [i \in 0..(n - 1) |-> None]

Init ==
  /\ buf = EmptyRing(Atomic) /\ head = 0 /\ len = 0
  /\ number = End /\ refs = [e \in End |-> 1]
  /\ nonblock \in {[e \in End |-> b] : b \in BOOLEAN}
  /\ call = [t \in Caller |-> Idle]
  /\ poll = [t \in Caller |-> "idle"]
  /\ asleep = {}

Side(t) == IF t \in Writer THEN "write" ELSE "read"
Least(a, b) == IF a < b THEN a ELSE b
WakeAll == asleep' = {}
Sleep(t) == asleep' = asleep \union {t}

-----------------------------------------------------------------------------
(* Numbers and ends.                                                        *)

\* fakefd_pipe2, after the last pipe is gone.
Pipe2(isNonblock) ==
  /\ refs = [e \in End |-> 0]
  /\ buf' = EmptyRing(Atomic) /\ head' = 0 /\ len' = 0
  /\ number' = End /\ refs' = [e \in End |-> 1]
  /\ nonblock' = [e \in End |-> isNonblock]
  /\ UNCHANGED << call, poll, asleep >>

\* Seeded fault: nobody is told that an end is gone.
DropQuietly(e) ==
  /\ refs' = [refs EXCEPT ![e] = @ - 1]
  /\ IF \E f \in End : refs'[f] # 0
     THEN UNCHANGED ring
     ELSE buf' = EmptyRing(Atomic) /\ head' = 0 /\ len' = 0
  /\ UNCHANGED asleep

\* open_release_locked: the last reference ends an end and wakes everybody, the
\* last end frees the buffer.
Drop(e) ==
  /\ refs' = [refs EXCEPT ![e] = @ - 1]
  /\ IF \E f \in End : refs'[f] # 0
     THEN UNCHANGED ring
     ELSE buf' = EmptyRing(Atomic) /\ head' = 0 /\ len' = 0
  /\ IF refs'[e] = 0 THEN WakeAll ELSE UNCHANGED asleep

\* fakefd_close.
Close(e) ==
  /\ e \in number
  /\ number' = number \ {e}
  /\ Drop(e)
  /\ UNCHANGED << nonblock, call, poll >>

\* F_SETFL and FIONBIO.
SetNonblock(e, b) ==
  /\ e \in number
  /\ nonblock' = [nonblock EXCEPT ![e] = b]
  /\ WakeAll
  /\ UNCHANGED << ring, number, refs, call, poll >>

\* The bytes of the ring, in the order in which they are read.
Contents == [i \in 1..len |-> buf[(head + i - 1) % capacity]]

\* Seeded fault: the bytes move to the front and head stays.
ResizeKeepsHead(n) ==
  /\ n >= len /\ n # capacity
  /\ buf' = [i \in 0..(n - 1) |-> IF i < len THEN Contents[i + 1] ELSE None]
  /\ head' = head % n /\ UNCHANGED len

\* F_SETPIPE_SZ with an argument rounded up to n: the bytes move to the front of
\* a new buffer.
Resize(n) ==
  /\ n >= len /\ n # capacity
  /\ buf' = [i \in 0..(n - 1) |-> IF i < len THEN Contents[i + 1] ELSE None]
  /\ head' = 0 /\ UNCHANGED len

RoundUp(k) == LET n == ((k + Atomic - 1) \div Atomic) * Atomic
              IN IF n < Atomic THEN Atomic ELSE n

SetPipeSize(k) ==
  /\ number # {}
  /\ k \in 1..MaxCapacity
  /\ Resize(RoundUp(k))
  /\ WakeAll
  /\ UNCHANGED << ends, call, poll >>

-----------------------------------------------------------------------------
(* fakefd_operation_write and fakefd_operation_read.                        *)

\* fakefd_operation_acquire, with a size and a buffer.
Begin(t, n) ==
  /\ call[t] = Idle /\ poll[t] = "idle" /\ Side(t) \in number
  /\ call' = [call EXCEPT ![t].size = n]
  /\ refs' = [refs EXCEPT ![Side(t)] = @ + 1]
  /\ UNCHANGED << ring, number, nonblock, poll, asleep >>

Pending(t) == call[t].size # 0 /\ call[t].answer = "none"
Runs(t) == Pending(t) /\ t \notin asleep
Answer(t, answer, data) ==
  call' = [call EXCEPT ![t].answer = answer, ![t].data = data]

Available == capacity - len

\* A write waits for room, a small one for room for all of it.
NoRoom(w) ==
  \/ Available = 0
  \/ /\ call[w].wrote = 0 /\ call[w].size <= Atomic
     /\ Available < call[w].size

\* A call that cannot go on sleeps, or says so if its end is non-blocking.
Wait(t) ==
  /\ IF nonblock[Side(t)]
     THEN /\ Answer(t, IF call[t].wrote = 0 THEN "EAGAIN" ELSE "done", << >>)
          /\ UNCHANGED asleep
     ELSE Sleep(t) /\ UNCHANGED call
  /\ UNCHANGED << ring, ends, poll >>

WriteWaits(w) ==
  /\ Runs(w) /\ refs["read"] # 0 /\ NoRoom(w)
  /\ Wait(w)

WriteBroken(w) ==
  /\ Runs(w) /\ refs["read"] = 0
  /\ Answer(w, IF call[w].wrote = 0 THEN "EPIPE" ELSE "done", << >>)
  /\ UNCHANGED << ring, ends, poll, asleep >>

\* The two memcpy: from the tail to the end of the buffer, then from its start.
CopyIn(w, k) ==
  LET tail == (head + len) % capacity
      first == Least(capacity - tail, k)
  IN buf' = [i \in DOMAIN buf |->
               IF i \in tail..(tail + first - 1)
               THEN << w, call[w].wrote + (i - tail) + 1 >>
               ELSE IF i < k - first THEN << w, call[w].wrote + first + i + 1 >>
               ELSE buf[i]]

\* A piece goes in.  The rest, if any, finds the ring full and sleeps with the
\* same hold of the lock, after everybody else has been woken.
WritePiece(w) ==
  /\ Runs(w) /\ refs["read"] # 0 /\ ~NoRoom(w)
  /\ LET k == Least(call[w].size - call[w].wrote, Available)
         whole == call[w].wrote + k = call[w].size
         returns == whole \/ nonblock["write"]
     IN /\ CopyIn(w, k)
        /\ len' = len + k
        /\ call' = [call EXCEPT ![w].wrote = @ + k,
                                ![w].answer = IF returns THEN "done" ELSE "none"]
        /\ asleep' = IF returns THEN {} ELSE {w}
  /\ UNCHANGED << head, ends, poll >>

ReadWaits(r) ==
  /\ Runs(r) /\ len = 0 /\ refs["write"] # 0
  /\ Wait(r)

\* What is there, or the end of the file.
ReadSome(r) ==
  /\ Runs(r) /\ (len # 0 \/ refs["write"] = 0)
  /\ LET k == Least(call[r].size, len)
     IN /\ Answer(r, "done", [i \in 1..k |-> buf[(head + i - 1) % capacity]])
        /\ head' = (head + k) % capacity
        /\ len' = len - k
        /\ IF k > 0 THEN WakeAll ELSE UNCHANGED asleep
  /\ UNCHANGED << buf, ends, poll >>

\* fakefd_operation_release.
Release(t) ==
  /\ call[t].answer # "none"
  /\ call' = [call EXCEPT ![t] = Idle]
  /\ Drop(Side(t))
  /\ UNCHANGED << number, nonblock, poll >>

-----------------------------------------------------------------------------
(* poll_fake on one end, with an infinite timeout: one that ends is the same *)
(* as no longer asking.                                                     *)

\* fakefd_poll_revents is not 0: POLLIN or POLLHUP, POLLOUT or POLLERR, POLLNVAL.
Ready(e) ==
  \/ e \notin number
  \/ e = "read" /\ (len # 0 \/ refs["write"] = 0)
  \/ e = "write" /\ (refs["read"] = 0 \/ len < capacity)

PollBegin(t) ==
  /\ call[t] = Idle /\ poll[t] = "idle" /\ Side(t) \in number
  /\ poll' = [poll EXCEPT ![t] = "look"]
  /\ UNCHANGED << ring, ends, call, asleep >>

PollLook(t) ==
  /\ poll[t] = "look" /\ t \notin asleep
  /\ poll' = [poll EXCEPT ![t] = IF Ready(Side(t)) THEN "idle" ELSE "wait"]
  /\ UNCHANGED << ring, ends, call, asleep >>

\* fakefd_wait: whatever happened since the look is not noticed.
PollSleep(t) ==
  /\ poll[t] = "wait"
  /\ poll' = [poll EXCEPT ![t] = "look"]
  /\ Sleep(t)
  /\ UNCHANGED << ring, ends, call >>

\* Seeded fault: fakefd_wait ends with a broadcast only.
NoSlice(t) == FALSE /\ UNCHANGED vars

\* POLL_FAKE_SLICE_MS have passed.
SliceEnds(t) ==
  /\ poll[t] = "look" /\ t \in asleep
  /\ asleep' = asleep \ {t}
  /\ UNCHANGED << ring, ends, call, poll >>

-----------------------------------------------------------------------------

Write(w) == WriteWaits(w) \/ WriteBroken(w) \/ WritePiece(w)
Read(r) == ReadWaits(r) \/ ReadSome(r)
Poll(t) == PollLook(t) \/ PollSleep(t)

Next ==
  \/ \E b \in BOOLEAN : Pipe2(b) \/ \E e \in End : SetNonblock(e, b)
  \/ \E e \in End : Close(e)
  \/ \E k \in 1..MaxCapacity : SetPipeSize(k)
  \/ \E t \in Caller : Release(t) \/ \E n \in Sizes(t) : Begin(t, n)
  \/ \E t \in Caller : PollBegin(t) \/ Poll(t) \/ SliceEnds(t)
  \/ \E w \in Writer : Write(w)
  \/ \E r \in Reader : Read(r)

Spec == Init /\ [][Next]_vars

\* A poll runs when it can, and its sleep ends; nobody need read, write or close.
Fairness == \A t \in Caller : WF_vars(Poll(t)) /\ WF_vars(SliceEnds(t))

FairSpec == Spec /\ Fairness

-----------------------------------------------------------------------------
(* Properties.                                                              *)

\* The ring, its growth and its shrinking are invisible: what the two ends see is
\* a stream of bytes, in which small writes are in one piece.
Stream == INSTANCE ByteStream WITH
            stream <- Contents,
            hasReader <- refs["read"] # 0,
            hasWriter <- refs["write"] # 0

ImplementsStream == Stream!Spec

\* A reader sleeps only while there is nothing to read and somebody may write.
ReadersWaitForBytes ==
  \A r \in {r \in Reader \intersect asleep : Pending(r)} :
    len = 0 /\ refs["write"] # 0 /\ ~nonblock["read"]

\* A writer sleeps only while it has no room and somebody may read, and never on
\* an empty ring: no capacity is too small for a small write.
WritersWaitForRoom ==
  \A w \in {w \in Writer \intersect asleep : Pending(w)} :
    len # 0 /\ NoRoom(w) /\ refs["read"] # 0 /\ ~nonblock["write"]

\* No blocked call sleeps through the read, write, close, F_SETFL or F_SETPIPE_SZ
\* that would let it go on.
NoMissedWakeup == ReadersWaitForBytes /\ WritersWaitForRoom

\* A pipe that stays ready is reported to a poll, although it may become so
\* between the look and the wait, when no broadcast is heard.
PollReports ==
  \A t \in Caller : []<>(poll[t] = "idle" \/ ~Ready(Side(t)))

=============================================================================
