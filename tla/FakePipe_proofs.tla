--------------------------- MODULE FakePipe_proofs ---------------------------
(* Theorems about FakePipe for any callers, sizes and capacities: the ring   *)
(* keeps its shape, no blocked call misses its wake-up, and the pipe          *)
(* implements the stream of bytes.                                            *)
EXTENDS FakePipe, FiniteSetTheorems, SequenceTheorems, TLAPS

\* Who holds a reference to an end: its number and the calls on it.
Holders(e) == {t \in Caller : Side(t) = e /\ call[t] # Idle}
Numbers(e) == IF e \in number THEN 1 ELSE 0
References == \A e \in End : refs[e] = Cardinality(Holders(e)) + Numbers(e)

\* How far a call may have come.
CallShape ==
  \A t \in Caller :
    /\ call[t].size = 0 => call[t] = Idle
    /\ t \in Reader => call[t].wrote = 0
    /\ t \in Writer /\ Pending(t) =>
         /\ call[t].wrote < call[t].size
         /\ call[t].size <= Atomic => call[t].wrote = 0

EmptyWhenGone == refs["read"] = 0 /\ refs["write"] = 0 => len = 0

\* A thread is in one call at a time, and sleeps in one.
OneCall ==
  \A t \in Caller :
    /\ call[t] # Idle => poll[t] = "idle"
    /\ t \in asleep => Pending(t) \/ poll[t] = "look"

IInv ==
  /\ TypeOK
  /\ References
  /\ CallShape
  /\ EmptyWhenGone
  /\ OneCall
  /\ NoMissedWakeup

-----------------------------------------------------------------------------
(* Arithmetic of the ring.                                                  *)

\* An index of less than two rounds wraps once.
LEMMA Wrap ==
  ASSUME NEW c \in Nat \ {0}, NEW x \in 0..(c + c - 1)
  PROVE  x % c = IF x < c THEN x ELSE x - c
BY SMT

\* An index of the first round does not.
LEMMA NoWrap == \A n \in Nat \ {0} : \A x \in 0..(n - 1) : x % n = x
BY SMT

\* A capacity is a positive multiple of the atomic size, and so not below it.
LEMMA CapacityAtLeastAtomic ==
  ASSUME NEW n \in Capacity
  PROVE  n \in Nat \ {0} /\ n >= Atomic /\ n <= MaxCapacity
<1>1. n \in Nat \ {0} /\ n <= MaxCapacity /\ n % Atomic = 0
  BY PipeAssumption DEF Capacity
<1>2. n < Atomic => n % Atomic = n
  BY <1>1, PipeAssumption, SMT
<1> QED
  BY <1>1, <1>2, PipeAssumption

\* F_SETPIPE_SZ asks for a capacity, whatever its argument.
LEMMA RoundedUp ==
  ASSUME NEW k \in 1..MaxCapacity
  PROVE  RoundUp(k) \in Capacity
<1> DEFINE q == (k + Atomic - 1) \div Atomic
           m == MaxCapacity \div Atomic
<1>1. Atomic \in Nat \ {0} /\ MaxCapacity \in Nat \ {0} /\ MaxCapacity % Atomic = 0
  BY PipeAssumption
<1>2. q \in Nat \ {0}
  BY <1>1, SMT
<1>3. m \in Nat /\ MaxCapacity = m * Atomic
  BY <1>1, SMT
<1>4. q <= m
  <2>1. q * Atomic <= k + Atomic - 1
    BY <1>1, SMT
  <2>2. q * Atomic < (m + 1) * Atomic
    BY <1>1, <1>3, <2>1, SMT
  <2> QED
    BY <1>1, <1>2, <1>3, <2>2, SMT
<1>5. q * Atomic >= Atomic /\ q * Atomic <= MaxCapacity /\ q * Atomic \in Nat
  BY <1>1, <1>2, <1>3, <1>4, SMT
<1>6. (q * Atomic) % Atomic = 0
  BY <1>1, <1>2, SMT
<1>7. RoundUp(k) = q * Atomic
  BY <1>1, <1>5 DEF RoundUp
<1> QED
  BY <1>1, <1>5, <1>6, <1>7 DEF Capacity

\* The capacity is that of the buffer.
LEMMA CapacityOf ==
  ASSUME NEW n \in Nat, NEW b \in [0..(n - 1) -> Byte]
  PROVE  Cardinality(DOMAIN b) = n
<1>1. Cardinality(0..(n - 1)) = n
  BY FS_Interval, SMT
<1> QED
  BY <1>1

\* What the type of the ring says about it.
LEMMA RingFacts ==
  ASSUME TypeOK
  PROVE  /\ capacity \in Capacity
         /\ capacity \in Nat \ {0} /\ capacity >= Atomic /\ capacity <= MaxCapacity
         /\ buf \in [0..(capacity - 1) -> Byte]
         /\ head \in 0..(capacity - 1)
         /\ len \in 0..capacity
<1>1. PICK n \in Capacity : buf \in [0..(n - 1) -> Byte]
  BY DEF TypeOK
<1>2. n \in Nat \ {0} /\ n >= Atomic /\ n <= MaxCapacity
  BY CapacityAtLeastAtomic
<1>3. capacity = n
  BY <1>1, <1>2, CapacityOf DEF capacity
<1> QED
  BY <1>1, <1>2, <1>3 DEF TypeOK

-----------------------------------------------------------------------------
(* Type correctness.                                                        *)

\* A new buffer of a capacity has the type of a buffer.
LEMMA NewRing ==
  ASSUME NEW n \in Capacity, buf' \in [0..(n - 1) -> Byte],
         head' \in 0..(n - 1), len' \in 0..n
  PROVE  /\ \E m \in Capacity : buf' \in [0..(m - 1) -> Byte]
         /\ head' \in (DOMAIN buf)' /\ len' \in 0..capacity'
<1>1. n \in Nat \ {0}
  BY CapacityAtLeastAtomic
<1>2. Cardinality(DOMAIN buf') = n
  BY <1>1, CapacityOf
<1> QED
  BY <1>1, <1>2 DEF capacity

\* pipe2 and the last release leave a ring of the default capacity.
LEMMA DefaultRing ==
  ASSUME buf' = EmptyRing(Atomic), head' = 0, len' = 0
  PROVE  /\ \E m \in Capacity : buf' \in [0..(m - 1) -> Byte]
         /\ head' \in (DOMAIN buf)' /\ len' \in 0..capacity'
<1>1. Atomic \in Capacity
  <2>1. Atomic \in Nat \ {0} /\ MaxCapacity \in Nat \ {0} /\ MaxCapacity % Atomic = 0
    BY PipeAssumption
  <2>2. Atomic <= MaxCapacity
    <3>1. MaxCapacity < Atomic => MaxCapacity % Atomic = MaxCapacity
      BY <2>1, SMT
    <3> QED
      BY <2>1, <3>1
  <2>3. Atomic % Atomic = 0
    BY <2>1, SMT
  <2> QED
    BY <2>1, <2>2, <2>3 DEF Capacity
<1>2. buf' \in [0..(Atomic - 1) -> Byte] /\ head' \in 0..(Atomic - 1) /\ len' \in 0..Atomic
  BY PipeAssumption DEF EmptyRing, Byte
<1> QED
  BY <1>1, <1>2, NewRing

RingOK ==
  /\ \E n \in Capacity : buf \in [0..(n - 1) -> Byte]
  /\ head \in DOMAIN buf /\ len \in 0..capacity

\* Dropping a reference keeps the types of the ring, the references and the sleepers.
LEMMA DropTyped ==
  ASSUME TypeOK, References, NEW e \in End, refs[e] # 0, Drop(e)
  PROVE  RingOK' /\ refs' \in [End -> Nat] /\ asleep' \subseteq Caller
<1>1. refs' \in [End -> Nat]
  BY DEF TypeOK, Drop
<1>2. asleep' \subseteq Caller
  BY DEF TypeOK, Drop, WakeAll
<1>3. ASSUME \E f \in End : refs'[f] # 0 PROVE RingOK'
  <2>1. RingOK /\ UNCHANGED ring
    BY <1>3 DEF Drop, TypeOK, RingOK
  <2> QED
    BY <2>1 DEF ring, RingOK, capacity
<1>4. ASSUME ~ \E f \in End : refs'[f] # 0 PROVE RingOK'
  <2>1. buf' = EmptyRing(Atomic) /\ head' = 0 /\ len' = 0
    BY <1>4 DEF Drop
  <2> QED
    BY <2>1, DefaultRing DEF RingOK
<1> QED
  BY <1>1, <1>2, <1>3, <1>4

\* What the steps of a call do to its record.
LEMMA CallFields ==
  ASSUME NEW c \in Call
  PROVE  /\ c.size \in 0..MaxSize /\ c.wrote \in 0..MaxSize
         /\ \A n \in 0..MaxSize : [c EXCEPT !.size = n] \in Call
         /\ \A a \in {"none", "done", "EAGAIN", "EPIPE"} :
              /\ \A d \in Seq(Byte) : [c EXCEPT !.answer = a, !.data = d] \in Call
              /\ \A n \in 0..MaxSize : [c EXCEPT !.wrote = n, !.answer = a] \in Call
         /\ << >> \in Seq(Byte)
<1> DEFINE D == Seq(Byte)
<1>1. << >> \in D
  BY EmptySeq
<1> HIDE DEF D
<1>2. Call = [size : 0..MaxSize, wrote : 0..MaxSize, data : D,
              answer : {"none", "done", "EAGAIN", "EPIPE"}]
  BY DEF Call, D
<1>3. \A n \in 0..MaxSize : [c EXCEPT !.size = n] \in Call
  BY <1>2
<1>4. ASSUME NEW a \in {"none", "done", "EAGAIN", "EPIPE"}
      PROVE  /\ \A d \in D : [c EXCEPT !.answer = a, !.data = d] \in Call
             /\ \A n \in 0..MaxSize : [c EXCEPT !.wrote = n, !.answer = a] \in Call
  BY <1>2
<1>5. c.size \in 0..MaxSize /\ c.wrote \in 0..MaxSize
  BY <1>2
<1> QED
  BY <1>1, <1>3, <1>4, <1>5 DEF D

\* An answer is recorded in the call.
LEMMA AnswerTyped ==
  ASSUME TypeOK, NEW t \in Caller, NEW d \in Seq(Byte),
         NEW a \in {"none", "done", "EAGAIN", "EPIPE"}, Answer(t, a, d)
  PROVE  call' \in [Caller -> Call]
<1>1. call \in [Caller -> Call]
  BY DEF TypeOK
<1>2. call' = [call EXCEPT ![t] = [call[t] EXCEPT !.answer = a, !.data = d]]
  BY <1>1 DEF Answer
<1>3. [call[t] EXCEPT !.answer = a, !.data = d] \in Call
  BY <1>1, CallFields
<1> QED
  BY <1>1, <1>2, <1>3

\* A number and a call have a reference each.
LEMMA Referenced ==
  ASSUME IInv, NEW e \in End
  PROVE  /\ Holders(e) \subseteq Caller
         /\ IsFiniteSet(Holders(e)) /\ Cardinality(Holders(e)) \in Nat
         /\ e \in number \/ Holders(e) # {} => refs[e] # 0
<1>1. IsFiniteSet(Caller)
  BY PipeAssumption
<1>2. Holders(e) \subseteq Caller
  BY DEF Holders
<1>3. IsFiniteSet(Holders(e)) /\ Cardinality(Holders(e)) \in Nat
  BY <1>1, <1>2, FS_Subset, FS_CardinalityType
<1>4. Holders(e) # {} => Cardinality(Holders(e)) # 0
  BY <1>3, FS_EmptySet
<1>5. refs[e] = Cardinality(Holders(e)) + Numbers(e)
  BY DEF IInv, References
<1> QED
  BY <1>2, <1>3, <1>4, <1>5 DEF Numbers

\* Every action keeps the types.
LEMMA TypeStep == IInv /\ [Next]_vars => TypeOK'
<1> SUFFICES ASSUME IInv, [Next]_vars PROVE TypeOK'
  OBVIOUS
<1> USE DEF IInv
<1>ty. TypeOK /\ References /\ CallShape
  OBVIOUS
<1>rg. RingOK
  BY DEF TypeOK, RingOK
<1>idle. Idle \in Call
  BY PipeAssumption DEF Idle, Call
<1>side. \A t \in Caller : Side(t) \in End
  BY DEF Side, End
<1>1. ASSUME NEW b \in BOOLEAN, Pipe2(b) PROVE TypeOK'
  <2>1. RingOK'
    BY <1>1, DefaultRing DEF Pipe2, RingOK
  <2> QED
    BY <1>1, <2>1 DEF Pipe2, TypeOK, RingOK
<1>2. ASSUME NEW e \in End, NEW b \in BOOLEAN, SetNonblock(e, b) PROVE TypeOK'
  BY <1>2 DEF SetNonblock, TypeOK, ring, WakeAll, capacity
<1>3. ASSUME NEW e \in End, Close(e) PROVE TypeOK'
  <2>1. refs[e] # 0 /\ Drop(e)
    BY <1>3, Referenced DEF Close
  <2>2. RingOK' /\ refs' \in [End -> Nat] /\ asleep' \subseteq Caller
    BY <2>1, DropTyped
  <2> QED
    BY <1>3, <2>2 DEF Close, TypeOK, RingOK
<1>4. ASSUME NEW k \in 1..MaxCapacity, SetPipeSize(k) PROVE TypeOK'
  <2> DEFINE n == RoundUp(k)
  <2>1. n \in Capacity /\ n \in Nat \ {0}
    BY RoundedUp, CapacityAtLeastAtomic
  <2>2. len \in Nat /\ n >= len
    BY <1>4, RingFacts DEF SetPipeSize, Resize
  <2>3. \A i \in 1..len : Contents[i] \in Byte
    BY RingFacts DEF Contents
  <2>4. buf' \in [0..(n - 1) -> Byte]
    <3>1. \A i \in 0..(n - 1) : (IF i < len THEN Contents[i + 1] ELSE None) \in Byte
      BY <2>1, <2>2, <2>3 DEF Byte
    <3> QED
      BY <1>4, <3>1 DEF SetPipeSize, Resize
  <2>5. RingOK'
    BY <1>4, <2>1, <2>2, <2>4, NewRing DEF SetPipeSize, Resize, RingOK
  <2> QED
    BY <1>4, <2>5 DEF SetPipeSize, Resize, ends, WakeAll, TypeOK, RingOK
<1>5. ASSUME NEW t \in Caller, NEW n \in Size, Begin(t, n) PROVE TypeOK'
  <2>1. [call[t] EXCEPT !.size = n] \in Call
    <3>1. n \in 0..MaxSize
      BY PipeAssumption DEF Size
    <3>2. call[t] \in Call
      BY DEF TypeOK
    <3> QED
      BY <3>1, <3>2, CallFields
  <2> QED
    BY <1>5, <1>side, <2>1 DEF Begin, TypeOK, ring, capacity
<1>6. ASSUME NEW t \in Caller, Release(t) PROVE TypeOK'
  <2>1. t \in Holders(Side(t))
    BY <1>6 DEF Release, Holders, Idle
  <2>2. Side(t) \in End /\ refs[Side(t)] # 0 /\ Drop(Side(t))
    BY <1>6, <1>side, <2>1, Referenced DEF Release
  <2>3. RingOK' /\ refs' \in [End -> Nat] /\ asleep' \subseteq Caller
    BY <2>2, DropTyped
  <2> QED
    BY <1>6, <1>idle, <2>3 DEF Release, TypeOK, RingOK
<1>7. ASSUME NEW t \in Caller, Wait(t) PROVE TypeOK'
  <2>1. call' \in [Caller -> Call]
    BY <1>7, AnswerTyped, EmptySeq DEF Wait, TypeOK
  <2> QED
    BY <1>7, <2>1 DEF Wait, Sleep, TypeOK, ring, ends, capacity
<1>8. ASSUME NEW w \in Writer, WriteBroken(w) PROVE TypeOK'
  <2>1. call' \in [Caller -> Call]
    BY <1>8, AnswerTyped, EmptySeq DEF WriteBroken, Caller
  <2> QED
    BY <1>8, <2>1 DEF WriteBroken, TypeOK, ring, ends, capacity
<1>9. ASSUME NEW w \in Writer, WritePiece(w) PROVE TypeOK'
  <2> DEFINE k == Least(call[w].size - call[w].wrote, Available)
  <2>1. w \in Caller /\ call[w] \in Call
    BY DEF Caller, TypeOK
  <2>2. call[w].wrote < call[w].size /\ Available # 0
    BY <1>9, <2>1 DEF WritePiece, Runs, CallShape, NoRoom
  <2>3. k \in 1..Available /\ call[w].wrote + k \in 1..call[w].size /\ Available \in Nat
    BY SMTT(30), <2>1, <2>2, RingFacts DEF Call, Least, Available
  <2>4. call[w].wrote \in Nat /\ call[w].wrote + k \in 1..MaxSize
    <3> DEFINE m == call[w].wrote + k
    <3>1. call[w].size \in 0..MaxSize /\ call[w].wrote \in 0..MaxSize
      BY <2>1, CallFields
    <3>2. MaxSize \in Nat
      BY PipeAssumption
    <3>3. m \in 1..call[w].size
      BY <2>3
    <3> HIDE DEF m
    <3>4. m \in 1..MaxSize
      BY <3>1, <3>2, <3>3
    <3> QED
      BY <3>1, <3>2, <3>4 DEF m
  <2>5. call' \in [Caller -> Call]
    <3> DEFINE a == IF call[w].wrote + k = call[w].size \/ nonblock["write"]
                    THEN "done" ELSE "none"
    <3>1. call \in [Caller -> Call]
      BY DEF TypeOK
    <3>2. call' = [call EXCEPT ![w] =
                     [call[w] EXCEPT !.wrote = call[w].wrote + k, !.answer = a]]
      BY <1>9, <2>1, <3>1 DEF WritePiece
    <3>3. call[w].wrote + k \in 0..MaxSize
      BY <2>4
    <3>4. a \in {"none", "done", "EAGAIN", "EPIPE"}
      OBVIOUS
    <3>5. [call[w] EXCEPT !.wrote = call[w].wrote + k, !.answer = a] \in Call
      BY <2>1, <3>3, <3>4, CallFields
    <3> QED
      BY <3>1, <3>2, <3>5
  <2>6. buf' \in [0..(capacity - 1) -> Byte]
    <3> DEFINE tail == (head + len) % capacity
               first == Least(capacity - tail, k)
    <3>1. tail \in 0..(capacity - 1)
      BY RingFacts, SMT
    <3>2. first \in 0..k /\ first \in Nat
      BY <2>3, <3>1, RingFacts DEF Least
    <3>3. ASSUME NEW i \in 0..(capacity - 1)
          PROVE  (IF i \in tail..(tail + first - 1)
                  THEN << w, call[w].wrote + (i - tail) + 1 >>
                  ELSE IF i < k - first THEN << w, call[w].wrote + first + i + 1 >>
                  ELSE buf[i]) \in Byte
      <4> DEFINE p == call[w].wrote
      <4>1. p \in Nat /\ p + k \in 1..MaxSize
        BY <2>4
      <4>2. i \in tail..(tail + first - 1) => p + (i - tail) + 1 \in Size
        BY <2>3, <3>1, <3>2, <4>1, PipeAssumption DEF Size
      <4>3. i < k - first => p + first + i + 1 \in Size
        BY <2>3, <3>1, <3>2, <4>1, PipeAssumption DEF Size
      <4>4. buf[i] \in Byte
        BY RingFacts
      <4> QED
        BY <4>2, <4>3, <4>4 DEF Byte
    <3>4. DOMAIN buf = 0..(capacity - 1)
      BY RingFacts
    <3> QED
      BY <1>9, <3>3, <3>4 DEF WritePiece, CopyIn
  <2>7. RingOK'
    <3>1. len' \in 0..capacity /\ head' \in 0..(capacity - 1)
      BY <1>9, <2>3, RingFacts DEF WritePiece, Available
    <3> QED
      BY <2>6, <3>1, RingFacts, NewRing DEF RingOK
  <2> QED
    BY <1>9, <2>1, <2>5, <2>7 DEF WritePiece, TypeOK, RingOK, ends
<1>10. ASSUME NEW r \in Reader, ReadSome(r) PROVE TypeOK'
  <2> DEFINE k == Least(call[r].size, len)
  <2>1. r \in Caller /\ call[r] \in Call
    BY DEF Caller, TypeOK
  <2>2. k \in 0..len
    BY <2>1, RingFacts DEF Call, Least
  <2>3. [i \in 1..k |-> buf[(head + i - 1) % capacity]] \in Seq(Byte)
    <3>1. \A i \in 1..k : buf[(head + i - 1) % capacity] \in Byte
      BY <2>2, RingFacts, SMT
    <3> QED
      BY <2>2, <3>1, RingFacts, SMT
  <2>4. call' \in [Caller -> Call]
    BY <1>10, <2>1, <2>3 DEF ReadSome, Answer, TypeOK, Call
  <2>5. head' \in 0..(capacity - 1) /\ len' \in 0..capacity
    BY <1>10, <2>2, RingFacts, SMT DEF ReadSome
  <2> QED
    BY <1>10, <2>4, <2>5, RingFacts DEF ReadSome, TypeOK, ends, WakeAll, capacity
<1>11. ASSUME NEW t \in Caller, PollBegin(t) \/ Poll(t) \/ SliceEnds(t) PROVE TypeOK'
  BY <1>11 DEF PollBegin, Poll, PollLook, PollSleep, SliceEnds, Sleep, TypeOK,
               ring, ends, capacity
<1>12. ASSUME UNCHANGED vars PROVE TypeOK'
  BY <1>12 DEF vars, ring, ends, TypeOK, capacity
<1>13. ASSUME NEW w \in Writer, Write(w) PROVE TypeOK'
  BY <1>13, <1>7, <1>8, <1>9 DEF Write, WriteWaits, Caller
<1>14. ASSUME NEW r \in Reader, Read(r) PROVE TypeOK'
  BY <1>14, <1>7, <1>10 DEF Read, ReadWaits, Caller
<1>15. ASSUME NEW t \in Caller, NEW n \in Sizes(t) PROVE n \in Size
  BY <1>15, PipeAssumption DEF Sizes, Size
<1> QED
  BY <1>1, <1>2, <1>3, <1>4, <1>5, <1>6, <1>11, <1>12, <1>13, <1>14, <1>15 DEF Next
-----------------------------------------------------------------------------
(* The other parts of the invariant.                                        *)

\* What each step of a call does to the record of that call, and only to it.
LEMMA AnswerMoves ==
  ASSUME TypeOK, NEW t \in Caller, NEW a, NEW d, Answer(t, a, d)
  PROVE  /\ \A u \in Caller \ {t} : call'[u] = call[u]
         /\ call'[t] = [call[t] EXCEPT !.answer = a, !.data = d]
         /\ call'[t].size = call[t].size /\ call'[t].wrote = call[t].wrote
         /\ call'[t].answer = a /\ call'[t].data = d
<1>1. call \in [Caller -> Call]
  BY DEF TypeOK
<1>2. call[t] \in [size : 0..MaxSize, wrote : 0..MaxSize, data : Seq(Byte),
                   answer : {"none", "done", "EAGAIN", "EPIPE"}]
  BY <1>1 DEF Call
<1>3. call' = [call EXCEPT ![t] = [call[t] EXCEPT !.answer = a, !.data = d]]
  BY <1>1 DEF Answer
<1> QED
  BY <1>1, <1>2, <1>3

\* The bytes of a piece are counted, and the last one ends the call.
LEMMA PieceMoves ==
  ASSUME IInv, NEW w \in Writer, WritePiece(w)
  PROVE  LET k == Least(call[w].size - call[w].wrote, Available)
             returns == call[w].wrote + k = call[w].size \/ nonblock["write"]
         IN /\ w \in Caller /\ call[w].wrote \in Nat /\ call[w].size \in Nat
            /\ call[w].wrote < call[w].size
            /\ k \in Nat \ {0} /\ k <= Available /\ call[w].wrote + k <= call[w].size
            /\ call[w].wrote + k < call[w].size => k = Available
            /\ call[w].size <= Atomic => call[w].wrote = 0 /\ k = call[w].size
            /\ \A u \in Caller \ {w} : call'[u] = call[u]
            /\ call'[w] = [call[w] EXCEPT !.wrote = call[w].wrote + k,
                                         !.answer = IF returns THEN "done" ELSE "none"]
            /\ call'[w].size = call[w].size /\ call'[w].wrote = call[w].wrote + k
            /\ call'[w].answer = IF returns THEN "done" ELSE "none"
<1> DEFINE k == Least(call[w].size - call[w].wrote, Available)
           a == IF call[w].wrote + k = call[w].size \/ nonblock["write"]
                THEN "done" ELSE "none"
<1>1. w \in Caller /\ call \in [Caller -> Call] /\ call[w] \in Call
  BY DEF Caller, IInv, TypeOK
<1>2. call[w].wrote \in Nat /\ call[w].size \in Nat
  <2>1. MaxSize \in Nat
    BY PipeAssumption
  <2>2. call[w].wrote \in 0..MaxSize /\ call[w].size \in 0..MaxSize
    BY <1>1, CallFields
  <2> QED
    BY <2>1, <2>2
<1>3. call[w].wrote < call[w].size /\ (call[w].size <= Atomic => call[w].wrote = 0)
  BY <1>1 DEF WritePiece, Runs, IInv, CallShape
<1>4. Available \in Nat /\ Available # 0
  BY RingFacts DEF WritePiece, NoRoom, Available, IInv
<1>5. call[w].size <= Atomic => call[w].size <= Available
  BY <1>2, <1>3, <1>4 DEF WritePiece, NoRoom
<1>6. /\ k \in Nat \ {0} /\ k <= Available /\ call[w].wrote + k <= call[w].size
      /\ call[w].wrote + k < call[w].size => k = Available
      /\ call[w].size <= Atomic => call[w].wrote = 0 /\ k = call[w].size
  BY <1>2, <1>3, <1>4, <1>5 DEF Least
<1>7. call[w] \in [size : 0..MaxSize, wrote : 0..MaxSize, data : Seq(Byte),
                   answer : {"none", "done", "EAGAIN", "EPIPE"}]
  BY <1>1 DEF Call
<1>8. call' = [call EXCEPT ![w] =
                 [call[w] EXCEPT !.wrote = call[w].wrote + k, !.answer = a]]
  BY <1>1 DEF WritePiece
<1> HIDE DEF k, a
<1>9. /\ \A u \in Caller \ {w} : call'[u] = call[u]
      /\ call'[w] = [call[w] EXCEPT !.wrote = call[w].wrote + k, !.answer = a]
      /\ call'[w].size = call[w].size /\ call'[w].wrote = call[w].wrote + k
      /\ call'[w].answer = a
  BY <1>1, <1>7, <1>8
<1> QED
  BY <1>1, <1>2, <1>3, <1>6, <1>9 DEF k, a

\* A call that is answered, or waits, keeps its reference.
LEMMA StillHeld ==
  ASSUME IInv, NEW t \in Caller, Pending(t), call'[t].size = call[t].size,
         \A u \in Caller \ {t} : call'[u] = call[u],
         UNCHANGED << number, refs >>
  PROVE  References'
<1>1. call[t] # Idle /\ call'[t] # Idle
  BY DEF Pending, Idle
<1>2. \A e \in End : Holders(e)' = Holders(e)
  BY <1>1 DEF Holders
<1> QED
  BY <1>2 DEF IInv, References, Numbers

\* A step that changes no call and no number keeps the references.
LEMMA SameHolders ==
  ASSUME IInv, UNCHANGED << call, number, refs >>
  PROVE  References'
<1>1. \A e \in End : Holders(e)' = Holders(e)
  BY DEF Holders
<1> QED
  BY <1>1 DEF IInv, References, Numbers

\* A thread that waits has the call unchanged, or answered.
LEMMA WaitMoves ==
  ASSUME TypeOK, NEW t \in Caller, Wait(t)
  PROVE  \/ /\ nonblock[Side(t)] /\ UNCHANGED asleep
            /\ Answer(t, IF call[t].wrote = 0 THEN "EAGAIN" ELSE "done", << >>)
            /\ call'[t].size = call[t].size
            /\ \A u \in Caller \ {t} : call'[u] = call[u]
         \/ ~nonblock[Side(t)] /\ UNCHANGED call /\ asleep' = asleep \union {t}
<1>1. CASE nonblock[Side(t)]
  <2>1. Answer(t, IF call[t].wrote = 0 THEN "EAGAIN" ELSE "done", << >>)
    BY <1>1 DEF Wait
  <2>2. /\ call'[t].size = call[t].size
        /\ \A u \in Caller \ {t} : call'[u] = call[u]
    BY <2>1, AnswerMoves
  <2> QED
    BY <1>1, <2>1, <2>2 DEF Wait
<1>2. CASE ~nonblock[Side(t)]
  BY <1>2 DEF Wait, Sleep
<1> QED
  BY <1>1, <1>2

\* The references are those of the numbers and the calls.
LEMMA ReferencesStep == IInv /\ [Next]_vars => References'
<1> SUFFICES ASSUME IInv, [Next]_vars PROVE References'
  OBVIOUS
<1>ty. TypeOK /\ References
  BY DEF IInv
<1>fin. \A e \in End : IsFiniteSet(Holders(e)) /\ Cardinality(Holders(e)) \in Nat
  BY Referenced
<1>side. \A t \in Caller : Side(t) \in End
  BY DEF Side, End
<1>1. ASSUME NEW b \in BOOLEAN, Pipe2(b) PROVE References'
  <2>1. \A e \in End : Holders(e) = {} /\ Holders(e)' = Holders(e)
    BY <1>1, Referenced DEF Pipe2, Holders
  <2>2. Cardinality({}) = 0
    BY FS_EmptySet
  <2>3. \A e \in End : Cardinality(Holders(e)') = 0
    BY <2>1, <2>2
  <2>4. \A e \in End : refs'[e] = 1 /\ Numbers(e)' = 1
    BY <1>1 DEF Pipe2, Numbers
  <2> QED
    BY <2>3, <2>4 DEF References
<1>2. ASSUME NEW e \in End, NEW b \in BOOLEAN, SetNonblock(e, b) PROVE References'
  BY <1>2, SameHolders DEF SetNonblock
<1>3. ASSUME NEW e \in End, Close(e) PROVE References'
  <2>1. \A f \in End : Holders(f)' = Holders(f)
    BY <1>3 DEF Close, Holders
  <2>2. refs' = [refs EXCEPT ![e] = @ - 1] /\ e \in number /\ number' = number \ {e}
    BY <1>3 DEF Close, Drop
  <2>3. ASSUME NEW f \in End PROVE refs'[f] = Cardinality(Holders(f)') + Numbers(f)'
    <3>1. refs[f] = Cardinality(Holders(f)) + Numbers(f)
      BY <1>ty DEF References
    <3>2. refs \in [End -> Nat]
      BY <1>ty DEF TypeOK
    <3>3. Cardinality(Holders(f)') = Cardinality(Holders(f))
      BY <2>1
    <3>4. CASE f = e
      BY <1>fin, <2>2, <3>1, <3>2, <3>3, <3>4 DEF Numbers
    <3>5. CASE f # e
      BY <1>fin, <2>2, <3>1, <3>2, <3>3, <3>5 DEF Numbers
    <3> QED
      BY <3>4, <3>5
  <2> QED
    BY <2>3 DEF References
<1>4. ASSUME NEW k \in 1..MaxCapacity, SetPipeSize(k) PROVE References'
  BY <1>4, SameHolders DEF SetPipeSize, ends
<1>5. ASSUME NEW t \in Caller, NEW n \in Size, Begin(t, n) PROVE References'
  <2> DEFINE s == Side(t)
  <2>1. s \in End /\ refs' = [refs EXCEPT ![s] = @ + 1] /\ refs \in [End -> Nat]
    BY <1>5, <1>side, <1>ty DEF Begin, TypeOK
  <2>2. call \in [Caller -> Call] /\ n # 0
    BY <1>ty DEF TypeOK, Size
  <2>3. call[t] = Idle /\ call'[t] # Idle /\ \A u \in Caller \ {t} : call'[u] = call[u]
    BY <1>5, <2>2 DEF Begin, Idle
  <2>4. t \notin Holders(s) /\ Holders(s)' = Holders(s) \union {t}
    BY <2>3 DEF Holders
  <2>5. \A f \in End \ {s} : Holders(f)' = Holders(f)
    BY <2>3 DEF Holders
  <2>6. Cardinality(Holders(s)') = Cardinality(Holders(s)) + 1
    BY <1>fin, <2>1, <2>4, FS_AddElement
  <2>7. \A f \in End : Numbers(f)' = Numbers(f) /\ Numbers(f) \in Nat
    BY <1>5 DEF Begin, Numbers
  <2> HIDE DEF s
  <2>8. ASSUME NEW f \in End PROVE refs'[f] = Cardinality(Holders(f)') + Numbers(f)'
    <3>1. refs[f] = Cardinality(Holders(f)) + Numbers(f)
      BY <1>ty DEF References
    <3>2. CASE f = s
      BY <1>fin, <2>1, <2>6, <2>7, <3>1, <3>2
    <3>3. CASE f # s
      BY <2>1, <2>5, <2>7, <3>1, <3>3
    <3> QED
      BY <3>2, <3>3
  <2> QED
    BY <2>8 DEF References
<1>6. ASSUME NEW t \in Caller, Release(t) PROVE References'
  <2> DEFINE s == Side(t)
  <2>1. s \in End /\ refs' = [refs EXCEPT ![s] = @ - 1] /\ refs \in [End -> Nat]
    BY <1>6, <1>side, <1>ty DEF Release, Drop, TypeOK
  <2>2. call \in [Caller -> Call]
    BY <1>ty DEF TypeOK
  <2>3. call[t] # Idle /\ call'[t] = Idle /\ \A u \in Caller \ {t} : call'[u] = call[u]
    BY <1>6, <2>2 DEF Release, Idle
  <2>4. t \in Holders(s) /\ Holders(s)' = Holders(s) \ {t}
    BY <2>3 DEF Holders
  <2>5. \A f \in End \ {s} : Holders(f)' = Holders(f)
    BY <2>3 DEF Holders
  <2>6. Cardinality(Holders(s)') = Cardinality(Holders(s)) - 1
    BY <1>fin, <2>1, <2>4, FS_RemoveElement
  <2>7. \A f \in End : Numbers(f)' = Numbers(f) /\ Numbers(f) \in Nat
    BY <1>6 DEF Release, Numbers
  <2> HIDE DEF s
  <2>8. ASSUME NEW f \in End PROVE refs'[f] = Cardinality(Holders(f)') + Numbers(f)'
    <3>1. refs[f] = Cardinality(Holders(f)) + Numbers(f)
      BY <1>ty DEF References
    <3>2. CASE f = s
      BY <1>fin, <2>1, <2>6, <2>7, <3>1, <3>2
    <3>3. CASE f # s
      BY <2>1, <2>5, <2>7, <3>1, <3>3
    <3> QED
      BY <3>2, <3>3
  <2> QED
    BY <2>8 DEF References
<1>7. ASSUME NEW t \in Caller, Pending(t), Wait(t) PROVE References'
  <2>1. UNCHANGED << number, refs >>
    BY <1>7 DEF Wait, ends
  <2> QED
    BY <1>7, <1>ty, <2>1, WaitMoves, StillHeld, SameHolders
<1>8. ASSUME NEW w \in Writer, WriteBroken(w) PROVE References'
  <2>1. UNCHANGED << number, refs >> /\ w \in Caller /\ Pending(w)
    BY <1>8 DEF WriteBroken, Runs, ends, Caller
  <2> QED
    BY <1>8, <1>ty, <2>1, AnswerMoves, StillHeld DEF WriteBroken
<1>9. ASSUME NEW w \in Writer, WritePiece(w) PROVE References'
  <2>1. UNCHANGED << number, refs >> /\ w \in Caller /\ Pending(w)
    BY <1>9 DEF WritePiece, Runs, ends, Caller
  <2> QED
    BY <1>9, <2>1, PieceMoves, StillHeld
<1>10. ASSUME NEW r \in Reader, ReadSome(r) PROVE References'
  <2>1. UNCHANGED << number, refs >> /\ r \in Caller /\ Pending(r)
    BY <1>10 DEF ReadSome, Runs, ends, Caller
  <2> QED
    BY <1>10, <1>ty, <2>1, AnswerMoves, StillHeld DEF ReadSome
<1>11. ASSUME NEW t \in Caller, PollBegin(t) \/ Poll(t) \/ SliceEnds(t) PROVE References'
  BY <1>11, SameHolders DEF PollBegin, Poll, PollLook, PollSleep, SliceEnds, ends
<1>12. ASSUME UNCHANGED vars PROVE References'
  BY <1>12, SameHolders DEF vars, ends
<1>13. ASSUME NEW w \in Writer, Write(w) PROVE References'
  BY <1>13, <1>7, <1>8, <1>9 DEF Write, WriteWaits, Runs, Caller
<1>14. ASSUME NEW r \in Reader, Read(r) PROVE References'
  BY <1>14, <1>7, <1>10 DEF Read, ReadWaits, Runs, Caller
<1>15. ASSUME NEW t \in Caller, NEW n \in Sizes(t) PROVE n \in Size
  BY <1>15, PipeAssumption DEF Sizes, Size
<1> QED
  BY <1>1, <1>2, <1>3, <1>4, <1>5, <1>6, <1>11, <1>12, <1>13, <1>14, <1>15 DEF Next

\* What an answer leaves: the call is no longer pending, the others are as before.
LEMMA Answered ==
  ASSUME IInv, NEW t \in Caller, NEW a \in {"done", "EAGAIN", "EPIPE"}, NEW d,
         Pending(t), Answer(t, a, d)
  PROVE  /\ ~Pending(t)' /\ call'[t].size # 0 /\ call[t] # Idle
         /\ call'[t].size = call[t].size /\ call'[t].wrote = call[t].wrote
         /\ \A u \in Caller \ {t} : call'[u] = call[u] /\ Pending(u)' = Pending(u)
<1>1. /\ \A u \in Caller \ {t} : call'[u] = call[u]
      /\ call'[t].size = call[t].size /\ call'[t].wrote = call[t].wrote
      /\ call'[t].answer = a
  BY AnswerMoves DEF IInv
<1>2. call[t].size # 0 /\ call[t] # Idle /\ a # "none"
  BY DEF Pending, Idle
<1> QED
  BY <1>1, <1>2 DEF Pending

\* A wait is an answer or a sleep.
LEMMA Waits ==
  ASSUME IInv, NEW t \in Caller, Runs(t), Wait(t)
  PROVE  /\ UNCHANGED << ring, ends, poll >>
         /\ \/ /\ nonblock[Side(t)] /\ UNCHANGED asleep
               /\ \E a \in {"done", "EAGAIN"} : Answer(t, a, << >>)
            \/ ~nonblock[Side(t)] /\ UNCHANGED call /\ asleep' = asleep \union {t}
BY DEF Wait, Sleep

\* The records of the calls keep their shape.
LEMMA CallShapeStep == IInv /\ [Next]_vars => CallShape'
<1> SUFFICES ASSUME IInv, [Next]_vars PROVE CallShape'
  OBVIOUS
<1>ty. TypeOK /\ CallShape /\ call \in [Caller -> Call]
  BY DEF IInv, TypeOK
<1> DEFINE Good(u) ==
      /\ call[u].size = 0 => call[u] = Idle
      /\ u \in Reader => call[u].wrote = 0
      /\ u \in Writer /\ Pending(u) =>
           /\ call[u].wrote < call[u].size
           /\ call[u].size <= Atomic => call[u].wrote = 0
<1>def. \A u \in Caller : Good(u)
  BY <1>ty DEF CallShape
<1>same. ASSUME UNCHANGED call PROVE CallShape'
  BY <1>same, <1>def DEF CallShape, Pending
<1>ans. ASSUME NEW t \in Caller, Pending(t),
               NEW a \in {"done", "EAGAIN", "EPIPE"}, NEW d, Answer(t, a, d)
        PROVE  CallShape'
  <2>1. /\ ~Pending(t)' /\ call'[t].size # 0 /\ call'[t].wrote = call[t].wrote
        /\ \A u \in Caller \ {t} : call'[u] = call[u] /\ Pending(u)' = Pending(u)
    BY <1>ans, Answered
  <2> QED
    BY <1>def, <2>1 DEF CallShape
<1>wait. ASSUME NEW t \in Caller, Runs(t), Wait(t) PROVE CallShape'
  BY <1>wait, <1>ans, <1>same, Waits DEF Runs
<1>1. ASSUME NEW t \in Caller, NEW n \in Size, Begin(t, n) PROVE CallShape'
  <2>1. n \in Nat \ {0} /\ Idle.wrote = 0
    BY PipeAssumption DEF Size, Idle
  <2>2. /\ \A u \in Caller \ {t} : call'[u] = call[u] /\ Pending(u)' = Pending(u)
        /\ call'[t].size = n /\ call'[t].wrote = 0
    BY <1>1, <1>ty DEF Begin, Idle, Pending
  <2> QED
    BY <1>def, <2>1, <2>2 DEF CallShape
<1>2. ASSUME NEW t \in Caller, Release(t) PROVE CallShape'
  <2>1. /\ \A u \in Caller \ {t} : call'[u] = call[u] /\ Pending(u)' = Pending(u)
        /\ call'[t] = Idle /\ ~Pending(t)' /\ Idle.wrote = 0
    BY <1>2, <1>ty DEF Release, Idle, Pending
  <2> QED
    BY <1>def, <2>1 DEF CallShape
<1>3. ASSUME NEW w \in Writer, WritePiece(w) PROVE CallShape'
  <2>0. w \in Caller /\ w \notin Reader
    BY PipeAssumption DEF Caller
  <2>1. /\ \A u \in Caller \ {w} : call'[u] = call[u] /\ Pending(u)' = Pending(u)
        /\ call'[w].size # 0
        /\ Pending(w)' => call'[w].wrote < call'[w].size /\ ~(call'[w].size <= Atomic)
    <3> DEFINE k == Least(call[w].size - call[w].wrote, Available)
    <3>1. /\ call[w].wrote \in Nat /\ call[w].size \in Nat /\ k \in Nat \ {0}
          /\ call[w].wrote + k <= call[w].size
          /\ call[w].size <= Atomic => call[w].wrote = 0 /\ k = call[w].size
          /\ \A u \in Caller \ {w} : call'[u] = call[u]
          /\ call'[w].size = call[w].size /\ call'[w].wrote = call[w].wrote + k
          /\ call[w].wrote + k = call[w].size => call'[w].answer = "done"
      BY <1>3, PieceMoves
    <3> HIDE DEF k
    <3> QED
      BY <3>1 DEF Pending
  <2> QED
    BY <1>def, <2>0, <2>1 DEF CallShape
<1>4. ASSUME NEW w \in Writer, Write(w) PROVE CallShape'
  BY <1>4, <1>wait, <1>ans, <1>3 DEF Write, WriteWaits, WriteBroken, Runs, Caller
<1>5. ASSUME NEW r \in Reader, Read(r) PROVE CallShape'
  BY <1>5, <1>wait, <1>ans DEF Read, ReadWaits, ReadSome, Runs, Caller
<1>6. ASSUME NEW t \in Caller, PollBegin(t) \/ Poll(t) \/ SliceEnds(t) PROVE CallShape'
  BY <1>6, <1>same DEF PollBegin, Poll, PollLook, PollSleep, SliceEnds
<1>7. ASSUME NEW t \in Caller, NEW n \in Sizes(t) PROVE n \in Size
  BY <1>7, PipeAssumption DEF Sizes, Size
<1>8. ASSUME \/ \E b \in BOOLEAN : Pipe2(b) \/ \E e \in End : SetNonblock(e, b)
             \/ \E e \in End : Close(e)
             \/ \E k \in 1..MaxCapacity : SetPipeSize(k)
             \/ UNCHANGED vars
      PROVE  CallShape'
  BY <1>8, <1>same DEF Pipe2, SetNonblock, Close, SetPipeSize, vars
<1> QED
  BY <1>1, <1>2, <1>4, <1>5, <1>6, <1>7, <1>8 DEF Next

\* The last reference empties the ring, and nobody fills it without one.
LEMMA EmptyStep == IInv /\ [Next]_vars => EmptyWhenGone'
<1> SUFFICES ASSUME IInv, [Next]_vars PROVE EmptyWhenGone'
  OBVIOUS
<1>ty. TypeOK /\ EmptyWhenGone /\ refs \in [End -> Nat] /\ len \in Nat
  BY RingFacts DEF IInv, TypeOK
<1>same. ASSUME UNCHANGED << len, refs >> PROVE EmptyWhenGone'
  BY <1>same, <1>ty DEF EmptyWhenGone
<1>drop. ASSUME NEW e \in End, Drop(e) PROVE EmptyWhenGone'
  BY <1>drop DEF Drop, EmptyWhenGone, End
<1>side. \A t \in Caller : Side(t) \in End
  BY DEF Side, End
<1>1. ASSUME NEW b \in BOOLEAN, Pipe2(b) PROVE EmptyWhenGone'
  BY <1>1 DEF Pipe2, EmptyWhenGone
<1>2. ASSUME NEW t \in Caller, NEW n \in Size, Begin(t, n) PROVE EmptyWhenGone'
  BY <1>2, <1>side, <1>ty DEF Begin, EmptyWhenGone, End
<1>3. ASSUME NEW w \in Writer, Write(w) PROVE EmptyWhenGone'
  BY <1>3, <1>same DEF Write, WriteWaits, WriteBroken, WritePiece, Wait, ring, ends,
                       EmptyWhenGone
<1>4. ASSUME NEW r \in Reader, Read(r) PROVE EmptyWhenGone'
  <2>1. CASE ReadWaits(r)
    BY <2>1, <1>same DEF ReadWaits, Wait, ring, ends
  <2>2. CASE ReadSome(r)
    <3>1. r \in Caller /\ Side(r) = "read" /\ call[r] # Idle
      BY <2>2, PipeAssumption DEF ReadSome, Runs, Pending, Idle, Caller, Side
    <3>2. refs["read"] # 0
      BY <3>1, Referenced DEF Holders, End
    <3> QED
      BY <2>2, <3>2 DEF ReadSome, ends, EmptyWhenGone
  <2> QED
    BY <1>4, <2>1, <2>2 DEF Read
<1>5. ASSUME NEW t \in Caller, PollBegin(t) \/ Poll(t) \/ SliceEnds(t) PROVE EmptyWhenGone'
  BY <1>5, <1>same DEF PollBegin, Poll, PollLook, PollSleep, SliceEnds, ring, ends
<1>6. ASSUME \/ \E b \in BOOLEAN, e \in End : SetNonblock(e, b)
             \/ \E k \in 1..MaxCapacity : SetPipeSize(k)
             \/ UNCHANGED vars
      PROVE  EmptyWhenGone'
  BY <1>6, <1>same DEF SetNonblock, SetPipeSize, Resize, vars, ring, ends
<1>7. ASSUME NEW t \in Caller, Release(t) PROVE EmptyWhenGone'
  BY <1>7, <1>side, <1>drop DEF Release
<1>8. ASSUME NEW e \in End, Close(e) PROVE EmptyWhenGone'
  BY <1>8, <1>drop DEF Close
<1>9. ASSUME NEW t \in Caller, NEW n \in Sizes(t) PROVE n \in Size
  BY <1>9, PipeAssumption DEF Sizes, Size
<1> QED
  BY <1>1, <1>2, <1>3, <1>4, <1>5, <1>6, <1>7, <1>8, <1>9 DEF Next

\* A thread sleeps in the call or in the poll that it is in.
LEMMA OneCallStep == IInv /\ [Next]_vars => OneCall'
<1> SUFFICES ASSUME IInv, [Next]_vars PROVE OneCall'
  OBVIOUS
<1>ty. /\ call \in [Caller -> Call] /\ poll \in [Caller -> {"idle", "look", "wait"}]
       /\ \A u \in Caller : /\ call[u] # Idle => poll[u] = "idle"
                            /\ u \in asleep => Pending(u) \/ poll[u] = "look"
  BY DEF IInv, TypeOK, OneCall
<1>same. ASSUME UNCHANGED << call, poll >>, asleep' \subseteq asleep PROVE OneCall'
  BY <1>same, <1>ty DEF OneCall, Pending
<1>ans. ASSUME NEW t \in Caller, Runs(t), UNCHANGED poll, asleep' \subseteq asleep,
               NEW a \in {"done", "EAGAIN", "EPIPE"}, NEW d, Answer(t, a, d)
        PROVE  OneCall'
  <2>1. /\ \A u \in Caller \ {t} : call'[u] = call[u] /\ Pending(u)' = Pending(u)
        /\ call[t] # Idle /\ t \notin asleep'
    BY <1>ans, Answered DEF Runs
  <2> QED
    BY <1>ans, <1>ty, <2>1 DEF OneCall
<1>wait. ASSUME NEW t \in Caller, Runs(t), Wait(t) PROVE OneCall'
  <2>1. Pending(t) /\ UNCHANGED poll
    BY <1>wait, Waits DEF Runs
  <2>2. CASE UNCHANGED asleep /\ \E a \in {"done", "EAGAIN"} : Answer(t, a, << >>)
    BY <1>wait, <1>ans, <2>1, <2>2
  <2>3. CASE UNCHANGED call /\ asleep' = asleep \union {t}
    BY <1>ty, <2>1, <2>3 DEF OneCall, Pending
  <2> QED
    BY <1>wait, <2>2, <2>3, Waits
<1>1. ASSUME NEW t \in Caller, NEW n, Begin(t, n) PROVE OneCall'
  <2>1. /\ \A u \in Caller \ {t} : call'[u] = call[u] /\ Pending(u)' = Pending(u)
        /\ call[t] = Idle /\ poll[t] = "idle" /\ ~Pending(t)
        /\ UNCHANGED << poll, asleep >>
    BY <1>1, <1>ty DEF Begin, Pending, Idle
  <2> QED
    BY <1>ty, <2>1 DEF OneCall
<1>2. ASSUME NEW t \in Caller, Release(t) PROVE OneCall'
  <2>1. /\ \A u \in Caller \ {t} : call'[u] = call[u] /\ Pending(u)' = Pending(u)
        /\ call'[t] = Idle /\ call[t] # Idle /\ ~Pending(t)
        /\ UNCHANGED poll /\ asleep' \subseteq asleep
    BY <1>2, <1>ty DEF Release, Drop, WakeAll, Pending, Idle
  <2> QED
    BY <1>ty, <2>1 DEF OneCall
<1>3. ASSUME NEW w \in Writer, WritePiece(w) PROVE OneCall'
  <2>1. /\ w \in Caller /\ call[w] # Idle
        /\ \A u \in Caller \ {w} : call'[u] = call[u] /\ Pending(u)' = Pending(u)
        /\ call'[w].size = call[w].size /\ call[w].size # 0
    <3>1. /\ w \in Caller /\ call'[w].size = call[w].size
          /\ \A u \in Caller \ {w} : call'[u] = call[u]
      BY <1>3, PieceMoves
    <3>2. Pending(w)
      BY <1>3 DEF WritePiece, Runs
    <3> QED
      BY <3>1, <3>2 DEF Pending, Idle
  <2>2. UNCHANGED poll /\ (asleep' # {} => asleep' = {w} /\ call'[w].answer = "none")
    BY <1>3, PieceMoves DEF WritePiece
  <2> QED
    BY <1>ty, <2>1, <2>2 DEF OneCall, Pending
<1>4. ASSUME NEW w \in Writer, Write(w) PROVE OneCall'
  BY <1>4, <1>wait, <1>ans, <1>3 DEF Write, WriteWaits, WriteBroken, Caller
<1>5. ASSUME NEW r \in Reader, Read(r) PROVE OneCall'
  BY <1>5, <1>wait, <1>ans DEF Read, ReadWaits, ReadSome, WakeAll, Caller
<1>6. ASSUME NEW t \in Caller, PollBegin(t) \/ Poll(t) \/ SliceEnds(t) PROVE OneCall'
  <2>1. UNCHANGED call /\ \A u \in Caller \ {t} : poll'[u] = poll[u]
    BY <1>6, <1>ty DEF PollBegin, Poll, PollLook, PollSleep, SliceEnds
  <2>2. \A u \in Caller : Pending(u)' = Pending(u)
    BY <2>1 DEF Pending
  <2>3. CASE PollBegin(t) \/ PollLook(t) \/ PollSleep(t)
    <3>1. call[t] = Idle
      BY <2>3, <1>ty DEF PollBegin, PollLook, PollSleep
    <3>2. \/ asleep' = asleep /\ poll'[t] = "look"
          \/ asleep' = asleep /\ t \notin asleep
          \/ asleep' = asleep \union {t} /\ poll'[t] = "look"
      BY <2>3, <1>ty DEF PollBegin, PollLook, PollSleep, Sleep
    <3> QED
      BY <1>ty, <2>1, <2>2, <3>1, <3>2 DEF OneCall
  <2>4. CASE SliceEnds(t)
    BY <2>4, <1>same DEF SliceEnds
  <2> QED
    BY <1>6, <2>3, <2>4 DEF Poll
<1>7. ASSUME \/ \E b \in BOOLEAN : Pipe2(b) \/ \E e \in End : SetNonblock(e, b)
             \/ \E e \in End : Close(e)
             \/ \E k \in 1..MaxCapacity : SetPipeSize(k)
             \/ UNCHANGED vars
      PROVE  OneCall'
  BY <1>7, <1>same DEF Pipe2, SetNonblock, Close, Drop, SetPipeSize, WakeAll, vars
<1> QED
  BY <1>1, <1>2, <1>4, <1>5, <1>6, <1>7 DEF Next

\* Why a blocked call cannot go on.
Stuck(t) ==
  /\ ~nonblock[Side(t)]
  /\ t \in Reader => len = 0 /\ refs["write"] # 0
  /\ t \in Writer => len # 0 /\ NoRoom(t) /\ refs["read"] # 0

Blocked(t) == t \in asleep /\ Pending(t)

\* NoMissedWakeup, one thread at a time.
LEMMA BlockedIsStuck == NoMissedWakeup <=> \A t \in Caller : Blocked(t) => Stuck(t)
<1>1. /\ \A r \in Reader : r \in Caller /\ Side(r) = "read" /\ r \notin Writer
      /\ \A w \in Writer : w \in Caller /\ Side(w) = "write" /\ w \notin Reader
      /\ \A t \in Caller : t \in Reader \/ t \in Writer
  BY PipeAssumption DEF Side, Caller
<1>2. ReadersWaitForBytes <=> \A r \in Reader : Blocked(r) => Stuck(r)
  BY <1>1 DEF ReadersWaitForBytes, Blocked, Stuck
<1>3. WritersWaitForRoom <=> \A w \in Writer : Blocked(w) => Stuck(w)
  BY <1>1 DEF WritersWaitForRoom, Blocked, Stuck
<1> QED
  BY <1>1, <1>2, <1>3 DEF NoMissedWakeup

\* The same after a step.
LEMMA StuckNext ==
  ASSUME \A u \in Caller : Blocked(u)' => Stuck(u)'
  PROVE  NoMissedWakeup'
<1>1. /\ \A r \in Reader : r \in Caller /\ Side(r) = "read"
      /\ \A w \in Writer : w \in Caller /\ Side(w) = "write"
  BY PipeAssumption DEF Side, Caller
<1>2. ReadersWaitForBytes'
  BY <1>1 DEF ReadersWaitForBytes, Blocked, Stuck
<1>3. WritersWaitForRoom'
  BY <1>1 DEF WritersWaitForRoom, Blocked, Stuck
<1> QED
  BY <1>2, <1>3 DEF NoMissedWakeup

\* A step that takes no end away, and puts nobody to sleep, misses no wake-up.
LEMMA StillStuck ==
  ASSUME IInv, UNCHANGED << ring, nonblock >>,
         \A e \in End : refs[e] # 0 => refs'[e] # 0,
         \A u \in Caller : Blocked(u)' => Blocked(u) /\ call'[u] = call[u]
  PROVE  NoMissedWakeup'
<1>1. \A u \in Caller : Blocked(u) => Stuck(u)
  BY BlockedIsStuck DEF IInv
<1>2. ASSUME NEW u \in Caller, Blocked(u)' PROVE Stuck(u)'
  <2>1. Stuck(u) /\ call'[u] = call[u]
    BY <1>1, <1>2
  <2>2. NoRoom(u)' <=> NoRoom(u)
    BY <2>1 DEF NoRoom, Available, capacity, ring
  <2> QED
    BY <2>1, <2>2 DEF Stuck, ring, End
<1> QED
  BY <1>2, StuckNext

\* With everybody awake, nobody misses anything.
LEMMA NobodyBlocked ==
  ASSUME \A u \in Caller : ~Blocked(u)'
  PROVE  NoMissedWakeup'
BY DEF NoMissedWakeup, ReadersWaitForBytes, WritersWaitForRoom, Blocked, Caller

\* A reference that is dropped wakes everybody if it was the last one.
LEMMA DropWakes ==
  ASSUME IInv, NEW e \in End, refs[e] # 0, Drop(e), UNCHANGED nonblock,
         \A u \in Caller : Blocked(u)' => Blocked(u) /\ call'[u] = call[u]
  PROVE  NoMissedWakeup'
<1>1. refs' = [refs EXCEPT ![e] = @ - 1] /\ refs \in [End -> Nat]
  BY DEF Drop, IInv, TypeOK
<1>2. CASE refs'[e] = 0
  BY <1>2, NobodyBlocked DEF Drop, WakeAll, Blocked
<1>3. CASE refs'[e] # 0
  <2>1. UNCHANGED ring /\ \A f \in End : refs[f] # 0 => refs'[f] # 0
    BY <1>1, <1>3 DEF Drop
  <2> QED
    BY <2>1, StillStuck
<1> QED
  BY <1>2, <1>3

\* No step lets a blocked call go on without waking it.
LEMMA WakeupStep == IInv /\ [Next]_vars => NoMissedWakeup'
<1> SUFFICES ASSUME IInv, [Next]_vars PROVE NoMissedWakeup'
  OBVIOUS
<1>ty. /\ call \in [Caller -> Call] /\ refs \in [End -> Nat]
       /\ \A u \in Caller : /\ call[u] # Idle => poll[u] = "idle"
                            /\ u \in asleep => Pending(u) \/ poll[u] = "look"
  BY DEF IInv, TypeOK, OneCall
<1>ring. capacity \in Nat \ {0} /\ capacity >= Atomic /\ len \in Nat /\ Atomic \in Nat
  BY RingFacts, PipeAssumption DEF IInv
<1>side. /\ \A t \in Caller : Side(t) \in End
         /\ \A w \in Writer : w \in Caller /\ Side(w) = "write" /\ w \notin Reader
         /\ \A r \in Reader : r \in Caller /\ Side(r) = "read" /\ r \notin Writer
  BY PipeAssumption DEF Side, End, Caller
<1>was. \A u \in Caller : Blocked(u) => Stuck(u)
  BY BlockedIsStuck DEF IInv
<1>awake. ASSUME asleep' = {} PROVE NoMissedWakeup'
  BY <1>awake, NobodyBlocked DEF Blocked
<1>quiet. ASSUME UNCHANGED << ring, nonblock, refs, call >>,
                 \A u \in Caller : Blocked(u)' => u \in asleep
          PROVE  NoMissedWakeup'
  BY <1>quiet, StillStuck DEF Blocked, Pending
<1>ans. ASSUME NEW t \in Caller, Runs(t), UNCHANGED << ring, nonblock, refs, asleep >>,
               NEW a \in {"done", "EAGAIN", "EPIPE"}, NEW d, Answer(t, a, d)
        PROVE  NoMissedWakeup'
  <2>1. /\ \A u \in Caller \ {t} : call'[u] = call[u] /\ Pending(u)' = Pending(u)
        /\ ~Pending(t)'
    BY <1>ans, Answered DEF Runs
  <2> QED
    BY <1>ans, <2>1, StillStuck DEF Blocked
<1>sleep. ASSUME NEW t \in Caller, Stuck(t), UNCHANGED << ring, nonblock, refs, call >>,
                 asleep' = asleep \union {t}
          PROVE  NoMissedWakeup'
  <2>1. \A u \in Caller : Blocked(u)' => Stuck(u)
    BY <1>sleep, <1>was DEF Blocked, Pending
  <2>2. \A u \in Caller : Stuck(u)' <=> Stuck(u)
    BY <1>sleep DEF Stuck, NoRoom, Available, capacity, ring
  <2> QED
    BY <2>1, <2>2, StuckNext
<1>wait. ASSUME NEW t \in Caller, Runs(t), Wait(t), ~nonblock[Side(t)] => Stuck(t)
         PROVE  NoMissedWakeup'
  <2>1. UNCHANGED << ring, nonblock, refs >>
    BY <1>wait, Waits DEF ends
  <2>2. CASE UNCHANGED asleep /\ \E a \in {"done", "EAGAIN"} : Answer(t, a, << >>)
    BY <1>wait, <1>ans, <2>1, <2>2
  <2>3. CASE ~nonblock[Side(t)] /\ UNCHANGED call /\ asleep' = asleep \union {t}
    BY <1>wait, <1>sleep, <2>1, <2>3
  <2> QED
    BY <1>wait, <2>2, <2>3, Waits
<1>1. ASSUME NEW b \in BOOLEAN, Pipe2(b) PROVE NoMissedWakeup'
  <2>1. \A u \in Caller : call[u] = Idle
    BY <1>1, <1>side, Referenced DEF Pipe2, Holders
  <2> QED
    BY <1>1, <2>1, NobodyBlocked DEF Pipe2, Blocked, Pending, Idle
<1>2. ASSUME NEW e \in End, Close(e) PROVE NoMissedWakeup'
  <2>1. refs[e] # 0 /\ Drop(e) /\ UNCHANGED << nonblock, call >>
    BY <1>2, Referenced DEF Close
  <2>2. asleep' \subseteq asleep
    BY <2>1 DEF Drop, WakeAll
  <2> QED
    BY <2>1, <2>2, DropWakes DEF Blocked, Pending
<1>3. ASSUME NEW t \in Caller, NEW n, Begin(t, n) PROVE NoMissedWakeup'
  <2>1. /\ \A u \in Caller \ {t} : call'[u] = call[u] /\ Pending(u)' = Pending(u)
        /\ t \notin asleep /\ UNCHANGED << ring, nonblock, asleep >>
    BY <1>3, <1>ty DEF Begin, Pending, Idle
  <2>2. \A e \in End : refs[e] # 0 => refs'[e] # 0
    BY <1>3, <1>ty DEF Begin
  <2> QED
    BY <2>1, <2>2, StillStuck DEF Blocked
<1>4. ASSUME NEW t \in Caller, Release(t) PROVE NoMissedWakeup'
  <2>1. /\ \A u \in Caller \ {t} : call'[u] = call[u] /\ Pending(u)' = Pending(u)
        /\ call'[t] = Idle /\ call[t] # Idle /\ ~Pending(t)'
    BY <1>4, <1>ty DEF Release, Pending, Idle
  <2>2. Side(t) \in End /\ refs[Side(t)] # 0 /\ Drop(Side(t)) /\ UNCHANGED nonblock
    BY <1>4, <1>side, <2>1, Referenced DEF Release, Holders
  <2>3. asleep' \subseteq asleep
    BY <2>2 DEF Drop, WakeAll
  <2> QED
    BY <2>1, <2>2, <2>3, DropWakes DEF Blocked
<1>5. ASSUME NEW w \in Writer, WriteWaits(w) PROVE NoMissedWakeup'
  <2>1. NoRoom(w) /\ refs["read"] # 0 /\ Runs(w) /\ Wait(w)
    BY <1>5 DEF WriteWaits
  <2>2. len # 0
    <3>1. call[w].size \in 0..MaxSize /\ MaxSize \in Nat
      BY <1>ty, <1>side, CallFields, PipeAssumption
    <3> QED
      BY <2>1, <3>1, <1>ring DEF NoRoom, Available
  <2>3. ~nonblock[Side(w)] => Stuck(w)
    BY <2>1, <2>2, <1>side DEF Stuck
  <2> QED
    BY <2>1, <2>3, <1>side, <1>wait
<1>6. ASSUME NEW w \in Writer, WriteBroken(w) PROVE NoMissedWakeup'
  BY <1>6, <1>ans, <1>side DEF WriteBroken, ends
<1>7. ASSUME NEW w \in Writer, WritePiece(w) PROVE NoMissedWakeup'
  <2> DEFINE k == Least(call[w].size - call[w].wrote, Available)
  <2>1. /\ call[w].wrote + k = call[w].size => call'[w].answer = "done"
        /\ call[w].wrote + k < call[w].size => k = Available
        /\ call[w].wrote + k \in Nat /\ call[w].size \in Nat /\ k \in Nat \ {0}
        /\ call[w].wrote + k <= call[w].size
    <3>1. /\ call[w].wrote \in Nat /\ call[w].size \in Nat /\ k \in Nat \ {0}
          /\ call[w].wrote + k <= call[w].size
          /\ call[w].wrote + k < call[w].size => k = Available
          /\ call[w].wrote + k = call[w].size => call'[w].answer = "done"
      BY <1>7, PieceMoves
    <3> HIDE DEF k
    <3> QED
      BY <3>1
  <2>2. len' = len + k /\ UNCHANGED << refs, nonblock >> /\ refs["read"] # 0
    BY <1>7 DEF WritePiece, ends
  <2>3. DOMAIN buf' = DOMAIN buf
    BY <1>7 DEF WritePiece, CopyIn
  <2>4. CASE asleep' = {}
    BY <2>4, <1>awake
  <2>5. CASE asleep' # {}
    <3>1. /\ asleep' = {w} /\ ~nonblock["write"]
          /\ call[w].wrote + k # call[w].size
      BY <1>7, <2>5 DEF WritePiece
    <3> HIDE DEF k
    <3>2. k = Available
      BY <2>1, <3>1
    <3>3. len' = capacity /\ capacity' = capacity
      BY <2>2, <2>3, <3>2, <1>ring DEF Available, capacity
    <3>4. Available' = 0 /\ len' # 0
      BY <3>3, <1>ring DEF Available
    <3>5. Stuck(w)'
      BY <2>2, <3>1, <3>4, <1>side DEF Stuck, NoRoom
    <3> QED
      BY <3>1, <3>5, StuckNext DEF Blocked
  <2> QED
    BY <2>4, <2>5
<1>8. ASSUME NEW r \in Reader, ReadWaits(r) PROVE NoMissedWakeup'
  <2>1. ~nonblock[Side(r)] => Stuck(r)
    BY <1>8, <1>side DEF ReadWaits, Stuck
  <2> QED
    BY <1>8, <2>1, <1>side, <1>wait DEF ReadWaits
<1>9. ASSUME NEW r \in Reader, ReadSome(r) PROVE NoMissedWakeup'
  <2> DEFINE k == Least(call[r].size, len)
             d == [i \in 1..k |-> buf[(head + i - 1) % capacity]]
  <2>1. /\ Runs(r) /\ Answer(r, "done", d) /\ UNCHANGED << buf, ends >>
        /\ head' = (head + k) % capacity /\ len' = len - k
        /\ k > 0 => asleep' = {}
        /\ ~(k > 0) => UNCHANGED asleep
    BY <1>9 DEF ReadSome, WakeAll
  <2>2. CASE k > 0
    BY <2>1, <2>2, <1>awake
  <2>3. CASE ~(k > 0)
    <3>1. call[r].size \in Nat \ {0}
      <4>1. call[r].size \in 0..MaxSize /\ MaxSize \in Nat
        BY <1>ty, <1>side, CallFields, PipeAssumption
      <4> QED
        BY <2>1, <4>1 DEF Runs, Pending
    <3>2. k = 0
      BY <2>3, <3>1, <1>ring DEF Least
    <3>3. head \in 0..(capacity - 1)
      BY RingFacts DEF IInv
    <3> HIDE DEF k
    <3>4. head' = head /\ len' = len
      BY <2>1, <3>2, <3>3, <1>ring
    <3> HIDE DEF d
    <3> QED
      BY <2>1, <2>3, <3>4, <1>ans, <1>side DEF ring, ends
  <2> QED
    BY <2>2, <2>3
<1>10. ASSUME NEW t \in Caller, PollBegin(t) \/ Poll(t) \/ SliceEnds(t) PROVE NoMissedWakeup'
  <2>1. UNCHANGED << ring, nonblock, refs, call >>
    BY <1>10 DEF PollBegin, Poll, PollLook, PollSleep, SliceEnds, ends
  <2>2. CASE asleep' \subseteq asleep
    BY <2>1, <2>2, <1>quiet DEF Blocked
  <2>3. CASE PollSleep(t)
    <3>1. ~Pending(t) /\ asleep' = asleep \union {t}
      BY <2>3, <1>ty DEF PollSleep, Sleep, Pending, Idle
    <3> QED
      BY <2>1, <3>1, <1>quiet DEF Blocked, Pending
  <2> QED
    BY <1>10, <2>2, <2>3 DEF PollBegin, Poll, PollLook, SliceEnds
<1>11. ASSUME \/ \E b \in BOOLEAN, e \in End : SetNonblock(e, b)
              \/ \E k \in 1..MaxCapacity : SetPipeSize(k)
       PROVE  NoMissedWakeup'
  BY <1>11, <1>awake DEF SetNonblock, SetPipeSize, WakeAll
<1>12. ASSUME UNCHANGED vars PROVE NoMissedWakeup'
  BY <1>12, <1>quiet DEF vars, ends, Blocked
<1> QED
  BY <1>1, <1>2, <1>3, <1>4, <1>5, <1>6, <1>7, <1>8, <1>9, <1>10, <1>11, <1>12
     DEF Next, Write, Read

-----------------------------------------------------------------------------
(* The invariant, and what follows from it.                                 *)

LEMMA InitInv == Init => IInv
<1> SUFFICES ASSUME Init PROVE IInv
  OBVIOUS
<1>1. Atomic \in Capacity
  <2>1. Atomic \in Nat \ {0} /\ MaxCapacity \in Nat \ {0} /\ MaxCapacity % Atomic = 0
    BY PipeAssumption
  <2>2. MaxCapacity < Atomic => MaxCapacity % Atomic = MaxCapacity
    BY <2>1, SMT
  <2>3. Atomic % Atomic = 0
    BY <2>1, SMT
  <2> QED
    BY <2>1, <2>2, <2>3 DEF Capacity
<1>2. buf \in [0..(Atomic - 1) -> Byte] /\ Atomic \in Nat \ {0}
  BY PipeAssumption DEF Init, EmptyRing, Byte
<1>3. capacity = Atomic
  BY <1>2, CapacityOf DEF capacity
<1>4. Idle \in Call
  BY PipeAssumption, EmptySeq DEF Idle, Call
<1>5. TypeOK
  BY <1>1, <1>2, <1>3, <1>4 DEF Init, TypeOK, End
<1>6. \A t \in Caller : call[t] = Idle /\ ~Pending(t) /\ call[t].wrote = 0
  BY DEF Init, Idle, Pending
<1>7. References
  <2>1. \A e \in End : Holders(e) = {}
    BY <1>6 DEF Holders
  <2>2. \A e \in End : refs[e] = 1 /\ Numbers(e) = 1
    BY DEF Init, Numbers
  <2> QED
    BY <2>1, <2>2, FS_EmptySet DEF References
<1>8. CallShape /\ OneCall /\ NoMissedWakeup
  BY <1>6 DEF Init, CallShape, OneCall, NoMissedWakeup, ReadersWaitForBytes,
              WritersWaitForRoom, Caller
<1>9. EmptyWhenGone
  BY DEF Init, EmptyWhenGone
<1> QED
  BY <1>5, <1>7, <1>8, <1>9 DEF IInv

\* The invariant is inductive.
THEOREM Invariance == Spec => []IInv
<1>1. IInv /\ [Next]_vars => IInv'
  BY TypeStep, ReferencesStep, CallShapeStep, EmptyStep, OneCallStep, WakeupStep DEF IInv
<1> QED
  BY <1>1, InitInv, PTL DEF Spec

\* The ring, the references and the calls keep their types in every pipe.
THEOREM TypeCorrect == Spec => []TypeOK
<1>1. IInv => TypeOK
  BY DEF IInv
<1> QED
  BY <1>1, Invariance, PTL

\* In every pipe, no blocked call sleeps through the step of another that would
\* let it go on: fakefd.c broadcasts g_cond wherever it must.
THEOREM WakeupSafety == Spec => []NoMissedWakeup
<1>1. IInv => NoMissedWakeup
  BY DEF IInv
<1> QED
  BY <1>1, Invariance, PTL

-----------------------------------------------------------------------------
(* The bytes of a ring, whatever the variables: a ring b of capacity c, from *)
(* position h on, l of them.                                                *)

Bytes(b, h, l, c) == [i \in 1..l |-> b[(h + i - 1) % c]]

\* A position of the ring wraps at most once.
LEMMA Position ==
  ASSUME NEW c \in Nat \ {0}, NEW h \in 0..(c - 1), NEW i \in 1..c
  PROVE  /\ (h + i - 1) % c = IF h + i - 1 < c THEN h + i - 1 ELSE h + i - 1 - c
         /\ (h + i - 1) % c \in 0..(c - 1)
<1> DEFINE x == h + i - 1
<1>1. x \in 0..(c + c - 1)
  OBVIOUS
<1> HIDE DEF x
<1>2. x % c = IF x < c THEN x ELSE x - c
  BY <1>1, Wrap
<1>3. x % c \in 0..(c - 1)
  BY <1>1, <1>2
<1> QED
  BY <1>2, <1>3 DEF x

\* The bytes are a sequence of the length that the ring has.
LEMMA BytesSeq ==
  ASSUME NEW c \in Nat \ {0}, NEW b \in [0..(c - 1) -> Byte],
         NEW h \in 0..(c - 1), NEW l \in 0..c
  PROVE  /\ Bytes(b, h, l, c) \in Seq(Byte) /\ Len(Bytes(b, h, l, c)) = l
         /\ l = 0 => Bytes(b, h, l, c) = << >>
<1>1. \A i \in 1..l : b[(h + i - 1) % c] \in Byte
  BY Position
<1>2. Bytes(b, h, l, c) \in Seq(Byte) /\ Len(Bytes(b, h, l, c)) = l
  BY <1>1 DEF Bytes
<1> QED
  BY <1>2, EmptySeq

\* Where the i-th byte of the ring is, of which the last k are the copied ones.
Placed(c, h, l, k, i, from) ==
  LET tail == (h + l) % c
      first == Least(c - tail, k)
      x == (h + i - 1) % c
  IN IF i <= l
     THEN x \notin tail..(tail + first - 1) /\ ~(x < k - first)
     ELSE IF x \in tail..(tail + first - 1)
     THEN from + (x - tail) + 1 = from + (i - l)
     ELSE x < k - first /\ from + first + x + 1 = from + (i - l)

\* The two memcpy leave each old byte where it is and put each new one in its place.
LEMMA PutPlace ==
  ASSUME NEW c \in Nat, NEW h \in Nat, NEW l \in Nat, NEW k \in Nat, NEW i \in Nat,
         NEW from \in Nat,
         h < c, k > 0, l + k <= c, i > 0, i <= l + k
  PROVE  Placed(c, h, l, k, i, from)
<1> DEFINE t == h + l
           tail == t % c
           first == Least(c - tail, k)
           x == (h + i - 1) % c
<1>1. /\ t \in 0..(c + c - 1) /\ i \in 1..c
      /\ c \in Nat \ {0} /\ h \in 0..(c - 1)
  OBVIOUS
<1>2. x = (IF h + i - 1 < c THEN h + i - 1 ELSE h + i - 1 - c) /\ x \in 0..(c - 1)
  BY <1>1, Position
<1>3. tail = IF t < c THEN t ELSE t - c
  <2> HIDE DEF t
  <2> QED
    BY <1>1, Wrap
<1> HIDE DEF tail, x
<1>4. first = IF c - tail < k THEN c - tail ELSE k
  BY DEF Least
<1> HIDE DEF first
<1>5. tail \in Int /\ first \in Int /\ x \in Int
  BY <1>1, <1>2, <1>3, <1>4
<1>7. /\ i <= l => x \notin tail..(tail + first - 1) /\ ~(x < k - first)
      /\ ~(i <= l) /\ x \in tail..(tail + first - 1) => x - tail + 1 = i - l
      /\ ~(i <= l) /\ x \notin tail..(tail + first - 1) =>
           x < k - first /\ first + x + 1 = i - l
  BY <1>2, <1>3, <1>4, <1>5, SMT
<1>8. /\ x - tail + 1 = i - l => from + (x - tail) + 1 = from + (i - l)
      /\ first + x + 1 = i - l => from + first + x + 1 = from + (i - l)
  BY <1>5
<1>9. IF i <= l
      THEN x \notin tail..(tail + first - 1) /\ ~(x < k - first)
      ELSE IF x \in tail..(tail + first - 1)
      THEN from + (x - tail) + 1 = from + (i - l)
      ELSE x < k - first /\ from + first + x + 1 = from + (i - l)
  BY <1>7, <1>8
<1> QED
  BY <1>9 DEF Placed, tail, first, x

\* What the two memcpy of a write put in comes out behind what was there.
PutIn(b, h, l, c, k, w, from) ==
  LET tail == (h + l) % c
      first == Least(c - tail, k)
  IN [i \in 0..(c - 1) |->
        IF i \in tail..(tail + first - 1) THEN << w, from + (i - tail) + 1 >>
        ELSE IF i < k - first THEN << w, from + first + i + 1 >>
        ELSE b[i]]

\* The bytes behind the old ones are those of the piece.
LEMMA BytesPut ==
  ASSUME NEW c \in Nat \ {0}, NEW b \in [0..(c - 1) -> Byte],
         NEW h \in Nat, NEW l \in Nat, NEW k \in Nat, h < c, k > 0, l + k <= c,
         NEW w \in Writer, NEW from \in Nat, from + k <= MaxSize
  PROVE  Bytes(PutIn(b, h, l, c, k, w, from), h, l + k, c)
           = Bytes(b, h, l, c) \o Stream!Piece(w, from, k)
<1> DEFINE s == Bytes(b, h, l, c)
           t == Stream!Piece(w, from, k)
           q(i) == (h + i - 1) % c
           tail == (h + l) % c
           first == Least(c - tail, k)
           d == PutIn(b, h, l, c, k, w, from)
<1>0. d = [i \in 0..(c - 1) |->
             IF i \in tail..(tail + first - 1) THEN << w, from + (i - tail) + 1 >>
             ELSE IF i < k - first THEN << w, from + first + i + 1 >>
             ELSE b[i]]
  BY DEF PutIn
<1> HIDE DEF d
<1>1. tail = IF h + l < c THEN h + l ELSE h + l - c
  <2> DEFINE x == h + l
  <2>1. x \in 0..(c + c - 1)
    OBVIOUS
  <2> HIDE DEF x
  <2>2. x % c = IF x < c THEN x ELSE x - c
    BY <2>1, Wrap
  <2> QED
    BY <2>2 DEF x
<1> HIDE DEF tail
<1>2. tail \in 0..(c - 1) /\ first \in 1..k /\ first <= c - tail
  BY <1>1 DEF Least
<1> HIDE DEF first
<1>3. s \in Seq(Byte) /\ Len(s) = l
  BY BytesSeq
<1>4. t \in Seq(Byte) /\ Len(t) = k
  <2>1. MaxSize \in Nat
    BY PipeAssumption
  <2> DEFINE e(i) == << w, from + i >>
  <2>2. \A i \in 1..k : e(i) \in Byte
    BY <2>1 DEF Byte, Size
  <2>3. t = [i \in 1..k |-> e(i)]
    BY DEF Stream!Piece
  <2> HIDE DEF t, e
  <2> QED
    BY <2>2, <2>3
<1>5. /\ s \o t \in Seq(Byte) /\ Len(s \o t) = l + k
      /\ \A i \in 1..(l + k) : (s \o t)[i] = IF i <= l THEN s[i] ELSE t[i - l]
  <2> HIDE DEF s, t
  <2> QED
    BY <1>3, <1>4, ConcatProperties
<1>6. ASSUME NEW i \in 1..(l + k) PROVE d[q(i)] = IF i <= l THEN s[i] ELSE t[i - l]
  <2>0. i \in 1..c /\ h \in 0..(c - 1)
    OBVIOUS
  <2>1. q(i) = (IF h + i - 1 < c THEN h + i - 1 ELSE h + i - 1 - c) /\ q(i) \in 0..(c - 1)
    BY <2>0, Position
  <2>2. IF i <= l
        THEN q(i) \notin tail..(tail + first - 1) /\ ~(q(i) < k - first)
        ELSE IF q(i) \in tail..(tail + first - 1)
        THEN from + (q(i) - tail) + 1 = from + (i - l)
        ELSE q(i) < k - first /\ from + first + q(i) + 1 = from + (i - l)
    <3>1. /\ c \in Nat /\ h \in Nat /\ l \in Nat /\ k \in Nat /\ i \in Nat
          /\ h < c /\ k > 0 /\ l + k <= c /\ i > 0 /\ i <= l + k
      OBVIOUS
    <3>2. Placed(c, h, l, k, i, from)
      BY <3>1, PutPlace
    <3> QED
      BY <3>2 DEF Placed, tail, first
  <2>3. d[q(i)] = IF q(i) \in tail..(tail + first - 1)
                  THEN << w, from + (q(i) - tail) + 1 >>
                  ELSE IF q(i) < k - first THEN << w, from + first + q(i) + 1 >>
                  ELSE b[q(i)]
    BY <1>0, <2>1
  <2>4. i <= l => s[i] = b[q(i)]
    BY DEF Bytes
  <2>5. ~(i <= l) => t[i - l] = << w, from + (i - l) >>
    BY DEF Stream!Piece
  <2> HIDE DEF q, s, t
  <2>6. CASE i <= l
    BY <2>2, <2>3, <2>4, <2>6
  <2>7. CASE ~(i <= l) /\ q(i) \in tail..(tail + first - 1)
    BY <2>2, <2>3, <2>5, <2>7
  <2>8. CASE ~(i <= l) /\ q(i) \notin tail..(tail + first - 1)
    BY <2>2, <2>3, <2>5, <2>8
  <2> QED
    BY <2>6, <2>7, <2>8
<1>7. d \in [0..(c - 1) -> Byte] /\ l + k \in 0..c
  <2>1. MaxSize \in Nat
    BY PipeAssumption
  <2>2. ASSUME NEW i \in 0..(c - 1) PROVE d[i] \in Byte
    <3>1. i \in tail..(tail + first - 1) => from + (i - tail) + 1 \in Size
      BY <1>2, <2>1 DEF Size
    <3>2. i < k - first => from + first + i + 1 \in Size
      BY <1>2, <2>1 DEF Size
    <3> QED
      BY <1>0, <3>1, <3>2 DEF Byte
  <2> QED
    BY <1>0, <2>2
<1>8. /\ Bytes(d, h, l + k, c) \in Seq(Byte) /\ Len(Bytes(d, h, l + k, c)) = l + k
      /\ \A i \in 1..(l + k) : Bytes(d, h, l + k, c)[i] = d[q(i)]
  <2>1. Bytes(d, h, l + k, c) \in Seq(Byte) /\ Len(Bytes(d, h, l + k, c)) = l + k
    BY <1>7, BytesSeq
  <2> QED
    BY <2>1 DEF Bytes
<1> HIDE DEF s, t, q
<1>9. Bytes(d, h, l + k, c) = s \o t
  BY <1>5, <1>6, <1>8, SeqEqual
<1> QED
  BY <1>9 DEF s, t, d

\* What a read takes is the front, and the rest stays.
LEMMA BytesTake ==
  ASSUME NEW c \in Nat \ {0}, NEW b \in [0..(c - 1) -> Byte],
         NEW h \in 0..(c - 1), NEW l \in 0..c, NEW k \in 0..l
  PROVE  LET s == Bytes(b, h, l, c)
         IN /\ Bytes(b, h, k, c) = SubSeq(s, 1, k)
            /\ Bytes(b, (h + k) % c, l - k, c) = SubSeq(s, k + 1, l)
<1> DEFINE s == Bytes(b, h, l, c)
           g == (h + k) % c
<1>1. s \in Seq(Byte) /\ Len(s) = l
  BY BytesSeq
<1>2. g = (IF h + k < c THEN h + k ELSE h + k - c) /\ g \in 0..(c - 1)
  <2> DEFINE x == h + k
  <2>1. x \in 0..(c + c - 1)
    OBVIOUS
  <2> HIDE DEF x
  <2>2. x % c = IF x < c THEN x ELSE x - c
    BY <2>1, Wrap
  <2> QED
    BY <2>1, <2>2 DEF x
<1>3. \A i \in 1..l : s[i] = b[(h + i - 1) % c]
  BY DEF Bytes
<1>4. SubSeq(s, 1, k) = [i \in 1..k |-> s[i]]
  BY <1>1
<1>5. SubSeq(s, k + 1, l) = [i \in 1..(l - k) |-> s[k + i]]
  BY <1>1
<1>6. ASSUME NEW i \in 1..(l - k) PROVE b[(g + i - 1) % c] = s[k + i]
  <2> DEFINE j == k + i
  <2>1. j \in 1..l /\ j \in 1..c /\ i \in 1..c
    OBVIOUS
  <2>2. (h + j - 1) % c = IF h + j - 1 < c THEN h + j - 1 ELSE h + j - 1 - c
    BY <2>1, Position
  <2>3. (g + i - 1) % c = IF g + i - 1 < c THEN g + i - 1 ELSE g + i - 1 - c
    BY <1>2, <2>1, Position
  <2> HIDE DEF g
  <2>4. (g + i - 1) % c = (h + j - 1) % c
    BY <1>2, <2>1, <2>2, <2>3
  <2> QED
    BY <1>3, <2>1, <2>4
<1> HIDE DEF s, g
<1>7. Bytes(b, h, k, c) = SubSeq(s, 1, k)
  BY <1>3, <1>4 DEF Bytes
<1>8. Bytes(b, g, l - k, c) = SubSeq(s, k + 1, l)
  BY <1>5, <1>6 DEF Bytes
<1> QED
  BY <1>7, <1>8 DEF s, g

\* F_SETPIPE_SZ moves the bytes to the front of a new buffer.
Moved(b, h, l, c, n) ==
  [i \in 0..(n - 1) |-> IF i < l THEN Bytes(b, h, l, c)[i + 1] ELSE None]

\* It keeps them and their order.
LEMMA BytesMove ==
  ASSUME NEW c \in Nat \ {0}, NEW b \in [0..(c - 1) -> Byte],
         NEW h \in 0..(c - 1), NEW l \in 0..c, NEW n \in Nat \ {0}, l <= n
  PROVE  Bytes(Moved(b, h, l, c, n), 0, l, n) = Bytes(b, h, l, c)
<1> DEFINE s == Bytes(b, h, l, c)
           d == Moved(b, h, l, c, n)
<1>1. s = [i \in 1..l |-> s[i]]
  BY DEF Bytes
<1>2. ASSUME NEW i \in 1..l PROVE d[(0 + i - 1) % n] = s[i]
  <2>1. (0 + i - 1) % n = i - 1
    <3>1. 0 + i - 1 = i - 1 /\ i - 1 \in 0..(n - 1)
      OBVIOUS
    <3> QED
      BY <3>1, NoWrap
  <2> QED
    BY <2>1 DEF Moved
<1> HIDE DEF s, d
<1>3. Bytes(d, 0, l, n) = s
  BY <1>1, <1>2 DEF Bytes
<1> QED
  BY <1>3 DEF s, d

-----------------------------------------------------------------------------
(* The pipe implements the stream.                                          *)

\* The stream that a state stands for, before and after a step.
LEMMA ContentsAre ==
  ASSUME IInv, IInv'
  PROVE  /\ Contents = Bytes(buf, head, len, capacity) /\ Contents \in Seq(Byte)
         /\ Len(Contents) = len /\ (len = 0 => Contents = << >>)
         /\ Contents' = Bytes(buf', head', len', capacity')
         /\ len' = 0 => Contents' = << >>
<1>1. Contents = Bytes(buf, head, len, capacity)
  BY DEF Contents, Bytes
<1>2. Contents \in Seq(Byte) /\ Len(Contents) = len /\ (len = 0 => Contents = << >>)
  BY <1>1, RingFacts, BytesSeq DEF IInv
<1>3. Contents' = Bytes(buf', head', len', capacity')
  BY DEF Contents, Bytes
<1>4. len' = 0 => Contents' = << >>
  <2>1. ASSUME len' = 0 PROVE Contents' = << >>
    <3>1. 1..len' = {}
      BY <2>1
    <3> QED
      BY <1>3, <2>1, <3>1 DEF Bytes
  <2> QED
    BY <2>1
<1> QED
  BY <1>1, <1>2, <1>3, <1>4

Steps == Stream!Next \/ UNCHANGED Stream!vars

\* A step that leaves the ring, the calls and the ends is no step of the stream.
LEMMA NoStep ==
  ASSUME UNCHANGED << ring, call >>,
         \A e \in End : (refs'[e] # 0) = (refs[e] # 0)
  PROVE  Steps
<1>1. Contents' = Contents
  BY DEF Contents, capacity, ring
<1>2. (refs'["read"] # 0) = (refs["read"] # 0) /\ (refs'["write"] # 0) = (refs["write"] # 0)
  BY DEF End
<1> QED
  BY <1>1, <1>2 DEF Steps, Stream!vars

\* What a reference that is dropped does to the stream.
LEMMA DropLapses ==
  ASSUME IInv, IInv', NEW e \in End, refs[e] # 0, Drop(e),
         \/ UNCHANGED call
         \/ \E t \in Caller : call[t].answer # "none" /\ call' = [call EXCEPT ![t] = Idle]
  PROVE  Steps
<1> DEFINE rd == refs["read"] # 0
           wr == refs["write"] # 0
<1>1. refs' = [refs EXCEPT ![e] = @ - 1] /\ refs \in [End -> Nat] /\ "read" \in End /\ "write" \in End
  BY DEF Drop, IInv, TypeOK, End
<1>2. rd' => rd
  BY <1>1
<1>3. wr' => wr
  BY <1>1
<1>4. \A t \in Caller : Pending(t) => call'[t] # Idle
  <2>1. call \in [Caller -> Call]
    BY DEF IInv, TypeOK
  <2>2. \A t \in Caller : Pending(t) => call'[t] = call[t]
    BY <2>1 DEF Pending
  <2> QED
    BY <2>2 DEF Pending, Idle
<1>5. ASSUME NEW f \in End, NEW t \in Caller, t \in Holders(f)' PROVE refs'[f] # 0
  <2> DEFINE H == Holders(f)'
  <2>1. IsFiniteSet(H)
    <3>1. H \subseteq Caller /\ IsFiniteSet(Caller)
      BY PipeAssumption DEF Holders
    <3> HIDE DEF H
    <3> QED
      BY <3>1, FS_Subset
  <2>2. t \in H
    BY <1>5
  <2> HIDE DEF H
  <2>3. Cardinality(H) \in Nat \ {0}
    BY <2>1, <2>2, FS_CardinalityType, FS_EmptySet
  <2>4. refs'[f] = Cardinality(H) + Numbers(f)' /\ Numbers(f)' \in Nat
    BY DEF IInv, References, Numbers, H
  <2> QED
    BY <2>3, <2>4
<1>6. \A w \in Writer : w \in Caller /\ Side(w) = "write"
  BY DEF Caller, Side
<1>7. \A r \in Reader : r \in Caller /\ Side(r) = "read"
  BY PipeAssumption DEF Caller, Side
<1>8. (\E w \in Writer : Pending(w)) => wr'
  BY <1>1, <1>4, <1>5, <1>6 DEF Holders
<1>9. (\E r \in Reader : Pending(r)) => rd'
  BY <1>1, <1>4, <1>5, <1>7 DEF Holders
<1>10. Contents' = IF rd' \/ wr' THEN Contents ELSE << >>
  <2>1. CASE rd' \/ wr'
    <3>1. UNCHANGED ring
      BY <1>1, <2>1 DEF Drop
    <3> QED
      BY <2>1, <3>1 DEF Contents, capacity, ring
  <2>2. CASE ~(rd' \/ wr')
    <3>1. len' = 0
      BY <2>2 DEF IInv, EmptyWhenGone
    <3> QED
      BY <2>2, <3>1, ContentsAre
  <2> QED
    BY <2>1, <2>2
<1>11. Stream!Lapse
  <2>1. rd' \in {rd, FALSE} /\ wr' \in {wr, FALSE}
    BY <1>2, <1>3, Zenon
  <2>2. /\ (\E w \in Writer : Stream!Pending(w)) => wr' = TRUE
        /\ (\E r \in Reader : Stream!Pending(r)) => rd' = TRUE
    BY <1>8, <1>9, Zenon DEF Stream!Pending, Pending
  <2>3. \/ UNCHANGED call
        \/ \E t \in Writer \union Reader :
             call[t].answer # "none" /\ call' = [call EXCEPT ![t] = Stream!Idle]
    BY DEF Caller, Idle, Stream!Idle
  <2> QED
    BY <1>10, <2>1, <2>2, <2>3 DEF Stream!Lapse
<1> QED
  BY <1>11 DEF Steps, Stream!Next

\* An answer without a byte is one of the answers that the stream may give.
LEMMA WaitsMap ==
  ASSUME IInv, IInv', NEW t \in Caller, Runs(t), Wait(t),
         t \in Writer \/ (t \in Reader /\ len = 0 /\ refs["write"] # 0)
  PROVE  Steps
<1> DEFINE a == IF call[t].wrote = 0 THEN "EAGAIN" ELSE "done"
<1>1. UNCHANGED << ring, refs >>
  BY DEF Wait, ends
<1>2. Contents' = Contents
  BY <1>1 DEF Contents, capacity, ring
<1>3. /\ (refs'["read"] # 0) = (refs["read"] # 0)
      /\ (refs'["write"] # 0) = (refs["write"] # 0)
  BY <1>1
<1>4. CASE ~nonblock[Side(t)]
  <2>1. UNCHANGED call
    BY <1>4 DEF Wait
  <2> QED
    BY <1>1, <2>1, NoStep
<1>5. CASE nonblock[Side(t)] /\ t \in Writer
  <2>1. Pending(t) /\ Answer(t, a, << >>)
    BY <1>5 DEF Wait, Runs
  <2>2. call[t].wrote \in Nat
    <3>1. MaxSize \in Nat /\ call[t].wrote \in 0..MaxSize
      BY PipeAssumption, CallFields DEF IInv, TypeOK
    <3> QED
      BY <3>1
  <2>3. \/ call[t].wrote > 0 /\ Answer(t, "done", << >>)
        \/ call[t].wrote = 0 /\ Answer(t, "EAGAIN", << >>)
    BY <2>1, <2>2
  <2>4. Stream!Pending(t) /\ \A x, y : Answer(t, x, y) => Stream!Answer(t, x, y)
    BY <2>1 DEF Stream!Pending, Stream!Answer, Pending, Answer
  <2>5. Stream!PutEnds(t)
    BY <1>2, <1>3, <2>3, <2>4 DEF Stream!PutEnds
  <2> QED
    BY <1>5, <2>5 DEF Steps, Stream!Next
<1>6. CASE nonblock[Side(t)] /\ t \in Reader /\ t \notin Writer
  <2>1. Pending(t) /\ Answer(t, "EAGAIN", << >>)
    BY <1>6 DEF Wait, Runs, IInv, CallShape
  <2>2. Contents = << >>
    BY <1>6, ContentsAre
  <2>3. Stream!TakeNothing(t)
    BY <1>2, <1>3, <1>6, <2>1, <2>2
       DEF Stream!TakeNothing, Stream!Pending, Stream!Answer, Pending, Answer
  <2> QED
    BY <1>6, <2>3 DEF Steps, Stream!Next
<1> QED
  BY <1>4, <1>5, <1>6

\* A piece of a write is put into the stream.
LEMMA PieceMaps ==
  ASSUME IInv, IInv', NEW w \in Writer, WritePiece(w)
  PROVE  Steps
<1> DEFINE k == Least(call[w].size - call[w].wrote, Available)
           returns == call[w].wrote + k = call[w].size \/ nonblock["write"]
           from == call[w].wrote
<1>1. /\ w \in Caller /\ from \in Nat /\ call[w].size \in Nat
      /\ k \in Nat \ {0} /\ k <= Available /\ from + k <= call[w].size
      /\ call[w].size <= Atomic => from = 0 /\ k = call[w].size
  BY PieceMoves
<1>2. /\ CopyIn(w, k) /\ len' = len + k /\ UNCHANGED << head, refs >> /\ Pending(w)
      /\ refs["read"] # 0
      /\ call' = [call EXCEPT ![w].wrote = @ + k,
                              ![w].answer = IF returns THEN "done" ELSE "none"]
  BY DEF WritePiece, Runs, ends
<1>3. capacity \in Nat \ {0} /\ buf \in [0..(capacity - 1) -> Byte]
      /\ head \in 0..(capacity - 1) /\ len \in 0..capacity
  BY RingFacts DEF IInv
<1>4. call[w].size <= MaxSize /\ MaxSize \in Nat
  <2>1. MaxSize \in Nat /\ call[w].size \in 0..MaxSize
    BY <1>1, PipeAssumption, CallFields DEF IInv, TypeOK
  <2> QED
    BY <2>1
<1>5. DOMAIN buf = 0..(capacity - 1) /\ DOMAIN buf' = DOMAIN buf
  BY <1>2, <1>3 DEF CopyIn
<1>6. capacity' = capacity
  BY <1>5 DEF capacity
<1> HIDE DEF k
<1>7. k \in 1..(capacity - len) /\ from + k <= MaxSize
  BY <1>1, <1>3, <1>4 DEF Available
<1>8. Contents' = Contents \o Stream!Piece(w, from, k)
  <2>1. buf' = PutIn(buf, head, len, capacity, k, w, from)
    BY <1>2, <1>5 DEF CopyIn, PutIn
  <2>2. Bytes(buf', head, len + k, capacity)
          = Bytes(buf, head, len, capacity) \o Stream!Piece(w, from, k)
    <3>1. /\ head \in Nat /\ len \in Nat /\ k \in Nat
          /\ head < capacity /\ k > 0 /\ len + k <= capacity
      BY <1>3, <1>7
    <3>2. Bytes(PutIn(buf, head, len, capacity, k, w, from), head, len + k, capacity)
            = Bytes(buf, head, len, capacity) \o Stream!Piece(w, from, k)
      <4>1. from \in Nat /\ from + k <= MaxSize
        BY <1>1, <1>7
      <4> HIDE DEF from
      <4> QED
        BY <1>3, <3>1, <4>1, BytesPut
    <3> QED
      BY <2>1, <3>2
  <2> QED
    BY <1>2, <1>6, <2>2, ContentsAre
<1>9. Stream!Put(w)
  <2>1. k \in 1..(call[w].size - call[w].wrote)
    BY <1>1
  <2>2. returns \in BOOLEAN /\ (k = call[w].size - call[w].wrote => returns)
    BY <1>1
  <2>3. UNCHANGED << refs["read"] # 0, refs["write"] # 0 >>
    BY <1>2
  <2>4. Stream!Pending(w)
    BY <1>2 DEF Stream!Pending, Pending
  <2> HIDE DEF returns
  <2> QED
    BY <1>1, <1>2, <1>8, <2>1, <2>2, <2>3, <2>4 DEF Stream!Put
<1> QED
  BY <1>9 DEF Steps, Stream!Next

\* A read takes the front of the stream, or finds its end.
LEMMA ReadMaps ==
  ASSUME IInv, IInv', NEW r \in Reader, ReadSome(r)
  PROVE  Steps
<1> DEFINE k == Least(call[r].size, len)
           d == [i \in 1..k |-> buf[(head + i - 1) % capacity]]
<1>1. /\ Pending(r) /\ (len # 0 \/ refs["write"] = 0)
      /\ Answer(r, "done", d) /\ head' = (head + k) % capacity /\ len' = len - k
      /\ UNCHANGED << buf, refs >>
  BY DEF ReadSome, Runs, ends
<1>2. capacity \in Nat \ {0} /\ buf \in [0..(capacity - 1) -> Byte]
      /\ head \in 0..(capacity - 1) /\ len \in 0..capacity
  BY RingFacts DEF IInv
<1>3. call[r].size \in Nat \ {0}
  <2>1. MaxSize \in Nat /\ call[r].size \in 0..MaxSize
    BY PipeAssumption, CallFields DEF IInv, TypeOK, Caller
  <2> QED
    BY <1>1, <2>1 DEF Pending
<1>4. k \in 0..len /\ k = (IF len < call[r].size THEN len ELSE call[r].size)
  BY <1>2, <1>3 DEF Least
<1>5. d = Bytes(buf, head, k, capacity)
  BY DEF Bytes
<1>6. /\ Bytes(buf, head, k, capacity) = SubSeq(Contents, 1, k)
      /\ Bytes(buf, (head + k) % capacity, len - k, capacity) = SubSeq(Contents, k + 1, len)
  <2> DEFINE s == Bytes(buf, head, len, capacity)
  <2> HIDE DEF k
  <2>1. k \in 0..len
    BY <1>4
  <2>2. /\ Bytes(buf, head, k, capacity) = SubSeq(s, 1, k)
        /\ Bytes(buf, (head + k) % capacity, len - k, capacity) = SubSeq(s, k + 1, len)
    BY <1>2, <2>1, BytesTake
  <2>3. Contents = s
    BY ContentsAre
  <2> HIDE DEF s
  <2> QED
    BY <2>2, <2>3
<1> HIDE DEF k, d
<1>7. capacity' = capacity
  BY <1>1 DEF capacity
<1>8. Contents' = SubSeq(Contents, k + 1, len) /\ d = SubSeq(Contents, 1, k)
  BY <1>1, <1>5, <1>6, <1>7, ContentsAre
<1>9. /\ (refs'["read"] # 0) = (refs["read"] # 0)
      /\ (refs'["write"] # 0) = (refs["write"] # 0)
  BY <1>1
<1>10. Stream!Pending(r) /\ \A x, y : Answer(r, x, y) => Stream!Answer(r, x, y)
  BY <1>1 DEF Stream!Pending, Stream!Answer, Pending, Answer
<1>11. Len(Contents) = len
  BY ContentsAre
<1>12. CASE len # 0
  <2>1. Contents # << >>
    BY <1>11, <1>12, EmptySeq
  <2>2. Stream!Take(r)
    BY <1>1, <1>4, <1>8, <1>9, <1>10, <1>11, <2>1 DEF Stream!Take
  <2> QED
    BY <2>2 DEF Steps, Stream!Next
<1>13. CASE len = 0
  <2>1. k = 0 /\ len' = 0
    BY <1>1, <1>4, <1>13
  <2>2. Contents = << >> /\ Contents' = << >>
    BY <1>13, <2>1, ContentsAre
  <2>3. d = << >>
    <3>1. SubSeq(Contents, 1, 0) = << >>
      BY <2>2, SubSeqEmpty
    <3> QED
      BY <1>8, <2>1, <3>1
  <2>4. Stream!TakeNothing(r)
    BY <1>1, <1>9, <1>10, <1>13, <2>2, <2>3 DEF Stream!TakeNothing
  <2> QED
    BY <2>4 DEF Steps, Stream!Next
<1> QED
  BY <1>12, <1>13

\* A step of the pipe is a step of the stream, or none.
LEMMA StepMaps == IInv /\ IInv' /\ [Next]_vars => [Stream!Next]_(Stream!vars)
<1> SUFFICES ASSUME IInv, IInv', [Next]_vars PROVE Steps
  BY DEF Steps
<1>ty. refs \in [End -> Nat] /\ call \in [Caller -> Call]
  BY DEF IInv, TypeOK
<1>side. /\ \A t \in Caller : Side(t) \in End
         /\ Writer \subseteq Caller /\ Reader \subseteq Caller
  BY DEF Side, End, Caller
<1>1. ASSUME NEW b \in BOOLEAN, Pipe2(b) PROVE Steps
  <2>1. /\ refs["read"] = 0 /\ refs["write"] = 0
        /\ refs'["read"] = 1 /\ refs'["write"] = 1 /\ len' = 0 /\ UNCHANGED call
    BY <1>1 DEF Pipe2, End
  <2>2. len = 0
    BY <2>1 DEF IInv, EmptyWhenGone
  <2>3. Contents = << >> /\ Contents' = << >>
    BY <2>1, <2>2, ContentsAre
  <2>4. Stream!Renew
    BY <2>1, <2>3 DEF Stream!Renew
  <2> QED
    BY <2>4 DEF Steps, Stream!Next
<1>2. ASSUME NEW e \in End, NEW b \in BOOLEAN, SetNonblock(e, b) PROVE Steps
  BY <1>2, NoStep DEF SetNonblock
<1>3. ASSUME NEW e \in End, Close(e) PROVE Steps
  BY <1>3, Referenced, DropLapses DEF Close
<1>4. ASSUME NEW k \in 1..MaxCapacity, SetPipeSize(k) PROVE Steps
  <2> DEFINE n == RoundUp(k)
  <2>1. n \in Nat \ {0}
    BY RoundedUp, CapacityAtLeastAtomic
  <2> HIDE DEF n
  <2>2. /\ n >= len /\ head' = 0 /\ len' = len /\ UNCHANGED << call, refs >>
        /\ buf' = [i \in 0..(n - 1) |-> IF i < len THEN Contents[i + 1] ELSE None]
    BY <1>4 DEF SetPipeSize, Resize, ends, n
  <2>3. capacity' = n
    <3>1. DOMAIN buf' = 0..(n - 1)
      BY <2>2
    <3>2. Cardinality(0..(n - 1)) = n
      BY <2>1, FS_Interval, SMT
    <3> QED
      BY <3>1, <3>2 DEF capacity
  <2>4. capacity \in Nat \ {0} /\ buf \in [0..(capacity - 1) -> Byte]
        /\ head \in 0..(capacity - 1) /\ len \in 0..capacity
    BY RingFacts DEF IInv
  <2>5. Contents = Bytes(buf, head, len, capacity)
    BY ContentsAre
  <2>6. Bytes(Moved(buf, head, len, capacity, n), 0, len, n) = Bytes(buf, head, len, capacity)
    BY <2>1, <2>2, <2>4, BytesMove
  <2>7. buf' = Moved(buf, head, len, capacity, n)
    BY <2>2, <2>5 DEF Moved
  <2>8. Contents' = Contents
    BY <2>2, <2>3, <2>5, <2>6, <2>7, ContentsAre
  <2> QED
    BY <2>2, <2>8 DEF Steps, Stream!vars
<1>5. ASSUME NEW t \in Caller, NEW n \in Size, Begin(t, n) PROVE Steps
  <2>1. /\ call[t] = Idle /\ UNCHANGED ring /\ Side(t) \in number
        /\ call' = [call EXCEPT ![t].size = n] /\ refs' = [refs EXCEPT ![Side(t)] = @ + 1]
    BY <1>5 DEF Begin
  <2>2. refs[Side(t)] # 0
    BY <1>side, <2>1, Referenced
  <2>3. /\ (refs'["read"] # 0) = (refs["read"] # 0)
        /\ (refs'["write"] # 0) = (refs["write"] # 0)
    BY <1>ty, <1>side, <2>1, <2>2 DEF End
  <2>4. Contents' = Contents
    BY <2>1 DEF Contents, capacity, ring
  <2>5. call' = [call EXCEPT ![t] = Stream!Asks(n)]
    BY <1>ty, <2>1 DEF Stream!Asks, Stream!Idle, Idle
  <2>6. Stream!Begin(t)
    BY <2>1, <2>3, <2>4, <2>5 DEF Stream!Begin, Stream!Size, Size, Stream!Idle, Idle
  <2> QED
    BY <2>6 DEF Steps, Stream!Next, Caller
<1>6. ASSUME NEW t \in Caller, Release(t) PROVE Steps
  <2>1. t \in Holders(Side(t))
    BY <1>6 DEF Release, Holders, Idle
  <2>2. Side(t) \in End /\ refs[Side(t)] # 0
    BY <1>side, <2>1, Referenced
  <2> QED
    BY <1>6, <2>2, DropLapses DEF Release
<1>7. ASSUME NEW w \in Writer, Write(w) PROVE Steps
  <2>1. CASE WriteWaits(w)
    BY <2>1, <1>side, WaitsMap DEF WriteWaits
  <2>2. CASE WriteBroken(w)
    <3> DEFINE a == IF call[w].wrote = 0 THEN "EPIPE" ELSE "done"
    <3>1. Pending(w) /\ Answer(w, a, << >>) /\ UNCHANGED << ring, refs >> /\ refs["read"] = 0
      BY <2>2 DEF WriteBroken, Runs, ends
    <3>2. Contents' = Contents
      BY <3>1 DEF Contents, capacity, ring
    <3>3. call[w].wrote \in Nat
      <4>1. MaxSize \in Nat /\ call[w].wrote \in 0..MaxSize
        BY <1>ty, <1>side, PipeAssumption, CallFields
      <4> QED
        BY <4>1
    <3>4. \/ call[w].wrote > 0 /\ Answer(w, "done", << >>)
          \/ call[w].wrote = 0 /\ Answer(w, "EPIPE", << >>)
      BY <3>1, <3>3
    <3>5. Stream!Pending(w) /\ \A x, y : Answer(w, x, y) => Stream!Answer(w, x, y)
      BY <3>1 DEF Stream!Pending, Stream!Answer, Pending, Answer
    <3>6. /\ (refs'["read"] # 0) = (refs["read"] # 0)
          /\ (refs'["write"] # 0) = (refs["write"] # 0)
      BY <3>1
    <3>7. Stream!PutEnds(w)
      BY <3>1, <3>2, <3>4, <3>5, <3>6 DEF Stream!PutEnds
    <3> QED
      BY <3>7 DEF Steps, Stream!Next
  <2>3. CASE WritePiece(w)
    BY <2>3, PieceMaps
  <2> QED
    BY <1>7, <2>1, <2>2, <2>3 DEF Write
<1>8. ASSUME NEW r \in Reader, Read(r) PROVE Steps
  BY <1>8, <1>side, ReadMaps, WaitsMap DEF Read, ReadWaits
<1>9. ASSUME NEW t \in Caller, PollBegin(t) \/ Poll(t) \/ SliceEnds(t) PROVE Steps
  BY <1>9, NoStep DEF PollBegin, Poll, PollLook, PollSleep, SliceEnds, ends
<1>10. ASSUME UNCHANGED vars PROVE Steps
  BY <1>10, NoStep DEF vars, ends
<1>11. ASSUME NEW t \in Caller, NEW n \in Sizes(t) PROVE n \in Size
  BY <1>11, PipeAssumption DEF Sizes, Size
<1> QED
  BY <1>1, <1>2, <1>3, <1>4, <1>5, <1>6, <1>7, <1>8, <1>9, <1>10, <1>11 DEF Next

\* Whatever the capacity, its changes and the pieces of a write, the two ends of a
\* pipe see a stream of bytes.
THEOREM StreamRefinement == Spec => ImplementsStream
<1>1. Init => Stream!Init
  <2> SUFFICES ASSUME Init PROVE Stream!Init
    OBVIOUS
  <2>1. 1..len = {} /\ refs["read"] # 0 /\ refs["write"] # 0
    BY DEF Init, End
  <2>2. Contents = << >>
    BY <2>1 DEF Contents
  <2> QED
    BY <2>1, <2>2 DEF Init, Stream!Init, Stream!Idle, Idle, Caller
<1> QED
  BY <1>1, Invariance, StepMaps, PTL DEF Spec, ImplementsStream, Stream!Spec

=============================================================================
