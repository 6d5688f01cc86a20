------------------------------ MODULE ByteStream ------------------------------
(***************************************************************************)
(* What a pipe promises (the calls of source/fakefd.c on FD_PIPE_R and     *)
(* FD_PIPE_W): bytes come out in the order in which they went in, none is  *)
(* lost, made up or read twice, a write of at most Atomic bytes goes in as *)
(* one piece, and the answers of a call tell the truth about the ends.     *)
(***************************************************************************)
EXTENDS Integers, Sequences

CONSTANTS
  Writer, Reader,  \* callers of write and of read
  MaxSize,         \* bound: the bytes of one call
  Atomic           \* PIPE_ATOMIC_CAP

VARIABLES
  stream,    \* the bytes written and not read
  hasReader, \* whether the read end is in use
  hasWriter, \* whether the write end is in use
  call       \* what each caller asked for, and how far its call has come

vars == << stream, hasReader, hasWriter, call >>

Size == 1..MaxSize
Idle == [size |-> 0, wrote |-> 0, data |-> << >>, answer |-> "none"]
Asks(n) == [Idle EXCEPT !.size = n]

\* The bytes of a writer's call, told apart by writer and position.
Piece(w, from, k) == [i \in 1..k |-> << w, from + i >>]

Init ==
  /\ stream = << >> /\ hasReader = TRUE /\ hasWriter = TRUE
  /\ call = [t \in Writer \union Reader |-> Idle]

Pending(t) == call[t].size # 0 /\ call[t].answer = "none"

Answer(t, answer, data) ==
  call' = [call EXCEPT ![t].answer = answer, ![t].data = data]

Begin(t) ==
  /\ call[t] = Idle
  /\ \E n \in Size : call' = [call EXCEPT ![t] = Asks(n)]
  /\ UNCHANGED << stream, hasReader, hasWriter >>

\* Part of a write goes in; the call may end with it.
Put(w) ==
  /\ Pending(w) /\ hasReader
  /\ \E k \in 1..(call[w].size - call[w].wrote), ends \in BOOLEAN :
       /\ call[w].size <= Atomic => k = call[w].size
       /\ k = call[w].size - call[w].wrote => ends
       /\ stream' = stream \o Piece(w, call[w].wrote, k)
       /\ call' = [call EXCEPT ![w].wrote = @ + k,
                               ![w].answer = IF ends THEN "done" ELSE "none"]
  /\ UNCHANGED << hasReader, hasWriter >>

\* A write ends without another byte: it would block, or nobody can read.
PutEnds(w) ==
  /\ Pending(w)
  /\ \/ call[w].wrote > 0 /\ Answer(w, "done", << >>)
     \/ call[w].wrote = 0 /\ Answer(w, "EAGAIN", << >>)
     \/ call[w].wrote = 0 /\ ~hasReader /\ Answer(w, "EPIPE", << >>)
  /\ UNCHANGED << stream, hasReader, hasWriter >>

\* A read takes what is there, up to its size.
Take(r) ==
  /\ Pending(r) /\ stream # << >>
  /\ LET k == IF Len(stream) < call[r].size THEN Len(stream) ELSE call[r].size
     IN /\ Answer(r, "done", SubSeq(stream, 1, k))
        /\ stream' = SubSeq(stream, k + 1, Len(stream))
  /\ UNCHANGED << hasReader, hasWriter >>

\* Nothing is there: the end of the file, or a read that would block.
TakeNothing(r) ==
  /\ Pending(r) /\ stream = << >>
  /\ IF hasWriter THEN Answer(r, "EAGAIN", << >>) ELSE Answer(r, "done", << >>)
  /\ UNCHANGED << stream, hasReader, hasWriter >>

\* A call returns, or somebody closes a number: an end is gone with the last of
\* its numbers and calls, and the bytes with the last end.
Lapse ==
  /\ hasReader' \in {hasReader, FALSE} /\ hasWriter' \in {hasWriter, FALSE}
  /\ (\E w \in Writer : Pending(w)) => hasWriter' = TRUE
  /\ (\E r \in Reader : Pending(r)) => hasReader' = TRUE
  /\ stream' = IF hasReader' \/ hasWriter' THEN stream ELSE << >>
  /\ \/ UNCHANGED call
     \/ \E t \in Writer \union Reader :
          call[t].answer # "none" /\ call' = [call EXCEPT ![t] = Idle]

\* A new pipe.
Renew ==
  /\ ~hasReader /\ ~hasWriter /\ stream = << >>
  /\ hasReader' = TRUE /\ hasWriter' = TRUE
  /\ UNCHANGED << stream, call >>

Next ==
  \/ \E t \in Writer \union Reader : Begin(t)
  \/ \E w \in Writer : Put(w) \/ PutEnds(w)
  \/ \E r \in Reader : Take(r) \/ TakeNothing(r)
  \/ Lapse \/ Renew

Spec == Init /\ [][Next]_vars

=============================================================================
