------------------------------- MODULE Futex -------------------------------
(***************************************************************************)
(* The futex emulation of source/libc_shim.c: hashed buckets, each with a   *)
(* lock and one queue for the waiters of every address that falls into it,  *)
(* a condition variable per waiter, and kernel sleeps of at most 50 ms after*)
(* which the waiter looks at the word again.                                *)
(*                                                                         *)
(* A queue is a list that any of its records may be unlinked from: the set  *)
(* of its waiters, and for each of them the set of those before it.         *)
(*                                                                         *)
(* One step is one critical section of a bucket lock.  Between two of them  *)
(* a waiter sleeps in condvarWaitTimeout, which may end at any time: woken, *)
(* at the end of the slice, spuriously, or with a kernel error.             *)
(***************************************************************************)
EXTENDS Integers, FiniteSets

CONSTANTS
  Thread,      \* callers of futex
  Address,     \* futex words
  Bit,         \* the bits of a bitset; all of them: FUTEX_BITSET_MATCH_ANY
  MaxWord,     \* bound: the values of a word
  Bucket(_),   \* futex_bucket_for, up to renaming
  None         \* no waiter record

VARIABLES
  word,      \* the futex words
  bucket,    \* the waiters in the queue of each bucket
  ahead,     \* ahead[t]: the waiters that stand before t in its queue
  waiter,    \* the FutexWaiter and deadline in a frame of futex_wait_impl
  awoken,    \* waiters with awoken set
  due,       \* waiters whose deadline has passed
  result     \* what each thread's last wait returned; "none" while it waits

vars == << word, bucket, ahead, waiter, awoken, due, result >>

Word == 0..MaxWord
NonEmpty(S) == SUBSET S \ {{}}
Buckets == {Bucket(a) : a \in Address}
Waiter == [address : Address, expected : Word, bits : NonEmpty(Bit),
           deadline : BOOLEAN]

ASSUME FutexAssumption == MaxWord \in Nat /\ None \notin Waiter

TypeOK ==
  /\ word \in [Address -> Word]
  /\ bucket \in [Buckets -> SUBSET Thread]
  /\ ahead \in [Thread -> SUBSET Thread]
  /\ waiter \in [Thread -> Waiter \union {None}]
  /\ awoken \subseteq Thread
  /\ due \subseteq Thread
  /\ result \in [Thread -> {"none", "0", "EAGAIN", "ETIMEDOUT", "EINVAL", "EINTR"}]

Init ==
  /\ word = [a \in Address |-> 0]
  /\ bucket = [b \in Buckets |-> {}]
  /\ ahead = [t \in Thread |-> {}]
  /\ waiter = [t \in Thread |-> None]
  /\ awoken = {} /\ due = {}
  /\ result = [t \in Thread |-> "0"]

Waiting(t) == waiter[t] # None
Changed(t) == word[waiter[t].address] # waiter[t].expected

\* futex_remove_locked, for some waiters of bucket b; it does nothing for those that
\* are not queued any more.
Unlink(b, S) ==
  /\ bucket' = [bucket EXCEPT ![b] = @ \ S]
  /\ ahead' = [t \in Thread |-> IF t \in S THEN {} ELSE ahead[t] \ S]

-----------------------------------------------------------------------------
\* User code stores to the word; no lock.
Store(a, v) ==
  /\ v # word[a]
  /\ word' = [word EXCEPT ![a] = v]
  /\ UNCHANGED << bucket, ahead, waiter, awoken, due, result >>

\* Time goes by: the absolute deadline of a waiting thread passes.
DeadlinePasses(t) ==
  /\ Waiting(t) /\ waiter[t].deadline
  /\ t \notin due
  /\ due' = due \union {t}
  /\ UNCHANGED << word, bucket, ahead, waiter, awoken, result >>

-----------------------------------------------------------------------------
(* futex_wait_impl, called by futex_impl for WAIT and WAIT_BITSET.          *)

Enqueue(t, w) ==
  /\ ~Waiting(t)
  /\ word[w.address] = w.expected
  /\ waiter' = [waiter EXCEPT ![t] = w]
  /\ bucket' = [bucket EXCEPT ![Bucket(w.address)] = @ \union {t}]
  /\ ahead' = [ahead EXCEPT ![t] = bucket[Bucket(w.address)]]
  /\ result' = [result EXCEPT ![t] = "none"]
  /\ UNCHANGED << word, awoken, due >>

\* The word differs already, or the deadline test that precedes the first
\* sleep fails: the clock, or the deadline has passed.
Refuse(t, w, why) ==
  /\ ~Waiting(t)
  /\ \/ why = "EAGAIN" /\ word[w.address] # w.expected
     \/ /\ why \in {"ETIMEDOUT", "EINVAL"} /\ w.deadline
        /\ word[w.address] = w.expected
  /\ result' = [result EXCEPT ![t] = why]
  /\ UNCHANGED << word, bucket, ahead, waiter, awoken, due >>

\* Seeded fault: the record stays in the bucket.
LeaveQueued(t, why) ==
  /\ UNCHANGED << word, bucket, ahead >>
  /\ awoken' = awoken \ {t}
  /\ due' = due \ {t}
  /\ waiter' = [waiter EXCEPT ![t] = None]
  /\ result' = [result EXCEPT ![t] = why]

\* The return that ends the frame with the record in it, which a waker may have
\* unlinked already.
Leave(t, why) ==
  /\ Unlink(Bucket(waiter[t].address), {t})
  /\ awoken' = awoken \ {t}
  /\ due' = due \ {t}
  /\ waiter' = [waiter EXCEPT ![t] = None]
  /\ result' = [result EXCEPT ![t] = why]
  /\ UNCHANGED word

\* Seeded faults: a wake is believed only if the word changed too; the end of a
\* slice starts the timeout anew.
ReturnAwokenIfChanged(t) ==
  Waiting(t) /\ t \in awoken /\ Changed(t) /\ Leave(t, "0")
RestartTimeout(t) ==
  /\ Waiting(t) /\ t \notin awoken /\ ~Changed(t) /\ t \in due
  /\ due' = due \ {t}
  /\ UNCHANGED << word, bucket, ahead, waiter, awoken, result >>

\* The sleep ends and the waiter has the lock again: awoken comes first, then
\* the word, then an error of the kernel, then the deadline.  Otherwise it
\* sleeps again, which is no step.
ReturnAwoken(t) == Waiting(t) /\ t \in awoken /\ Leave(t, "0")
ReturnChanged(t) ==
  Waiting(t) /\ t \notin awoken /\ Changed(t) /\ Leave(t, "0")
ReturnInterrupted(t) ==
  Waiting(t) /\ t \notin awoken /\ ~Changed(t) /\ Leave(t, "EINTR")
ReturnTimedOut(t) ==
  Waiting(t) /\ t \notin awoken /\ ~Changed(t) /\ t \in due
             /\ Leave(t, "ETIMEDOUT")
ReturnClockError(t) ==
  Waiting(t) /\ t \notin awoken /\ ~Changed(t) /\ waiter[t].deadline
             /\ Leave(t, "EINVAL")

-----------------------------------------------------------------------------
(* futex_wake_impl: walk the bucket, skip other addresses and other bits.   *)

\* Seeded fault: a wake takes any waiter of the bucket.
MatchesBucket(t, a, bits) == waiter[t].bits \intersect bits # {}

Matches(t, a, bits) ==
  waiter[t].address = a /\ waiter[t].bits \intersect bits # {}

\* From the first waiter to the last, the first max that match.
Taken(a, max, bits) ==
  LET Matching == {t \in bucket[Bucket(a)] : Matches(t, a, bits)}
  IN {t \in Matching : Cardinality(ahead[t] \intersect Matching) < max}

Wake(a, max, bits) ==
  /\ Taken(a, max, bits) # {}
  /\ awoken' = awoken \union Taken(a, max, bits)
  /\ Unlink(Bucket(a), Taken(a, max, bits))
  /\ UNCHANGED << word, waiter, due, result >>

-----------------------------------------------------------------------------
SleepEnds(t) ==
  \/ ReturnAwoken(t) \/ ReturnChanged(t)
  \/ ReturnTimedOut(t) \/ ReturnClockError(t)

Next ==
  \/ \E a \in Address, v \in Word : Store(a, v)
  \/ \E t \in Thread :
       \/ DeadlinePasses(t)
       \/ \E w \in Waiter :
            \/ Enqueue(t, w)
            \/ \E why \in {"EAGAIN", "ETIMEDOUT", "EINVAL"} : Refuse(t, w, why)
       \/ SleepEnds(t)
       \/ ReturnInterrupted(t)
  \/ \E a \in Address, max \in 1..Cardinality(Thread), bits \in NonEmpty(Bit) :
       Wake(a, max, bits)

Spec == Init /\ [][Next]_vars

\* A slice of 50 ms ends and a deadline passes; nobody need store or wake.
Fairness ==
  \A t \in Thread :
    /\ WF_vars(DeadlinePasses(t))
    /\ WF_vars(ReturnAwoken(t) \/ ReturnChanged(t) \/ ReturnTimedOut(t))

FairSpec == Spec /\ Fairness

-----------------------------------------------------------------------------
(* Properties.                                                              *)

\* The FutexWaiter lives on its thread's stack: it is in a bucket, once and in
\* the right one, exactly while the thread is in futex_wait_impl and no waker
\* has taken it out, so no walk of a bucket meets a record that is gone.
QueuesHoldLiveWaiters ==
  \A b \in Buckets, t \in Thread :
    t \in bucket[b] <=> Waiting(t) /\ t \notin awoken /\ Bucket(waiter[t].address) = b

\* The links of a bucket make a list of its waiters and of nothing else.
QueuesAreLists ==
  /\ \A b \in Buckets : \A t, u \in bucket[b] :
       /\ t # u => (t \in ahead[u] <=> u \notin ahead[t])
       /\ t \in ahead[u] => ahead[t] \subseteq ahead[u]
  /\ \A t \in Thread :
       /\ t \notin ahead[t]
       /\ \A u \in ahead[t] : \E b \in Buckets : {t, u} \subseteq bucket[b]

QueueIntegrity == TypeOK /\ QueuesHoldLiveWaiters /\ QueuesAreLists

\* The buckets are invisible: what callers see is a queue per address.
SameAddress(t) == {u \in ahead[t] : waiter[u].address = waiter[t].address}

Promise == INSTANCE FutexSpec WITH
             line <- [a \in Address |-> {t \in bucket[Bucket(a)] : waiter[t].address = a}],
             before <- [t \in Thread |-> SameAddress(t)],
             call <- waiter,
             woken <- awoken

ImplementsPromise == Promise!Spec

\* A waiter gets away from a word that changed though nobody woke it ("Let a
\* changed predicate escape even when no matching wake reached this emulated
\* queue"), and no counted wake and no deadline is lost.
ChangeObserved ==
  \A t \in Thread : Waiting(t) /\ Changed(t) ~> ~Waiting(t) \/ ~Changed(t)
WakeDelivered == \A t \in Thread : t \in awoken ~> ~Waiting(t)
DeadlineKept ==
  \A t \in Thread : Waiting(t) /\ waiter[t].deadline ~> ~Waiting(t)

\* The sliced sleep ends a wait that no wake ends (libc_shim.c:474-490).
UnwokenWaitsEnd == ChangeObserved /\ DeadlineKept

=============================================================================
