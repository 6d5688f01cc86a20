----------------------------- MODULE FutexSpec -----------------------------
(***************************************************************************)
(* What the futex system call of source/libc_shim.c promises its callers:   *)
(* one queue of waiters per address, in the order of arrival, a wake that   *)
(* takes the first matching ones, and a wait whose return value tells why   *)
(* it ended.                                                                *)
(***************************************************************************)
EXTENDS Integers, FiniteSets

CONSTANTS
  Thread,   \* callers of futex
  Address,  \* futex words
  Bit,      \* the bits of a bitset
  MaxWord,  \* bound: the values of a word
  None      \* no call

Word == 0..MaxWord
NonEmpty(S) == SUBSET S \ {{}}

VARIABLES
  word,     \* the value of each futex word
  line,     \* the threads waiting at each address
  before,   \* before[t]: those of its line that came before t
  call,     \* the arguments of the wait each thread is in
  woken,    \* threads a wake has counted and that have not returned yet
  result    \* what each thread's last wait returned; "none" while it waits

vars == << word, line, before, call, woken, result >>

Call == [address : Address, expected : Word, bits : NonEmpty(Bit),
         deadline : BOOLEAN]

Init ==
  /\ word \in [Address -> Word]
  /\ line = [a \in Address |-> {}]
  /\ before = [t \in Thread |-> {}]
  /\ call = [t \in Thread |-> None]
  /\ woken = {}
  /\ result = [t \in Thread |-> "0"]

Store(a, v) ==
  /\ word' = [word EXCEPT ![a] = v]
  /\ UNCHANGED << line, before, call, woken, result >>

\* A wait that starts while the word has the expected value joins the line.
Wait(t, c) ==
  /\ call[t] = None
  /\ word[c.address] = c.expected
  /\ call' = [call EXCEPT ![t] = c]
  /\ line' = [line EXCEPT ![c.address] = @ \union {t}]
  /\ before' = [before EXCEPT ![t] = line[c.address]]
  /\ result' = [result EXCEPT ![t] = "none"]
  /\ UNCHANGED << word, woken >>

\* One that cannot wait returns at once, with the reason.
WaitRefused(t, c, why) ==
  /\ call[t] = None
  /\ \/ why = "EAGAIN" /\ word[c.address] # c.expected
     \/ why \in {"ETIMEDOUT", "EINVAL"} /\ c.deadline
  /\ result' = [result EXCEPT ![t] = why]
  /\ UNCHANGED << word, line, before, call, woken >>

\* Some threads of the line at a are gone.
Gone(a, S) ==
  /\ line' = [line EXCEPT ![a] = @ \ S]
  /\ before' = [t \in Thread |-> IF t \in S THEN {} ELSE before[t] \ S]

\* FUTEX_WAKE: the first waiters at a that match, at most max of them.
First(a, max, bits) ==
  LET Match == {t \in line[a] : call[t].bits \intersect bits # {}}
  IN {t \in Match : Cardinality(before[t] \intersect Match) < max}

Wake(a, max, bits) ==
  /\ woken' = woken \union First(a, max, bits)
  /\ Gone(a, First(a, max, bits))
  /\ UNCHANGED << word, call, result >>

\* A wait ends: 0 for a thread that was woken, and for one that sees a changed
\* word; an error only for a thread that no wake has counted.
Return(t, why) ==
  /\ call[t] # None
  /\ IF t \in woken
     THEN why = "0"
     ELSE \/ why = "0" /\ word[call[t].address] # call[t].expected
          \/ why \in {"ETIMEDOUT", "EINVAL"} /\ call[t].deadline
          \/ why = "EINTR"
  /\ woken' = woken \ {t}
  /\ Gone(call[t].address, {t})
  /\ call' = [call EXCEPT ![t] = None]
  /\ result' = [result EXCEPT ![t] = why]
  /\ UNCHANGED word

Error == {"EAGAIN", "ETIMEDOUT", "EINVAL", "EINTR"}

Next ==
  \/ \E a \in Address, v \in Word : Store(a, v)
  \/ \E t \in Thread, c \in Call :
       Wait(t, c) \/ \E why \in Error : WaitRefused(t, c, why)
  \/ \E a \in Address, max \in 1..Cardinality(Thread), bits \in NonEmpty(Bit) :
       Wake(a, max, bits)
  \/ \E t \in Thread, why \in Error \union {"0"} : Return(t, why)

Spec == Init /\ [][Next]_vars

=============================================================================
