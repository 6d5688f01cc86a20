------------------------------ MODULE MCFutex ------------------------------
(* Futex for TLC: two words that share a bucket, two threads, two bits.     *)
EXTENDS Futex

CONSTANTS t1, t2, a1, a2, b1, b2

TwoThreads == {t1, t2}
Colliding  == {a1, a2}
TwoBits    == {b1, b2}
HashOf(a)  == 0

=============================================================================
