--------------------------- MODULE MCGuestThreads ---------------------------
(* GuestThreads for TLC: a main thread and two threads that create, join,   *)
(* detach and exit as they like, and one holder of references.              *)
EXTENDS GuestThreads

CONSTANTS t1, t2, main, gc

TwoThreads == {t1, t2}
OneHost    == {main}
Collector  == {gc}

=============================================================================
