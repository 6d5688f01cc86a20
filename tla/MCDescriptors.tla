---------------------------- MODULE MCDescriptors ----------------------------
(* Descriptors for TLC: two threads, a few numbers, two stripes.            *)
EXTENDS Descriptors, TLC

CONSTANTS t1, t2, e1, f1, f2

TwoThreads == {t1, t2}
OneOpen    == {e1}
TwoFiles   == {f1, f2}
TwoHigh    == 10..11
ThreeLow   == 0..2
Symmetry   == Permutations(TwoThreads) \union Permutations(TwoFiles)
Parity(fd) == fd % 2

=============================================================================
