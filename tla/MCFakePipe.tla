------------------------------ MODULE MCFakePipe ------------------------------
(* FakePipe for TLC: a writer and a reader, writes of up to three bytes of   *)
(* which two are atomic, a ring of two or four.                              *)
EXTENDS FakePipe

CONSTANTS w1, r1

OneWriter == {w1}
OneReader == {r1}

=============================================================================
