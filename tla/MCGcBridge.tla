----------------------------- MODULE MCGcBridge -----------------------------
(* GcBridge for TLC: the service thread and one or two other mutators.      *)
EXTENDS GcBridge

CONSTANTS service, m1, m2

TwoMutators   == {service, m1}
ThreeMutators == {service, m1, m2}
NoThreads     == {}
OneThread     == {m1}

=============================================================================
