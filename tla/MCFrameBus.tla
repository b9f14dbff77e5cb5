----------------------------- MODULE MCFrameBus -----------------------------
\* Small instances of FrameBus for TLC.
EXTENDS FrameBus, TLC

CONSTANTS s1, s2, t1, t2

BusSymmetry == Permutations(Sockets) \cup Permutations(Topics)
=============================================================================
