-------------------------- MODULE MCReplaySession --------------------------
\* Small instances of ReplaySession for TLC.
EXTENDS ReplaySession, TLC

CONSTANTS h1, h2, w1, w2

MCCounts == {-1, 0, 1, 2}
MCTwoCounts == {-1, 2}
MCOneCount == {1}
MCJump == {2}
MCSeeks == {-1, 0, 2}
MCOneSeek == {0}
MCNoSeeks == {}

Symmetry == Permutations(Handlers) \cup Permutations(Sweepers)
=============================================================================
