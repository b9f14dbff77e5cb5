-------------------------- MODULE MCPlaybackDriver --------------------------
\* Small instances of PlaybackDriver for TLC.
EXTENDS PlaybackDriver, TLC

CONSTANTS r1, r2, s1, s2, s3, d1, d2

TwoAndOne == s1 :> r1 @@ s2 :> r1 @@ s3 :> r2
=============================================================================
