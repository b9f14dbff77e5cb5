----------------------------- MODULE ReplayEdge -----------------------------
(***************************************************************************)
(* What a replay session promises, with no database, cache or request in   *)
(* sight: a revealed edge that only ever advances, a view cursor at or     *)
(* behind it, and a status that stops for good once it has ended.  Every   *)
(* step is one accepted operation applied at one instant to the session.   *)
(* ReplaySession implements it; PlaybackDriver builds on it.               *)
(***************************************************************************)
EXTENDS Integers

CONSTANTS
    LastBar,        \* feed.TotalBars - 1
    Start,          \* the last warmup bar, where a session opens
    MaxCount,       \* the largest advance one operation may ask for
    Timeframes,     \* the valid viewing timeframes, as minutes
    BaseTimeframe,  \* the feed's own timeframe
    MinSpeed, MaxSpeed

VARIABLES status, cursor, revealed, timeframe, speed

vars == <<status, cursor, revealed, timeframe, speed>>

Live(s) == s \in {"open", "paused"}

Init ==
    /\ status = "open"
    /\ cursor = Start
    /\ revealed = Start
    /\ timeframe \in Timeframes
    /\ speed = 1

\* An advance past the edge releases at most the bars it asked for, and the
\* view lands on the newest of them.
Advance(n) ==
    /\ Live(status)
    /\ revealed' \in (revealed + 1) .. (revealed + n)
    /\ revealed' <= LastBar
    /\ cursor' = revealed'
    /\ UNCHANGED <<status, timeframe, speed>>

\* Any other move of the view stays at or behind the edge.
Look ==
    /\ Live(status)
    /\ cursor' \in 0 .. revealed
    /\ UNCHANGED <<status, revealed, timeframe, speed>>

SetTimeframe ==
    /\ Live(status)
    /\ timeframe' \in {t \in Timeframes : t >= BaseTimeframe}
    /\ cursor' \in 0 .. revealed
    /\ UNCHANGED <<status, revealed, speed>>

SetSpeed ==
    /\ Live(status)
    /\ speed' \in MinSpeed .. MaxSpeed
    /\ cursor' \in 0 .. revealed
    /\ UNCHANGED <<status, revealed, timeframe>>

Pause ==
    /\ status = "open"
    /\ status' = "paused"
    /\ UNCHANGED <<cursor, revealed, timeframe, speed>>

Resume ==
    /\ status = "paused"
    /\ status' = "open"
    /\ UNCHANGED <<cursor, revealed, timeframe, speed>>

Close ==
    /\ Live(status)
    /\ status' = "closed"
    /\ cursor' \in 0 .. revealed
    /\ UNCHANGED <<revealed, timeframe, speed>>

\* The sweep overwrites whatever status it finds (AbandonIdle has no recheck),
\* so not even the abstract session keeps "closed" from it.
Abandon ==
    /\ status' = "abandoned"
    /\ UNCHANGED <<cursor, revealed, timeframe, speed>>

Next ==
    \/ \E n \in 1 .. MaxCount : Advance(n)
    \/ Look
    \/ SetTimeframe
    \/ SetSpeed
    \/ Pause
    \/ Resume
    \/ Close
    \/ Abandon

Spec == Init /\ [][Next]_vars
=============================================================================
