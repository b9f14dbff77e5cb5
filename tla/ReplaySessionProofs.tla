------------------------ MODULE ReplaySessionProofs ------------------------
(***************************************************************************)
(* The safety of a replay session for any number of handlers and sweepers, *)
(* any feed length and any commands, and its implementation of ReplayEdge. *)
(***************************************************************************)
EXTENDS ReplaySession, TLAPS

USE DEF Live

\* What the commands of the handlers look like.
LEMMA CommandType ==
    /\ \A c \in Commands :
        /\ c.arg \in Int
        /\ c.op = "step" => c.arg <= MaxCount
        /\ c.op = "tick" => c.arg = 1
        /\ c.op = "timeframe" => c.arg \in Timeframes
    /\ NoCommand \in Commands
<1>1. /\ \A n \in Counts : n \in Int /\ n <= MaxCount
      /\ Seeks \subseteq Int /\ Timeframes \subseteq Int /\ Speeds \subseteq Int
      /\ 1 \in Int /\ 0 \in Int
  BY SessionAssumption
<1>2. \A c \in Commands : c.arg \in Int
  BY <1>1 DEF Commands
<1>3. \A c \in Commands : c.op = "step" => c.arg \in Counts
  BY DEF Commands
<1>4. \A c \in Commands : c.op = "tick" => c.arg = 1
  BY DEF Commands
<1>5. \A c \in Commands : c.op = "timeframe" => c.arg \in Timeframes
  BY DEF Commands
<1>6. NoCommand \in Commands
  BY DEF Commands, NoCommand
<1> QED  BY <1>1, <1>2, <1>3, <1>4, <1>5, <1>6

\* Sessions, merged with a snapshot or freshly missing, stay sessions.
LEMMA SessionType ==
    /\ NoEntity \in Session
    /\ \A t \in Timeframes : Opened(t) \in Session
    /\ \A e \in Session : Snapshot(e) \in [cursor: Int, revealed: Int]
    /\ \A e \in Session, c \in [cursor: Int, revealed: Int] : Merge(e, c) \in Session
    /\ Missing \in [cursor: Int, revealed: Int]
<1> USE SessionAssumption
<1>1. BaseTimeframe \in Int /\ Start \in Int /\ Timeframes \subseteq Int
  OBVIOUS
<1>2. \A t \in Timeframes : Opened(t) \in Session
  BY <1>1 DEF Opened, Session, Statuses
<1>3. \A e \in Session, c \in [cursor: Int, revealed: Int] : Merge(e, c) \in Session
  BY DEF Merge, Session
<1> QED  BY <1>1, <1>2, <1>3 DEF NoEntity, Snapshot, Missing, Session

\* The entity an accepted command produces is a session.
LEMMA ResultType ==
    ASSUME NEW c \in Commands, NEW e \in Session
    PROVE  Result(c, e) \in Session
<1>1. c.arg \in Int
  BY CommandType
<1>2. \A f \in Session : Checkpointed(f) \in Session
  BY SessionAssumption DEF Checkpointed, Session
<1>3. MoveTo(e, e.cursor + c.arg) \in Session
  <2>1. e.cursor \in Int /\ e.revealed \in Int
    BY DEF Session
  <2>2. e.cursor + c.arg \in Int /\ Higher(e.cursor + c.arg, e.revealed) \in Int
    BY <2>1, <1>1 DEF Higher
  <2> QED  BY <2>2 DEF MoveTo, Session
<1>4. [e EXCEPT !.cursor = c.arg] \in Session /\ [e EXCEPT !.timeframe = c.arg] \in Session
         /\ [e EXCEPT !.speed = c.arg] \in Session
  BY <1>1 DEF Session
<1>5. [e EXCEPT !.status = "paused"] \in Session /\ [e EXCEPT !.status = "open"] \in Session
         /\ [e EXCEPT !.status = "closed"] \in Session
  BY DEF Session, Statuses
<1> QED  BY <1>2, <1>3, <1>4, <1>5 DEF Result

\* Every step keeps every variable in its type.
LEMMA TypeStep == TypeOK /\ [Next]_vars => TypeOK'
<1> SUFFICES ASSUME TypeOK, [Next]_vars PROVE TypeOK'
  OBVIOUS
<1> USE DEF TypeOK, Loaded
<1>0. /\ NoCommand \in Commands /\ NoEntity \in Session /\ Start \in Int
      /\ Missing \in [cursor: Int, revealed: Int]
  BY CommandType, SessionType, SessionAssumption
<1>f. ASSUME NEW p \in Handlers, Finish(p)
      PROVE  /\ pc' \in [Handlers \cup Sweepers ->
                         {"idle", "row", "abandon", "clear"} \cup Loaded]
             /\ cmd' \in [Handlers -> Commands]
             /\ ent' \in [Handlers -> Session]
             /\ floor' \in [Handlers -> Int]
  BY <1>f, <1>0 DEF Finish, Goto
<1>1. ASSUME NEW p \in Handlers, NEW c \in Commands, LoadRow(p, c) PROVE TypeOK'
  BY <1>1 DEF LoadRow, Goto
<1>2. ASSUME NEW p \in Handlers, LoadState(p) PROVE TypeOK'
  <2>1. Merge(ent[p], cache) \in Session
    BY SessionType
  <2> QED  BY <1>2, <2>1 DEF LoadState, Goto
<1>3. ASSUME NEW p \in Handlers, Stage(p) PROVE TypeOK'
  BY <1>3, ResultType DEF Stage, Goto
<1>4. ASSUME NEW p \in Handlers, Answer(p) PROVE TypeOK'
  <2>1. \A bar \in AnswersWith(cmd[p], ent[p]) : bar \in Int
    BY CommandType DEF AnswersWith, Session
  <2> QED  BY <1>4, <1>f, <2>1 DEF Answer, Higher
<1>5. ASSUME NEW p \in Handlers, Exhaust(p) PROVE TypeOK'
  BY <1>5 DEF Exhaust, Goto
<1>6. ASSUME NEW p \in Handlers, Write(p) PROVE TypeOK'
  <2>1. Written(cmd[p], ent[p]) \in Session
    <3>1. row.version + 1 \in Int /\ ent[p].version + 1 \in Int /\ ent[p].status \in Statuses
      BY DEF Session
    <3> QED  BY <3>1 DEF Written, Session
  <2>2. ent' \in [Handlers -> Session]
    BY <1>6 DEF Write, Session
  <2> QED  BY <1>6, <2>1, <2>2 DEF Write, Goto
<1>7. ASSUME NEW p \in Handlers, Conflict(p) PROVE TypeOK'
  BY <1>7, <1>f DEF Conflict
<1>8. ASSUME NEW p \in Handlers, SaveState(p) PROVE TypeOK'
  BY <1>8, <1>0, SessionType DEF SaveState, Goto
<1>9. ASSUME NEW p \in Handlers, Publish(p) PROVE TypeOK'
  <2>1. ent[p].revealed \in Int
    BY DEF Session
  <2>2. shown' \in Int /\ frame' \in Int
    BY <1>9, <2>1 DEF Publish, Higher
  <2> QED  BY <1>9, <2>2, <1>f DEF Publish, Goto
<1>10. ASSUME NEW p \in Handlers, Emit(p) PROVE TypeOK'
  BY <1>10, <1>f DEF Emit
<1>11. ASSUME NEW p \in Handlers, Drop(p) PROVE TypeOK'
  BY <1>11, <1>f DEF Drop
<1>12. ASSUME NEW w \in Sweepers, Sweep(w) PROVE TypeOK'
  <2>1. Abandoned(row) \in Session
    <3>1. row.version + 1 \in Int /\ "abandoned" \in Statuses
      BY DEF Session, Statuses
    <3> QED  BY <3>1 DEF Abandoned, Session
  <2> QED  BY <1>12, <1>0, <2>1
              DEF Sweep, SweepSelect, SweepUpdate, SweepClear, SweepEmit, Goto
<1>13. ASSUME Expire \/ FallIdle PROVE TypeOK'
  BY <1>13, <1>0 DEF Expire, FallIdle
<1>14. ASSUME UNCHANGED vars PROVE TypeOK'
  BY <1>14 DEF vars
<1> QED
  BY <1>1, <1>2, <1>3, <1>4, <1>5, <1>6, <1>7, <1>8, <1>9, <1>10, <1>11, <1>12,
     <1>13, <1>14 DEF Next, Handle

\* The initial state is in its type.
LEMMA TypeInit == Init => TypeOK
<1> SUFFICES ASSUME Init PROVE TypeOK
  OBVIOUS
<1>1. row \in Session /\ Snapshot(row) \in [cursor: Int, revealed: Int]
  BY SessionType DEF Init
<1>2. /\ Start \in Int /\ NoCommand \in Commands /\ NoEntity \in Session
      /\ Missing \in [cursor: Int, revealed: Int]
  BY SessionType, CommandType, SessionAssumption
<1> QED  BY <1>1, <1>2 DEF Init, TypeOK

\* Type correctness, for every instance of the constants.
THEOREM TypeCorrect == Spec => []TypeOK
<1> QED  BY TypeInit, TypeStep, PTL DEF Spec

----------------------------------------------------------------------------
(* The inductive invariant. *)

\* An entity nobody touched stays good while the row stands still.
LEMMA UntouchedEntity ==
    ASSUME NEW q \in Handlers, EntityInv(q), row' = row, pc'[q] = pc[q],
           cmd'[q] = cmd[q], ent'[q] = ent[q], floor'[q] = floor[q]
    PROVE  EntityInv(q)'
BY DEF EntityInv, InFeed, SameSettings, Intended

\* A write by somebody else only leaves it outdated: its version no longer matches.
LEMMA OutdatedEntity ==
    ASSUME TypeOK, TypeOK', NEW q \in Handlers, EntityInv(q),
           row'.version = row.version + 1, row'.revealed >= row.revealed,
           pc'[q] = pc[q], ent'[q] = ent[q], floor'[q] = floor[q]
    PROVE  EntityInv(q)'
<1>1. /\ row.version \in Int /\ ent[q].version \in Int /\ ent[q].revealed \in Int
      /\ row.revealed \in Int /\ row'.revealed \in Int
  BY DEF TypeOK, Session
<1>2. pc[q] # "idle" => ent'[q].version < row'.version
  BY <1>1 DEF EntityInv
<1> QED  BY <1>1, <1>2 DEF EntityInv, InFeed, Loaded

\* A request that is over asks nothing of its entity.
LEMMA FinishedEntity ==
    ASSUME TypeOK, NEW p \in Handlers, Finish(p), row' = row,
           \A q \in Handlers : EntityInv(q)
    PROVE  \A q \in Handlers : EntityInv(q)'
<1>1. EntityInv(p)'
  BY DEF EntityInv, Finish, Goto, TypeOK, Loaded
<1>2. ASSUME NEW q \in Handlers, q # p PROVE EntityInv(q)'
  BY <1>2, UntouchedEntity DEF Finish, Goto, TypeOK
<1> QED  BY <1>1, <1>2

\* What a handler decides to write is one accepted operation away from the row.
LEMMA StagedIsIntended ==
    ASSUME TypeOK, IInv, NEW p \in Handlers, pc[p] = "loaded", Accepts(cmd[p], ent[p])
    PROVE  LET e == Result(cmd[p], ent[p]) IN
           /\ InFeed(e)
           /\ ent[p].revealed <= e.revealed
           /\ e.version = ent[p].version
           /\ e.version = row.version => Intended(cmd[p], e)
<1> DEFINE c == cmd[p]
           o == ent[p]
<1>1. /\ o \in Session /\ row \in Session /\ c \in Commands
      /\ LastBar \in Int /\ MaxCount \in Nat \ {0} /\ CheckpointEvery \in Nat \ {0}
  BY SessionAssumption DEF TypeOK
<1>2. /\ c.arg \in Int
      /\ c.op = "step" => c.arg <= MaxCount
      /\ c.op = "tick" => c.arg = 1
      /\ c.op = "timeframe" => c.arg \in Timeframes
  BY <1>1, CommandType
<1>3. InFeed(o) /\ EntityInv(p) /\ RowInBounds
  BY DEF IInv, EntityInv, Loaded
<1>4. o.version = row.version => /\ SameSettings(o)
                                 /\ o.revealed = row.revealed
                                 /\ o.checkpoint = row.checkpoint
  BY <1>3 DEF EntityInv
<1> HIDE DEF c, o
<1>5. /\ o.cursor \in Int /\ o.revealed \in Int /\ o.checkpoint \in Int /\ o.version \in Int
      /\ row.revealed \in Int /\ row.checkpoint \in Int
  BY <1>1 DEF Session
<1>6. ASSUME NEW f \in Session
      PROVE  /\ Checkpointed(f) = [f EXCEPT !.checkpoint = Checkpointed(f).checkpoint]
             /\ f.checkpoint <= f.revealed /\ f.revealed - f.checkpoint < CheckpointEvery
                  => Checkpointed(f) = f
             /\ f.checkpoint <= f.revealed
                  => /\ Checkpointed(f).checkpoint <= f.revealed
                     /\ f.revealed - Checkpointed(f).checkpoint < CheckpointEvery
  BY <1>1 DEF Checkpointed, Session
<1> DEFINE Claim(e) == /\ InFeed(e)
                       /\ o.revealed <= e.revealed
                       /\ e.version = o.version
                       /\ e.version = row.version => Intended(c, e)
<1>7. Accepts(c, o)
  BY DEF c, o
<1>8. CASE c.op \in {"step", "tick"}
  <2> DEFINE t == o.cursor + c.arg
             f == MoveTo(o, t)
             e == Checkpointed(f)
  <2>1. t \in 0 .. LastBar /\ Live(o.status) /\ (c.op = "tick" => o.status = "open")
    BY <1>7, <1>8 DEF Accepts
  <2>2. t <= o.revealed + MaxCount
    BY <1>1, <1>2, <1>3, <1>5, <1>8 DEF InFeed
  <2>3. f \in Session /\ f.cursor = t /\ f.revealed = Higher(t, o.revealed)
           /\ f.checkpoint = o.checkpoint /\ f.version = o.version /\ f.status = o.status
           /\ f.timeframe = o.timeframe /\ f.speed = o.speed
    <3>1. t \in Int /\ Higher(t, o.revealed) \in Int
      BY <1>2, <1>5 DEF Higher
    <3> QED  BY <1>1, <3>1 DEF MoveTo, Session
  <2>4. /\ e.cursor = t /\ e.revealed = Higher(t, o.revealed) /\ e.version = o.version
        /\ e.status = o.status /\ e.timeframe = o.timeframe /\ e.speed = o.speed
        /\ o.checkpoint <= f.revealed
             => e.checkpoint <= e.revealed /\ e.revealed - e.checkpoint < CheckpointEvery
    <3> HIDE DEF f
    <3>1. e = [f EXCEPT !.checkpoint = e.checkpoint]
      BY <1>6, <2>3
    <3>2. e.cursor = f.cursor /\ e.revealed = f.revealed /\ e.version = f.version
            /\ e.status = f.status /\ e.timeframe = f.timeframe /\ e.speed = f.speed
      BY <3>1, <2>3 DEF Session
    <3> QED  BY <3>2, <2>3, <1>6
  <2> HIDE DEF e, f
  <2>5. InFeed(e) /\ o.revealed <= e.revealed
    BY <2>1, <2>4, <1>3, <1>5, <1>1 DEF InFeed, Higher
  <2>6. ASSUME o.version = row.version PROVE Intended(c, e)
    <3>1. o.checkpoint <= f.revealed
      BY <2>6, <1>3, <1>4, <1>5, <2>3, <2>1 DEF RowInBounds, Higher
    <3>2. SameSettings(e) /\ Live(row.status) /\ (c.op = "tick" => row.status = "open")
      BY <2>6, <1>4, <2>4, <2>1 DEF SameSettings
    <3>3. e.revealed = row.revealed
             \/ /\ e.cursor = e.revealed /\ row.revealed < e.revealed
                /\ e.revealed <= row.revealed + MaxCount
      BY <2>6, <1>4, <1>5, <2>1, <2>2, <2>4 DEF Higher
    <3> QED  BY <3>1, <3>2, <3>3, <2>4, <1>8 DEF Intended
  <2>7. Result(c, o) = e
    BY <1>8 DEF Result, e, f
  <2> QED  BY <2>4, <2>5, <2>6, <2>7 DEF c, o
<1>9. CASE c.op \in {"seek", "timeframe", "speed"}
  <2> DEFINE f == IF c.op = "seek" THEN [o EXCEPT !.cursor = c.arg]
                  ELSE IF c.op = "timeframe" THEN [o EXCEPT !.timeframe = c.arg]
                  ELSE [o EXCEPT !.speed = c.arg]
             e == Checkpointed(f)
  <2>1. /\ c.op = "seek" => c.arg \in 0 .. o.revealed
        /\ c.op = "timeframe" => c.arg >= BaseTimeframe
        /\ c.op = "speed" => c.arg \in MinSpeed .. MaxSpeed
        /\ Live(o.status)
    BY <1>7, <1>9 DEF Accepts
  <2>2. /\ f \in Session /\ f.revealed = o.revealed /\ f.version = o.version
        /\ f.checkpoint = o.checkpoint /\ f.status = o.status
        /\ f.cursor = IF c.op = "seek" THEN c.arg ELSE o.cursor
        /\ f.timeframe = IF c.op = "timeframe" THEN c.arg ELSE o.timeframe
        /\ f.speed = IF c.op = "speed" THEN c.arg ELSE o.speed
    BY <1>1, <1>2, <1>9 DEF Session
  <2>3. Result(c, o) = e
    BY <1>9 DEF Result
  <2> HIDE DEF f
  <2>4. e.cursor = f.cursor /\ e.revealed = f.revealed /\ e.version = f.version
           /\ e.status = f.status /\ e.timeframe = f.timeframe /\ e.speed = f.speed
    <3>1. e = [f EXCEPT !.checkpoint = e.checkpoint]
      BY <1>6, <2>2
    <3> QED  BY <3>1, <2>2 DEF Session
  <2>5. InFeed(e) /\ o.revealed <= e.revealed
    BY <2>1, <2>2, <2>4, <1>3, <1>5 DEF InFeed
  <2>6. ASSUME o.version = row.version PROVE Intended(c, e)
    <3>1. e.checkpoint <= e.revealed /\ e.revealed - e.checkpoint < CheckpointEvery
      BY <2>6, <2>2, <2>4, <1>3, <1>4, <1>6 DEF RowInBounds
    <3> HIDE DEF e
    <3> QED  BY <3>1, <2>1, <2>2, <2>4, <2>6, <1>2, <1>4, <1>9 DEF Intended, SameSettings
  <2> QED  BY <2>2, <2>3, <2>4, <2>5, <2>6 DEF c, o
<1>10. CASE c.op \in {"pause", "resume", "close"}
  <2> DEFINE e == Result(c, o)
  <2>1. /\ e.status = IF c.op = "pause" THEN "paused" ELSE IF c.op = "resume" THEN "open"
                      ELSE "closed"
        /\ e.cursor = o.cursor /\ e.revealed = o.revealed /\ e.version = o.version
        /\ e.timeframe = o.timeframe /\ e.speed = o.speed /\ e.checkpoint = o.checkpoint
    BY <1>1, <1>10 DEF Result, Session
  <2>2. /\ Live(o.status)
        /\ c.op = "pause" => o.status = "open"
        /\ c.op = "resume" => o.status = "paused"
    BY <1>7, <1>10 DEF Accepts
  <2>3. ASSUME o.version = row.version PROVE Intended(c, e)
    BY <2>1, <2>2, <2>3, <1>3, <1>4, <1>10 DEF Intended, SameSettings, RowInBounds
  <2> QED  BY <2>1, <2>3, <1>3, <1>5 DEF c, o, InFeed
<1> QED  BY <1>7, <1>8, <1>9, <1>10 DEF Accepts

\* What a successful write does to the row.
LEMMA WriteFacts ==
    ASSUME TypeOK, IInv, NEW p \in Handlers, Write(p)
    PROVE  /\ Live(row.status)
           /\ Intended(cmd[p], ent[p])
           /\ row'.version = row.version + 1
           /\ row'.revealed = ent[p].revealed
           /\ row'.revealed >= row.revealed
           /\ row'.status = ent[p].status
           /\ RowInBounds'
           /\ InFeed(ent[p])
           /\ \/ row'.cursor = ent[p].cursor /\ cmd[p].op \notin {"pause", "resume"}
              \/ row'.cursor = row.cursor /\ cmd[p].op \in {"pause", "resume"}
           /\ cmd[p].op \notin {"pause", "resume"}
                => row'.timeframe = ent[p].timeframe /\ row'.speed = ent[p].speed
           /\ cmd[p].op \in {"pause", "resume"}
                => row'.timeframe = row.timeframe /\ row'.speed = row.speed
<1> DEFINE e == ent[p]
           c == cmd[p]
<1>1. e \in Session /\ row \in Session /\ EntityInv(p) /\ RowInBounds
  BY DEF TypeOK, IInv
<1>2. pc[p] = "write" /\ row.version = e.version /\ row' = Written(c, e)
  BY DEF Write
<1>3. Intended(c, e) /\ InFeed(e)
  BY <1>1, <1>2 DEF EntityInv, Loaded
<1> HIDE DEF e, c
<1>4. /\ e.version \in Int /\ e.revealed \in Int /\ row.revealed \in Int /\ MaxCount \in Int
      /\ LastBar \in Int
  BY <1>1, SessionAssumption DEF Session
<1>5. CASE c.op \in {"pause", "resume"}
  <2>1. /\ row'.status = e.status /\ row'.version = row.version + 1
        /\ row'.revealed = row.revealed /\ row'.cursor = row.cursor
        /\ row'.checkpoint = row.checkpoint
        /\ row'.timeframe = row.timeframe /\ row'.speed = row.speed
    BY <1>1, <1>2, <1>5 DEF Written, Session
  <2>2. e.revealed = row.revealed /\ Live(row.status)
    BY <1>3, <1>5 DEF Intended
  <2>3. RowInBounds'
    BY <2>1, <1>1 DEF RowInBounds
  <2> QED  BY <2>1, <2>2, <2>3, <1>3, <1>4, <1>5 DEF e, c
<1>6. CASE c.op \notin {"pause", "resume"}
  <2>1. /\ row'.status = e.status /\ row'.version = row.version + 1
        /\ row'.revealed = e.revealed /\ row'.cursor = e.cursor
        /\ row'.checkpoint = e.checkpoint
        /\ row'.timeframe = e.timeframe /\ row'.speed = e.speed
    BY <1>1, <1>2, <1>6 DEF Written, Session
  <2>2. /\ e.revealed >= row.revealed /\ Live(row.status)
        /\ e.checkpoint <= e.revealed /\ e.revealed - e.checkpoint < CheckpointEvery
    BY <1>3, <1>4 DEF Intended
  <2>3. RowInBounds'
    BY <2>1, <2>2, <1>3 DEF RowInBounds, InFeed
  <2> QED  BY <2>1, <2>2, <2>3, <1>3, <1>4, <1>6 DEF e, c
<1> QED  BY <1>5, <1>6

\* What a sweep's statement does to the row.
LEMMA SweepFacts ==
    ASSUME TypeOK, NEW w \in Sweepers, SweepUpdate(w)
    PROVE  /\ row'.version = row.version + 1
           /\ row'.status = "abandoned"
           /\ row'.revealed = row.revealed /\ row'.cursor = row.cursor
           /\ row'.checkpoint = row.checkpoint
           /\ row'.timeframe = row.timeframe /\ row'.speed = row.speed
BY DEF SweepUpdate, Abandoned, TypeOK, Session

\* The initial state satisfies the inductive invariant.
LEMMA InvInit == Init => IInv
<1> SUFFICES ASSUME Init PROVE IInv
  OBVIOUS
<1> USE SessionAssumption
<1>1. /\ row.cursor = Start /\ row.revealed = Start /\ row.checkpoint = Start
      /\ row.version = 1 /\ row.status = "open"
  BY DEF Init, Opened
<1>2. CacheBehindRow
  BY <1>1 DEF Init, CacheBehindRow, Snapshot
<1>3. NothingShownEarly /\ RowInBounds
  BY <1>1 DEF Init, NothingShownEarly, RowInBounds
<1>4. \A p \in Handlers : EntityInv(p)
  BY DEF Init, EntityInv, Loaded
<1>5. CloseInv /\ ClosedOnce
  BY DEF Init, CloseInv, ClosedOnce, Closing
<1> QED  BY <1>2, <1>3, <1>4, <1>5 DEF IInv

\* The steps that leave the row, the snapshot and the outbox alone and do not
\* end in "save", "publish" or "emit" disturb only the entity in hand.
LEMMA QuietStep ==
    ASSUME TypeOK, IInv, NEW p \in Handlers,
           UNCHANGED <<row, cache, emitted>>,
           shown' <= row.revealed, frame' <= shown',
           \A q \in Handlers : EntityInv(q)',
           \A q \in Handlers : q # p => pc'[q] = pc[q] /\ cmd'[q] = cmd[q],
           pc'[p] \in {"idle", "row", "loaded", "write"}
    PROVE  IInv'
<1>1. CacheBehindRow' /\ RowInBounds' /\ ClosedOnce'
  BY DEF IInv, CacheBehindRow, RowInBounds, ClosedOnce
<1>2. NothingShownEarly'
  BY DEF NothingShownEarly
<1>3. CloseInv'
  BY DEF IInv, CloseInv, Closing
<1> QED  BY <1>1, <1>2, <1>3 DEF IInv

\* Every step keeps the inductive invariant.
LEMMA InvStep == TypeOK /\ IInv /\ [Next]_vars => IInv'
<1> SUFFICES ASSUME TypeOK, IInv, [Next]_vars PROVE IInv'
  OBVIOUS
<1>t. TypeOK'
  BY TypeStep
<1>a. /\ CacheBehindRow /\ NothingShownEarly /\ RowInBounds /\ CloseInv /\ ClosedOnce
      /\ \A q \in Handlers : EntityInv(q)
  BY DEF IInv
<1>n. /\ row.revealed \in Int /\ shown \in Int /\ frame \in Int /\ row.version \in Int
      /\ \A q \in Handlers : ent[q].revealed \in Int /\ ent[q].version \in Int
                             /\ floor[q] \in Int
  BY DEF TypeOK, Session
<1>s. shown <= row.revealed /\ frame <= shown
  BY <1>a DEF NothingShownEarly
<1>h. \A p \in Handlers : p \notin Sweepers
  BY SessionAssumption
<1>1. ASSUME NEW p \in Handlers, NEW c \in Commands, LoadRow(p, c) PROVE IInv'
  <2>1. /\ pc' = [pc EXCEPT ![p] = "row"] /\ ent' = [ent EXCEPT ![p] = row]
        /\ floor' = [floor EXCEPT ![p] = shown] /\ cmd' = [cmd EXCEPT ![p] = c]
        /\ UNCHANGED <<row, cache, emitted, shown, frame>>
    BY <1>1 DEF LoadRow, Goto
  <2>2. EntityInv(p)'
    BY <2>1, <1>a, <1>n, <1>s
       DEF EntityInv, TypeOK, Loaded, InFeed, RowInBounds, SameSettings
  <2>3. ASSUME NEW q \in Handlers, q # p PROVE EntityInv(q)'
    BY <2>1, <2>3, <1>a, UntouchedEntity DEF TypeOK
  <2> QED  BY <2>1, <2>2, <2>3, <1>s, QuietStep DEF TypeOK
<1>2. ASSUME NEW p \in Handlers, LoadState(p) PROVE IInv'
  <2>1. /\ pc[p] = "row" /\ pc' = [pc EXCEPT ![p] = "loaded"]
        /\ ent' = [ent EXCEPT ![p] = Merge(ent[p], cache)] \/ ent' = ent
        /\ UNCHANGED <<row, cache, emitted, shown, frame, cmd, floor>>
    BY <1>2 DEF LoadState, Goto
  <2>2. /\ ent'[p].version = ent[p].version
        /\ SameSettings(ent'[p]) <=> SameSettings(ent[p])
        /\ ent'[p].checkpoint = ent[p].checkpoint
        /\ \/ ent'[p].cursor = ent[p].cursor /\ ent'[p].revealed = ent[p].revealed
           \/ /\ cache # Missing /\ cache.revealed >= ent[p].revealed
              /\ ent'[p].cursor = cache.cursor /\ ent'[p].revealed = cache.revealed
    <3> DEFINE e == ent[p]
               m == ent'[p]
    <3>1. e \in Session /\ (m = Merge(e, cache) \/ m = e)
      BY <2>1 DEF TypeOK
    <3> HIDE DEF e, m
    <3>2. CASE m = e
      BY <3>2, <2>1 DEF e, m, SameSettings
    <3>3. CASE m = Merge(e, cache)
      <4>1. /\ m.version = e.version /\ m.checkpoint = e.checkpoint
            /\ m.status = e.status /\ m.timeframe = e.timeframe /\ m.speed = e.speed
            /\ \/ m.cursor = e.cursor /\ m.revealed = e.revealed
               \/ /\ cache # Missing /\ cache.revealed >= e.revealed
                  /\ m.cursor = cache.cursor /\ m.revealed = cache.revealed
        BY <3>1, <3>3 DEF Merge, Session
      <4> QED  BY <4>1, <2>1 DEF e, m, SameSettings
    <3> QED  BY <3>1, <3>2, <3>3
  <2>3. /\ EntityInv(p) /\ InFeed(ent[p]) /\ floor[p] <= ent[p].revealed
        /\ ent[p].revealed <= row.revealed
    BY <1>a, <2>1 DEF EntityInv
  <2>4. /\ InFeed(ent'[p]) /\ floor[p] <= ent'[p].revealed
        /\ ent[p].revealed <= ent'[p].revealed /\ ent'[p].revealed <= row.revealed
    <3>1. cache \in [cursor: Int, revealed: Int] /\ LastBar \in Int
      BY SessionAssumption DEF TypeOK
    <3> QED  BY <2>2, <2>3, <1>a, <1>n, <3>1 DEF InFeed, CacheBehindRow, RowInBounds
  <2>5. EntityInv(p)'
    <3>1. pc'[p] = "loaded" /\ ent'[p].version <= row.version
      BY <2>1, <2>2, <2>3 DEF TypeOK, EntityInv
    <3>4. ent'[p].revealed \in Int
      BY <1>t DEF TypeOK, Session
    <3>2. ent'[p].version = row.version
             => SameSettings(ent'[p]) /\ ent'[p].revealed = row.revealed
                /\ ent'[p].checkpoint = row.checkpoint
      BY <2>1, <2>2, <2>3, <2>4, <3>4, <1>n DEF EntityInv
    <3> QED  BY <2>1, <2>4, <3>1, <3>2 DEF EntityInv, Loaded, SameSettings, InFeed
  <2>6. ASSUME NEW q \in Handlers, q # p PROVE EntityInv(q)'
    BY <2>1, <2>6, <1>a, UntouchedEntity DEF TypeOK
  <2> QED  BY <2>1, <2>5, <2>6, <1>s, QuietStep DEF TypeOK
<1>3. ASSUME NEW p \in Handlers, Stage(p) PROVE IInv'
  <2>1. /\ pc[p] = "loaded" /\ pc' = [pc EXCEPT ![p] = "write"]
        /\ ent' = [ent EXCEPT ![p] = Result(cmd[p], ent[p])] /\ Accepts(cmd[p], ent[p])
        /\ UNCHANGED <<row, cache, emitted, shown, frame, cmd, floor>>
    BY <1>3 DEF Stage, Goto
  <2>2. /\ InFeed(ent'[p]) /\ ent[p].revealed <= ent'[p].revealed
        /\ ent'[p].version = ent[p].version
        /\ ent'[p].version = row.version => Intended(cmd[p], ent'[p])
    BY <2>1, StagedIsIntended DEF TypeOK
  <2>3. ent'[p].revealed \in Int /\ EntityInv(p)
    BY <1>t, <1>a DEF TypeOK, Session
  <2>4. floor[p] <= ent[p].revealed /\ ent[p].version <= row.version
    BY <2>1, <2>3 DEF EntityInv, Loaded
  <2>5. EntityInv(p)'
    <3>1. pc'[p] = "write" /\ floor'[p] <= ent'[p].revealed
      BY <2>1, <2>2, <2>3, <2>4, <1>n DEF TypeOK
    <3> QED  BY <3>1, <2>1, <2>2, <2>4 DEF EntityInv, Loaded, Intended, InFeed, SameSettings
  <2>6. ASSUME NEW q \in Handlers, q # p PROVE EntityInv(q)'
    BY <2>1, <2>6, <1>a, UntouchedEntity DEF TypeOK
  <2> QED  BY <2>1, <2>5, <2>6, <1>s, QuietStep DEF TypeOK
<1>4. ASSUME NEW p \in Handlers, Answer(p) PROVE IInv'
  <2>1. /\ pc[p] = "loaded" /\ Finish(p) /\ UNCHANGED <<row, cache, emitted, frame>>
        /\ \E bar \in AnswersWith(cmd[p], ent[p]) : shown' = Higher(shown, bar)
    BY <1>4 DEF Answer
  <2>2. ent[p].revealed <= row.revealed
    BY <2>1, <1>a DEF EntityInv
  <2>3. \A bar \in AnswersWith(cmd[p], ent[p]) : bar \in Int /\ bar <= ent[p].revealed
    BY <1>n DEF AnswersWith
  <2>4. shown' <= row.revealed /\ frame' <= shown'
    BY <2>1, <2>2, <2>3, <1>s, <1>n DEF Higher
  <2> QED  BY <2>1, <2>4, <1>a, FinishedEntity, QuietStep DEF Finish, Goto, TypeOK
<1>5. ASSUME NEW p \in Handlers, Conflict(p) \/ Drop(p) PROVE IInv'
  <2>1. Finish(p) /\ UNCHANGED <<row, cache, emitted, frame, shown>>
    BY <1>5 DEF Conflict, Drop
  <2> QED  BY <2>1, <1>a, <1>s, FinishedEntity, QuietStep DEF Finish, Goto, TypeOK
<1>6. ASSUME NEW p \in Handlers, Exhaust(p) PROVE IInv'
  <2>1. /\ pc[p] = "loaded" /\ pc' = [pc EXCEPT ![p] = "publish"] /\ cmd[p].op = "tick"
        /\ UNCHANGED <<row, cache, emitted, shown, frame, cmd, floor, ent>>
    BY <1>6 DEF Exhaust, Goto
  <2>2. EntityInv(p)'
    BY <2>1, <1>a DEF EntityInv, Loaded, TypeOK, InFeed
  <2>3. ASSUME NEW q \in Handlers, q # p PROVE EntityInv(q)'
    BY <2>1, <2>3, <1>a, UntouchedEntity DEF TypeOK
  <2>4. CloseInv'
    BY <2>1, <1>a DEF CloseInv, Closing, TypeOK
  <2> QED  BY <2>1, <2>2, <2>3, <2>4, <1>a
              DEF IInv, CacheBehindRow, NothingShownEarly, RowInBounds, ClosedOnce
<1>7. ASSUME NEW p \in Handlers, Write(p) PROVE IInv'
  <2>1. /\ pc[p] = "write" /\ pc' = [pc EXCEPT ![p] = "save"]
        /\ ent' = [ent EXCEPT ![p].version = ent[p].version + 1]
        /\ row.version = ent[p].version
        /\ UNCHANGED <<cache, cmd, floor, shown, frame, emitted>>
    BY <1>7 DEF Write, Goto
  <2>2. /\ Live(row.status) /\ row'.version = row.version + 1
        /\ row'.revealed = ent[p].revealed /\ row'.revealed >= row.revealed
        /\ row'.status = ent[p].status /\ RowInBounds' /\ InFeed(ent[p])
        /\ Intended(cmd[p], ent[p])
    BY <1>7, WriteFacts
  <2>3. ent'[p].version = row'.version /\ ent'[p].revealed = ent[p].revealed
           /\ ent'[p].cursor = ent[p].cursor
    BY <2>1, <2>2 DEF TypeOK, Session
  <2>4. EntityInv(p)'
    <3>1. EntityInv(p)
      BY <1>a
    <3> QED  BY <2>1, <2>2, <2>3, <3>1, <1>n DEF EntityInv, Loaded, TypeOK, InFeed
  <2>5. ASSUME NEW q \in Handlers, q # p PROVE EntityInv(q)'
    BY <2>1, <2>2, <2>5, <1>a, <1>t, OutdatedEntity DEF TypeOK
  <2>6. emitted["closed"] = 0 /\ \A q \in Handlers : ~Closing(q)
    BY <2>2, <1>a DEF ClosedOnce, CloseInv, TypeOK
  <2>7. CloseInv' /\ ClosedOnce'
    BY <2>1, <2>2, <2>6, <1>a DEF CloseInv, Closing, ClosedOnce, TypeOK, Intended
  <2>8. CacheBehindRow' /\ NothingShownEarly'
    <3>1. cache \in [cursor: Int, revealed: Int] /\ row'.revealed \in Int
      BY <1>t DEF TypeOK, Session
    <3> QED  BY <2>1, <2>2, <3>1, <1>a, <1>n DEF CacheBehindRow, NothingShownEarly
  <2> QED  BY <2>2, <2>4, <2>5, <2>7, <2>8 DEF IInv
<1>8. ASSUME NEW p \in Handlers, SaveState(p) PROVE IInv'
  <2>1. /\ pc[p] = "save" /\ pc' = [pc EXCEPT ![p] = "publish"]
        /\ cache' \in {cache, Missing, Snapshot(ent[p])}
        /\ UNCHANGED <<row, cmd, floor, ent, shown, frame, emitted>>
    BY <1>8 DEF SaveState, Goto
  <2>2. InFeed(ent[p]) /\ ent[p].revealed <= row.revealed
    BY <2>1, <1>a DEF EntityInv, Loaded
  <2>3. CacheBehindRow'
    BY <2>1, <2>2, <1>a, <1>n DEF CacheBehindRow, Snapshot, InFeed, TypeOK, Session
  <2>4. EntityInv(p)'
    BY <2>1, <1>a DEF EntityInv, Loaded, TypeOK, InFeed
  <2>5. ASSUME NEW q \in Handlers, q # p PROVE EntityInv(q)'
    BY <2>1, <2>5, <1>a, UntouchedEntity DEF TypeOK
  <2>6. CloseInv'
    BY <2>1, <1>a DEF CloseInv, Closing, TypeOK
  <2> QED  BY <2>1, <2>3, <2>4, <2>5, <2>6, <1>a
              DEF IInv, NothingShownEarly, RowInBounds, ClosedOnce
<1>9. ASSUME NEW p \in Handlers, Publish(p) PROVE IInv'
  <2>1. /\ pc[p] = "publish" /\ frame' \in {frame, ent[p].revealed}
        /\ shown' = Higher(shown, ent[p].revealed)
        /\ UNCHANGED <<row, cache, emitted>>
    BY <1>9 DEF Publish
  <2>2. ent[p].revealed <= row.revealed /\ InFeed(ent[p]) /\ EntityInv(p)
    BY <2>1, <1>a DEF EntityInv, Loaded
  <2>3. shown' <= row.revealed /\ frame' <= shown'
    BY <2>1, <2>2, <1>s, <1>n DEF Higher
  <2>4. CASE cmd[p].op = "close"
    <3>1. pc' = [pc EXCEPT ![p] = "emit"] /\ UNCHANGED <<cmd, ent, floor>>
      BY <1>9, <2>4 DEF Publish, Goto
    <3>2. EntityInv(p)'
      BY <2>1, <2>2, <3>1 DEF EntityInv, Loaded, TypeOK, InFeed
    <3>3. ASSUME NEW q \in Handlers, q # p PROVE EntityInv(q)'
      BY <2>1, <3>1, <3>3, <1>a, UntouchedEntity DEF TypeOK
    <3>4. CloseInv'
      BY <2>1, <2>4, <3>1, <1>a DEF CloseInv, Closing, TypeOK
    <3> QED  BY <2>1, <2>3, <3>2, <3>3, <3>4, <1>a
                DEF IInv, NothingShownEarly, RowInBounds, ClosedOnce, CacheBehindRow
  <2>5. CASE cmd[p].op # "close"
    <3>1. Finish(p)
      BY <1>9, <2>5 DEF Publish
    <3> QED  BY <2>1, <2>3, <3>1, <1>a, FinishedEntity, QuietStep DEF Finish, Goto, TypeOK
  <2> QED  BY <2>4, <2>5
<1>10. ASSUME NEW p \in Handlers, Emit(p) PROVE IInv'
  <2>1. /\ pc[p] = "emit" /\ Finish(p) /\ UNCHANGED <<row, cache, shown, frame>>
        /\ emitted'["closed"] = emitted["closed"] + 1
    BY <1>10 DEF Emit, TypeOK
  <2>2. Closing(p) /\ ~Live(row.status) /\ emitted["closed"] = 0
    BY <2>1, <1>a DEF CloseInv
  <2>3. pc' = [pc EXCEPT ![p] = "idle"] /\ cmd' = [cmd EXCEPT ![p] = NoCommand]
    BY <2>1 DEF Finish, Goto
  <2>4. \A q \in Handlers : ~Closing(q)' /\ pc'[q] # "emit"
    BY <2>2, <2>3, <1>a DEF CloseInv, Closing, TypeOK
  <2>5. CloseInv' /\ ClosedOnce'
    BY <2>1, <2>2, <2>4 DEF CloseInv, ClosedOnce
  <2>6. \A q \in Handlers : EntityInv(q)'
    BY <2>1, <1>a, FinishedEntity
  <2> QED  BY <2>1, <2>5, <2>6, <1>a DEF IInv, NothingShownEarly, RowInBounds, CacheBehindRow
<1>11. ASSUME NEW w \in Sweepers, SweepUpdate(w) PROVE IInv'
  <2>1. /\ pc' = [pc EXCEPT ![w] = "clear"]
        /\ UNCHANGED <<cache, cmd, ent, floor, shown, frame, emitted>>
    BY <1>11 DEF SweepUpdate, Goto
  <2>2. /\ row'.version = row.version + 1 /\ row'.status = "abandoned"
        /\ row'.revealed = row.revealed /\ row'.cursor = row.cursor
        /\ row'.checkpoint = row.checkpoint
    BY <1>11, SweepFacts
  <2>3. ASSUME NEW q \in Handlers PROVE EntityInv(q)'
    BY <2>1, <2>2, <1>a, <1>h, <1>n, <1>t, OutdatedEntity DEF TypeOK
  <2>4. CloseInv' /\ ClosedOnce'
    BY <2>1, <2>2, <1>a, <1>h DEF CloseInv, Closing, ClosedOnce, TypeOK
  <2> QED  BY <2>1, <2>2, <2>3, <2>4, <1>a
              DEF IInv, NothingShownEarly, RowInBounds, CacheBehindRow
<1>12. ASSUME NEW w \in Sweepers, SweepSelect(w) \/ SweepClear(w) \/ SweepEmit(w)
       PROVE  IInv'
  <2>1. /\ \A q \in Handlers : pc'[q] = pc[q]
        /\ cache' \in {cache, Missing}
        /\ emitted'["closed"] = emitted["closed"]
        /\ UNCHANGED <<row, cmd, ent, floor, shown, frame>>
    BY <1>12, <1>h DEF SweepSelect, SweepClear, SweepEmit, Goto, TypeOK
  <2>2. ASSUME NEW q \in Handlers PROVE EntityInv(q)'
    BY <2>1, <1>a, UntouchedEntity
  <2>3. CloseInv' /\ ClosedOnce'
    BY <2>1, <1>a DEF CloseInv, Closing, ClosedOnce
  <2> QED  BY <2>1, <2>2, <2>3, <1>a
              DEF IInv, NothingShownEarly, RowInBounds, CacheBehindRow
<1>13. ASSUME Expire \/ FallIdle \/ UNCHANGED vars PROVE IInv'
  <2>1. cache' \in {cache, Missing} /\ UNCHANGED <<row, pc, cmd, ent, floor, shown, frame, emitted>>
    BY <1>13 DEF Expire, FallIdle, vars
  <2>2. ASSUME NEW q \in Handlers PROVE EntityInv(q)'
    BY <2>1, <1>a, UntouchedEntity
  <2>3. CloseInv' /\ ClosedOnce'
    BY <2>1, <1>a DEF CloseInv, Closing, ClosedOnce
  <2> QED  BY <2>1, <2>2, <2>3, <1>a
              DEF IInv, NothingShownEarly, RowInBounds, CacheBehindRow
<1> QED
  BY <1>1, <1>2, <1>3, <1>4, <1>5, <1>6, <1>7, <1>8, <1>9, <1>10, <1>11, <1>12, <1>13
     DEF Next, Handle, Sweep

\* Every reachable state is in its type and satisfies the inductive invariant.
LEMMA Inductive == Spec => [](TypeOK /\ IInv)
<1>1. Init => TypeOK /\ IInv
  BY TypeInit, InvInit
<1>2. TypeOK /\ IInv /\ [Next]_vars => (TypeOK /\ IInv)'
  BY TypeStep, InvStep
<1> QED  BY <1>1, <1>2, PTL DEF Spec

----------------------------------------------------------------------------
(* What follows from it. *)

\* Nothing the server answers or publishes is ahead of the row's edge, whatever
\* handlers, caches and sweepers do.
THEOREM NoEarlyReveal == Spec => []NothingShownEarly
<1>1. IInv => NothingShownEarly
  BY DEF IInv
<1> QED  BY <1>1, Inductive, PTL

\* The Redis snapshot never runs ahead of the row.
THEOREM CacheFollowsRow == Spec => []CacheBehindRow
<1>1. IInv => CacheBehindRow
  BY DEF IInv
<1> QED  BY <1>1, Inductive, PTL

\* No cache, however stale, makes a request see an edge behind what was shown
\* before it began.
THEOREM MonotoneReads == Spec => []ReadsNeverRegress
<1>1. TypeOK /\ IInv => ReadsNeverRegress
  BY DEF TypeOK, Session, IInv, EntityInv, ReadsNeverRegress, Loaded
<1> QED  BY <1>1, Inductive, PTL

\* The row keeps 0 <= cursor <= revealed <= LastBar and a recent checkpoint.
THEOREM RowStaysInBounds == Spec => []RowInBounds
<1>1. IInv => RowInBounds
  BY DEF IInv
<1> QED  BY <1>1, Inductive, PTL

\* At most one close event is written.
THEOREM ClosesOnce == Spec => []ClosedOnce
<1>1. IInv => ClosedOnce
  BY DEF IInv
<1> QED  BY <1>1, Inductive, PTL

\* Only a matching write and a sweep touch the row.
LEMMA RowSteps ==
    ASSUME TypeOK, [Next]_vars
    PROVE  \/ UNCHANGED row /\ \A p \in Handlers : ~(pc[p] = "write" /\ pc'[p] = "save")
           \/ \E p \in Handlers : Write(p)
           \/ \E w \in Sweepers : SweepUpdate(w)
<1>0. DOMAIN pc = Handlers \cup Sweepers /\ pc = [q \in DOMAIN pc |-> pc[q]]
  BY DEF TypeOK
<1>1. CASE \E w \in Sweepers : Sweep(w)
  <2>1. PICK w \in Sweepers : Sweep(w)
    BY <1>1
  <2>2. CASE SweepUpdate(w)
    BY <2>2
  <2>3. CASE SweepSelect(w) \/ SweepClear(w) \/ SweepEmit(w)
    BY <2>3, <1>0 DEF SweepSelect, SweepClear, SweepEmit, Goto
  <2> QED  BY <2>1, <2>2, <2>3 DEF Sweep
<1>2. CASE \E p \in Handlers : Handle(p)
  <2>1. PICK p \in Handlers : Handle(p)
    BY <1>2
  <2>2. CASE Write(p)
    BY <2>2
  <2>3. CASE ~Write(p)
    BY <2>1, <2>3, <1>0
       DEF Handle, LoadRow, LoadState, Stage, Answer, Exhaust, Conflict, SaveState,
           Publish, Emit, Drop, Finish, Goto
  <2> QED  BY <2>2, <2>3
<1>3. CASE Expire \/ FallIdle \/ UNCHANGED vars
  BY <1>3 DEF Expire, FallIdle, vars
<1> QED  BY <1>1, <1>2, <1>3 DEF Next

\* No interleaving takes back a released bar.
THEOREM EdgeOnlyGrows == Spec => RevealOnlyGrows
<1>1. TypeOK /\ IInv /\ [Next]_vars => [row'.revealed >= row.revealed]_vars
  <2> SUFFICES ASSUME TypeOK, IInv, [Next]_vars PROVE row'.revealed >= row.revealed
    OBVIOUS
  <2>1. row.revealed \in Int
    BY DEF TypeOK, Session
  <2> QED  BY <2>1, RowSteps, WriteFacts, SweepFacts
<1> QED  BY <1>1, Inductive, PTL DEF Spec, RevealOnlyGrows

\* An ended session stays ended and no request that loaded it live moves it.
THEOREM EndIsFinal == Spec => EndedIsFinal
<1> DEFINE A == ~Live(row.status) =>
                  /\ ~Live(row'.status)
                  /\ row' = [row EXCEPT !.status = row'.status, !.version = row'.version]
<1>1. TypeOK /\ IInv /\ [Next]_vars => [A]_vars
  <2> SUFFICES ASSUME TypeOK, IInv, [Next]_vars, ~Live(row.status) PROVE A
    OBVIOUS
  <2>1. row \in Session
    BY DEF TypeOK
  <2>2. CASE UNCHANGED row
    BY <2>1, <2>2 DEF Session
  <2>3. CASE \E w \in Sweepers : SweepUpdate(w)
    BY <2>1, <2>3 DEF SweepUpdate, Abandoned, Session
  <2> QED  BY <2>2, <2>3, RowSteps, WriteFacts
<1> QED  BY <1>1, Inductive, PTL DEF Spec, EndedIsFinal

\* The playback clock writes only over an open row.
THEOREM PauseWins == Spec => ClockRespectsPause
<1> DEFINE A == \A p \in Handlers :
                  (pc[p] = "write" /\ pc'[p] = "save" /\ cmd[p].op = "tick")
                      => row.status = "open"
<1>1. TypeOK /\ IInv /\ [Next]_vars => [A]_vars
  <2> SUFFICES ASSUME TypeOK, IInv, [Next]_vars, NEW p \in Handlers,
                      pc[p] = "write", pc'[p] = "save", cmd[p].op = "tick"
               PROVE  row.status = "open"
    BY DEF ClockRespectsPause
  <2>1. CASE \E w \in Sweepers : SweepUpdate(w)
    BY <2>1, SessionAssumption DEF SweepUpdate, Goto, TypeOK
  <2>2. CASE \E q \in Handlers : Write(q)
    <3>1. PICK q \in Handlers : Write(q)
      BY <2>2
    <3>2. q = p
      BY <3>1 DEF Write, Goto, TypeOK
    <3> QED  BY <3>1, <3>2, WriteFacts DEF Intended
  <2> QED  BY <2>1, <2>2, RowSteps
<1> QED  BY <1>1, Inductive, PTL DEF Spec, ClockRespectsPause

----------------------------------------------------------------------------
(* The refinement. *)

\* An initial state of the session is one of the abstract session.
LEMMA EdgeInit == Init => Edge!Init
BY SessionAssumption DEF Init, Opened, Edge!Init

\* Every step of the session is a step of the abstract session or leaves it alone.
LEMMA EdgeStep == TypeOK /\ IInv /\ [Next]_vars => [Edge!Next]_(Edge!vars)
<1> SUFFICES ASSUME TypeOK, IInv, [Next]_vars PROVE [Edge!Next]_(Edge!vars)
  OBVIOUS
<1> USE DEF Edge!vars, Edge!Live
<1>1. CASE UNCHANGED row
  BY <1>1
<1>2. CASE \E w \in Sweepers : SweepUpdate(w)
  <2>1. Edge!Abandon
    BY <1>2, SweepFacts DEF Edge!Abandon
  <2> QED  BY <2>1 DEF Edge!Next
<1>3. ASSUME NEW p \in Handlers, Write(p) PROVE Edge!Next
  <2> DEFINE e == ent[p]
             c == cmd[p]
  <2>0. /\ row.revealed \in Int /\ e.revealed \in Int /\ e.cursor \in Int /\ e.speed \in Int
        /\ MaxCount \in Nat /\ MaxSpeed \in Int /\ MinSpeed \in Int
    BY SessionAssumption DEF TypeOK, Session
  <2>1. /\ Live(row.status) /\ Intended(c, e) /\ InFeed(e)
        /\ row'.revealed = e.revealed /\ row'.status = e.status
        /\ \/ row'.cursor = e.cursor /\ c.op \notin {"pause", "resume"}
           \/ row'.cursor = row.cursor /\ c.op \in {"pause", "resume"}
        /\ c.op \notin {"pause", "resume"}
             => row'.timeframe = e.timeframe /\ row'.speed = e.speed
        /\ c.op \in {"pause", "resume"}
             => row'.timeframe = row.timeframe /\ row'.speed = row.speed
    BY <1>3, WriteFacts
  <2> HIDE DEF e, c
  <2>2. CASE c.op \in {"step", "tick", "seek"}
    <3>1. SameSettings(e) /\ row'.cursor = e.cursor
             /\ row'.timeframe = e.timeframe /\ row'.speed = e.speed
      BY <2>1, <2>2 DEF Intended
    <3>2. CASE e.revealed = row.revealed
      <4>1. Edge!Look
        BY <2>0, <2>1, <3>1, <3>2 DEF Edge!Look, SameSettings, InFeed
      <4> QED  BY <4>1 DEF Edge!Next
    <3>3. CASE /\ e.cursor = e.revealed /\ row.revealed < e.revealed
               /\ e.revealed <= row.revealed + MaxCount
      <4>1. MaxCount \in 1 .. MaxCount
        BY SessionAssumption
      <4>2. Edge!Advance(MaxCount)
        BY <2>0, <2>1, <3>1, <3>3 DEF Edge!Advance, SameSettings, InFeed
      <4> QED  BY <4>1, <4>2 DEF Edge!Next
    <3> QED  BY <2>1, <2>2, <3>2, <3>3 DEF Intended
  <2>3. CASE c.op = "timeframe"
    <3>1. Edge!SetTimeframe
      BY <2>0, <2>1, <2>3 DEF Edge!SetTimeframe, Intended, InFeed
    <3> QED  BY <3>1 DEF Edge!Next
  <2>4. CASE c.op = "speed"
    <3>1. Edge!SetSpeed
      BY <2>0, <2>1, <2>4 DEF Edge!SetSpeed, Intended, InFeed
    <3> QED  BY <3>1 DEF Edge!Next
  <2>5. CASE c.op \in {"pause", "resume"}
    <3>1. Edge!Pause \/ Edge!Resume
      BY <2>1, <2>5 DEF Edge!Pause, Edge!Resume, Intended
    <3> QED  BY <3>1 DEF Edge!Next
  <2>6. CASE c.op = "close"
    <3>1. Edge!Close
      BY <2>0, <2>1, <2>6 DEF Edge!Close, Intended, InFeed
    <3> QED  BY <3>1 DEF Edge!Next
  <2> QED  BY <2>1, <2>2, <2>3, <2>4, <2>5, <2>6 DEF Intended
<1> QED  BY <1>1, <1>2, <1>3, RowSteps

\* The row, the cache and the handlers together implement the abstract session.
THEOREM SessionImplementsEdge == Spec => ImplementsEdge
<1> QED  BY EdgeInit, EdgeStep, Inductive, PTL DEF Spec, ImplementsEdge, Edge!Spec
=============================================================================
