--------------------------- MODULE ReplaySession ---------------------------
(***************************************************************************)
(* One replay session as the code keeps it: a PostgreSQL row guarded by an *)
(* optimistic version, a Redis snapshot that may be missing or stale, and  *)
(* any number of request handlers (HTTP handlers and playback clocks) and  *)
(* idle sweepers working on both.  A handler reads the row, then the       *)
(* snapshot, decides, writes the row, saves the snapshot, publishes a      *)
(* frame and, when it ends the session, writes an outbox event: each of    *)
(* these is a round trip of its own, so each is a step of its own here.    *)
(***************************************************************************)
EXTENDS Integers

CONSTANTS
    Handlers,        \* requests in flight, playback clocks included
    Sweepers,        \* worker replicas running the idle sweep
    LastBar,         \* feed.TotalBars - 1
    Start,           \* the last warmup bar
    Ops,             \* the operations clients use
    Counts,          \* the step counts clients ask for
    MaxCount,        \* the largest of them
    Seeks,           \* the bar indices clients ask for
    Timeframes,      \* the valid timeframes, as minutes
    BaseTimeframe,   \* the feed's timeframe
    Speeds,          \* the speeds clients ask for
    MinSpeed, MaxSpeed,
    CheckpointEvery,
    MaxVersion       \* bound: the row is written at most MaxVersion - 1 times

ASSUME SessionAssumption ==
    /\ Handlers \cap Sweepers = {}
    /\ LastBar \in Nat
    /\ Start \in 0 .. LastBar
    /\ Ops \subseteq {"step", "seek", "tick", "bars", "timeframe", "speed",
                      "pause", "resume", "close"}
    /\ MaxCount \in Nat \ {0}
    /\ Counts \subseteq {n \in Int : n <= MaxCount}
    /\ Seeks \subseteq Int
    /\ Timeframes \subseteq Int
    /\ BaseTimeframe \in Timeframes
    /\ Speeds \subseteq Int
    /\ MinSpeed \in Int
    /\ MaxSpeed \in Int
    /\ 1 \in MinSpeed .. MaxSpeed
    /\ CheckpointEvery \in Nat \ {0}
    /\ MaxVersion \in Nat

VARIABLES
    row,      \* the replay_sessions row
    idle,     \* last_active_at is older than the sweep's cutoff
    cache,    \* the Redis snapshot, or Missing
    pc,       \* where each handler or sweeper is
    cmd,      \* what each handler was asked for
    ent,      \* the entity each handler has in hand
    floor,    \* the newest bar already shown when the request began
    shown,    \* the newest bar any response or frame has carried
    frame,    \* the edge carried by the last frame the bus accepted
    emitted   \* outbox events written, by type

vars == <<row, idle, cache, pc, cmd, ent, floor, shown, frame, emitted>>

----------------------------------------------------------------------------
(* The session aggregate. *)

Statuses == {"open", "paused", "closed", "abandoned"}
Live(s) == s \in {"open", "paused"}

Session == [status: Statuses, timeframe: Int, speed: Int, cursor: Int,
            revealed: Int, checkpoint: Int, version: Int]
Snapshot(e) == [cursor |-> e.cursor, revealed |-> e.revealed]
Missing == [cursor |-> -1, revealed |-> -1]

Higher(a, b) == IF a > b THEN a ELSE b

Commands ==
    [op: Ops \cap {"step"}, arg: Counts]
        \cup [op: Ops \cap {"seek", "bars"}, arg: Seeks]
        \cup [op: Ops \cap {"timeframe"}, arg: Timeframes]
        \cup [op: Ops \cap {"speed"}, arg: Speeds]
        \cup [op: Ops \cap {"tick"}, arg: {1}]
        \cup [op: {"get"} \cup (Ops \cap {"pause", "resume", "close"}), arg: {0}]

\* (Variant: the snapshot wins even when its edge is behind the row's.)
MergeAnyEdge(e, c) ==
    IF c # Missing
    THEN [e EXCEPT !.cursor = c.cursor, !.revealed = c.revealed]
    ELSE e

\* load: the snapshot's two indices replace the row's when its edge is not behind.
Merge(e, c) ==
    IF c # Missing /\ c.revealed >= e.revealed
    THEN [e EXCEPT !.cursor = c.cursor, !.revealed = c.revealed]
    ELSE e

\* (Variant: load instead of loadLive.)
AcceptsEnded(c, e) == c.op \in {"pause", "resume", "close"}

\* (Variant: the clock does not look at the status it reloaded.)
AcceptsPausedTick(c, e) ==
    /\ Live(e.status)
    /\ c.op \in {"step", "tick"} => e.cursor + c.arg \in 0 .. LastBar
    /\ c.op = "pause" => e.status # "paused"

\* Which loaded sessions a command changes, past every early return of its handler.
Accepts(c, e) ==
    /\ Live(e.status)
    /\ \/ c.op = "step" /\ c.arg # 0 /\ e.cursor + c.arg \in 0 .. LastBar
       \/ c.op = "tick" /\ e.status = "open" /\ e.cursor + c.arg \in 0 .. LastBar
       \/ c.op = "seek" /\ c.arg \in 0 .. e.revealed
       \/ c.op = "timeframe" /\ c.arg >= BaseTimeframe
       \/ c.op = "speed" /\ c.arg \in MinSpeed .. MaxSpeed
       \/ c.op = "pause" /\ e.status # "paused"
       \/ c.op = "resume" /\ e.status # "open"
       \/ c.op = "close"

\* The newest bar an answer that changes nothing carries: a read, or a no-op.
AnswersWith(c, e) ==
    IF c.op = "bars"
    THEN IF c.arg < 0 THEN {e.revealed} ELSE {c.arg} \cap (0 .. e.revealed)
    ELSE IF \/ c.op = "get"
            \/ /\ Live(e.status)
               /\ \/ c.op = "step" /\ c.arg = 0
                  \/ c.op = "pause" /\ e.status = "paused"
                  \/ c.op = "resume" /\ e.status = "open"
         THEN {e.revealed}
         ELSE {}

MoveTo(e, target) ==
    [e EXCEPT !.cursor = target, !.revealed = Higher(target, e.revealed)]

\* persistCursor moves the checkpoint on before it writes.
Checkpointed(e) ==
    [e EXCEPT !.checkpoint =
        IF e.revealed - e.checkpoint >= CheckpointEvery THEN e.revealed ELSE @]

\* The entity a command wants written.
Result(c, e) ==
    CASE c.op \in {"step", "tick"} -> Checkpointed(MoveTo(e, e.cursor + c.arg))
      [] c.op = "seek"      -> Checkpointed([e EXCEPT !.cursor = c.arg])
      [] c.op = "timeframe" -> Checkpointed([e EXCEPT !.timeframe = c.arg])
      [] c.op = "speed"     -> Checkpointed([e EXCEPT !.speed = c.arg])
      [] c.op = "pause"     -> [e EXCEPT !.status = "paused"]
      [] c.op = "resume"    -> [e EXCEPT !.status = "open"]
      [] OTHER              -> [e EXCEPT !.status = "closed"]

\* UpdateCursor writes every column of the entity, UpdateStatus the status alone.
Written(c, e) ==
    IF c.op \in {"pause", "resume"}
    THEN [row EXCEPT !.status = e.status, !.version = @ + 1]
    ELSE [e EXCEPT !.version = @ + 1]

----------------------------------------------------------------------------

\* Start takes any valid timeframe, one finer than the feed's included.
Opened(t) == [status |-> "open", timeframe |-> t, speed |-> 1, cursor |-> Start,
              revealed |-> Start, checkpoint |-> Start, version |-> 1]

NoEntity == Opened(BaseTimeframe)
NoCommand == [op |-> "get", arg |-> 0]

\* Start has created the row; its Save is best effort.
Init ==
    /\ row \in {Opened(t) : t \in Timeframes}
    /\ idle = FALSE
    /\ cache \in {Missing, Snapshot(row)}
    /\ pc = [p \in Handlers \cup Sweepers |-> "idle"]
    /\ cmd = [p \in Handlers |-> NoCommand]
    /\ ent = [p \in Handlers |-> NoEntity]
    /\ floor = [p \in Handlers |-> Start]
    /\ shown = Start
    /\ frame = Start
    /\ emitted = [t \in {"closed", "abandoned"} |-> 0]

Goto(p, l) == pc' = [pc EXCEPT ![p] = l]

\* The request returns and its locals are gone.
Finish(p) ==
    /\ Goto(p, "idle")
    /\ cmd' = [cmd EXCEPT ![p] = NoCommand]
    /\ ent' = [ent EXCEPT ![p] = NoEntity]
    /\ floor' = [floor EXCEPT ![p] = Start]

\* load, first half: GetByID.
LoadRow(p, c) ==
    /\ pc[p] = "idle"
    /\ cmd' = [cmd EXCEPT ![p] = c]
    /\ ent' = [ent EXCEPT ![p] = row]
    /\ floor' = [floor EXCEPT ![p] = shown]
    /\ Goto(p, "row")
    /\ UNCHANGED <<row, idle, cache, shown, frame, emitted>>

\* load, second half: State.Load.  A cache that fails is a cache that misses.
LoadState(p) ==
    /\ pc[p] = "row"
    /\ \/ ent' = [ent EXCEPT ![p] = Merge(@, cache)]
       \/ UNCHANGED ent
    /\ Goto(p, "loaded")
    /\ UNCHANGED <<row, idle, cache, cmd, floor, shown, frame, emitted>>

\* (Variant: the snapshot is saved before the row is written.)
StageSavingFirst(p) ==
    /\ pc[p] = "loaded"
    /\ Accepts(cmd[p], ent[p])
    /\ ent' = [ent EXCEPT ![p] = Result(cmd[p], @)]
    /\ cache' = Snapshot(Result(cmd[p], ent[p]))
    /\ Goto(p, "write")
    /\ UNCHANGED <<row, idle, cmd, floor, shown, frame, emitted>>

\* The handler decides to write.
Stage(p) ==
    /\ pc[p] = "loaded"
    /\ Accepts(cmd[p], ent[p])
    /\ ent' = [ent EXCEPT ![p] = Result(cmd[p], @)]
    /\ Goto(p, "write")
    /\ UNCHANGED <<row, idle, cache, cmd, floor, shown, frame, emitted>>

\* A read, or an operation that finds nothing to change.
Answer(p) ==
    /\ pc[p] = "loaded"
    /\ \E bar \in AnswersWith(cmd[p], ent[p]) : shown' = Higher(shown, bar)
    /\ Finish(p)
    /\ UNCHANGED <<row, idle, cache, frame, emitted>>

\* The playback clock at the end of the feed says so before it stops.
Exhaust(p) ==
    /\ pc[p] = "loaded"
    /\ cmd[p].op = "tick"
    /\ ent[p].status = "open"
    /\ ~Accepts(cmd[p], ent[p])
    /\ Goto(p, "publish")
    /\ UNCHANGED <<row, idle, cache, cmd, ent, floor, shown, frame, emitted>>

\* (Variant: no version in the WHERE clause.)
WriteAnyVersion(p) ==
    /\ pc[p] = "write"
    /\ row.version < MaxVersion
    /\ row' = [Written(cmd[p], ent[p]) EXCEPT !.version = row.version + 1]
    /\ ent' = [ent EXCEPT ![p].version = row.version + 1]
    /\ Goto(p, "save")
    /\ UNCHANGED <<idle, cache, cmd, floor, shown, frame, emitted>>

\* UpdateCursor or UpdateStatus finds the version it expects.
Write(p) ==
    /\ pc[p] = "write"
    /\ row.version = ent[p].version
    /\ row.version < MaxVersion
    /\ row' = Written(cmd[p], ent[p])
    /\ idle' = (idle /\ cmd[p].op \in {"pause", "resume", "close"})
    /\ ent' = [ent EXCEPT ![p].version = @ + 1]
    /\ Goto(p, "save")
    /\ UNCHANGED <<cache, cmd, floor, shown, frame, emitted>>

\* (Variant: RowsAffected is not looked at.)
ConflictUnnoticed(p) ==
    /\ pc[p] = "write"
    /\ row.version # ent[p].version
    /\ Goto(p, "save")
    /\ UNCHANGED <<row, idle, cache, cmd, ent, floor, shown, frame, emitted>>

\* CONCURRENT_MODIFICATION: no row matched.
Conflict(p) ==
    /\ pc[p] = "write"
    /\ row.version # ent[p].version
    /\ Finish(p)
    /\ UNCHANGED <<row, idle, cache, shown, frame, emitted>>

\* State.Save, or State.Clear when the session closed; a failure is ignored.
SaveState(p) ==
    /\ pc[p] = "save"
    /\ \/ cache' = IF cmd[p].op = "close" THEN Missing ELSE Snapshot(ent[p])
       \/ UNCHANGED cache
    /\ Goto(p, "publish")
    /\ UNCHANGED <<row, idle, cmd, ent, floor, shown, frame, emitted>>

\* publish, then the answer to the caller; a bus that fails is ignored.
Publish(p) ==
    /\ pc[p] = "publish"
    /\ \/ frame' = ent[p].revealed
       \/ UNCHANGED frame
    /\ shown' = Higher(shown, ent[p].revealed)
    /\ IF cmd[p].op = "close"
       THEN Goto(p, "emit") /\ UNCHANGED <<cmd, ent, floor>>
       ELSE Finish(p)
    /\ UNCHANGED <<row, idle, cache, emitted>>

\* The outbox insert, in a transaction of its own.
Emit(p) ==
    /\ pc[p] = "emit"
    /\ emitted' = [emitted EXCEPT !["closed"] = @ + 1]
    /\ Finish(p)
    /\ UNCHANGED <<row, idle, cache, shown, frame>>

\* A refusal, a failed round trip, a cancelled context or a crash: the request
\* ends wherever it is and what it already did stays done.
Drop(p) ==
    /\ pc[p] # "idle"
    /\ Finish(p)
    /\ UNCHANGED <<row, idle, cache, shown, frame, emitted>>

----------------------------------------------------------------------------
(* The environment: the snapshot expires, and time passes untouched. *)

Expire ==
    /\ cache # Missing
    /\ cache' = Missing
    /\ UNCHANGED <<row, idle, pc, cmd, ent, floor, shown, frame, emitted>>

FallIdle ==
    /\ Live(row.status)
    /\ ~idle
    /\ idle' = TRUE
    /\ UNCHANGED <<row, cache, pc, cmd, ent, floor, shown, frame, emitted>>

----------------------------------------------------------------------------
(* SweepIdle.  AbandonIdle is one statement, but under READ COMMITTED its   *)
(* subquery sees the snapshot the statement began with, while the update    *)
(* waits for the row's lock and rechecks only that the id is still in that  *)
(* list: the two halves are two steps.  The worker has no bus, so a sweep   *)
(* publishes nothing.                                                       *)

SweepSelect(w) ==
    /\ pc[w] = "idle"
    /\ Live(row.status)
    /\ idle
    /\ Goto(w, "abandon")
    /\ UNCHANGED <<row, idle, cache, cmd, ent, floor, shown, frame, emitted>>

Abandoned(e) == [e EXCEPT !.status = "abandoned", !.version = @ + 1]

SweepUpdate(w) ==
    /\ pc[w] = "abandon"
    /\ row.version < MaxVersion
    /\ row' = Abandoned(row)
    /\ Goto(w, "clear")
    /\ UNCHANGED <<idle, cache, cmd, ent, floor, shown, frame, emitted>>

SweepClear(w) ==
    /\ pc[w] = "clear"
    /\ \/ cache' = Missing
       \/ UNCHANGED cache
    /\ Goto(w, "emit")
    /\ UNCHANGED <<row, idle, cmd, ent, floor, shown, frame, emitted>>

\* A failed insert is logged and the batch goes on; a crash loses it too.
SweepEmit(w) ==
    /\ pc[w] = "emit"
    /\ \/ emitted' = [emitted EXCEPT !["abandoned"] = @ + 1]
       \/ UNCHANGED emitted
    /\ Goto(w, "idle")
    /\ UNCHANGED <<row, idle, cache, cmd, ent, floor, shown, frame>>

----------------------------------------------------------------------------

Handle(p) ==
    \/ \E c \in Commands : LoadRow(p, c)
    \/ LoadState(p)
    \/ Stage(p)
    \/ Answer(p)
    \/ Exhaust(p)
    \/ Write(p)
    \/ Conflict(p)
    \/ SaveState(p)
    \/ Publish(p)
    \/ Emit(p)
    \/ Drop(p)

Sweep(w) == SweepSelect(w) \/ SweepUpdate(w) \/ SweepClear(w) \/ SweepEmit(w)

Next ==
    \/ \E p \in Handlers : Handle(p)
    \/ \E w \in Sweepers : Sweep(w)
    \/ Expire
    \/ FallIdle

Spec == Init /\ [][Next]_vars

----------------------------------------------------------------------------
(* Properties. *)

Loaded == {"loaded", "write", "save", "publish", "emit"}

\* Every variable keeps its type.
TypeOK ==
    /\ row \in Session
    /\ idle \in BOOLEAN
    /\ cache \in [cursor: Int, revealed: Int]
    /\ pc \in [Handlers \cup Sweepers ->
              {"idle", "row", "abandon", "clear"} \cup Loaded]
    /\ cmd \in [Handlers -> Commands]
    /\ ent \in [Handlers -> Session]
    /\ floor \in [Handlers -> Int]
    /\ shown \in Int
    /\ frame \in Int
    /\ emitted \in [{"closed", "abandoned"} -> Nat]

\* The Redis snapshot never runs ahead of the row, so preferring it in load can
\* never reveal a bar PostgreSQL does not know was released.
CacheBehindRow ==
    cache # Missing => /\ cache.revealed <= row.revealed
                       /\ cache.cursor \in 0 .. cache.revealed

\* No answer and no frame carries a bar the row has not recorded as released
\* (Bars is the enforcement point for BR-02).
NothingShownEarly == shown <= row.revealed /\ frame <= shown

\* A request that starts after some bar was shown never sees an edge behind it,
\* whatever the cache holds ("a stale cache must never be able to un-reveal").
ReadsNeverRegress ==
    \A p \in Handlers : pc[p] \in Loaded => ent[p].revealed >= floor[p]

\* The row stays inside the feed and its view behind its edge, and a lost cache
\* costs fewer than CheckpointEvery bars.
RowInBounds ==
    /\ 0 <= row.cursor /\ row.cursor <= row.revealed /\ row.revealed <= LastBar
    /\ row.checkpoint <= row.revealed
    /\ row.revealed - row.checkpoint < CheckpointEvery

\* One session closes once: the event is written at most once, and only for a
\* session whose row has ended.
ClosedOnce ==
    /\ emitted["closed"] <= 1
    /\ emitted["closed"] = 1 => ~Live(row.status)

\* No interleaving of handlers un-releases a bar (UpdateCursor's comment).
RevealOnlyGrows == [][row'.revealed >= row.revealed]_vars

\* A session that ended is never live again and no late write moves it.
EndedIsFinal ==
    [][~Live(row.status) =>
        /\ ~Live(row'.status)
        /\ row' = [row EXCEPT !.status = row'.status, !.version = row'.version]]_vars

\* A bar the clock releases is released while the row says open: a pause that
\* commits during the tick wins (stepLoaded's comment).
ClockRespectsPause ==
    [][\A p \in Handlers :
        (pc[p] = "write" /\ pc'[p] = "save" /\ cmd[p].op = "tick")
            => row.status = "open"]_vars

\* The row, under all these interleavings, behaves as one session changed by
\* one accepted operation at a time.
Edge == INSTANCE ReplayEdge WITH
            status <- row.status, cursor <- row.cursor, revealed <- row.revealed,
            timeframe <- row.timeframe, speed <- row.speed
ImplementsEdge == Edge!Spec

----------------------------------------------------------------------------
(* The inductive invariant behind the safety properties: what a handler's     *)
(* entity is worth at each point, given how its version compares to the row's. *)

InFeed(e) == 0 <= e.cursor /\ e.cursor <= e.revealed /\ e.revealed <= LastBar

SameSettings(e) ==
    /\ e.status = row.status
    /\ e.timeframe = row.timeframe
    /\ e.speed = row.speed

\* If its version still matches, an entity about to be written is one accepted
\* operation away from the row.
Intended(c, e) ==
    /\ Live(row.status)
    /\ e.checkpoint <= e.revealed /\ e.revealed - e.checkpoint < CheckpointEvery
    /\ \/ /\ c.op \in {"step", "tick", "seek"}
          /\ SameSettings(e)
          /\ \/ e.revealed = row.revealed
             \/ /\ e.cursor = e.revealed
                /\ row.revealed < e.revealed
                /\ e.revealed <= row.revealed + MaxCount
       \/ /\ c.op = "timeframe"
          /\ e.timeframe \in Timeframes /\ e.timeframe >= BaseTimeframe
          /\ e.status = row.status /\ e.speed = row.speed /\ e.revealed = row.revealed
       \/ /\ c.op = "speed"
          /\ e.speed \in MinSpeed .. MaxSpeed
          /\ e.status = row.status /\ e.timeframe = row.timeframe
          /\ e.revealed = row.revealed
       \/ /\ <<c.op, row.status, e.status>> \in
                {<<"pause", "open", "paused">>, <<"resume", "paused", "open">>}
          /\ e.revealed = row.revealed
       \/ /\ c.op = "close" /\ e.status = "closed"
          /\ e.timeframe = row.timeframe /\ e.speed = row.speed
          /\ e.revealed = row.revealed
    /\ c.op = "tick" => row.status = "open"

EntityInv(p) ==
    /\ pc[p] # "idle" => ent[p].version <= row.version
    /\ pc[p] \in {"row"} \cup Loaded => InFeed(ent[p]) /\ floor[p] <= ent[p].revealed
    /\ pc[p] \in {"row", "loaded", "save", "publish", "emit"}
            => ent[p].revealed <= row.revealed
    /\ pc[p] \in {"row", "loaded"} /\ ent[p].version = row.version
            => /\ SameSettings(ent[p])
               /\ ent[p].revealed = row.revealed
               /\ ent[p].checkpoint = row.checkpoint
    /\ pc[p] = "write" /\ ent[p].version = row.version => Intended(cmd[p], ent[p])

Closing(p) == pc[p] \in {"save", "publish", "emit"} /\ cmd[p].op = "close"

CloseInv ==
    /\ \A p \in Handlers : pc[p] = "emit" => Closing(p)
    /\ \A p \in Handlers : Closing(p) => ~Live(row.status) /\ emitted["closed"] = 0
    /\ \A p, q \in Handlers : Closing(p) /\ Closing(q) => p = q

\* The inductive invariant: no entity in hand can be written or shown out of turn.
IInv ==
    /\ CacheBehindRow
    /\ NothingShownEarly
    /\ RowInBounds
    /\ \A p \in Handlers : EntityInv(p)
    /\ CloseInv
    /\ ClosedOnce

----------------------------------------------------------------------------
(* What the code's comments and documents say and its runs refute. *)

\* interface.go on AbandonIdle: two worker replicas sweeping at once cannot both
\* abandon the same session.
AbandonedOnce == emitted["abandoned"] <= 1

\* 000009_outbox.up.sql: a domain write and its event land in one commit.
ClosedIsRecorded ==
    row.status = "closed" => emitted["closed"] = 1 \/ \E p \in Handlers : Closing(p)

\* interface.go on SetTimeframe: it never moves the cursor.
TimeframeKeepsCursor ==
    [][\A p \in Handlers :
        (pc[p] = "write" /\ pc'[p] = "save" /\ cmd[p].op = "timeframe")
            => row'.cursor = row.cursor]_vars

\* 03-AC-2: after a seek back to a bar, bars beyond it are refused.
BarsEndAtView ==
    \A p \in Handlers :
        (pc[p] = "loaded" /\ cmd[p].op = "bars")
            => \A bar \in AnswersWith(cmd[p], ent[p]) : bar <= ent[p].cursor

\* 03-AC-6: no frame arrives out of order.
FramesInOrder == [][frame' >= frame]_vars
=============================================================================
