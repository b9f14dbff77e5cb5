--------------------------- MODULE PlaybackDriver ---------------------------
(***************************************************************************)
(* Who moves an unattended session: the drive goroutines of every replica, *)
(* started by the first socket and cancelled by the last, the Redis lease  *)
(* that is meant to elect one of them, and the trader acting on the same   *)
(* session.  The session itself is ReplayEdge, which ReplaySession         *)
(* implements; a write of anybody makes the entities others loaded stale,  *)
(* and the snapshot in Redis may be an older one of the same edge.         *)
(***************************************************************************)
EXTENDS Integers, FiniteSets

CONSTANTS
    Replicas,       \* API processes
    Sockets,        \* websockets watching the session (bound: a reconnect is another one)
    Home,           \* the replica each socket lands on
    Drives,         \* drive goroutines (bound: at most so many at a time)
    NoDrive,
    Free, Orphaned, \* a lease nobody holds, or held by a process that died
    LastBar, Start,
    NamedHolder,    \* TRUE: a lease names the process (production); FALSE: the goroutine
    Flaky,          \* TRUE: a read or write of the session or its feed may fail
    MaxCommands     \* bound: the trader acts, a clock finds an old snapshot or its lease
                    \* runs out under it, all in all so often

ASSUME DriverAssumption ==
    /\ Home \in [Sockets -> Replicas]
    /\ NoDrive \notin Drives
    /\ {Free, Orphaned} \cap (Replicas \cup Drives) = {} /\ Free # Orphaned
    /\ Replicas # {} /\ Replicas \cap Drives = {}
    /\ LastBar \in Nat /\ Start \in 0 .. LastBar
    /\ Flaky \in BOOLEAN /\ NamedHolder \in BOOLEAN
    /\ MaxCommands \in Nat

VARIABLES
    status, cursor, revealed,   \* the session
    past,       \* the cursors it has had at this edge: Redis may still hold any of them
    sock,       \* each socket: off, checked (Stream found the session live), on, gone
    driver,     \* s.drivers[session] of each replica: its goroutine, or NoDrive
    refs,       \* and how many sockets hold it
    pc,         \* where each goroutine is
    home,       \* the replica it runs on
    cancelled,  \* its context is done
    driving,    \* what Acquire said in this iteration
    lapse,      \* history: how the lease that Acquire won went since (expired, released)
    view,       \* the cursor of the entity it loaded for this tick
    fresh,      \* whether that entity still has the row's version
    failed,     \* history: its entry is still there, but its read of the session failed
    lease,      \* the holder in Redis
    commands

session == <<status, cursor, revealed, past>>
attach == <<sock, driver, refs>>
belief == <<driving, lapse>>
loaded == <<view, fresh>>
loops == <<pc, home, cancelled, belief, loaded, failed>>
vars == <<session, attach, loops, lease, commands>>

Edge == INSTANCE ReplayEdge WITH
            MaxCount <- 1, Timeframes <- {1}, BaseTimeframe <- 1,
            MinSpeed <- 1, MaxSpeed <- 1, timeframe <- 1, speed <- 1

Live(s) == s \in {"open", "paused"}
Ticking == {"tick", "load", "step"}

\* An open session whose trader has looked at everything released so far.
Init ==
    /\ status = "open" /\ cursor = Start /\ revealed = Start /\ past = 0 .. Start
    /\ sock = [s \in Sockets |-> "off"]
    /\ driver = [r \in Replicas |-> NoDrive]
    /\ refs = [r \in Replicas |-> 0]
    /\ pc = [d \in Drives |-> "done"]
    /\ home \in [Drives -> {CHOOSE r \in Replicas : TRUE}]
    /\ cancelled = [d \in Drives |-> FALSE]
    /\ driving = [d \in Drives |-> FALSE]
    /\ lapse = [d \in Drives |-> "none"]
    /\ view = [d \in Drives |-> 0]
    /\ fresh = [d \in Drives |-> FALSE]
    /\ failed = [d \in Drives |-> FALSE]
    /\ lease = Free
    /\ commands = 0

----------------------------------------------------------------------------
(* Sockets: Stream, and the unsubscribe it returns. *)

\* Stream reads the session before it subscribes and retains.
CheckLive(s) ==
    /\ sock[s] = "off"
    /\ Live(status)
    /\ sock' = [sock EXCEPT ![s] = "checked"]
    /\ UNCHANGED <<session, driver, refs, loops, lease, commands>>

\* A goroutine that has returned and that no entry names any more stands for one not
\* started yet.
Spare == {d \in Drives : pc[d] = "done" /\ \A r \in Replicas : driver[r] # d}

\* retainDriver: the first socket starts the clock, the others count.
Retain(s) ==
    LET r == Home[s] IN
    /\ sock[s] = "checked"
    /\ sock' = [sock EXCEPT ![s] = "on"]
    /\ refs' = [refs EXCEPT ![r] = @ + 1]
    /\ \/ /\ driver[r] # NoDrive
          /\ UNCHANGED <<driver, pc, home, cancelled>>
       \/ /\ driver[r] = NoDrive
          /\ Spare # {}
          /\ LET d == CHOOSE e \in Spare : TRUE IN
                /\ driver' = [driver EXCEPT ![r] = d]
                /\ pc' = [pc EXCEPT ![d] = "acquire"]
                /\ home' = [home EXCEPT ![d] = r]
                /\ cancelled' = [cancelled EXCEPT ![d] = FALSE]
    /\ UNCHANGED <<session, belief, loaded, failed, lease, commands>>

\* (Variant: the entry goes but its goroutine is not cancelled.)
ReleaseKeepingClock(s) ==
    LET r == Home[s] IN
    /\ sock[s] = "on"
    /\ sock' = [sock EXCEPT ![s] = "gone"]
    /\ refs' = [refs EXCEPT ![r] = @ - 1]
    /\ driver' = IF refs[r] > 1 THEN driver ELSE [driver EXCEPT ![r] = NoDrive]
    /\ UNCHANGED <<session, loops, lease, commands>>

\* releaseDriver: the last socket deletes the entry and cancels its goroutine.
Release(s) ==
    LET r == Home[s] IN
    /\ sock[s] = "on"
    /\ sock' = [sock EXCEPT ![s] = "gone"]
    /\ refs' = [refs EXCEPT ![r] = @ - 1]
    /\ IF refs[r] > 1
       THEN UNCHANGED <<driver, cancelled, failed>>
       ELSE /\ driver' = [driver EXCEPT ![r] = NoDrive]
            /\ cancelled' = [cancelled EXCEPT ![driver[r]] = TRUE]
            /\ failed' = [failed EXCEPT ![driver[r]] = FALSE]
    /\ UNCHANGED <<session, pc, home, belief, loaded, lease, commands>>

----------------------------------------------------------------------------
(* drive: one iteration is Acquire, Get, a sleep, a reload and a step. *)

Goto(d, l) == pc' = [pc EXCEPT ![d] = l]

HolderOf(d) == IF NamedHolder THEN home[d] ELSE d

\* The top of the loop on a done context.
Quit(d) ==
    /\ pc[d] = "acquire"
    /\ cancelled[d]
    /\ Goto(d, "exit")
    /\ UNCHANGED <<session, attach, home, cancelled, belief, loaded, failed, lease, commands>>

\* What Acquire said is a variable of the iteration.
Believe(d, won) ==
    /\ driving' = [driving EXCEPT ![d] = won]
    /\ lapse' = [lapse EXCEPT ![d] = "none"]

\* Hold: take a free lease or renew one's own.
Acquire(d) ==
    /\ pc[d] = "acquire" /\ ~cancelled[d]
    /\ lease \in {Free, HolderOf(d)}
    /\ lease' = HolderOf(d)
    /\ Believe(d, TRUE)
    /\ Goto(d, "get")
    /\ UNCHANGED <<session, attach, home, cancelled, loaded, failed, commands>>

\* Somebody else's lease, or a Redis error: not driving this time.
AcquireFails(d) ==
    /\ pc[d] = "acquire" /\ ~cancelled[d]
    /\ Believe(d, FALSE)
    /\ Goto(d, "get")
    /\ UNCHANGED <<session, attach, home, cancelled, loaded, failed, lease, commands>>

\* Get: an ended session ends the loop, a paused one or somebody else's idles.
Get(d) ==
    /\ pc[d] = "get"
    /\ IF driving[d] /\ status = "open"
       THEN Goto(d, "tick") /\ UNCHANGED belief
       ELSE Goto(d, IF Live(status) THEN "idle" ELSE "exit") /\ Believe(d, FALSE)
    /\ UNCHANGED <<session, attach, home, cancelled, loaded, failed, lease, commands>>

\* Get fails and ends the loop for good: on a done context, or when the store does.
GetFails(d) ==
    /\ pc[d] = "get"
    /\ Flaky \/ cancelled[d]
    /\ failed' = [failed EXCEPT ![d] = ~cancelled[d]]
    /\ Believe(d, FALSE)
    /\ Goto(d, "exit")
    /\ UNCHANGED <<session, attach, home, cancelled, loaded, lease, commands>>

\* sleep(baseTick) runs out.
WakeIdle(d) ==
    /\ pc[d] = "idle"
    /\ Goto(d, IF cancelled[d] THEN "exit" ELSE "acquire")
    /\ UNCHANGED <<session, attach, home, cancelled, belief, loaded, failed, lease, commands>>

\* sleep(tickFor) runs out, or the context is done first.
WakeTick(d) ==
    /\ pc[d] = "tick"
    /\ \/ Goto(d, "load") /\ UNCHANGED belief
       \/ cancelled[d] /\ Goto(d, "exit") /\ Believe(d, FALSE)
    /\ UNCHANGED <<session, attach, home, cancelled, loaded, failed, lease, commands>>

\* loadLive: the row, and of a snapshot with the same edge the cursor, old as it may be.
Load(d) ==
    /\ pc[d] = "load"
    /\ status = "open" /\ ~cancelled[d]
    /\ \/ view' = [view EXCEPT ![d] = cursor] /\ UNCHANGED commands
       \/ /\ commands < MaxCommands /\ commands' = commands + 1
          /\ \E c \in past \ {cursor} : view' = [view EXCEPT ![d] = c]
    /\ fresh' = [fresh EXCEPT ![d] = TRUE]
    /\ Goto(d, "step")
    /\ UNCHANGED <<session, attach, home, cancelled, belief, failed, lease>>

\* The reload fails, or the session is not open any more: start over.
LoadFails(d) ==
    /\ pc[d] = "load"
    /\ status # "open" \/ cancelled[d] \/ Flaky
    /\ Believe(d, FALSE)
    /\ Goto(d, "acquire")
    /\ UNCHANGED <<session, attach, home, cancelled, loaded, failed, lease, commands>>

Outdate == fresh' = [d \in Drives |-> FALSE]

\* The iteration ends: its entity and what Acquire said are gone.
Drop(d) == view' = [view EXCEPT ![d] = 0] /\ Believe(d, FALSE)

\* A write keeps older snapshots of its edge alive, and outdates those of an earlier one.
Remember == past' = IF revealed' = revealed THEN past \cup {cursor'} ELSE {cursor'}

\* stepLoaded(1): one bar on from the cursor that was loaded, while its version holds.
Step(d) ==
    /\ pc[d] = "step"
    /\ fresh[d]
    /\ view[d] < LastBar
    /\ IF view[d] = revealed
       THEN Edge!Advance(1)
       ELSE Edge!Look /\ cursor' = view[d] + 1
    /\ Remember
    /\ Outdate /\ Drop(d)
    /\ Goto(d, "acquire")
    /\ UNCHANGED <<attach, home, cancelled, failed, lease, commands>>

\* (Variant: any error of the step ends the loop.)
StepFailsForGood(d) ==
    /\ pc[d] = "step"
    /\ ~fresh[d] \/ cancelled[d] \/ Flaky
    /\ fresh' = [fresh EXCEPT ![d] = FALSE] /\ Drop(d)
    /\ Goto(d, "exit")
    /\ UNCHANGED <<session, attach, home, cancelled, failed, lease, commands>>

\* CONCURRENT_MODIFICATION, an error of the feed or the database, or a done context:
\* sleep a base tick and start over.
StepFails(d) ==
    /\ pc[d] = "step"
    /\ ~fresh[d] \/ cancelled[d] \/ Flaky
    /\ fresh' = [fresh EXCEPT ![d] = FALSE] /\ Drop(d)
    /\ Goto(d, "idle")
    /\ UNCHANGED <<session, attach, home, cancelled, failed, lease, commands>>

\* BARS_EXHAUSTED, which looks at the loaded cursor before any version, ends the loop;
\* the replica's entry stays.
Exhaust(d) ==
    /\ pc[d] = "step"
    /\ view[d] = LastBar
    /\ fresh' = [fresh EXCEPT ![d] = FALSE] /\ Drop(d)
    /\ Goto(d, "exit")
    /\ UNCHANGED <<session, attach, home, cancelled, failed, lease, commands>>

Return(d) ==
    /\ cancelled' = [cancelled EXCEPT ![d] = FALSE]
    /\ Goto(d, "done")
    /\ UNCHANGED <<session, attach, home, driving, loaded, failed, commands>>

\* The clocks that rely on the lease as it stands.
Relying == {d \in Drives : driving[d] /\ HolderOf(d) = lease}

\* The lease is deleted, though others of d's name may rely on it.
Delete(d) ==
    /\ lease' = Free
    /\ lapse' = [e \in Drives |->
                   IF e \in Relying /\ HolderOf(e) = HolderOf(d) /\ lapse[e] = "none"
                   THEN "released" ELSE lapse[e]]

\* (Variant: the lease is deleted whoever holds it.)
ExitForAnyone(d) ==
    /\ pc[d] = "exit"
    /\ Delete(d)
    /\ Return(d)

\* The deferred Release: deletes the lease if the holder's name is in it, or fails.
Exit(d) ==
    /\ pc[d] = "exit"
    /\ \/ lease = HolderOf(d) /\ Delete(d)
       \/ /\ lease' = IF ~NamedHolder /\ lease = d THEN Orphaned ELSE lease
          /\ UNCHANGED lapse
    /\ Return(d)

Drive(d) ==
    \/ Quit(d) \/ Acquire(d) \/ AcquireFails(d) \/ Get(d) \/ GetFails(d)
    \/ WakeIdle(d) \/ WakeTick(d) \/ Load(d) \/ LoadFails(d) \/ Step(d) \/ StepFails(d)
    \/ Exhaust(d) \/ Exit(d)

----------------------------------------------------------------------------
(* The environment. *)

\* The TTL, three base ticks and at least 5s, runs out: where no clock relies on it, or
\* under one that sleeps longer at a slow speed or waits for a call.
Expire ==
    /\ lease # Free
    /\ IF Relying = {}
       THEN UNCHANGED commands
       ELSE commands < MaxCommands /\ commands' = commands + 1
    /\ lapse' = [d \in Drives |-> IF d \in Relying THEN "expired" ELSE lapse[d]]
    /\ lease' = Free
    /\ UNCHANGED <<session, attach, pc, home, cancelled, driving, loaded, failed>>

\* A process dies with its sockets and goroutines; its successor has a new name.
Crash(r) ==
    /\ driver[r] # NoDrive
    /\ sock' = [s \in Sockets |-> IF Home[s] = r /\ sock[s] # "off" THEN "gone" ELSE sock[s]]
    /\ driver' = [driver EXCEPT ![r] = NoDrive]
    /\ refs' = [refs EXCEPT ![r] = 0]
    /\ pc' = [d \in Drives |-> IF home[d] = r THEN "done" ELSE pc[d]]
    /\ cancelled' = [d \in Drives |-> home[d] # r /\ cancelled[d]]
    /\ driving' = [d \in Drives |-> home[d] # r /\ driving[d]]
    /\ lapse' = [d \in Drives |-> IF home[d] = r THEN "none" ELSE lapse[d]]
    /\ view' = [d \in Drives |-> IF home[d] = r THEN 0 ELSE view[d]]
    /\ fresh' = [d \in Drives |-> home[d] # r /\ fresh[d]]
    /\ failed' = [d \in Drives |-> home[d] # r /\ failed[d]]
    /\ lease' = IF lease = r \/ \E d \in Drives : home[d] = r /\ lease = d
                THEN Orphaned
                ELSE lease
    /\ UNCHANGED <<session, home, commands>>

\* An operation of the trader on the same row (the idle sweep ends it as Close does).
Command ==
    /\ commands < MaxCommands
    /\ Live(status)
    /\ \/ Edge!Advance(1) \/ Edge!Look
       \/ Edge!Pause \/ Edge!Resume \/ Edge!Close
    /\ Remember
    /\ Outdate
    /\ commands' = commands + 1
    /\ UNCHANGED <<attach, pc, home, cancelled, belief, view, failed, lease>>

Next ==
    \/ \E s \in Sockets : CheckLive(s) \/ Retain(s) \/ Release(s)
    \/ \E d \in Drives : Drive(d)
    \/ \E r \in Replicas : Crash(r)
    \/ Expire
    \/ Command

Spec == Init /\ [][Next]_vars

\* Goroutines are scheduled, timers fire, calls return, TTLs run out; Redis does not
\* refuse everybody for ever a lease that is free to take, nor the store every reload or
\* every step.  A failed Get needs no such promise: it is the last the clock does.
Fairness ==
    /\ \A d \in Drives : WF_vars(Drive(d))
    /\ SF_vars(\E d \in Drives : Acquire(d))
    /\ SF_vars(\E d \in Drives : Load(d))
    /\ SF_vars(\E d \in Drives : Step(d))
    /\ WF_vars(Expire)

FairSpec == Spec /\ Fairness

----------------------------------------------------------------------------
(* Properties. *)

Running(d) == pc[d] # "done" /\ ~cancelled[d]
Attached(r) == \E s \in Sockets : Home[s] = r /\ sock[s] = "on"

\* However sockets come and go, a replica's map entry counts the sockets that hold it,
\* and the one clock it has not cancelled is the one the entry names: none is leaked by
\* the last socket's release, none is started beside another.
ClockPerSockets ==
    /\ \A r \in Replicas :
        /\ refs[r] = Cardinality({s \in Sockets : Home[s] = r /\ sock[s] = "on"})
        /\ driver[r] # NoDrive <=> refs[r] > 0
    /\ \A d \in Drives : Running(d) => driver[home[d]] = d

\* Clocks of two replicas that both act on a lease they won.
Rivals(d, e) ==
    /\ Running(d) /\ Running(e) /\ home[d] # home[e]
    /\ pc[d] \in Ticking /\ pc[e] \in Ticking

\* Two replicas drive one session at once only where the lease went under one of the two
\* clocks since it won it: its TTL ran out, or an older clock of its own process, on its
\* way out, deleted the lease they both hold under one name.
TwoDriveForACause ==
    \A d, e \in Drives : Rivals(d, e) => lapse[d] # "none" \/ lapse[e] # "none"

\* No open session stands still for ever with a socket on it: while one stays on a
\* replica, the bars that are left are released to the last, whatever calls fail, clocks
\* quarrel and processes die.  The exception is a replica whose own clock gave up on a
\* failed read of the session: its entry stays, and so nobody starts another.
GaveUp(r) == driver[r] # NoDrive /\ failed[driver[r]]

ClockRuns ==
    \A r \in Replicas :
        []<>(~Attached(r) \/ status # "open" \/ revealed = LastBar \/ GaveUp(r))

----------------------------------------------------------------------------
(* What the code's comments say and its runs refute. *)

\* interface.go: the lease elects exactly one replica.  (A TTL that ends under a clock is
\* the limit of any lease and is left out.)
OneReplicaDrives ==
    \A d, e \in Drives : Rivals(d, e) => "expired" \in {lapse[d], lapse[e]}

\* interface.go on Stream: the driver stops once the last socket goes.
AttachedMeansDriven ==
    \A r \in Replicas :
        Attached(r) /\ status = "open" /\ revealed < LastBar
            => \E d \in Drives : home[d] = r /\ Running(d)
=============================================================================
