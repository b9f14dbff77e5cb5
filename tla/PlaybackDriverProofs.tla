------------------------ MODULE PlaybackDriverProofs ------------------------
(***************************************************************************)
(* Proofs about PlaybackDriver, for any replicas, sockets and goroutines:  *)
(* a replica counts its sockets exactly and runs one clock for them and no *)
(* other; what the lease is worth under the name of a process, and what it *)
(* would be worth under one of the goroutine's own.                        *)
(***************************************************************************)
EXTENDS PlaybackDriver, FiniteSetTheorems, TLAPS

USE DriverAssumption

Labels == {"acquire", "get", "idle", "tick", "load", "step", "exit", "done"}

DriverTypes ==
    /\ cursor \in Int /\ revealed \in Int
    /\ sock \in [Sockets -> {"off", "checked", "on", "gone"}]
    /\ driver \in [Replicas -> Drives \cup {NoDrive}]
    /\ refs \in [Replicas -> Nat]
    /\ pc \in [Drives -> Labels]
    /\ home \in [Drives -> Replicas]
    /\ cancelled \in [Drives -> BOOLEAN]
    /\ view \in [Drives -> Int]
    /\ fresh \in [Drives -> BOOLEAN]
    /\ failed \in [Drives -> BOOLEAN]
    /\ past \subseteq Int

\* The sockets that hold replica r's entry.
On(r, socks) == {s \in Sockets : Home[s] = r /\ socks[s] = "on"}

Counted(r) ==
    /\ IsFiniteSet(On(r, sock))
    /\ refs[r] = Cardinality(On(r, sock))
    /\ driver[r] # NoDrive <=> refs[r] > 0

\* An entry names a goroutine of its own replica, and a goroutine nobody cancelled is
\* the one its replica's entry names.
Entries ==
    /\ \A r \in Replicas : driver[r] # NoDrive => home[driver[r]] = r
    /\ \A d \in Drives : Running(d) => driver[home[d]] = d

DriverInv == DriverTypes /\ (\A r \in Replicas : Counted(r)) /\ Entries

----------------------------------------------------------------------------
(* Sockets that come and go. *)

\* A socket that turns on joins its replica's set and no other.
LEMMA SocketOn ==
    ASSUME NEW socks \in [Sockets -> {"off", "checked", "on", "gone"}], NEW s \in Sockets,
           socks[s] # "on", NEW r
    PROVE  LET next == [socks EXCEPT ![s] = "on"] IN
           /\ s \notin On(r, socks)
           /\ On(r, next) = IF Home[s] = r THEN On(r, socks) \cup {s} ELSE On(r, socks)
BY DEF On

\* A socket that was on and turns off leaves it.
LEMMA SocketOff ==
    ASSUME NEW socks \in [Sockets -> {"off", "checked", "on", "gone"}], NEW s \in Sockets,
           socks[s] = "on", NEW r
    PROVE  LET next == [socks EXCEPT ![s] = "gone"] IN
           /\ Home[s] = r => s \in On(r, socks)
           /\ On(r, next) = IF Home[s] = r THEN On(r, socks) \ {s} ELSE On(r, socks)
BY DEF On

\* A socket that is on neither before nor after changes no set.
LEMMA SocketElsewhere ==
    ASSUME NEW socks \in [Sockets -> {"off", "checked", "on", "gone"}], NEW s \in Sockets,
           socks[s] # "on", NEW r
    PROVE  On(r, [socks EXCEPT ![s] = "checked"]) = On(r, socks)
BY DEF On

----------------------------------------------------------------------------
(* The inductive invariant. *)

LEMMA DriverInitially == Init => DriverInv
<1> SUFFICES ASSUME Init PROVE DriverInv
  OBVIOUS
<1>1. (CHOOSE r \in Replicas : TRUE) \in Replicas
  OBVIOUS
<1>2. DriverTypes
  BY <1>1 DEF Init, DriverTypes, Labels
<1>3. \A r \in Replicas : Counted(r)
  <2> TAKE r \in Replicas
  <2>1. On(r, sock) = {}
    BY DEF Init, On
  <2> QED  BY <2>1, FS_EmptySet, SMTT(40) DEF Init, Counted
<1>4. Entries
  BY <1>2 DEF Init, Entries, Running, DriverTypes
<1> QED  BY <1>2, <1>3, <1>4 DEF DriverInv

\* A step that touches no socket, entry or home, and starts no goroutine.
LEMMA AttachKept ==
    ASSUME DriverInv, DriverTypes', UNCHANGED <<attach, home>>,
           \A d \in Drives : Running(d)' => Running(d)
    PROVE  DriverInv'
<1>1. \A r \in Replicas : Counted(r)'
  BY DEF DriverInv, Counted, attach
<1>2. Entries'
  BY DEF DriverInv, Entries, attach
<1> QED  BY <1>1, <1>2 DEF DriverInv

\* An iteration of the loop moves one goroutine, and only its last step ends it.
LEMMA DriveMoves ==
    ASSUME DriverTypes, NEW d \in Drives, Drive(d)
    PROVE  /\ UNCHANGED <<attach, home>>
           /\ pc[d] # "done"
           /\ \E l \in Labels : pc' = [pc EXCEPT ![d] = l]
           /\ \/ cancelled' = cancelled
              \/ pc'[d] = "done" /\ cancelled' = [cancelled EXCEPT ![d] = FALSE]
<1>1. UNCHANGED <<attach, home>> /\ pc[d] # "done"
  BY DEF Drive, Quit, Acquire, AcquireFails, Get, GetFails, WakeIdle, WakeTick, Load,
         LoadFails, Step, StepFails, Exhaust, Exit, Return
<1>2. CASE Quit(d) \/ Acquire(d) \/ AcquireFails(d) \/ GetFails(d)
  <2>1. cancelled' = cancelled
    BY <1>2 DEF Quit, Acquire, AcquireFails, GetFails
  <2>2. \E l \in Labels : pc' = [pc EXCEPT ![d] = l]
    BY <1>2 DEF Quit, Acquire, AcquireFails, GetFails, Goto, Labels
  <2> QED  BY <1>1, <2>1, <2>2
<1>3. CASE Get(d)
  BY <1>1, <1>3 DEF Get, Goto, Labels
<1>4. CASE WakeIdle(d) \/ WakeTick(d)
  BY <1>1, <1>4 DEF WakeIdle, WakeTick, Goto, Labels
<1>5. CASE Load(d) \/ LoadFails(d)
  BY <1>1, <1>5 DEF Load, LoadFails, Goto, Labels
<1>6. CASE Step(d) \/ StepFails(d) \/ Exhaust(d)
  <2>1. cancelled' = cancelled
    BY <1>6 DEF Step, StepFails, Exhaust
  <2>2. \E l \in Labels : pc' = [pc EXCEPT ![d] = l]
    BY <1>6 DEF Step, StepFails, Exhaust, Goto, Labels
  <2> QED  BY <1>1, <2>1, <2>2
<1>7. CASE Exit(d)
  BY <1>1, <1>7 DEF Exit, Return, Goto, Labels, DriverTypes
<1> QED  BY <1>2, <1>3, <1>4, <1>5, <1>6, <1>7 DEF Drive

\* A move of the view or the edge keeps their types.
LEMMA EdgeTypes ==
    ASSUME DriverTypes,
           Edge!Advance(1) \/ Edge!Look \/ Edge!Pause \/ Edge!Resume \/ Edge!Close
    PROVE  cursor' \in Int /\ revealed' \in Int
BY DEF DriverTypes, Edge!Advance, Edge!Look, Edge!Pause, Edge!Resume, Edge!Close

\* What an iteration loads, remembers and forgets keeps its type.
LEMMA DriveTypes ==
    ASSUME DriverTypes, NEW d \in Drives, Drive(d)
    PROVE  /\ cursor' \in Int /\ revealed' \in Int /\ past' \subseteq Int
           /\ view' \in [Drives -> Int] /\ fresh' \in [Drives -> BOOLEAN]
           /\ failed' \in [Drives -> BOOLEAN]
<1>1. CASE Quit(d) \/ Acquire(d) \/ AcquireFails(d) \/ Get(d)
  <2>1. UNCHANGED <<session, loaded, failed>>
    BY <1>1 DEF Quit, Acquire, AcquireFails, Get
  <2> QED  BY <2>1 DEF DriverTypes, session, loaded
<1>2. CASE GetFails(d)
  <2>1. UNCHANGED <<session, loaded>> /\ failed' = [failed EXCEPT ![d] = ~cancelled[d]]
    BY <1>2 DEF GetFails
  <2> QED  BY <2>1 DEF DriverTypes, session, loaded
<1>3. CASE WakeIdle(d) \/ WakeTick(d) \/ LoadFails(d) \/ Exit(d)
  <2>1. UNCHANGED <<session, loaded, failed>>
    BY <1>3 DEF WakeIdle, WakeTick, LoadFails, Exit, Return
  <2> QED  BY <2>1 DEF DriverTypes, session, loaded
<1>4. CASE Load(d) \/ StepFails(d) \/ Exhaust(d)
  <2>1. UNCHANGED <<session, failed>>
    BY <1>4 DEF Load, StepFails, Exhaust
  <2>2. \E b \in BOOLEAN : fresh' = [fresh EXCEPT ![d] = b]
    BY <1>4 DEF Load, StepFails, Exhaust
  <2>3. view' \in [Drives -> Int]
    <3>1. CASE Load(d)
      <4>1. \E c \in {cursor} \cup past : view' = [view EXCEPT ![d] = c]
        BY <3>1 DEF Load
      <4> QED  BY <4>1 DEF DriverTypes
    <3>2. CASE StepFails(d) \/ Exhaust(d)
      <4>1. Drop(d)
        BY <3>2 DEF StepFails, Exhaust
      <4>2. view' = [view EXCEPT ![d] = 0]
        BY <4>1 DEF Drop
      <4> QED  BY <4>2 DEF DriverTypes
    <3> QED  BY <1>4, <3>1, <3>2
  <2> QED  BY <2>1, <2>2, <2>3 DEF DriverTypes, session
<1>5. CASE Step(d)
  <2>1. cursor' \in Int /\ revealed' \in Int
    <3>1. CASE view[d] = revealed
      BY <1>5, <3>1, EdgeTypes DEF Step
    <3>2. CASE view[d] # revealed
      BY <1>5, <3>2 DEF Step, Edge!Look, DriverTypes
    <3> QED  BY <3>1, <3>2
  <2>2. past' \subseteq Int
    BY <1>5, <2>1 DEF Step, Remember, DriverTypes
  <2>3. view' \in [Drives -> Int] /\ fresh' \in [Drives -> BOOLEAN]
    BY <1>5 DEF Step, Drop, Outdate, DriverTypes
  <2>4. failed' = failed
    BY <1>5 DEF Step
  <2> QED  BY <2>1, <2>2, <2>3, <2>4 DEF DriverTypes
<1> QED  BY <1>1, <1>2, <1>3, <1>4, <1>5 DEF Drive

LEMMA DriveKeeps ==
    ASSUME DriverInv, NEW d \in Drives, Drive(d)
    PROVE  DriverInv'
<1>1. DriverTypes
  BY DEF DriverInv
<1>2. /\ UNCHANGED <<attach, home>>
      /\ pc[d] # "done"
      /\ \E l \in Labels : pc' = [pc EXCEPT ![d] = l]
      /\ \/ cancelled' = cancelled
         \/ pc'[d] = "done" /\ cancelled' = [cancelled EXCEPT ![d] = FALSE]
  BY <1>1, DriveMoves
<1>3. DriverTypes'
  <2>1. UNCHANGED <<sock, driver, refs, home>>
    BY <1>2 DEF attach
  <2>2. pc' \in [Drives -> Labels]
    BY <1>1, <1>2 DEF DriverTypes
  <2>3. cancelled' \in [Drives -> BOOLEAN]
    BY <1>1, <1>2 DEF DriverTypes
  <2> QED  BY <1>1, <2>1, <2>2, <2>3, DriveTypes DEF DriverTypes
<1>4. \A e \in Drives : Running(e)' => Running(e)
  BY <1>1, <1>2 DEF Running, DriverTypes
<1> QED  BY <1>2, <1>3, <1>4, AttachKept

LEMMA RetainKeeps ==
    ASSUME DriverInv, NEW s \in Sockets, Retain(s)
    PROVE  DriverInv'
<1> DEFINE r == Home[s]
<1>1. DriverTypes /\ r \in Replicas
  BY DEF DriverInv
<1>2. sock' = [sock EXCEPT ![s] = "on"] /\ refs' = [refs EXCEPT ![r] = @ + 1] /\ sock[s] # "on"
  BY DEF Retain
<1>3. \A q \in Replicas : /\ IsFiniteSet(On(q, sock'))
                          /\ refs'[q] = Cardinality(On(q, sock'))
  <2> TAKE q \in Replicas
  <2>1. IsFiniteSet(On(q, sock)) /\ refs[q] = Cardinality(On(q, sock))
    BY DEF DriverInv, Counted
  <2>2. /\ s \notin On(q, sock)
        /\ On(q, sock') = IF r = q THEN On(q, sock) \cup {s} ELSE On(q, sock)
    BY <1>1, <1>2, SocketOn DEF DriverTypes
  <2>3. refs'[q] = IF r = q THEN refs[q] + 1 ELSE refs[q]
    BY <1>1, <1>2 DEF DriverTypes
  <2>4. /\ IsFiniteSet(On(q, sock) \cup {s})
        /\ s \notin On(q, sock) =>
             Cardinality(On(q, sock) \cup {s}) = Cardinality(On(q, sock)) + 1
    BY <2>1, FS_AddElement
  <2> HIDE DEF r
  <2> QED  BY <2>1, <2>2, <2>3, <2>4
<1>4. CASE driver[r] # NoDrive
  <2>1. UNCHANGED <<driver, pc, home, cancelled, view, fresh, failed, cursor, revealed, past>>
    BY <1>4 DEF Retain, session, loaded
  <2>2. DriverTypes'
    BY <1>1, <1>2, <2>1 DEF DriverTypes
  <2>3. \A q \in Replicas : driver'[q] # NoDrive <=> refs'[q] > 0
    BY <1>1, <1>2, <1>4, <2>1 DEF DriverInv, Counted, DriverTypes
  <2>4. Entries'
    BY <2>1 DEF DriverInv, Entries, Running
  <2> QED  BY <1>3, <2>2, <2>3, <2>4 DEF DriverInv, Counted
<1>5. CASE driver[r] = NoDrive
  <2>1. PICK d \in Spare : /\ driver' = [driver EXCEPT ![r] = d]
                           /\ pc' = [pc EXCEPT ![d] = "acquire"]
                           /\ home' = [home EXCEPT ![d] = r]
                           /\ cancelled' = [cancelled EXCEPT ![d] = FALSE]
    <3>1. Spare # {} => (CHOOSE e \in Spare : TRUE) \in Spare
      OBVIOUS
    <3> QED  BY <1>5, <3>1 DEF Retain
  <2>2. d \in Drives /\ pc[d] = "done" /\ \A q \in Replicas : driver[q] # d
    BY DEF Spare
  <2>3. UNCHANGED <<view, fresh, failed, cursor, revealed, past>>
    BY DEF Retain, session, loaded
  <2>4. DriverTypes'
    BY <1>1, <1>2, <2>1, <2>2, <2>3 DEF DriverTypes, Labels
  <2>5. \A q \in Replicas : driver'[q] # NoDrive <=> refs'[q] > 0
    BY <1>1, <1>2, <2>1, <2>2 DEF DriverInv, Counted, DriverTypes
  <2>6. \A q \in Replicas : driver'[q] # NoDrive => home'[driver'[q]] = q
    BY <1>1, <2>1, <2>2 DEF DriverInv, Entries, DriverTypes
  <2>7. \A e \in Drives : Running(e)' => driver'[home'[e]] = e
    <3> SUFFICES ASSUME NEW e \in Drives, Running(e)' PROVE driver'[home'[e]] = e
      OBVIOUS
    <3>1. CASE e = d
      BY <1>1, <2>1, <2>2, <3>1 DEF DriverTypes
    <3>2. CASE e # d
      <4>1. Running(e) /\ home'[e] = home[e]
        BY <1>1, <2>1, <2>2, <3>2 DEF Running, DriverTypes
      <4>2. driver[home[e]] = e /\ home[e] \in Replicas
        BY <1>1, <4>1 DEF DriverInv, Entries, DriverTypes
      <4>3. home[e] # r
        BY <1>5, <4>2
      <4> QED  BY <1>1, <2>1, <4>1, <4>2, <4>3 DEF DriverTypes
    <3> QED  BY <3>1, <3>2
  <2>8. Entries'
    BY <2>6, <2>7 DEF Entries
  <2> QED  BY <1>3, <2>4, <2>5, <2>8 DEF DriverInv, Counted
<1> QED  BY <1>4, <1>5

LEMMA ReleaseKeeps ==
    ASSUME DriverInv, NEW s \in Sockets, Release(s)
    PROVE  DriverInv'
<1> DEFINE r == Home[s]
<1>1. DriverTypes /\ r \in Replicas
  BY DEF DriverInv
<1>2. sock' = [sock EXCEPT ![s] = "gone"] /\ refs' = [refs EXCEPT ![r] = @ - 1] /\ sock[s] = "on"
  BY DEF Release
<1>3. UNCHANGED <<pc, home, view, fresh, cursor, revealed, past>>
  BY DEF Release, session, loaded
<1>4. refs[r] > 0 /\ driver[r] # NoDrive
  <2>1. s \in On(r, sock)
    BY <1>2 DEF On
  <2>2. IsFiniteSet(On(r, sock)) /\ refs[r] = Cardinality(On(r, sock)) /\ refs[r] \in Nat
    BY <1>1 DEF DriverInv, Counted, DriverTypes
  <2>3. refs[r] # 0
    BY <2>1, <2>2, FS_EmptySet
  <2> QED  BY <1>1, <2>2, <2>3 DEF DriverInv, Counted
<1>5. \A q \in Replicas : /\ IsFiniteSet(On(q, sock'))
                          /\ refs'[q] = Cardinality(On(q, sock'))
  <2> TAKE q \in Replicas
  <2>1. IsFiniteSet(On(q, sock)) /\ refs[q] = Cardinality(On(q, sock))
    BY DEF DriverInv, Counted
  <2>2. /\ r = q => s \in On(q, sock)
        /\ On(q, sock') = IF r = q THEN On(q, sock) \ {s} ELSE On(q, sock)
    BY <1>1, <1>2, SocketOff DEF DriverTypes
  <2>3. refs'[q] = IF r = q THEN refs[q] - 1 ELSE refs[q]
    BY <1>1, <1>2 DEF DriverTypes
  <2>4. /\ IsFiniteSet(On(q, sock) \ {s})
        /\ s \in On(q, sock) => Cardinality(On(q, sock) \ {s}) = Cardinality(On(q, sock)) - 1
    BY <2>1, FS_RemoveElement
  <2> HIDE DEF r
  <2> QED  BY <2>1, <2>2, <2>3, <2>4
<1>6. CASE refs[r] > 1
  <2>1. UNCHANGED <<driver, cancelled, failed>>
    BY <1>6 DEF Release
  <2>2. DriverTypes'
    BY <1>1, <1>2, <1>3, <1>6, <2>1 DEF DriverTypes
  <2>3. \A q \in Replicas : driver'[q] # NoDrive <=> refs'[q] > 0
    BY <1>1, <1>2, <1>6, <2>1 DEF DriverInv, Counted, DriverTypes
  <2>4. Entries'
    BY <1>3, <2>1 DEF DriverInv, Entries, Running
  <2> QED  BY <1>5, <2>2, <2>3, <2>4 DEF DriverInv, Counted
<1>7. CASE ~(refs[r] > 1)
  <2>1. /\ driver' = [driver EXCEPT ![r] = NoDrive]
        /\ cancelled' = [cancelled EXCEPT ![driver[r]] = TRUE]
        /\ failed' = [failed EXCEPT ![driver[r]] = FALSE]
    BY <1>7 DEF Release
  <2>2. refs[r] = 1 /\ driver[r] \in Drives
    BY <1>1, <1>4, <1>7 DEF DriverTypes
  <2>3. DriverTypes'
    BY <1>1, <1>2, <1>3, <2>1, <2>2 DEF DriverTypes
  <2>4. \A q \in Replicas : driver'[q] # NoDrive <=> refs'[q] > 0
    BY <1>1, <1>2, <2>1, <2>2 DEF DriverInv, Counted, DriverTypes
  <2>5. \A q \in Replicas : driver'[q] # NoDrive => home'[driver'[q]] = q
    BY <1>1, <1>3, <2>1 DEF DriverInv, Entries, DriverTypes
  <2>6. \A e \in Drives : Running(e)' => driver'[home'[e]] = e
    <3> SUFFICES ASSUME NEW e \in Drives, Running(e)' PROVE driver'[home'[e]] = e
      OBVIOUS
    <3>1. Running(e) /\ e # driver[r]
      BY <1>1, <1>3, <2>1, <2>2 DEF Running, DriverTypes
    <3>2. driver[home[e]] = e /\ home[e] \in Replicas
      BY <1>1, <3>1 DEF DriverInv, Entries, DriverTypes
    <3> QED  BY <1>1, <1>3, <2>1, <3>1, <3>2 DEF DriverTypes
  <2>7. Entries'
    BY <2>5, <2>6 DEF Entries
  <2> QED  BY <1>5, <2>3, <2>4, <2>7 DEF DriverInv, Counted
<1> QED  BY <1>6, <1>7

LEMMA CheckKeeps ==
    ASSUME DriverInv, NEW s \in Sockets, CheckLive(s)
    PROVE  DriverInv'
<1>1. DriverTypes
  BY DEF DriverInv
<1>2. UNCHANGED <<driver, refs, pc, home, cancelled, view, fresh, failed, cursor, revealed, past>>
  BY DEF CheckLive, session, loops, loaded
<1>3. sock' = [sock EXCEPT ![s] = "checked"] /\ sock[s] # "on"
  BY DEF CheckLive
<1>4. DriverTypes'
  BY <1>1, <1>2, <1>3 DEF DriverTypes
<1>5. \A r \in Replicas : On(r, sock') = On(r, sock)
  BY <1>1, <1>3, SocketElsewhere DEF DriverTypes
<1>6. \A r \in Replicas : Counted(r)'
  BY <1>2, <1>5 DEF DriverInv, Counted
<1>7. Entries'
  BY <1>2 DEF DriverInv, Entries, Running
<1> QED  BY <1>4, <1>6, <1>7 DEF DriverInv

\* A crash takes one replica's sockets, entry and goroutines together.
LEMMA CrashKeeps ==
    ASSUME DriverInv, NEW r \in Replicas, Crash(r)
    PROVE  DriverInv'
<1>1. DriverTypes
  BY DEF DriverInv
<1>2. /\ sock' = [s \in Sockets |-> IF Home[s] = r /\ sock[s] # "off" THEN "gone" ELSE sock[s]]
      /\ driver' = [driver EXCEPT ![r] = NoDrive]
      /\ refs' = [refs EXCEPT ![r] = 0]
      /\ pc' = [d \in Drives |-> IF home[d] = r THEN "done" ELSE pc[d]]
      /\ cancelled' = [d \in Drives |-> home[d] # r /\ cancelled[d]]
      /\ view' = [d \in Drives |-> IF home[d] = r THEN 0 ELSE view[d]]
      /\ fresh' = [d \in Drives |-> home[d] # r /\ fresh[d]]
      /\ failed' = [d \in Drives |-> home[d] # r /\ failed[d]]
      /\ UNCHANGED <<home, cursor, revealed, past>>
  BY DEF Crash, session
<1>3. DriverTypes'
  BY <1>1, <1>2 DEF DriverTypes, Labels
<1>4. \A q \in Replicas : Counted(q)'
  <2> SUFFICES ASSUME NEW q \in Replicas PROVE Counted(q)'
    OBVIOUS
  <2>1. CASE q = r
    <3>1. On(r, sock') = {}
      BY <1>2 DEF On
    <3>2. refs'[r] = 0 /\ driver'[r] = NoDrive
      BY <1>1, <1>2 DEF DriverTypes
    <3> QED  BY <2>1, <3>1, <3>2, FS_EmptySet DEF Counted
  <2>2. CASE q # r
    <3>1. On(q, sock') = On(q, sock)
      BY <1>2, <2>2 DEF On
    <3>2. refs'[q] = refs[q] /\ driver'[q] = driver[q]
      BY <1>1, <1>2, <2>2 DEF DriverTypes
    <3> QED  BY <3>1, <3>2 DEF DriverInv, Counted
  <2> QED  BY <2>1, <2>2
<1>5. Entries'
  BY <1>1, <1>2 DEF DriverInv, Entries, Running, DriverTypes
<1> QED  BY <1>3, <1>4, <1>5 DEF DriverInv

\* The trader and the lease touch no socket, entry or goroutine.
LEMMA ElsewhereKeeps ==
    ASSUME DriverInv, Command \/ Expire \/ UNCHANGED vars
    PROVE  DriverInv'
<1>1. DriverTypes
  BY DEF DriverInv
<1>2. UNCHANGED <<attach, home, pc, cancelled>>
  BY DEF Command, Expire, vars, loops
<1>3. DriverTypes'
  <2>1. CASE Command
    <3>1. cursor' \in Int /\ revealed' \in Int
      BY <1>1, <2>1, EdgeTypes DEF Command
    <3>2. past' \subseteq Int
      BY <1>1, <2>1, <3>1 DEF Command, Remember, DriverTypes
    <3>3. fresh' \in [Drives -> BOOLEAN] /\ UNCHANGED <<view, failed>>
      BY <2>1 DEF Command, Outdate
    <3> QED  BY <1>1, <1>2, <3>1, <3>2, <3>3 DEF DriverTypes, attach
  <2>2. CASE Expire \/ UNCHANGED vars
    BY <1>1, <2>2 DEF Expire, vars, session, attach, loops, loaded, DriverTypes
  <2> QED  BY <2>1, <2>2
<1>4. \A d \in Drives : Running(d)' => Running(d)
  BY <1>2 DEF Running
<1> QED  BY <1>2, <1>3, <1>4, AttachKept

LEMMA DriverStep == DriverInv /\ [Next]_vars => DriverInv'
BY CheckKeeps, RetainKeeps, ReleaseKeeps, DriveKeeps, CrashKeeps, ElsewhereKeeps DEF Next

\* Whatever connects, leaves, fails or crashes, the maps, the goroutines and the lease keep
\* the relations DriverInv states (service.retainDriver, releaseDriver, drive).
THEOREM DriverInductive == Spec => []DriverInv
<1>1. Init => DriverInv
  BY DriverInitially
<1> QED  BY <1>1, DriverStep, PTL DEF Spec

\* However sockets connect, leave, crash and interleave on any number of replicas, each
\* replica's entry counts exactly the sockets that hold it, and the only goroutine of it
\* that nobody cancelled is the one the entry names (stream.go:100-129).
THEOREM OneClockPerReplica == Spec => []ClockPerSockets
<1>1. DriverInv => ClockPerSockets
  BY DEF DriverInv, Counted, On, Entries, ClockPerSockets
<1> QED  BY <1>1, DriverInductive, PTL

----------------------------------------------------------------------------
(* What the lease is worth. *)

\* What Acquire said holds from Get to the end of the iteration, and nobody ticks
\* without it; until it runs out or is deleted under the clock the lease names its
\* holder; under a name of the clock's own nobody else deletes it.
Winners == \A d \in Drives : driving[d] => pc[d] \in {"get"} \cup Ticking
Tickers == \A d \in Drives : pc[d] \in Ticking => driving[d]
Holders == \A d \in Drives : driving[d] /\ lapse[d] = "none" => lease = HolderOf(d)
Lapses == {"none", "expired"} \cup (IF NamedHolder THEN {"released"} ELSE {})

LeaseInv ==
    /\ driving \in [Drives -> BOOLEAN] /\ lapse \in [Drives -> Lapses]
    /\ Winners /\ Tickers /\ Holders

\* The end of an iteration: the clock forgets what Acquire said.
LEMMA IterationEnds ==
    ASSUME DriverTypes, LeaseInv, NEW d \in Drives, Believe(d, FALSE),
           NEW l \in {"get", "acquire", "idle", "exit"}, pc' = [pc EXCEPT ![d] = l],
           UNCHANGED <<home, lease>>
    PROVE  LeaseInv'
<1>1. /\ driving' = [driving EXCEPT ![d] = FALSE]
      /\ lapse' = [lapse EXCEPT ![d] = "none"]
  BY DEF Believe
<1>2. driving' \in [Drives -> BOOLEAN] /\ lapse' \in [Drives -> Lapses]
  BY <1>1 DEF LeaseInv, Lapses
<1>3. Winners' /\ Tickers'
  BY <1>1 DEF LeaseInv, Winners, Tickers, Ticking, DriverTypes
<1>4. Holders'
  BY <1>1 DEF LeaseInv, Holders, HolderOf
<1> QED  BY <1>2, <1>3, <1>4 DEF LeaseInv

\* A step inside an iteration, or of a clock that does not drive.
LEMMA IterationGoesOn ==
    ASSUME DriverTypes, LeaseInv, NEW d \in Drives, NEW l, pc' = [pc EXCEPT ![d] = l],
           IF driving[d] THEN l \in Ticking ELSE l \notin Ticking,
           UNCHANGED <<home, lease, belief>>
    PROVE  LeaseInv'
<1>1. driving' = driving /\ lapse' = lapse
  BY DEF belief
<1>2. Winners' /\ Tickers'
  BY <1>1 DEF LeaseInv, Winners, Tickers, DriverTypes
<1>3. Holders'
  BY <1>1 DEF LeaseInv, Holders, HolderOf
<1> QED  BY <1>1, <1>2, <1>3 DEF LeaseInv

\* Winning takes a lease nobody else relies on.
LEMMA AcquireKeepsLease ==
    ASSUME DriverTypes, LeaseInv, NEW d \in Drives, Acquire(d)
    PROVE  LeaseInv'
<1>1. /\ driving' = [driving EXCEPT ![d] = TRUE]
      /\ lapse' = [lapse EXCEPT ![d] = "none"]
      /\ pc' = [pc EXCEPT ![d] = "get"]
      /\ lease' = HolderOf(d) /\ lease \in {Free, HolderOf(d)}
      /\ home' = home
  BY DEF Acquire, Believe, Goto
<1>2. driving' \in [Drives -> BOOLEAN] /\ lapse' \in [Drives -> Lapses]
  BY <1>1 DEF LeaseInv, Lapses
<1>3. Winners' /\ Tickers'
  BY <1>1 DEF LeaseInv, Winners, Tickers, Ticking, DriverTypes
<1>4. \A e \in Drives : HolderOf(e) # Free
  BY DEF HolderOf, DriverTypes
<1>5. Holders'
  BY <1>1, <1>4 DEF LeaseInv, Holders, HolderOf
<1> QED  BY <1>2, <1>3, <1>5 DEF LeaseInv

\* The deferred Release frees what others of its name rely on, and marks them.
LEMMA ExitKeepsLease ==
    ASSUME DriverTypes, LeaseInv, NEW d \in Drives, Exit(d)
    PROVE  LeaseInv'
<1>1. pc[d] = "exit" /\ pc' = [pc EXCEPT ![d] = "done"] /\ UNCHANGED <<home, driving>>
  BY DEF Exit, Return, Goto
<1>2. ~driving[d]
  BY <1>1 DEF LeaseInv, Winners, Ticking
<1>3. Winners' /\ Tickers'
  BY <1>1, <1>2 DEF LeaseInv, Winners, Tickers, Ticking, DriverTypes
<1>4. CASE lease = HolderOf(d) /\ Delete(d)
  <2>1. lapse' = [e \in Drives |->
                    IF e \in Relying /\ HolderOf(e) = HolderOf(d) /\ lapse[e] = "none"
                    THEN "released" ELSE lapse[e]]
    BY <1>4 DEF Delete
  <2>2. \A e \in Drives : e \in Relying => NamedHolder
    BY <1>2, <1>4 DEF Relying, HolderOf
  <2>3. lapse' \in [Drives -> Lapses]
    BY <2>1, <2>2 DEF LeaseInv, Lapses
  <2>4. \A e \in Drives : driving[e] => lapse'[e] # "none"
    BY <1>4, <2>1 DEF LeaseInv, Holders, Relying
  <2>5. Holders'
    BY <1>1, <2>4 DEF Holders
  <2> QED  BY <1>1, <1>3, <2>3, <2>5 DEF LeaseInv
<1>5. CASE lease' = (IF ~NamedHolder /\ lease = d THEN Orphaned ELSE lease) /\ UNCHANGED lapse
  <2>1. \A e \in Drives : driving[e] /\ lapse[e] = "none" => lease' = HolderOf(e)
    BY <1>2, <1>5 DEF LeaseInv, Holders, HolderOf
  <2>2. Holders'
    BY <1>1, <1>5, <2>1 DEF Holders, HolderOf
  <2> QED  BY <1>1, <1>3, <1>5, <2>2 DEF LeaseInv
<1> QED  BY <1>4, <1>5 DEF Exit

LEMMA DriveKeepsLease ==
    ASSUME DriverTypes, LeaseInv, NEW d \in Drives, Drive(d)
    PROVE  LeaseInv'
<1>1. driving[d] => pc[d] \in {"get"} \cup Ticking
  BY DEF LeaseInv, Winners
<1>2. pc[d] \in Ticking => driving[d]
  BY DEF LeaseInv, Tickers
<1>3. CASE Acquire(d)
  BY <1>3, AcquireKeepsLease
<1>4. CASE Exit(d)
  BY <1>4, ExitKeepsLease
<1>5. CASE AcquireFails(d) \/ GetFails(d) \/ LoadFails(d)
  BY <1>5, IterationEnds DEF AcquireFails, GetFails, LoadFails, Goto
<1>6. CASE Step(d) \/ StepFails(d) \/ Exhaust(d)
  BY <1>6, IterationEnds DEF Step, StepFails, Exhaust, Drop, Goto
<1>7. CASE Quit(d) \/ WakeIdle(d)
  BY <1>1, <1>7, IterationGoesOn DEF Quit, WakeIdle, Goto, Ticking
<1>8. CASE Load(d)
  BY <1>2, <1>8, IterationGoesOn DEF Load, Goto, Ticking
<1>9. CASE Get(d)
  <2>1. CASE driving[d] /\ status = "open"
    BY <1>9, <2>1, IterationGoesOn DEF Get, Goto, Ticking
  <2>2. CASE ~(driving[d] /\ status = "open")
    BY <1>9, <2>2, IterationEnds DEF Get, Goto
  <2> QED  BY <2>1, <2>2
<1>10. CASE WakeTick(d)
  <2>1. CASE Goto(d, "load") /\ UNCHANGED belief
    BY <1>2, <1>10, <2>1, IterationGoesOn DEF WakeTick, Goto, Ticking
  <2>2. CASE Goto(d, "exit") /\ Believe(d, FALSE)
    BY <1>10, <2>2, IterationEnds DEF WakeTick, Goto
  <2> QED  BY <1>10, <2>1, <2>2 DEF WakeTick
<1> QED  BY <1>3, <1>4, <1>5, <1>6, <1>7, <1>8, <1>9, <1>10 DEF Drive

\* A goroutine is started by a name of one that does not drive.
LEMMA SocketsKeepLease ==
    ASSUME DriverTypes, LeaseInv, NEW s \in Sockets, CheckLive(s) \/ Retain(s) \/ Release(s)
    PROVE  LeaseInv'
<1>1. UNCHANGED <<driving, lapse, lease>>
  BY DEF CheckLive, Retain, Release, loops, belief
<1>2. CASE UNCHANGED <<pc, home>>
  BY <1>1, <1>2 DEF LeaseInv, Winners, Tickers, Holders, HolderOf
<1>3. CASE Retain(s) /\ driver[Home[s]] = NoDrive
  <2>1. PICK d \in Spare : /\ pc' = [pc EXCEPT ![d] = "acquire"]
                           /\ home' = [home EXCEPT ![d] = Home[s]]
    <3>1. Spare # {} => (CHOOSE e \in Spare : TRUE) \in Spare
      OBVIOUS
    <3> QED  BY <1>3, <3>1 DEF Retain
  <2>2. d \in Drives /\ ~driving[d]
    BY DEF Spare, LeaseInv, Winners, Ticking
  <2>3. Winners' /\ Tickers'
    BY <1>1, <2>1, <2>2 DEF LeaseInv, Winners, Tickers, Ticking, DriverTypes
  <2>4. \A e \in Drives : driving[e] => home'[e] = home[e]
    BY <2>1, <2>2 DEF DriverTypes
  <2>5. Holders'
    BY <1>1, <2>4 DEF LeaseInv, Holders, HolderOf
  <2> QED  BY <1>1, <2>3, <2>5 DEF LeaseInv
<1>4. CASE CheckLive(s) \/ Release(s)
  <2>1. UNCHANGED <<pc, home>>
    BY <1>4 DEF CheckLive, Release, loops
  <2> QED  BY <1>2, <2>1
<1>5. CASE Retain(s) /\ driver[Home[s]] # NoDrive
  <2>1. UNCHANGED <<pc, home>>
    BY <1>5 DEF Retain
  <2> QED  BY <1>2, <2>1
<1> QED  BY <1>3, <1>4, <1>5

LEMMA CrashKeepsLease ==
    ASSUME DriverTypes, LeaseInv, NEW r \in Replicas, Crash(r)
    PROVE  LeaseInv'
<1>1. /\ pc' = [d \in Drives |-> IF home[d] = r THEN "done" ELSE pc[d]]
      /\ driving' = [d \in Drives |-> home[d] # r /\ driving[d]]
      /\ lapse' = [d \in Drives |-> IF home[d] = r THEN "none" ELSE lapse[d]]
      /\ lease' = IF lease = r \/ \E d \in Drives : home[d] = r /\ lease = d
                  THEN Orphaned ELSE lease
      /\ home' = home
  BY DEF Crash
<1>2. driving' \in [Drives -> BOOLEAN] /\ lapse' \in [Drives -> Lapses]
  BY <1>1 DEF LeaseInv, Lapses
<1>3. Winners' /\ Tickers'
  BY <1>1 DEF LeaseInv, Winners, Tickers, Ticking, DriverTypes
<1>4. ASSUME NEW e \in Drives, driving'[e], lapse'[e] = "none"
      PROVE  lease' = HolderOf(e)
  <2>1. home[e] # r /\ lease = HolderOf(e)
    BY <1>1, <1>4 DEF LeaseInv, Holders
  <2>2. lease # r /\ \A d \in Drives : home[d] = r => lease # d
    BY <2>1 DEF HolderOf, DriverTypes
  <2> QED  BY <1>1, <2>1, <2>2
<1>5. Holders'
  BY <1>1, <1>4 DEF Holders, HolderOf
<1> QED  BY <1>2, <1>3, <1>5 DEF LeaseInv

LEMMA ElsewhereKeepsLease ==
    ASSUME DriverTypes, LeaseInv, Expire \/ Command \/ UNCHANGED vars
    PROVE  LeaseInv'
<1>1. CASE Expire
  <2>1. UNCHANGED <<pc, home, driving>>
    BY <1>1 DEF Expire
  <2>2. lapse' = [d \in Drives |-> IF d \in Relying THEN "expired" ELSE lapse[d]]
    BY <1>1 DEF Expire
  <2>3. lapse' \in [Drives -> Lapses]
    BY <2>2 DEF LeaseInv, Lapses
  <2>4. \A d \in Drives : driving[d] => lapse'[d] # "none"
    BY <2>2 DEF LeaseInv, Holders, Relying
  <2>5. Winners' /\ Tickers' /\ Holders'
    BY <2>1, <2>4 DEF LeaseInv, Winners, Tickers, Holders
  <2> QED  BY <2>1, <2>3, <2>5 DEF LeaseInv
<1>2. CASE Command \/ UNCHANGED vars
  <2>1. UNCHANGED <<pc, home, driving, lapse, lease>>
    BY <1>2 DEF Command, vars, loops, belief
  <2> QED  BY <2>1 DEF LeaseInv, Winners, Tickers, Holders, HolderOf
<1> QED  BY <1>1, <1>2

LEMMA LeaseStep == DriverTypes /\ LeaseInv /\ [Next]_vars => LeaseInv'
BY DriveKeepsLease, SocketsKeepLease, CrashKeepsLease, ElsewhereKeepsLease DEF Next

LEMMA LeaseInductive == Spec => []LeaseInv
<1>1. Init => LeaseInv
  BY DEF Init, LeaseInv, Winners, Tickers, Holders, Lapses, Ticking
<1>2. DriverInv => DriverTypes
  BY DEF DriverInv
<1> QED  BY <1>1, <1>2, LeaseStep, DriverInductive, PTL DEF Spec

\* Two clocks of different replicas that both drive do not both hold what they won.
LEMMA RivalsDiffer ==
    ASSUME LeaseInv, DriverTypes, NEW d \in Drives, NEW e \in Drives, Rivals(d, e)
    PROVE  lapse[d] # "none" \/ lapse[e] # "none"
<1>1. driving[d] /\ driving[e]
  BY DEF Rivals, LeaseInv, Tickers
<1>2. HolderOf(d) # HolderOf(e)
  BY DEF Rivals, HolderOf
<1> QED  BY <1>1, <1>2 DEF LeaseInv, Holders

\* However sockets, calls, TTLs and crashes interleave, and whichever name the lease is
\* kept under, two replicas drive at once only where the lease of one ran out under it or
\* was deleted by an older clock of its process (stream.go:135-195, the lease's scripts).
THEOREM TwoDriveOnlyForACause == Spec => []TwoDriveForACause
<1>1. LeaseInv /\ DriverInv => TwoDriveForACause
  BY RivalsDiffer DEF DriverInv, TwoDriveForACause
<1> QED  BY <1>1, LeaseInductive, DriverInductive, PTL

\* Were every goroutine to hold the lease under a name of its own, as holder() does for
\* one without a configured name (stream.go:244-249), only a TTL that runs out under a
\* clock could make two replicas drive at once: no clock would free another's lease.
THEOREM OwnNamesElectOne ==
    ASSUME ~NamedHolder
    PROVE  Spec => []OneReplicaDrives
<1>1. LeaseInv /\ DriverInv => OneReplicaDrives
  <2> SUFFICES ASSUME LeaseInv, DriverInv, NEW d \in Drives, NEW e \in Drives, Rivals(d, e)
               PROVE  "expired" \in {lapse[d], lapse[e]}
    BY DEF OneReplicaDrives
  <2>1. lapse[d] \in {"none", "expired"} /\ lapse[e] \in {"none", "expired"}
    BY DEF LeaseInv, Lapses
  <2>2. lapse[d] # "none" \/ lapse[e] # "none"
    BY RivalsDiffer DEF DriverInv
  <2> QED  BY <2>1, <2>2
<1> QED  BY <1>1, LeaseInductive, DriverInductive, PTL
=============================================================================
