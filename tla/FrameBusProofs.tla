--------------------------- MODULE FrameBusProofs ---------------------------
(***************************************************************************)
(* Proofs about FrameBus, for any sockets, subscriptions, frames and       *)
(* buffer: the topic of a session is there exactly while somebody watches  *)
(* or is about to close it, and a slow socket loses only its backlog.      *)
(***************************************************************************)
EXTENDS FrameBus, TLAPS

USE BusAssumption

BusTypes ==
    /\ shared \in BOOLEAN
    /\ committed \in Nat /\ newest \in Nat
    /\ sock \in [Sockets -> Registered \cup {"off", "left"}]
    /\ channel \in [Sockets -> Seq(Nat)]
    /\ topic \in Topics \cup {NoTopic}
    /\ link \in [Topics -> {"none", "dialing", "active", "closed"}]
    /\ queue \in [Topics -> Seq(Nat)]

\* A topic is the Redis bus's, its subscription is up or coming up, and somebody is in
\* the fanout or on the way to closing it.
TopicInv ==
    /\ shared => \A s \in Sockets : sock[s] \in {"joined", "on"} => topic # NoTopic
    /\ topic # NoTopic =>
        /\ shared
        /\ link[topic] \in {"dialing", "active"}
        /\ \E s \in Sockets : sock[s] \in Registered \cup {"left"}

\* Only sockets in the fanout have frames waiting, never more than the buffer holds,
\* and the last of them is the newest.
Bounded(s) ==
    /\ sock[s] \notin Registered => channel[s] = <<>>
    /\ Len(channel[s]) <= Buffer
    /\ channel[s] # <<>> => channel[s][Len(channel[s])] = newest

ChannelInv == \A s \in Sockets : Bounded(s)

BusInv == BusTypes /\ TopicInv /\ ChannelInv

----------------------------------------------------------------------------
(* The bounded channel. *)

\* deliver never outgrows the buffer and always keeps the frame it was given, last.
LEMMA PushKeepsNewest ==
    ASSUME NEW buffer \in Seq(Nat), Len(buffer) <= Buffer, NEW n \in Nat
    PROVE  /\ Push(buffer, n) \in Seq(Nat)
           /\ Push(buffer, n) # <<>>
           /\ Len(Push(buffer, n)) <= Buffer
           /\ Push(buffer, n)[Len(Push(buffer, n))] = n
<1>1. CASE Len(buffer) < Buffer
  BY <1>1 DEF Push
<1>2. CASE ~(Len(buffer) < Buffer)
  <2>1. Len(buffer) = Buffer /\ buffer # <<>>
    BY <1>2
  <2>2. Tail(buffer) \in Seq(Nat) /\ Len(Tail(buffer)) = Buffer - 1
    BY <2>1
  <2>3. Push(buffer, n) = Append(Tail(buffer), n)
    BY <1>2 DEF Push
  <2> QED  BY <2>2, <2>3
<1> QED  BY <1>1, <1>2

\* Delivering a frame to whoever is in the fanout.
LEMMA DeliverKeeps ==
    ASSUME BusTypes, ChannelInv, NEW n \in Nat, Deliver(n), UNCHANGED sock
    PROVE  /\ channel' \in [Sockets -> Seq(Nat)]
           /\ newest' \in Nat
           /\ ChannelInv'
<1>1. ASSUME NEW s \in Sockets
      PROVE  channel'[s] \in Seq(Nat) /\ Bounded(s)'
  <2>1. channel[s] \in Seq(Nat) /\ Bounded(s)
    BY DEF BusTypes, ChannelInv
  <2>2. CASE sock[s] \in Registered
    <3>1. channel'[s] = Push(channel[s], n) /\ newest' = n
      BY <2>2 DEF Deliver
    <3> QED  BY <2>1, <2>2, <3>1, PushKeepsNewest DEF Bounded
  <2>3. CASE sock[s] \notin Registered
    <3>1. channel'[s] = <<>>
      BY <2>1, <2>3 DEF Deliver, Bounded
    <3> QED  BY <2>3, <3>1 DEF Bounded
  <2> QED  BY <2>2, <2>3
<1>2. channel' \in [Sockets -> Seq(Nat)]
  <2>1. channel' = [s \in Sockets |-> channel'[s]]
    BY DEF Deliver
  <2> QED  BY <1>1, <2>1
<1> QED  BY <1>1, <1>2 DEF Deliver, ChannelInv

----------------------------------------------------------------------------
(* The inductive invariant. *)

LEMMA BusInitially == Init => BusInv
<1> SUFFICES ASSUME Init PROVE BusInv
  OBVIOUS
<1>1. BusTypes
  BY DEF Init, BusTypes, Registered
<1>2. TopicInv
  BY DEF Init, TopicInv
<1>3. ChannelInv
  <2>1. \A s \in Sockets : channel[s] = <<>>
    BY DEF Init
  <2>2. Len(<<>>) <= Buffer
    OBVIOUS
  <2> QED  BY <2>1, <2>2 DEF ChannelInv, Bounded
<1> QED  BY <1>1, <1>2, <1>3 DEF BusInv

LEMMA CommitKeeps == BusInv /\ Commit => BusInv'
<1> SUFFICES ASSUME BusInv, Commit PROVE BusInv'
  OBVIOUS
<1>1. committed' \in Nat /\ UNCHANGED <<shared, sock, channel, topic, link, queue, newest>>
  BY DEF Commit, BusInv, BusTypes
<1> QED  BY <1>1 DEF BusInv, BusTypes, TopicInv, ChannelInv, Bounded

LEMMA PublishKeeps ==
    ASSUME BusInv, NEW n \in 1 .. Frames, Publish(n) \/ PublishFails(n) \/ PublishHere(n)
    PROVE  BusInv'
<1>1. BusTypes /\ TopicInv /\ ChannelInv /\ n \in Nat
  BY DEF BusInv
<1>2. UNCHANGED <<shared, committed, sock, topic, link>>
  BY DEF Publish, PublishFails, PublishHere
<1>3. TopicInv'
  BY <1>1, <1>2 DEF TopicInv
<1>4. CASE Publish(n)
  <2>1. queue' = [t \in Topics |-> IF link[t] = "active" THEN Append(queue[t], n) ELSE queue[t]]
    BY <1>4 DEF Publish
  <2>2. queue' \in [Topics -> Seq(Nat)]
    BY <1>1, <2>1 DEF BusTypes
  <2>3. UNCHANGED <<channel, newest>>
    BY <1>4 DEF Publish
  <2> QED  BY <1>1, <1>2, <1>3, <2>2, <2>3 DEF BusInv, BusTypes, ChannelInv, Bounded
<1>5. CASE PublishHere(n)
  <2>1. Deliver(n) /\ UNCHANGED queue
    BY <1>5 DEF PublishHere
  <2>2. channel' \in [Sockets -> Seq(Nat)] /\ newest' \in Nat /\ ChannelInv'
    BY <1>1, <1>2, <2>1, DeliverKeeps
  <2> QED  BY <1>1, <1>2, <1>3, <2>1, <2>2 DEF BusInv, BusTypes
<1>6. CASE PublishFails(n)
  <2>1. UNCHANGED <<channel, newest, queue>>
    BY <1>6 DEF PublishFails
  <2> QED  BY <1>1, <1>2, <1>3, <2>1 DEF BusInv, BusTypes, ChannelInv, Bounded
<1> QED  BY <1>4, <1>5, <1>6

LEMMA AddKeeps ==
    ASSUME BusInv, NEW s \in Sockets, Add(s)
    PROVE  BusInv'
<1>1. BusTypes /\ TopicInv /\ ChannelInv
  BY DEF BusInv
<1>2. sock[s] = "off" /\ sock' = [sock EXCEPT ![s] = "added"]
  BY DEF Add
<1>3. UNCHANGED <<shared, committed, channel, topic, link, queue, newest>>
  BY DEF Add
<1>4. BusTypes'
  BY <1>1, <1>2, <1>3 DEF BusTypes, Registered
<1>5. TopicInv'
  BY <1>1, <1>2, <1>3 DEF TopicInv, BusTypes, Registered
<1>6. ChannelInv'
  BY <1>1, <1>2, <1>3 DEF ChannelInv, Bounded, BusTypes, Registered
<1> QED  BY <1>4, <1>5, <1>6 DEF BusInv

LEMMA JoinKeeps ==
    ASSUME BusInv, NEW s \in Sockets, Join(s)
    PROVE  BusInv'
<1>1. BusTypes /\ TopicInv /\ ChannelInv
  BY DEF BusInv
<1>2. sock[s] = "added" /\ sock' = [sock EXCEPT ![s] = "joined"]
  BY DEF Join
<1>3. UNCHANGED <<shared, committed, channel, queue, newest>>
  BY DEF Join
<1>4. BusTypes' /\ TopicInv'
  <2>1. CASE topic # NoTopic \/ ~shared
    <3>1. UNCHANGED <<topic, link>>
      BY <2>1, <1>1 DEF Join
    <3>2. BusTypes'
      BY <1>1, <1>2, <1>3, <3>1 DEF BusTypes, Registered
    <3>3. TopicInv'
      BY <1>1, <1>2, <1>3, <2>1, <3>1 DEF TopicInv, BusTypes, Registered
    <3> QED  BY <3>2, <3>3
  <2>2. CASE topic = NoTopic /\ shared
    <3>1. PICK t \in Topics : topic' = t /\ link' = [link EXCEPT ![t] = "dialing"]
      BY <2>2 DEF Join
    <3>2. BusTypes'
      BY <1>1, <1>2, <1>3, <3>1 DEF BusTypes, Registered
    <3>3. sock'[s] \in Registered /\ link'[topic'] = "dialing"
      BY <1>1, <1>2, <3>1 DEF BusTypes, Registered
    <3>4. TopicInv'
      BY <1>3, <2>2, <3>1, <3>3 DEF TopicInv
    <3> QED  BY <3>2, <3>4
  <2> QED  BY <1>1, <2>1, <2>2 DEF BusTypes
<1>5. ChannelInv'
  BY <1>1, <1>2, <1>3 DEF ChannelInv, Bounded, BusTypes, Registered
<1> QED  BY <1>4, <1>5 DEF BusInv

LEMMA SyncKeeps ==
    ASSUME BusInv, NEW s \in Sockets, Sync(s)
    PROVE  BusInv'
<1>1. BusTypes /\ TopicInv /\ ChannelInv
  BY DEF BusInv
<1>2. sock[s] = "joined" /\ sock' = [sock EXCEPT ![s] = "on"]
  BY DEF Sync
<1>3. UNCHANGED <<shared, committed, channel, topic, link, queue, newest>>
  BY DEF Sync
<1>4. BusTypes'
  BY <1>1, <1>2, <1>3 DEF BusTypes, Registered
<1>5. TopicInv'
  BY <1>1, <1>2, <1>3 DEF TopicInv, BusTypes, Registered
<1>6. ChannelInv'
  BY <1>1, <1>2, <1>3 DEF ChannelInv, Bounded, BusTypes, Registered
<1> QED  BY <1>4, <1>5, <1>6 DEF BusInv

\* A socket that goes leaves the topic to the others in the fanout, or to itself to close.
LEMMA DetachKeeps ==
    ASSUME BusInv, NEW s \in Sockets, sock[s] \in {"joined", "on"}, Detach(s)
    PROVE  BusInv'
<1>1. BusTypes /\ TopicInv /\ ChannelInv
  BY DEF BusInv
<1>2. PICK end \in {"left", "off"} :
        /\ sock' = [sock EXCEPT ![s] = end]
        /\ shared /\ (\A q \in Sockets \ {s} : sock[q] \notin Registered) => end = "left"
  BY DEF Detach
<1>3. channel' = [channel EXCEPT ![s] = <<>>]
  BY DEF Detach
<1>4. UNCHANGED <<shared, committed, topic, link, queue, newest>>
  BY DEF Detach
<1>5. BusTypes'
  BY <1>1, <1>2, <1>3, <1>4 DEF BusTypes
<1>6. TopicInv'
  <2>1. ASSUME topic # NoTopic
        PROVE  \E q \in Sockets : sock'[q] \in Registered \cup {"left"}
    <3>1. shared
      BY <1>1, <2>1 DEF TopicInv
    <3>2. CASE end = "left"
      BY <1>1, <1>2, <3>2 DEF BusTypes
    <3>3. CASE \E q \in Sockets \ {s} : sock[q] \in Registered
      BY <1>1, <1>2, <3>3 DEF BusTypes
    <3> QED  BY <1>2, <3>1, <3>2, <3>3
  <2>2. \A q \in Sockets : sock'[q] \in {"joined", "on"} => sock[q] \in {"joined", "on"}
    BY <1>1, <1>2 DEF BusTypes
  <2> QED  BY <1>1, <1>4, <2>1, <2>2 DEF TopicInv
<1>7. ChannelInv'
  <2> SUFFICES ASSUME NEW q \in Sockets PROVE Bounded(q)'
    BY DEF ChannelInv
  <2>1. CASE q = s
    <3>1. channel'[q] = <<>>
      BY <1>1, <1>3, <2>1 DEF BusTypes
    <3> QED  BY <3>1 DEF Bounded
  <2>2. CASE q # s
    <3>1. channel'[q] = channel[q] /\ sock'[q] = sock[q]
      BY <1>1, <1>2, <1>3, <2>2 DEF BusTypes
    <3> QED  BY <1>1, <1>4, <3>1 DEF ChannelInv, Bounded
  <2> QED  BY <2>1, <2>2
<1> QED  BY <1>5, <1>6, <1>7 DEF BusInv

\* closeTopic looks at the fanout again under its lock.
LEMMA CloseTopicKeeps ==
    ASSUME BusInv, NEW s \in Sockets, CloseTopic(s)
    PROVE  BusInv'
<1>1. BusTypes /\ TopicInv /\ ChannelInv
  BY DEF BusInv
<1>2. sock[s] = "left" /\ sock' = [sock EXCEPT ![s] = "off"]
  BY DEF CloseTopic
<1>3. UNCHANGED <<shared, committed, channel, queue, newest>>
  BY DEF CloseTopic
<1>4. \A q \in Sockets : sock[q] \in Registered <=> sock'[q] \in Registered
  BY <1>1, <1>2 DEF BusTypes, Registered
<1>5. BusTypes' /\ TopicInv'
  <2>1. CASE topic = NoTopic \/ \E q \in Sockets : sock[q] \in Registered
    <3>1. UNCHANGED <<topic, link>>
      BY <2>1 DEF CloseTopic
    <3>2. BusTypes'
      BY <1>1, <1>2, <1>3, <3>1 DEF BusTypes, Registered
    <3>3. \A q \in Sockets : sock'[q] \in {"joined", "on"} => sock[q] \in {"joined", "on"}
      BY <1>1, <1>2 DEF BusTypes
    <3>4. TopicInv'
      BY <1>1, <1>3, <1>4, <2>1, <3>1, <3>3 DEF TopicInv
    <3> QED  BY <3>2, <3>4
  <2>2. CASE topic # NoTopic /\ \A q \in Sockets : sock[q] \notin Registered
    <3>1. topic' = NoTopic /\ link' = [link EXCEPT ![topic] = "closed"]
      BY <2>2 DEF CloseTopic
    <3>2. BusTypes'
      BY <1>1, <1>2, <1>3, <2>2, <3>1 DEF BusTypes
    <3>3. \A q \in Sockets : sock'[q] \notin {"joined", "on"}
      BY <1>4, <2>2 DEF Registered
    <3>4. TopicInv'
      BY <3>1, <3>3 DEF TopicInv
    <3> QED  BY <3>2, <3>4
  <2> QED  BY <2>1, <2>2
<1>6. ChannelInv'
  BY <1>1, <1>3, <1>4 DEF ChannelInv, Bounded
<1> QED  BY <1>5, <1>6 DEF BusInv

LEMMA TakeKeeps ==
    ASSUME BusInv, NEW s \in Sockets, Take(s)
    PROVE  BusInv'
<1>1. BusTypes /\ TopicInv /\ ChannelInv
  BY DEF BusInv
<1>2. CASE Detach(s)
  BY <1>2, DetachKeeps DEF Take
<1>3. CASE /\ channel' = [channel EXCEPT ![s] = <<>>]
           /\ UNCHANGED <<shared, committed, sock, topic, link, queue, newest>>
  <2>1. BusTypes'
    BY <1>1, <1>3 DEF BusTypes
  <2>2. TopicInv'
    BY <1>1, <1>3 DEF TopicInv
  <2>3. ChannelInv'
    BY <1>1, <1>3 DEF ChannelInv, Bounded, BusTypes
  <2> QED  BY <2>1, <2>2, <2>3 DEF BusInv
<1> QED  BY <1>2, <1>3 DEF Take

\* The connection comes and goes, and a pump that was told to close ends.
LEMMA LinkKeeps ==
    ASSUME BusInv, NEW t \in Topics, Activate(t) \/ Disconnect(t) \/ PumpQuits(t)
    PROVE  BusInv'
<1>1. BusTypes /\ TopicInv /\ ChannelInv
  BY DEF BusInv
<1>2. UNCHANGED <<shared, committed, sock, channel, topic, newest>>
  BY DEF Activate, Disconnect, PumpQuits
<1>3. PICK l \in {"none", "dialing", "active"} :
        /\ link' = [link EXCEPT ![t] = l]
        /\ l = "none" => link[t] = "closed"
  BY DEF Activate, Disconnect, PumpQuits
<1>4. queue' \in [Topics -> Seq(Nat)]
  <2>1. queue \in [Topics -> Seq(Nat)] /\ <<>> \in Seq(Nat)
    BY <1>1 DEF BusTypes
  <2>2. queue' = queue \/ queue' = [queue EXCEPT ![t] = <<>>]
    BY DEF Activate, Disconnect, PumpQuits
  <2> QED  BY <2>1, <2>2
<1>5. BusTypes'
  BY <1>1, <1>2, <1>3, <1>4 DEF BusTypes
<1>6. TopicInv'
  BY <1>1, <1>2, <1>3 DEF TopicInv, BusTypes
<1>7. ChannelInv'
  BY <1>1, <1>2 DEF ChannelInv, Bounded
<1> QED  BY <1>5, <1>6, <1>7 DEF BusInv

LEMMA PumpKeeps ==
    ASSUME BusInv, NEW t \in Topics, Pump(t)
    PROVE  BusInv'
<1>1. BusTypes /\ TopicInv /\ ChannelInv
  BY DEF BusInv
<1>2. UNCHANGED <<shared, committed, sock, topic, link>>
  BY DEF Pump
<1>3. queue[t] \in Seq(Nat) /\ queue[t] # <<>>
  BY <1>1 DEF Pump, BusTypes
<1>4. Head(queue[t]) \in Nat /\ Tail(queue[t]) \in Seq(Nat)
  BY <1>3
<1>5. queue' = [queue EXCEPT ![t] = Tail(queue[t])] /\ Deliver(Head(queue[t]))
  BY DEF Pump
<1>6. channel' \in [Sockets -> Seq(Nat)] /\ newest' \in Nat /\ ChannelInv'
  BY <1>1, <1>2, <1>4, <1>5, DeliverKeeps
<1>7. TopicInv'
  BY <1>1, <1>2 DEF TopicInv
<1> QED  BY <1>1, <1>2, <1>4, <1>5, <1>6, <1>7 DEF BusInv, BusTypes

LEMMA BusStep == BusInv /\ [Next]_vars => BusInv'
<1> SUFFICES ASSUME BusInv, [Next]_vars PROVE BusInv'
  OBVIOUS
<1>1. ASSUME NEW s \in Sockets, Socket(s)
      PROVE  BusInv'
  <2>1. CASE Leave(s)
    BY <2>1, DetachKeeps DEF Leave
  <2> QED  BY <1>1, <2>1, AddKeeps, JoinKeeps, SyncKeeps, CloseTopicKeeps, TakeKeeps DEF Socket
<1>2. CASE UNCHANGED vars
  BY <1>2 DEF vars, BusInv, BusTypes, TopicInv, ChannelInv, Bounded
<1> QED  BY <1>1, <1>2, CommitKeeps, PublishKeeps, LinkKeeps, PumpKeeps DEF Next

LEMMA BusInductive == Spec => []BusInv
BY BusInitially, BusStep, PTL DEF Spec

\* For any number of sockets and subscriptions, whoever joins between a last leave and
\* its closeTopic, and however often the connection breaks: a subscribed socket has a
\* live topic and no topic outlives its watchers (frames.go:150-188).
THEOREM NobodyCutOff == Spec => []TopicWhileWatched
<1>1. BusInv => TopicWhileWatched
  BY DEF BusInv, TopicInv, TopicWhileWatched
<1> QED  BY <1>1, BusInductive, PTL

\* For any buffer of at least one frame, a channel holds at most its buffer and ends
\* with the newest frame its replica received (frames.go:64-83).
THEOREM BacklogNotNewest == Spec => []NewestIsKept
<1>1. BusInv => NewestIsKept
  BY DEF BusInv, ChannelInv, Bounded, NewestIsKept
<1> QED  BY <1>1, BusInductive, PTL
=============================================================================
