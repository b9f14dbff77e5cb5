------------------------------ MODULE FrameBus ------------------------------
(***************************************************************************)
(* How a frame reaches the sockets of one replica: Redis pub/sub into one  *)
(* shared topic per session, its pump into the fanout's bounded channels,  *)
(* and each socket's loop out of its channel.  Without Redis the publisher *)
(* delivers to the fanout itself.  Frame n is the one of the session's     *)
(* n-th committed change; the last one ends the session.                   *)
(***************************************************************************)
EXTENDS Integers, Sequences

CONSTANTS
    Sockets,     \* websockets on this replica
    Topics,      \* Redis subscriptions (bound: so many at a time, quitting ones too)
    NoTopic,
    Frames,      \* how many frames the session publishes, the last one terminal
    Buffer,      \* subscriberBuffer
    MaxJoins     \* bound: sockets join at most so often

ASSUME BusAssumption ==
    /\ NoTopic \notin Topics
    /\ Frames \in Nat \ {0} /\ Buffer \in Nat \ {0} /\ MaxJoins \in Nat

VARIABLES
    shared,     \* whether this deployment has the bus of Redis, or one in memory
    committed,  \* changes the row holds
    swept,      \* the last change is the sweep's
    published,  \* frames whose publisher is through, whether or not it got them out
    sock,       \* off, added (in the fanout), joined (topic ensured), on, left
    channel,    \* the frames waiting in each socket's channel
    seen,       \* the frame each socket last wrote to its client
    topic,      \* b.topics[session]
    link,       \* each Redis subscription: none, dialing, active, closed
    queue,      \* frames it has received and its pump has not delivered
    newest,     \* the frame the fanout delivered last
    joins,
    troubled    \* history: the terminal frame may have been lost, or overtaken

vars == <<shared, committed, swept, published, sock, channel, seen, topic, link, queue, newest, joins, troubled>>

Registered == {"added", "joined", "on"}
Ended == committed = Frames

Init ==
    /\ shared \in BOOLEAN
    /\ committed = 0 /\ published = {} /\ swept = FALSE
    /\ sock = [s \in Sockets |-> "off"]
    /\ channel = [s \in Sockets |-> <<>>]
    /\ seen = [s \in Sockets |-> 0]
    /\ topic = NoTopic
    /\ link = [t \in Topics |-> "none"]
    /\ queue = [t \in Topics |-> <<>>]
    /\ newest = 0
    /\ joins = 0
    /\ troubled = FALSE

----------------------------------------------------------------------------
(* Publishers: handlers anywhere commit first and publish afterwards. *)

Commit ==
    /\ committed < Frames
    /\ committed' = committed + 1
    /\ swept' \in IF committed' = Frames THEN BOOLEAN ELSE {FALSE}
    /\ UNCHANGED <<shared, published, sock, channel, seen, topic, link, queue, newest, joins, troubled>>

\* (Variant: a full channel keeps its backlog and drops the new frame.)
PushOrDrop(buffer, n) == IF Len(buffer) < Buffer THEN Append(buffer, n) ELSE buffer

\* deliver: a full channel loses its oldest frame, never the newest.
Push(buffer, n) ==
    IF Len(buffer) < Buffer THEN Append(buffer, n) ELSE Append(Tail(buffer), n)

Deliver(n) ==
    /\ channel' = [s \in Sockets |->
                      IF sock[s] \in Registered THEN Push(channel[s], n) ELSE channel[s]]
    /\ newest' = n

\* The worker is wired without a bus: its publish returns at once.
Publishable == {n \in (1 .. committed) \ published : ~(swept /\ n = Frames)}

Overtakes(n) == \E m \in 1 .. (n - 1) : m \notin published

\* A subscription that is down, or still coming up, misses what is published.
Missed == topic # NoTopic /\ link[topic] # "active"

\* RedisFrameBus.Publish: only subscriptions Redis knows of receive it.
Publish(n) ==
    /\ shared /\ n \in Publishable
    /\ published' = published \cup {n}
    /\ troubled' = (troubled \/ (n = Frames /\ (Overtakes(n) \/ Missed)))
    /\ queue' = [t \in Topics |-> IF link[t] = "active" THEN Append(queue[t], n) ELSE queue[t]]
    /\ UNCHANGED <<shared, committed, swept, sock, channel, seen, topic, link, newest, joins>>

\* Publishing is best-effort: Redis refuses the frame, or the handler dies between its
\* commit and here, and nobody tries again.
PublishFails(n) ==
    /\ shared /\ n \in Publishable
    /\ published' = published \cup {n}
    /\ troubled' = (troubled \/ n = Frames)
    /\ UNCHANGED <<shared, committed, swept, sock, channel, seen, topic, link, queue, newest, joins>>

\* MemoryFrameBus.Publish: the publisher delivers, on the one replica there is.
PublishHere(n) ==
    /\ ~shared /\ n \in Publishable
    /\ published' = published \cup {n}
    /\ troubled' = (troubled \/ (n = Frames /\ Overtakes(n)))
    /\ Deliver(n)
    /\ UNCHANGED <<shared, committed, swept, sock, seen, topic, link, queue, joins>>

----------------------------------------------------------------------------
(* Subscribe and the function it returns. *)

\* fanout.add, after Stream found the session live.
Add(s) ==
    /\ sock[s] = "off"
    /\ ~Ended
    /\ joins < MaxJoins
    /\ sock' = [sock EXCEPT ![s] = "added"]
    /\ joins' = joins + 1
    /\ UNCHANGED <<shared, committed, swept, published, channel, seen, topic, link, queue, newest, troubled>>

\* The first subscriber opens the topic; SUBSCRIBE is sent, not awaited.  (In memory
\* there is none to open.)
Join(s) ==
    /\ sock[s] = "added"
    /\ sock' = [sock EXCEPT ![s] = "joined"]
    /\ \/ /\ topic # NoTopic \/ ~shared
          /\ UNCHANGED <<topic, link>>
       \/ /\ topic = NoTopic /\ shared
          /\ \E t \in Topics :
                /\ link[t] = "none"
                /\ topic' = t
                /\ link' = [link EXCEPT ![t] = "dialing"]
    /\ UNCHANGED <<shared, committed, swept, published, channel, seen, queue, newest, joins, troubled>>

\* The opening sync frame; its status is not looked at.
Sync(s) ==
    /\ sock[s] = "joined"
    /\ sock' = [sock EXCEPT ![s] = "on"]
    /\ seen' = [seen EXCEPT ![s] = committed]
    /\ UNCHANGED <<shared, committed, swept, published, channel, topic, link, queue, newest, joins, troubled>>

\* remove: the channel is closed; of a topic, the last one out closes it afterwards.
Detach(s) ==
    /\ channel' = [channel EXCEPT ![s] = <<>>]
    /\ sock' = [sock EXCEPT ![s] =
                  IF shared /\ \A q \in Sockets \ {s} : sock[q] \notin Registered
                  THEN "left" ELSE "off"]
    /\ UNCHANGED <<shared, committed, swept, published, topic, link, queue, newest, joins, troubled>>

\* The client goes away, or a write to it fails.
Leave(s) ==
    /\ sock[s] \in {"joined", "on"}
    /\ Detach(s)
    /\ UNCHANGED seen

\* (Variant: the fanout is not looked at again.)
CloseTopicBlindly(s) ==
    /\ sock[s] = "left"
    /\ sock' = [sock EXCEPT ![s] = "off"]
    /\ topic' = NoTopic
    /\ link' = [t \in Topics |-> IF t = topic THEN "closed" ELSE link[t]]
    /\ UNCHANGED <<shared, committed, swept, published, channel, seen, queue, newest, joins, troubled>>

\* closeTopic: unless a new subscriber came in between.
CloseTopic(s) ==
    /\ sock[s] = "left"
    /\ sock' = [sock EXCEPT ![s] = "off"]
    /\ IF topic = NoTopic \/ \E q \in Sockets : sock[q] \in Registered
       THEN UNCHANGED <<topic, link>>
       ELSE /\ topic' = NoTopic
            /\ link' = [link EXCEPT ![topic] = "closed"]
    /\ UNCHANGED <<shared, committed, swept, published, channel, seen, queue, newest, joins, troubled>>

----------------------------------------------------------------------------
(* The Redis connection and the pump. *)

Activate(t) ==
    /\ link[t] = "dialing"
    /\ link' = [link EXCEPT ![t] = "active"]
    /\ UNCHANGED <<shared, committed, swept, published, sock, channel, seen, topic, queue, newest, joins, troubled>>

\* The connection breaks; the client library dials again.
Disconnect(t) ==
    /\ link[t] = "active"
    /\ link' = [link EXCEPT ![t] = "dialing"]
    /\ UNCHANGED <<shared, committed, swept, published, sock, channel, seen, topic, queue, newest, joins, troubled>>

\* A pump whose topic closed may still deliver what it has already received.
Pump(t) ==
    /\ queue[t] # <<>>
    /\ Deliver(Head(queue[t]))
    /\ queue' = [queue EXCEPT ![t] = Tail(@)]
    /\ troubled' = 
        (troubled \/ (t # topic /\ Frames \in published /\ Head(queue[t]) # Frames))
    /\ UNCHANGED <<shared, committed, swept, published, sock, seen, topic, link, joins>>

PumpQuits(t) ==
    /\ link[t] = "closed"
    /\ link' = [link EXCEPT ![t] = "none"]
    /\ queue' = [queue EXCEPT ![t] = <<>>]
    /\ UNCHANGED <<shared, committed, swept, published, sock, channel, seen, topic, newest, joins, troubled>>

----------------------------------------------------------------------------
(* The socket's loop. *)

\* Receive, drainToLatest, write; a terminal frame ends the connection.
Take(s) ==
    /\ sock[s] = "on"
    /\ channel[s] # <<>>
    /\ LET n == channel[s][Len(channel[s])] IN
        /\ seen' = [seen EXCEPT ![s] = n]
        /\ IF n = Frames
           THEN Detach(s)
           ELSE /\ channel' = [channel EXCEPT ![s] = <<>>]
                /\ UNCHANGED <<shared, committed, swept, published, sock, topic, link, queue, newest, joins, troubled>>

Socket(s) == Add(s) \/ Join(s) \/ Sync(s) \/ Leave(s) \/ CloseTopic(s) \/ Take(s)

Next ==
    \/ Commit
    \/ \E n \in 1 .. Frames : Publish(n) \/ PublishFails(n) \/ PublishHere(n)
    \/ \E s \in Sockets : Socket(s)
    \/ \E t \in Topics : Activate(t) \/ Disconnect(t) \/ Pump(t) \/ PumpQuits(t)

Spec == Init /\ [][Next]_vars

\* Handlers that committed go on to publish, or fail to; goroutines and the connection
\* are served.  Nothing makes a client leave or join, or the session change.
FairSpec ==
    /\ Spec
    /\ WF_vars(\E n \in 1 .. Frames : Publish(n) \/ PublishFails(n) \/ PublishHere(n))
    /\ \A s \in Sockets : WF_vars(Join(s)) /\ WF_vars(Sync(s)) /\ WF_vars(CloseTopic(s))
                          /\ WF_vars(Take(s))
    /\ \A t \in Topics : WF_vars(Activate(t)) /\ WF_vars(Pump(t)) /\ WF_vars(PumpQuits(t))

----------------------------------------------------------------------------
(* Properties. *)

\* A socket that finished subscribing has a topic, whoever left in the meantime
\* (closeTopic's re-check), and a topic nobody watches is one somebody is about to
\* close: none is cut off and none is leaked.
TopicWhileWatched ==
    /\ \A s \in Sockets : shared /\ sock[s] \in {"joined", "on"}
          => topic # NoTopic /\ link[topic] \in {"dialing", "active"}
    /\ topic # NoTopic => \E s \in Sockets : sock[s] \in Registered \cup {"left"}

\* A channel with frames in it holds the newest one the replica received: what a
\* slow socket loses is its backlog, and the channel never outgrows its buffer.
NewestIsKept ==
    \A s \in Sockets : channel[s] # <<>> =>
        channel[s][Len(channel[s])] = newest /\ Len(channel[s]) <= Buffer

\* A socket attached before Close publishes the terminal frame is told and closed, however
\* many frames before it were lost or dropped, unless that frame itself was lost (Redis
\* refused it, its handler died, the subscription was down) or an older one came after it.
\* (The sweep of the worker publishes nothing: its sockets are left to their clients.)
EndReachesSocket ==
    \A s \in Sockets :
        (sock[s] = "on" /\ Ended /\ ~swept /\ Frames \notin published)
            ~> (sock[s] # "on" \/ troubled)
=============================================================================
