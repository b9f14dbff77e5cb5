--------------------------- MODULE StreamTickets ---------------------------
(***************************************************************************)
(* The single-use tickets that authenticate a replay socket.  A caller     *)
(* trades its bearer for a ticket of one session; the handshake redeems    *)
(* the ticket, compares the session, upgrades the connection and only then *)
(* asks whether the session is still live.  Tickets live in Redis, which   *)
(* expires them, or in the map of a single process, swept on every write.  *)
(***************************************************************************)
EXTENDS Integers, FiniteSetsExt

CONSTANTS
    Tokens,         \* what newToken can draw: a bound on the tickets issued
    Sessions,
    TicketTTL,
    Handshakes,     \* concurrent GET /ws/sessions/:id
    Gone

ASSUME TicketAssumption == TicketTTL \in Nat \ {0}

VARIABLES
    redis,          \* whether this deployment keeps its tickets in Redis
    store,          \* the tickets kept, each with its session
    issued,         \* history: the session each token was issued for
    ticketAge,      \* time since each token was issued
    sinceIssue,     \* time since any was
    alive,          \* entity.Status.Live() of each session
    shake,          \* the handshakes under way
    uses            \* history: the redemptions each token was good for

ticketVars == <<redis, store, issued, ticketAge, sinceIssue, alive, shake, uses>>

\* Ages past this are not told apart.
Horizon == 2 * TicketTTL + 1

TicketInit ==
    /\ redis \in BOOLEAN
    /\ store = [t \in Tokens |-> Gone]
    /\ issued = [t \in Tokens |-> Gone]
    /\ ticketAge = [t \in Tokens |-> 0]
    /\ sinceIssue = Horizon
    /\ alive = [s \in Sessions |-> TRUE]
    /\ shake = [h \in Handshakes |-> Gone]
    /\ uses = [t \in Tokens |-> 0]

----------------------------------------------------------------------------
(* Issuing. *)

\* record.expiresAt.Before(now), not yet true in the very last instant.
Stale(t) == ticketAge[t] > TicketTTL

\* (Variant: the map is written and never swept.)
Unswept == store

\* Issue sweeps the map; Redis has nothing left to sweep.
Fresh == [t \in Tokens |-> IF Stale(t) THEN Gone ELSE store[t]]

\* The session was live when it was read; Stream will ask again, so the read is not a
\* step of its own.
IssueStreamTicket(t, s) ==
    /\ issued[t] = Gone
    /\ alive[s]
    /\ store' = [Fresh EXCEPT ![t] = s]
    /\ issued' = [issued EXCEPT ![t] = s]
    /\ sinceIssue' = 0
    /\ UNCHANGED <<redis, ticketAge, alive, shake, uses>>

----------------------------------------------------------------------------
(* The handshake. *)

At(h, step) == shake[h] # Gone /\ shake[h].at = step
Move(h, step) == shake' = [shake EXCEPT ![h].at = step]
Hangup(h) == shake' = [shake EXCEPT ![h] = Gone]

Connect(h, t, s) ==
    /\ shake[h] = Gone
    /\ issued[t] # Gone
    /\ shake' = [shake EXCEPT ![h] = [at |-> "redeem", token |-> t, id |-> s]]
    /\ UNCHANGED <<redis, store, issued, ticketAge, sinceIssue, alive, uses>>

Valid(t) == store[t] # Gone /\ ~Stale(t)

\* The redemption answers: the ticket is good, and for this session, or it is not.
Answer(h, good) ==
    LET t == shake[h].token IN
    /\ uses' = [uses EXCEPT ![t] = IF good THEN @ + 1 ELSE @]
    /\ IF good /\ store[t] = shake[h].id THEN Move(h, "accept") ELSE Hangup(h)
    /\ UNCHANGED <<redis, issued, ticketAge, sinceIssue, alive>>

\* (Variant: a ticket of another session is put back for its own.)
RedeemKind(h) ==
    /\ At(h, "redeem")
    /\ LET t == shake[h].token IN
        /\ store' = [store EXCEPT ![t] = IF @ = shake[h].id THEN Gone ELSE @]
        /\ Answer(h, Valid(t))

\* GETDEL, or the map under its lock: the ticket is gone, valid or not, and whether or
\* not it was minted for the session now asked for.
RedeemStreamTicket(h) ==
    /\ At(h, "redeem")
    /\ store' = [store EXCEPT ![shake[h].token] = Gone]
    /\ Answer(h, Valid(shake[h].token))

\* GETDEL fails, having taken the ticket or not.
RedeemFails(h) ==
    /\ redis
    /\ At(h, "redeem")
    /\ \E left \in {Gone, store[shake[h].token]} :
          store' = [store EXCEPT ![shake[h].token] = left]
    /\ Hangup(h)
    /\ UNCHANGED <<redis, issued, ticketAge, sinceIssue, alive, uses>>

\* websocket.Accept, which a foreign origin or a broken connection fails.
Accept(h) ==
    /\ At(h, "accept")
    /\ Move(h, "stream") \/ Hangup(h)
    /\ UNCHANGED <<redis, store, issued, ticketAge, sinceIssue, alive, uses>>

\* Stream reads the session again: a socket opens only on a live one.
Stream(h) ==
    /\ At(h, "stream")
    /\ IF alive[shake[h].id] THEN Move(h, "open") ELSE Hangup(h)
    /\ UNCHANGED <<redis, store, issued, ticketAge, sinceIssue, alive, uses>>

\* The client leaves, or a frame of the session's end closes the socket.
Leave(h) ==
    /\ At(h, "open")
    /\ Hangup(h)
    /\ UNCHANGED <<redis, store, issued, ticketAge, sinceIssue, alive, uses>>

----------------------------------------------------------------------------
\* A session is closed or abandoned.
SessionEnds(s) ==
    /\ alive[s]
    /\ alive' = [alive EXCEPT ![s] = FALSE]
    /\ UNCHANGED <<redis, store, issued, ticketAge, sinceIssue, shake, uses>>

Older(age) == Min({age + 1, Horizon})

\* Time passes, and Redis drops what has reached its TTL.
TicketTick ==
    /\ sinceIssue' = Older(sinceIssue)
    /\ ticketAge' = [t \in Tokens |-> IF issued[t] = Gone THEN 0 ELSE Older(ticketAge[t])]
    /\ store' = [t \in Tokens |->
          IF redis /\ ticketAge'[t] >= TicketTTL THEN Gone ELSE store[t]]
    /\ UNCHANGED <<redis, issued, alive, shake, uses>>

TicketNext ==
    \/ \E t \in Tokens, s \in Sessions :
          \/ IssueStreamTicket(t, s)
          \/ \E h \in Handshakes : Connect(h, t, s)
    \/ \E h \in Handshakes :
          \/ RedeemStreamTicket(h) \/ RedeemFails(h)
          \/ Accept(h) \/ Stream(h) \/ Leave(h)
    \/ \E s \in Sessions : SessionEnds(s)
    \/ TicketTick

TicketSpec == TicketInit /\ [][TicketNext]_ticketVars

----------------------------------------------------------------------------
(* Properties. *)

\* "A ticket is minted for one session" and is good once: however redemptions race and
\* Redis fails, a token answers at most one of them and has no second life, also when it
\* was spent on the wrong session; a socket past its handshake shows the session the token
\* was minted for, and no two sockets came from one token.
OneSocketPerTicket ==
    /\ \A t \in Tokens : uses[t] <= 1 /\ (uses[t] = 1 => store[t] = Gone)
    /\ \A h \in Handshakes : At(h, "accept") \/ At(h, "stream") \/ At(h, "open")
          => shake[h].id = issued[shake[h].token]
    /\ \A g, h \in Handshakes : g # h /\ At(g, "open") /\ At(h, "open")
          => shake[g].token # shake[h].token

\* Nothing but an issue visits the map, and that is enough: what it keeps was issued
\* within a TTL of the last issue, so it is bounded by the tickets of one TTL.
MapHoldsOneTTL ==
    \A t \in Tokens : store[t] # Gone => ticketAge[t] <= TicketTTL + sinceIssue
=============================================================================
