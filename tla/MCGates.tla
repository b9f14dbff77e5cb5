------------------------------ MODULE MCGates ------------------------------
(***************************************************************************)
(* The gates in front of the service: the throttle before the auth routes, *)
(* the ticket before a socket, and the refresh tokens behind every bearer. *)
(* They share no state, so the run explores them one at a time.            *)
(***************************************************************************)
EXTENDS RateLimiter, StreamTickets, AuthTokens, TLC
CONSTANTS r1, address, email, ip, mail, t1, t2, s1, s2, h1, h2, q1, q2, w1, w2
TheGroups == ip :> address @@ mail :> email
TheLimits == address :> 2 @@ email :> 1
TheRoutes == {<<ip, mail>>}
Symmetry ==
    Permutations(Requests) \cup Permutations(Passwords) \cup Permutations(Tokens)

VARIABLE gate
GatesInit ==
    /\ gate \in {"throttle", "ticket", "token"}
    /\ LimiterInit /\ TicketInit /\ Init
    /\ gate # "ticket" => redis
GatesNext ==
    /\ \/ gate = "throttle" /\ LimiterNext /\ UNCHANGED <<ticketVars, vars>>
       \/ gate = "ticket" /\ TicketNext /\ UNCHANGED <<limiterVars, vars>>
       \/ gate = "token" /\ Next /\ UNCHANGED <<limiterVars, ticketVars>>
    /\ UNCHANGED gate
GatesSpec == GatesInit /\ [][GatesNext]_<<gate, limiterVars, ticketVars, vars>>
=============================================================================
