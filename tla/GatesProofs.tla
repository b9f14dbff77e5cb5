---------------------------- MODULE GatesProofs ----------------------------
(***************************************************************************)
(* Proofs about the two gates a caller passes without a bearer.            *)
(* StreamTickets, for any tokens, sessions, handshakes and TTL: a ticket   *)
(* opens one socket, and the map is swept often enough.  RateLimiter, for  *)
(* any replicas, keys, routes, limits and window: neither path lets a      *)
(* burst of twice the limit through, and neither refuses a caller who has  *)
(* not used the limit up.                                                  *)
(***************************************************************************)
EXTENDS RateLimiter, StreamTickets, TLAPS

USE TicketAssumption

LEMMA MinIs ==
    ASSUME NEW a \in Int, NEW b \in Int
    PROVE  Min({a, b}) = IF a <= b THEN a ELSE b
<1> DEFINE S == {a, b}
           m == IF a <= b THEN a ELSE b
<1>1. m \in S /\ \A y \in S : m <= y
  OBVIOUS
<1>2. \A x \in S : (\A y \in S : x <= y) => x = m
  OBVIOUS
<1> QED  BY <1>1, <1>2 DEF Min

LEMMA MaxIs ==
    ASSUME NEW a \in Int, NEW b \in Int
    PROVE  Max({a, b}) = IF a >= b THEN a ELSE b
<1> DEFINE S == {a, b}
           m == IF a >= b THEN a ELSE b
<1>1. m \in S /\ \A y \in S : m >= y
  OBVIOUS
<1>2. \A x \in S : (\A y \in S : x >= y) => x = m
  OBVIOUS
<1> QED  BY <1>1, <1>2 DEF Max

----------------------------------------------------------------------------
(* The tickets. *)

Shake == [at : {"redeem", "accept", "stream", "open"}, token : Tokens, id : Sessions]

TicketTypes ==
    /\ store \in [Tokens -> Sessions \cup {Gone}]
    /\ issued \in [Tokens -> Sessions \cup {Gone}]
    /\ shake \in [Handshakes -> Shake \cup {Gone}]
    /\ uses \in [Tokens -> {0, 1}]

\* Past its redemption, and so the owner of its ticket.
Admitted(h) == At(h, "accept") \/ At(h, "stream") \/ At(h, "open")

\* What is stored was issued and is unspent; what a handshake presents was issued, and
\* an admitted one is alone with a spent ticket of its own session.
TicketInv ==
    /\ TicketTypes
    /\ \A t \in Tokens :
        /\ store[t] # Gone => store[t] = issued[t] /\ uses[t] = 0
        /\ uses[t] = 1 => issued[t] # Gone
    /\ \A h \in Handshakes :
        /\ shake[h] # Gone => issued[shake[h].token] # Gone
        /\ Admitted(h) => /\ uses[shake[h].token] = 1
                          /\ shake[h].id = issued[shake[h].token]
    /\ \A g, h \in Handshakes :
        Admitted(g) /\ Admitted(h) /\ g # h => shake[g].token # shake[h].token

\* A handshake that moves on keeps its ticket.
LEMMA MoveKeeps ==
    ASSUME TicketTypes, NEW h \in Handshakes, shake[h] # Gone,
           NEW step \in {"accept", "stream", "open"}, Move(h, step)
    PROVE  /\ shake'[h] \in Shake /\ shake'[h].at = step
           /\ shake'[h].token = shake[h].token /\ shake'[h].id = shake[h].id
           /\ \A g \in Handshakes : g # h => shake'[g] = shake[g]
           /\ shake' \in [Handshakes -> Shake \cup {Gone}]
<1> DEFINE new == [shake[h] EXCEPT !.at = step]
<1>1. shake[h] \in Shake
  BY DEF TicketTypes
<1>2. new \in Shake /\ new.at = step /\ new.token = shake[h].token /\ new.id = shake[h].id
  BY <1>1 DEF Shake
<1>3. shake' = [shake EXCEPT ![h] = new]
  BY DEF Move
<1> HIDE DEF new
<1> QED  BY <1>2, <1>3 DEF TicketTypes

\* A handshake may hang up, or go on with what it had, without touching a ticket.
LEMMA ShakeInv ==
    ASSUME TicketInv, NEW h \in Handshakes, UNCHANGED <<store, issued, uses>>,
           \/ Hangup(h)
           \/ Admitted(h) /\ \E step \in {"stream", "open"} : Move(h, step)
    PROVE  TicketInv'
<1>1. CASE Hangup(h)
  <2>1. /\ shake' \in [Handshakes -> Shake \cup {Gone}] /\ shake'[h] = Gone
        /\ \A g \in Handshakes : g # h => shake'[g] = shake[g]
    BY <1>1 DEF Hangup, TicketInv, TicketTypes
  <2> QED  BY <2>1 DEF TicketInv, TicketTypes, Admitted, At
<1>2. ASSUME Admitted(h), NEW step \in {"stream", "open"}, Move(h, step)
      PROVE  TicketInv'
  <2>1. shake[h] # Gone /\ TicketTypes
    BY <1>2 DEF Admitted, At, TicketInv
  <2>2. /\ shake'[h].token = shake[h].token /\ shake'[h].id = shake[h].id
        /\ \A g \in Handshakes : g # h => shake'[g] = shake[g]
        /\ shake' \in [Handshakes -> Shake \cup {Gone}]
    BY <1>2, <2>1, MoveKeeps
  <2>3. \A g \in Handshakes : Admitted(g)' => Admitted(g)
    BY <1>2, <2>2 DEF Admitted, At
  <2> QED  BY <2>1, <2>2, <2>3 DEF TicketInv, TicketTypes
<1> QED  BY <1>1, <1>2

\* The redemption: whoever was admitted before held another ticket, for this one was
\* still in the store.
LEMMA RedeemInv ==
    ASSUME TicketInv, NEW h \in Handshakes, RedeemStreamTicket(h)
    PROVE  TicketInv'
<1> DEFINE own == shake[h].token
<1>1. /\ TicketTypes /\ shake[h] # Gone /\ own \in Tokens /\ ~Admitted(h)
      /\ issued[own] # Gone
  BY DEF RedeemStreamTicket, At, Admitted, TicketInv, TicketTypes, Shake
<1>2. store' = [store EXCEPT ![own] = Gone] /\ UNCHANGED issued
  BY DEF RedeemStreamTicket, Answer
<1>3. uses' = [uses EXCEPT ![own] = IF Valid(own) THEN @ + 1 ELSE @]
  BY DEF RedeemStreamTicket, Answer
<1>4. Valid(own) => uses[own] = 0 /\ store[own] = issued[own]
  BY <1>1 DEF Valid, TicketInv
<1>5. /\ uses' \in [Tokens -> {0, 1}] /\ (Valid(own) => uses'[own] = 1)
      /\ \A u \in Tokens : uses[u] = 1 => uses'[u] = 1
      /\ \A u \in Tokens : u # own => uses'[u] = uses[u]
  BY <1>1, <1>3, <1>4 DEF TicketTypes
<1>6. \A g \in Handshakes : Admitted(g) /\ Valid(own) => shake[g].token # own
  BY <1>4 DEF TicketInv
<1>7. store' \in [Tokens -> Sessions \cup {Gone}] /\ issued' \in [Tokens -> Sessions \cup {Gone}]
  BY <1>1, <1>2 DEF TicketTypes
<1>8. \A u \in Tokens : /\ store'[u] # Gone => store'[u] = issued'[u] /\ uses'[u] = 0
                        /\ uses'[u] = 1 => issued'[u] # Gone
  <2> SUFFICES ASSUME NEW u \in Tokens
               PROVE  /\ store'[u] # Gone => store'[u] = issued'[u] /\ uses'[u] = 0
                      /\ uses'[u] = 1 => issued'[u] # Gone
    OBVIOUS
  <2>1. CASE u = own
    BY <1>1, <1>2, <2>1 DEF TicketTypes
  <2>2. CASE u # own
    BY <1>1, <1>2, <1>5, <2>2 DEF TicketInv, TicketTypes
  <2> QED  BY <2>1, <2>2
<1>9. \A g \in Handshakes : shake[g] # Gone => shake[g].token \in Tokens
  BY <1>1 DEF TicketTypes, Shake
<1>10. \A g \in Handshakes : Admitted(g) => shake[g] # Gone
  BY DEF Admitted, At
<1>11. CASE Valid(own) /\ store[own] = shake[h].id
  <2>1. Move(h, "accept")
    BY <1>11 DEF RedeemStreamTicket, Answer
  <2>2. /\ shake'[h].token = own /\ shake'[h].id = shake[h].id
        /\ \A g \in Handshakes : g # h => shake'[g] = shake[g]
        /\ shake' \in [Handshakes -> Shake \cup {Gone}]
    BY <1>1, <2>1, MoveKeeps
  <2>3. \A g \in Handshakes : g # h => (Admitted(g)' => Admitted(g))
    BY <2>2 DEF Admitted, At
  <2>4. \A g \in Handshakes :
          /\ shake'[g] # Gone => issued'[shake'[g].token] # Gone
          /\ Admitted(g)' => /\ uses'[shake'[g].token] = 1
                             /\ shake'[g].id = issued'[shake'[g].token]
    BY <1>1, <1>2, <1>4, <1>5, <1>11, <1>9, <1>10, <2>2, <2>3 DEF TicketInv
  <2>5. \A f, g \in Handshakes :
          Admitted(f)' /\ Admitted(g)' /\ f # g => shake'[f].token # shake'[g].token
    BY <1>6, <1>11, <2>2, <2>3 DEF TicketInv
  <2>6. TicketTypes'
    BY <1>5, <1>7, <2>2 DEF TicketTypes
  <2> QED  BY <1>8, <2>4, <2>5, <2>6 DEF TicketInv
<1>12. CASE ~(Valid(own) /\ store[own] = shake[h].id)
  <2>1. Hangup(h)
    BY <1>12 DEF RedeemStreamTicket, Answer
  <2>2. /\ shake' \in [Handshakes -> Shake \cup {Gone}] /\ shake'[h] = Gone
        /\ \A g \in Handshakes : g # h => shake'[g] = shake[g]
    BY <2>1 DEF Hangup, TicketInv, TicketTypes
  <2>3. \A g \in Handshakes : Admitted(g)' => Admitted(g) /\ g # h
    BY <2>2 DEF Admitted, At
  <2>4. \A g \in Handshakes :
          /\ shake'[g] # Gone => issued'[shake'[g].token] # Gone
          /\ Admitted(g)' => /\ uses'[shake'[g].token] = 1
                             /\ shake'[g].id = issued'[shake'[g].token]
    BY <1>2, <1>5, <1>9, <1>10, <2>2, <2>3 DEF TicketInv
  <2>5. \A f, g \in Handshakes :
          Admitted(f)' /\ Admitted(g)' /\ f # g => shake'[f].token # shake'[g].token
    BY <2>2, <2>3 DEF TicketInv
  <2>6. TicketTypes'
    BY <1>5, <1>7, <2>2 DEF TicketTypes
  <2> QED  BY <1>8, <2>4, <2>5, <2>6 DEF TicketInv
<1> QED  BY <1>11, <1>12

\* Tickets are taken away without an answer: by a redemption that fails, by their TTL.
LEMMA TakeInv ==
    ASSUME TicketInv, store' \in [Tokens -> Sessions \cup {Gone}],
           \A t \in Tokens : store'[t] \in {Gone, store[t]},
           shake' \in [Handshakes -> Shake \cup {Gone}],
           \A h \in Handshakes : shake'[h] \in {Gone, shake[h]},
           UNCHANGED <<issued, uses>>
    PROVE  TicketInv'
<1>1. \A h \in Handshakes : Admitted(h)' => Admitted(h) /\ shake'[h] = shake[h]
  BY DEF Admitted, At
<1> QED  BY <1>1 DEF TicketInv, TicketTypes

LEMMA IssueTicketInv ==
    ASSUME TicketInv, NEW t \in Tokens, NEW s \in Sessions, IssueStreamTicket(t, s)
    PROVE  TicketInv'
<1>1. TicketTypes /\ issued[t] = Gone /\ UNCHANGED <<shake, uses>>
  BY DEF IssueStreamTicket, TicketInv
<1>2. issued' \in [Tokens -> Sessions \cup {Gone}] /\ issued'[t] = s
      /\ \A u \in Tokens : u # t => issued'[u] = issued[u]
  BY <1>1 DEF IssueStreamTicket, TicketTypes
<1>3. store' \in [Tokens -> Sessions \cup {Gone}] /\ store'[t] = s
      /\ \A u \in Tokens : u # t => store'[u] \in {Gone, store[u]}
  BY <1>1 DEF IssueStreamTicket, Fresh, TicketTypes
<1>4. uses[t] = 0 /\ \A h \in Handshakes : shake[h] # Gone => shake[h].token # t
  BY <1>1 DEF TicketInv, TicketTypes
<1>5. \A h \in Handshakes : /\ Admitted(h)' <=> Admitted(h)
                            /\ shake[h] # Gone => shake[h].token \in Tokens
                            /\ Admitted(h) => shake[h] # Gone
  BY <1>1 DEF Admitted, At, TicketTypes, Shake
<1> QED  BY <1>1, <1>2, <1>3, <1>4, <1>5 DEF TicketInv, TicketTypes

----------------------------------------------------------------------------
(* The age of what the map keeps. *)

LEMMA OlderIs ==
    ASSUME NEW age \in Nat
    PROVE  /\ Older(age) = IF age + 1 <= Horizon THEN age + 1 ELSE Horizon
           /\ Older(age) \in Nat /\ Horizon \in Nat
<1>1. Horizon \in Nat
  BY DEF Horizon
<1>2. Min({age + 1, Horizon}) = IF age + 1 <= Horizon THEN age + 1 ELSE Horizon
  BY <1>1, MinIs
<1> QED  BY <1>1, <1>2 DEF Older

AgeInv ==
    /\ sinceIssue \in 0 .. Horizon
    /\ ticketAge \in [Tokens -> 0 .. Horizon]
    /\ \A t \in Tokens : issued[t] = Gone => ticketAge[t] = 0
    /\ MapHoldsOneTTL

LEMMA AgeStep ==
    ASSUME AgeInv, [TicketNext]_ticketVars, TicketTypes
    PROVE  AgeInv'
<1>0. Horizon \in Nat /\ Horizon >= TicketTTL /\ TicketTTL \in Nat
  BY DEF Horizon
<1>1. ASSUME NEW t \in Tokens, NEW s \in Sessions, IssueStreamTicket(t, s) PROVE AgeInv'
  <2>1. /\ sinceIssue' = 0 /\ UNCHANGED ticketAge /\ ticketAge[t] = 0
        /\ \A u \in Tokens : u # t => /\ issued'[u] = issued[u]
                                      /\ store'[u] = IF Stale(u) THEN Gone ELSE store[u]
    BY <1>1 DEF IssueStreamTicket, Fresh, AgeInv, TicketTypes
  <2>2. \A u \in Tokens : ticketAge[u] \in Nat
    BY <1>0 DEF AgeInv
  <2>3. \A u \in Tokens : store'[u] # Gone => ticketAge[u] <= TicketTTL + 0
    BY <1>0, <2>1, <2>2 DEF Stale
  <2>4. \A u \in Tokens : issued'[u] = Gone => ticketAge[u] = 0
    BY <2>1 DEF AgeInv
  <2> QED  BY <1>0, <2>1, <2>3, <2>4 DEF AgeInv, MapHoldsOneTTL
<1>2. CASE TicketTick
  <2>1. /\ sinceIssue' = Older(sinceIssue) /\ UNCHANGED issued
        /\ ticketAge' = [t \in Tokens |-> IF issued[t] = Gone THEN 0 ELSE Older(ticketAge[t])]
        /\ \A t \in Tokens : store'[t] # Gone => store[t] # Gone
    BY <1>2 DEF TicketTick
  <2>2. /\ sinceIssue' \in 0 .. Horizon
        /\ sinceIssue' = Horizon \/ sinceIssue' = sinceIssue + 1
    BY <1>0, <2>1, OlderIs DEF AgeInv
  <2>3. \A t \in Tokens : /\ Older(ticketAge[t]) \in 0 .. Horizon
                          /\ Older(ticketAge[t]) <= ticketAge[t] + 1
    BY <1>0, OlderIs DEF AgeInv
  <2>4. ticketAge' \in [Tokens -> 0 .. Horizon]
    BY <1>0, <2>1, <2>3
  <2>5. \A t \in Tokens : store'[t] # Gone => ticketAge'[t] <= TicketTTL + sinceIssue'
    BY <1>0, <2>1, <2>2, <2>3 DEF AgeInv, MapHoldsOneTTL
  <2> QED  BY <2>1, <2>2, <2>4, <2>5 DEF AgeInv, MapHoldsOneTTL
<1>3. ASSUME NEW h \in Handshakes,
             RedeemStreamTicket(h) \/ RedeemFails(h) \/ Accept(h) \/ Stream(h) \/ Leave(h)
      PROVE  AgeInv'
  <2>1. UNCHANGED <<issued, ticketAge, sinceIssue>>
    BY <1>3 DEF RedeemStreamTicket, RedeemFails, Answer, Accept, Stream, Leave
  <2>2. \A t \in Tokens : store'[t] # Gone => store[t] # Gone
    BY <1>3 DEF RedeemStreamTicket, RedeemFails, Accept, Stream, Leave, TicketTypes
  <2> QED  BY <2>1, <2>2 DEF AgeInv, MapHoldsOneTTL
<1>4. ASSUME NEW h \in Handshakes, NEW t \in Tokens, NEW s \in Sessions, Connect(h, t, s)
      PROVE  AgeInv'
  BY <1>4 DEF Connect, AgeInv, MapHoldsOneTTL
<1>5. ASSUME NEW s \in Sessions, SessionEnds(s) PROVE AgeInv'
  BY <1>5 DEF SessionEnds, AgeInv, MapHoldsOneTTL
<1>6. CASE UNCHANGED ticketVars
  BY <1>6 DEF ticketVars, AgeInv, MapHoldsOneTTL
<1> QED  BY <1>1, <1>2, <1>3, <1>4, <1>5, <1>6 DEF TicketNext

----------------------------------------------------------------------------
(* The theorems about the tickets. *)

LEMMA TicketStep == TicketInv /\ [TicketNext]_ticketVars => TicketInv'
<1> SUFFICES ASSUME TicketInv, [TicketNext]_ticketVars PROVE TicketInv'
  OBVIOUS
<1>1. ASSUME NEW t \in Tokens, NEW s \in Sessions, IssueStreamTicket(t, s) PROVE TicketInv'
  BY <1>1, IssueTicketInv
<1>2. ASSUME NEW h \in Handshakes, NEW t \in Tokens, NEW s \in Sessions, Connect(h, t, s)
      PROVE  TicketInv'
  <2>1. /\ [at |-> "redeem", token |-> t, id |-> s] \in Shake
        /\ UNCHANGED <<store, issued, uses>> /\ issued[t] # Gone
    BY <1>2 DEF Connect, Shake
  <2>2. /\ shake' \in [Handshakes -> Shake \cup {Gone}]
        /\ shake'[h].at = "redeem" /\ shake'[h].token = t
        /\ \A g \in Handshakes : g # h => shake'[g] = shake[g]
    BY <1>2, <2>1 DEF Connect, TicketInv, TicketTypes
  <2>3. \A g \in Handshakes : Admitted(g)' => Admitted(g) /\ g # h
    BY <2>2 DEF Admitted, At
  <2> QED  BY <2>1, <2>2, <2>3 DEF TicketInv, TicketTypes
<1>3. ASSUME NEW h \in Handshakes, RedeemStreamTicket(h) PROVE TicketInv'
  BY <1>3, RedeemInv
<1>4. ASSUME NEW h \in Handshakes, RedeemFails(h) PROVE TicketInv'
  <2>1. /\ shake' \in [Handshakes -> Shake \cup {Gone}]
        /\ \A g \in Handshakes : shake'[g] \in {Gone, shake[g]}
        /\ UNCHANGED <<issued, uses>>
    BY <1>4 DEF RedeemFails, Hangup, TicketInv, TicketTypes
  <2>2. shake[h].token \in Tokens
    BY <1>4 DEF RedeemFails, At, TicketInv, TicketTypes, Shake
  <2>3. PICK left \in {Gone, store[shake[h].token]} :
          store' = [store EXCEPT ![shake[h].token] = left]
    BY <1>4 DEF RedeemFails
  <2>4. /\ store' \in [Tokens -> Sessions \cup {Gone}]
        /\ \A t \in Tokens : store'[t] \in {Gone, store[t]}
    BY <2>2, <2>3 DEF TicketInv, TicketTypes
  <2> QED  BY <2>1, <2>4, TakeInv
<1>5. ASSUME NEW h \in Handshakes, Accept(h) \/ Stream(h) \/ Leave(h) PROVE TicketInv'
  <2>1. UNCHANGED <<store, issued, uses>>
    BY <1>5 DEF Accept, Stream, Leave
  <2>2. Hangup(h) \/ (Admitted(h) /\ \E step \in {"stream", "open"} : Move(h, step))
    BY <1>5 DEF Accept, Stream, Leave, Admitted
  <2> QED  BY <2>1, <2>2, ShakeInv
<1>6. ASSUME NEW s \in Sessions, SessionEnds(s) PROVE TicketInv'
  BY <1>6 DEF SessionEnds, TicketInv, TicketTypes, Admitted, At
<1>7. CASE TicketTick
  <2>1. /\ store' \in [Tokens -> Sessions \cup {Gone}]
        /\ \A t \in Tokens : store'[t] \in {Gone, store[t]}
        /\ UNCHANGED <<issued, shake, uses>>
    BY <1>7 DEF TicketTick, TicketInv, TicketTypes
  <2>2. /\ shake' \in [Handshakes -> Shake \cup {Gone}]
        /\ \A g \in Handshakes : shake'[g] \in {Gone, shake[g]}
    BY <2>1 DEF TicketInv, TicketTypes
  <2> QED  BY <2>1, <2>2, TakeInv
<1>8. CASE UNCHANGED ticketVars
  BY <1>8 DEF ticketVars, TicketInv, TicketTypes, Admitted, At
<1> QED  BY <1>1, <1>2, <1>3, <1>4, <1>5, <1>6, <1>7, <1>8 DEF TicketNext

LEMMA TicketStart == TicketInit => TicketInv /\ AgeInv
<1> SUFFICES ASSUME TicketInit PROVE TicketInv /\ AgeInv
  OBVIOUS
<1>1. Horizon \in Nat
  BY DEF Horizon
<1> QED  BY <1>1 DEF TicketInit, TicketInv, TicketTypes, AgeInv, MapHoldsOneTTL, Admitted, At

\* Whatever redemptions race and whatever calls to Redis fail, a ticket is good once and
\* opens at most one socket, of its own session (RedeemStreamTicket, streamTicket).
THEOREM TicketsAreSingleUse == TicketSpec => []OneSocketPerTicket
<1>1. TicketInv => OneSocketPerTicket
  BY DEF TicketInv, TicketTypes, OneSocketPerTicket, Admitted, At
<1> QED  BY <1>1, TicketStart, TicketStep, PTL DEF TicketSpec

\* Sweeping on every issue, and at no other time, bounds the map of a single process by
\* the tickets of one TTL (MemoryTicketStore.Issue).
THEOREM SweptOnIssue == TicketSpec => []MapHoldsOneTTL
<1>1. TicketInv => TicketTypes
  BY DEF TicketInv
<1>2. TicketTypes /\ AgeInv /\ [TicketNext]_ticketVars => AgeInv'
  BY AgeStep
<1>3. AgeInv => MapHoldsOneTTL
  BY DEF AgeInv
<1> QED  BY <1>1, <1>2, <1>3, TicketStart, TicketStep, PTL DEF TicketSpec
----------------------------------------------------------------------------
(* The limiter: its types, and the arithmetic of its two paths. *)

Bucket == [age : Nat, credit : Nat]

LimiterTypes ==
    /\ count \in [Keys -> Nat]
    /\ ttl \in [Keys -> 0 .. Window]
    /\ \A k \in Keys : count[k] <= LimitOf(k) + 1
    /\ bucket \in [Replicas -> [Keys -> Bucket \cup {NoBucket}]]
    /\ sinceSweep \in [Replicas -> [Groups -> Nat]]
    /\ unswept \in [Replicas -> [Keys -> Nat]]
    /\ \A r \in Replicas, k \in Keys : unswept[r][k] <= Full(k)
    /\ stage \in [Replicas -> Seq(Keys)]
    /\ recent \in [Paths -> [Keys -> [Ages -> Nat]]]
    /\ unsure \in [Keys -> [Ages -> Nat]]

\* What was let through in the last units of time and the credit that is left are the
\* credit that accrued meanwhile, up to a full bucket.
LocalPart(k, credit, lets) ==
    \A a \in Ages :
        /\ credit + Window * lets[a] >= (a + 1) * LimitOf(k)
        /\ credit + Window * lets[a] <= Full(k) + a * LimitOf(k)

\* The counter is the calls since its window began, the first of the ages past
\* Window - left; only those counted by a failed call were not let through.  Before the
\* window began, the one that ended let no more than the limit through.
SharedPart(k, c, left, lets, failed) ==
    LET m == IF c <= LimitOf(k) THEN c ELSE LimitOf(k) IN
    /\ left = 0 => c = 0 /\ \A a \in Ages : lets[a] <= LimitOf(k) - 1
    /\ left > 0 =>
        /\ c >= 1
        /\ \A a \in Ages :
            /\ lets[a] <= m + LimitOf(k) - 1
            /\ a < Window - left => lets[a] <= m - 1
            /\ a >= Window - left => lets[a] + failed[a] >= m

LimiterInv ==
    /\ LimiterTypes
    /\ EvictionForgetsNothing
    /\ \A r \in Replicas, k \in Keys : LocalPart(k, unswept[r][k], recent[r][k])
    /\ \A k \in Keys : SharedPart(k, count[k], ttl[k], recent[Shared][k], unsure[k])

LEMMA LimitFacts ==
    /\ Window \in Nat /\ Window >= 1 /\ SweepEvery \in Nat
    /\ \A k \in Keys : GroupOf[k] \in Groups /\ LimitOf(k) \in Nat /\ LimitOf(k) >= 1
    /\ Shared \in Paths /\ Shared \notin Replicas /\ Replicas \subseteq Paths
    /\ Ages \subseteq Nat /\ Window - 1 \in Ages
    /\ NoBucket \notin Bucket
    /\ \A route \in Routes : route \in Seq(Keys)
BY LimiterAssumption DEF LimitOf, Paths, Ages, Bucket

LEMMA FullFacts ==
    ASSUME NEW k \in Keys
    PROVE  /\ Full(k) \in Nat /\ Full(k) >= LimitOf(k) /\ Full(k) >= Window
           /\ \A n \in Nat : n >= Window => n * LimitOf(k) >= Full(k)
           /\ \A n \in Nat : n < Window => (n + 1) * LimitOf(k) <= Full(k)
<1>1. /\ Window \in Nat /\ Window >= 1 /\ LimitOf(k) \in Nat /\ LimitOf(k) >= 1
  BY LimitFacts
<1>2. \A x, y, n \in Nat : n >= y /\ x >= 1 => n * x >= x * y
  <2> SUFFICES ASSUME NEW x \in Nat, NEW y \in Nat, NEW n \in Nat, n >= y PROVE n * x >= x * y
    OBVIOUS
  <2>1. PICK d \in Nat : n = y + d
    <3>1. n - y \in Nat /\ n = y + (n - y)
      OBVIOUS
    <3> QED  BY <3>1
  <2>2. n * x = x * y + x * d /\ x * d >= 0
    BY <2>1
  <2>3. n * x \in Nat /\ x * y \in Nat /\ x * d \in Nat
    OBVIOUS
  <2> QED  BY <2>2, <2>3
<1>3. \A x, y \in Nat : x >= 1 /\ y >= 1 => x * y \in Nat /\ x * y >= x /\ x * y >= y
  <2> SUFFICES ASSUME NEW x \in Nat, NEW y \in Nat, x >= 1, y >= 1
               PROVE  x * y \in Nat /\ x * y >= x /\ x * y >= y
    OBVIOUS
  <2>1. x * y >= 1 * y
    BY <1>2
  <2>2. y * x >= 1 * x
    BY <1>2
  <2> QED  BY <2>1, <2>2
<1>4. \A x, y, n \in Nat : n < y => (n + 1) * x <= x * y
  <2> SUFFICES ASSUME NEW x \in Nat, NEW y \in Nat, NEW n \in Nat, n < y
               PROVE  (n + 1) * x <= x * y
    OBVIOUS
  <2>1. CASE x >= 1
    <3>1. n + 1 \in Nat /\ y >= n + 1
      OBVIOUS
    <3>2. y * x >= x * (n + 1)
      BY <1>2, <2>1, <3>1
    <3> QED  BY <3>2
  <2>2. CASE x = 0
    BY <2>2
  <2> QED  BY <2>1, <2>2
<1> QED  BY <1>1, <1>2, <1>3, <1>4 DEF Full

----------------------------------------------------------------------------
(* The credit of a bucket: what a spend, a tick and a sweep make of it. *)

LEMMA CreditIs ==
    ASSUME NEW k \in Keys, NEW b \in Bucket
    PROVE  /\ b # NoBucket /\ b.age \in Nat /\ b.credit \in Nat /\ b.age * LimitOf(k) \in Nat
           /\ Credit(k, b) = IF Full(k) <= b.credit + b.age * LimitOf(k) THEN Full(k)
                             ELSE b.credit + b.age * LimitOf(k)
<1>1. /\ b # NoBucket /\ b.age \in Nat /\ b.credit \in Nat
  BY LimitFacts DEF Bucket
<1>2. LimitOf(k) \in Nat /\ Full(k) \in Nat
  BY LimitFacts, FullFacts
<1>3. b.age * LimitOf(k) \in Nat
  BY <1>1, <1>2
<1>4. b.credit + b.age * LimitOf(k) \in Int /\ Full(k) \in Int
  BY <1>1, <1>2, <1>3
<1>5. Min({Full(k), b.credit + b.age * LimitOf(k)}) =
        IF Full(k) <= b.credit + b.age * LimitOf(k) THEN Full(k)
        ELSE b.credit + b.age * LimitOf(k)
  BY <1>4, MinIs
<1> QED  BY <1>1, <1>3, <1>5 DEF Credit

\* A bucket that may be swept is worth no bucket.
LEMMA IdleIsFull ==
    ASSUME NEW k \in Keys, NEW b \in Bucket \cup {NoBucket}, Idle(b)
    PROVE  Credit(k, b) = Full(k)
<1>1. b \in Bucket /\ b.age \in Nat /\ b.age >= Window
  BY CreditIs DEF Idle
<1>2. b.age * LimitOf(k) >= Full(k) /\ Full(k) \in Nat
  BY <1>1, FullFacts
<1> QED  BY <1>1, <1>2, CreditIs

LEMMA CreditAges ==
    ASSUME NEW k \in Keys, NEW b \in Bucket
    PROVE  LET older == [b EXCEPT !.age = Min({@ + 1, Window})] IN
           /\ older \in Bucket
           /\ Credit(k, older) = IF Credit(k, b) + LimitOf(k) <= Full(k)
                                 THEN Credit(k, b) + LimitOf(k) ELSE Full(k)
<1> DEFINE L == LimitOf(k)
           n == Min({b.age + 1, Window})
           older == [b EXCEPT !.age = n]
<1>1. /\ b.age \in Nat /\ b.credit \in Nat /\ b.age * L \in Nat
      /\ Credit(k, b) = IF Full(k) <= b.credit + b.age * L THEN Full(k) ELSE b.credit + b.age * L
  BY CreditIs
<1>2. Window \in Nat /\ L \in Nat /\ L >= 1 /\ Full(k) \in Nat
  BY LimitFacts, FullFacts
<1>3. n = IF b.age + 1 <= Window THEN b.age + 1 ELSE Window
  BY <1>1, <1>2, MinIs
<1>4. n \in Nat
  BY <1>1, <1>2, <1>3
<1>5. older \in Bucket /\ older.age = n /\ older.credit = b.credit
  BY <1>4 DEF Bucket
<1> HIDE DEF n, older
<1>6. Credit(k, older) = IF Full(k) <= b.credit + n * L THEN Full(k) ELSE b.credit + n * L
  BY <1>5, CreditIs
<1>7. CASE b.age + 1 <= Window
  <2>1. n * L = b.age * L + L
    BY <1>1, <1>2, <1>3, <1>7
  <2>2. PICK x \in Nat : x = b.age * L
    BY <1>1
  <2>3. Credit(k, b) = IF Full(k) <= b.credit + x THEN Full(k) ELSE b.credit + x
    BY <1>1, <2>2
  <2>4. Credit(k, older) = IF Full(k) <= b.credit + (x + L) THEN Full(k) ELSE b.credit + (x + L)
    BY <1>6, <2>1, <2>2
  <2> HIDE DEF L
  <2>5. Credit(k, older) = IF Credit(k, b) + L <= Full(k) THEN Credit(k, b) + L ELSE Full(k)
    <3>1. PICK c \in Nat, l \in Nat, f \in Nat : c = b.credit /\ l = L /\ f = Full(k)
      BY <1>1, <1>2
    <3>2. PICK now \in Nat : now = Credit(k, b) /\ now = IF f <= c + x THEN f ELSE c + x
      BY <2>3, <3>1
    <3>3. PICK then \in Nat :
            then = Credit(k, older) /\ then = IF f <= c + (x + l) THEN f ELSE c + (x + l)
      BY <2>4, <3>1
    <3>4. then = IF now + l <= f THEN now + l ELSE f
      BY <3>2, <3>3
    <3> QED  BY <3>1, <3>2, <3>3, <3>4
  <2> QED  BY <1>5, <2>5 DEF older, n, L
<1>8. CASE b.age + 1 > Window
  <2>1. n >= Window /\ b.age >= Window
    BY <1>1, <1>2, <1>3, <1>8
  <2>2. n * L >= Full(k) /\ b.age * L >= Full(k)
    BY <1>1, <1>4, <2>1, FullFacts
  <2>3. n * L \in Nat
    BY <1>2, <1>4
  <2>4. Credit(k, older) = Full(k) /\ Credit(k, b) = Full(k)
    BY <1>1, <1>2, <1>6, <2>2, <2>3
  <2>5. Credit(k, older) = IF Credit(k, b) + L <= Full(k) THEN Credit(k, b) + L ELSE Full(k)
    BY <1>2, <2>4
  <2> QED  BY <1>5, <2>5 DEF older, n, L
<1> QED  BY <1>1, <1>2, <1>7, <1>8

LEMMA SpendIs ==
    ASSUME NEW k \in Keys, NEW credit \in Nat, credit <= Full(k)
    PROVE  /\ Spend(k, credit) \in Nat /\ Spend(k, credit) <= credit
           /\ Credit(k, [age |-> 0, credit |-> Spend(k, credit)]) = Spend(k, credit)
           /\ [age |-> 0, credit |-> Spend(k, credit)] \in Bucket
<1> DEFINE left == Spend(k, credit)
           b == [age |-> 0, credit |-> left]
<1>1. Window \in Nat /\ LimitOf(k) \in Nat /\ Full(k) \in Nat
  BY LimitFacts, FullFacts
<1>2. left \in Nat /\ left <= credit
  BY <1>1 DEF Spend
<1>3. b \in Bucket /\ b.age = 0 /\ b.credit = left
  BY <1>2 DEF Bucket
<1>4. b.age * LimitOf(k) = 0
  BY <1>1, <1>3
<1> HIDE DEF left, b
<1>5. Credit(k, b) = IF Full(k) <= b.credit + b.age * LimitOf(k) THEN Full(k)
                     ELSE b.credit + b.age * LimitOf(k)
  BY <1>3, CreditIs
<1>6. Credit(k, b) = left
  BY <1>1, <1>2, <1>3, <1>4, <1>5
<1> QED  BY <1>2, <1>3, <1>6 DEF left, b

----------------------------------------------------------------------------
(* The two paths, one key at a time. *)

LEMMA LocalSpends ==
    ASSUME NEW k \in Keys, NEW credit \in Nat, NEW lets \in [Ages -> Nat],
           NEW more \in [Ages -> Nat], LocalPart(k, credit, lets),
           \A a \in Ages : more[a] = lets[a] + (IF credit >= Window THEN 1 ELSE 0)
    PROVE  LocalPart(k, Spend(k, credit), more)
<1>1. Window \in Nat /\ LimitOf(k) \in Nat /\ Full(k) \in Nat /\ Ages \subseteq Nat
  BY LimitFacts, FullFacts
<1>2. SUFFICES ASSUME NEW a \in Ages
               PROVE  Spend(k, credit) + Window * more[a] = credit + Window * lets[a]
  BY <1>2 DEF LocalPart
<1>3. lets[a] \in Nat
  OBVIOUS
<1>4. CASE credit >= Window
  <2>1. Spend(k, credit) = credit - Window /\ more[a] = lets[a] + 1
    BY <1>4 DEF Spend
  <2>2. Window * (lets[a] + 1) = Window * lets[a] + Window /\ Window * lets[a] \in Nat
    BY <1>1, <1>3
  <2> QED  BY <1>1, <2>1, <2>2
<1>5. CASE ~(credit >= Window)
  <2>1. Spend(k, credit) = credit /\ more[a] = lets[a]
    BY <1>3, <1>5 DEF Spend
  <2> QED  BY <2>1
<1> QED  BY <1>4, <1>5

LEMMA LaterIs ==
    ASSUME NEW lets \in [Ages -> Nat]
    PROVE  /\ Later(lets) \in [Ages -> Nat]
           /\ \A a \in Ages : a = 0 => Later(lets)[a] = 0
           /\ \A a \in Ages : a # 0 => a - 1 \in Ages /\ Later(lets)[a] = lets[a - 1]
<1>1. \A a \in Ages : a \in Nat /\ (a # 0 => a - 1 \in Ages)
  BY LimitFacts DEF Ages
<1> QED  BY <1>1 DEF Later

LEMMA LocalAges ==
    ASSUME NEW k \in Keys, NEW credit \in Nat, credit <= Full(k), NEW lets \in [Ages -> Nat],
           NEW new \in Nat, LocalPart(k, credit, lets),
           new = IF credit + LimitOf(k) <= Full(k) THEN credit + LimitOf(k) ELSE Full(k)
    PROVE  LocalPart(k, new, Later(lets))
<1> DEFINE L == LimitOf(k)
           F == Full(k)
<1>1. Window \in Nat /\ L \in Nat /\ F \in Nat /\ F >= L /\ Ages \subseteq Nat
  BY LimitFacts, FullFacts
<1>2. SUFFICES ASSUME NEW a \in Ages
               PROVE  /\ new + Window * Later(lets)[a] >= (a + 1) * L
                      /\ new + Window * Later(lets)[a] <= F + a * L
  BY <1>2 DEF LocalPart
<1>3. a \in Nat /\ a < Window /\ (a + 1) * L <= F
  <2>1. a \in Nat /\ a < Window
    BY <1>1 DEF Ages
  <2> QED  BY <2>1, FullFacts
<1>4. CASE a = 0
  <2>1. Window * Later(lets)[a] = 0 /\ (a + 1) * L = L /\ a * L = 0
    BY <1>1, <1>4, LaterIs
  <2>2. new >= L /\ new <= F
    BY <1>1
  <2> HIDE DEF L, F
  <2> QED  BY <1>1, <2>1, <2>2
<1>5. CASE a # 0
  <2>1. PICK b \in Ages : a = b + 1 /\ Later(lets)[a] = lets[b]
    <3>1. a - 1 \in Ages /\ Later(lets)[a] = lets[a - 1] /\ a = (a - 1) + 1
      BY <1>3, <1>5, LaterIs
    <3> QED  BY <3>1
  <2>2. b \in Nat /\ lets[b] \in Nat
    BY <1>1
  <2>3. PICK s \in Nat : s = Window * lets[b]
    BY <1>1, <2>2
  <2>4. PICK x \in Nat : x = b * L
    BY <1>1, <2>2
  <2>5. (b + 1) * L = x + L /\ a * L = x + L /\ (a + 1) * L = x + L + L
    <3>1. \A n, l \in Nat : (n + 1) * l = n * l + l /\ (n + 1 + 1) * l = n * l + l + l
      OBVIOUS
    <3> HIDE DEF L
    <3> QED  BY <1>1, <2>1, <2>2, <2>4, <3>1
  <2>6. credit + s >= x + L /\ credit + s <= F + x
    BY <2>3, <2>4, <2>5 DEF LocalPart
  <2>7. new = IF credit + L <= F THEN credit + L ELSE F
    OBVIOUS
  <2>8. x + L + L <= F
    BY <1>3, <2>5
  <2> HIDE DEF L, F
  <2>9. new + s >= x + L + L /\ new + s <= F + (x + L)
    BY <1>1, <2>6, <2>7, <2>8
  <2> QED  BY <2>1, <2>3, <2>5, <2>9
<1> QED  BY <1>4, <1>5

\* A call that is counted, let through when the count is within the limit; a call that
\* fails adds to the failed instead.
LEMMA SharedCounts ==
    ASSUME NEW k \in Keys, NEW c \in Nat, NEW left \in 0 .. Window,
           NEW lets \in [Ages -> Nat], NEW failed \in [Ages -> Nat],
           SharedPart(k, c, left, lets, failed), c <= LimitOf(k) + 1,
           NEW c2 \in Nat, NEW left2 \in 0 .. Window,
           NEW lets2 \in [Ages -> Nat], NEW failed2 \in [Ages -> Nat],
           left > 0 => c2 = IF c <= LimitOf(k) THEN c + 1 ELSE LimitOf(k) + 1,
           left = 0 => c2 = 1,
           left2 = IF left > 0 THEN left ELSE Window,
           \/ \A a \in Ages : /\ failed2[a] = failed[a]
                              /\ lets2[a] = lets[a] + (IF c2 <= LimitOf(k) THEN 1 ELSE 0)
           \/ \A a \in Ages : /\ lets2[a] = lets[a]
                              /\ failed2[a] = IF failed[a] + 1 <= LimitOf(k)
                                              THEN failed[a] + 1 ELSE LimitOf(k)
    PROVE  SharedPart(k, c2, left2, lets2, failed2)
<1> DEFINE L == LimitOf(k)
           m == IF c <= L THEN c ELSE L
           n == IF c2 <= L THEN c2 ELSE L
<1>1. Window \in Nat /\ Window >= 1 /\ L \in Nat /\ L >= 1 /\ Ages \subseteq Nat
  BY LimitFacts
<1>2. left2 > 0 /\ left2 \in Nat /\ c2 >= 1 /\ n \in Nat /\ n >= 1 /\ n <= L
  BY <1>1
<1>3. SUFFICES ASSUME NEW a \in Ages
               PROVE  /\ lets2[a] <= n + L - 1
                      /\ a < Window - left2 => lets2[a] <= n - 1
                      /\ a >= Window - left2 => lets2[a] + failed2[a] >= n
  BY <1>2, <1>3 DEF SharedPart
<1>4. a \in Nat /\ lets[a] \in Nat /\ failed[a] \in Nat
  BY <1>1
<1>5. CASE left = 0
  <2>1. c2 = 1 /\ n = 1 /\ left2 = Window /\ lets[a] <= L - 1
    BY <1>1, <1>5 DEF SharedPart
  <2>2. lets2[a] <= lets[a] + 1 /\ lets2[a] + failed2[a] >= 1
    BY <1>1, <1>4, <2>1
  <2> HIDE DEF L, n
  <2>3. lets2[a] \in Nat /\ failed2[a] \in Nat
    OBVIOUS
  <2> QED  BY <1>1, <1>4, <2>1, <2>2, <2>3
<1>6. CASE left > 0
  <2>1. /\ c >= 1 /\ lets[a] <= m + L - 1 /\ left2 = left
        /\ a < Window - left => lets[a] <= m - 1
        /\ a >= Window - left => lets[a] + failed[a] >= m
    BY <1>6 DEF SharedPart
  <2>2. m \in Nat /\ n >= m /\ n <= m + 1 /\ (c2 <= L => n = m + 1) /\ (c2 > L => n = m)
    BY <1>1, <1>6
  <2>3. \/ /\ failed2[a] = failed[a]
           /\ lets2[a] = lets[a] + (IF c2 <= L THEN 1 ELSE 0)
        \/ /\ lets2[a] = lets[a]
           /\ failed2[a] = IF failed[a] + 1 <= L THEN failed[a] + 1 ELSE L
    OBVIOUS
  <2>4. lets2[a] \in Nat /\ failed2[a] \in Nat
    OBVIOUS
  <2> HIDE DEF L, m, n
  <2> QED  BY <1>1, <1>2, <1>4, <2>1, <2>2, <2>3, <2>4
<1> QED  BY <1>5, <1>6

LEMMA SharedAges ==
    ASSUME NEW k \in Keys, NEW c \in Nat, NEW left \in 0 .. Window,
           NEW lets \in [Ages -> Nat], NEW failed \in [Ages -> Nat],
           SharedPart(k, c, left, lets, failed),
           NEW c2 \in Nat, NEW left2 \in 0 .. Window,
           c2 = IF left > 1 THEN c ELSE 0,
           left2 = IF left > 0 THEN left - 1 ELSE 0
    PROVE  SharedPart(k, c2, left2, Later(lets), Later(failed))
<1> DEFINE L == LimitOf(k)
           m == IF c <= L THEN c ELSE L
<1>1. Window \in Nat /\ Window >= 1 /\ L \in Nat /\ L >= 1 /\ Ages \subseteq Nat
  BY LimitFacts
<1>2. left \in Nat /\ m \in Nat /\ m <= L
  BY <1>1
<1>3. \A a \in Ages : a \in Nat /\ lets[a] \in Nat /\ a <= Window - 1
  BY <1>1 DEF Ages
<1>4. CASE left <= 1
  <2>1. c2 = 0 /\ left2 = 0
    BY <1>2, <1>4
  <2>2. ASSUME NEW a \in Ages PROVE Later(lets)[a] <= L - 1
    <3>1. CASE a = 0
      BY <1>1, <3>1, LaterIs
    <3>2. CASE a # 0
      <4>1. PICK b \in Ages : a = b + 1 /\ Later(lets)[a] = lets[b]
        <5>1. a - 1 \in Ages /\ Later(lets)[a] = lets[a - 1] /\ a = (a - 1) + 1
          BY <1>3, <3>2, LaterIs
        <5> QED  BY <5>1
      <4>2. b \in Nat /\ lets[b] \in Nat /\ b < Window - 1
        BY <1>1, <1>3, <4>1
      <4>3. left = 0 => lets[b] <= L - 1
        BY DEF SharedPart
      <4>4. left = 1 => lets[b] <= m - 1
        BY <1>1, <4>2 DEF SharedPart
      <4>5. left = 0 \/ left = 1
        BY <1>2, <1>4
      <4> HIDE DEF L, m
      <4> QED  BY <1>1, <1>2, <4>1, <4>2, <4>3, <4>4, <4>5
    <3> QED  BY <3>1, <3>2
  <2> QED  BY <1>1, <2>1, <2>2 DEF SharedPart
<1>5. CASE left > 1
  <2>1. c2 = c /\ left2 = left - 1 /\ left2 > 0 /\ c >= 1 /\ m >= 1 /\ left2 <= Window - 1
    BY <1>1, <1>2, <1>5 DEF SharedPart
  <2>2. ASSUME NEW a \in Ages
        PROVE  /\ Later(lets)[a] <= m + L - 1
               /\ a < Window - left2 => Later(lets)[a] <= m - 1
               /\ a >= Window - left2 => Later(lets)[a] + Later(failed)[a] >= m
    <3>1. CASE a = 0
      <4>1. Later(lets)[a] = 0 /\ a < Window - left2
        BY <1>1, <1>2, <2>1, <3>1, LaterIs
      <4> HIDE DEF L, m
      <4> QED  BY <1>1, <1>2, <1>3, <2>1, <4>1
    <3>2. CASE a # 0
      <4>1. PICK b \in Ages : /\ a = b + 1 /\ Later(lets)[a] = lets[b]
                              /\ Later(failed)[a] = failed[b]
        <5>1. /\ a - 1 \in Ages /\ Later(lets)[a] = lets[a - 1] /\ a = (a - 1) + 1
              /\ Later(failed)[a] = failed[a - 1]
          BY <1>3, <3>2, LaterIs
        <5> QED  BY <5>1
      <4>2. b \in Nat /\ lets[b] \in Nat /\ failed[b] \in Nat
        BY <1>1, <1>3, <4>1
      <4>3. /\ lets[b] <= m + L - 1
            /\ b < Window - left => lets[b] <= m - 1
            /\ b >= Window - left => lets[b] + failed[b] >= m
        BY <1>5 DEF SharedPart
      <4> HIDE DEF L, m
      <4> QED  BY <1>1, <1>2, <2>1, <4>1, <4>2, <4>3
    <3> QED  BY <3>1, <3>2
  <2> QED  BY <1>2, <2>1, <2>2 DEF SharedPart
<1> QED  BY <1>2, <1>4, <1>5

----------------------------------------------------------------------------
(* The steps of the limiter. *)

LEMMA IncrIs ==
    ASSUME LimiterTypes, NEW k \in Keys, Incr(k)
    PROVE  /\ count' \in [Keys -> Nat] /\ ttl' \in [Keys -> 0 .. Window]
           /\ count'[k] = Counted(k) /\ count'[k] <= LimitOf(k) + 1
           /\ ttl[k] > 0 => count'[k] = IF count[k] <= LimitOf(k) THEN count[k] + 1
                                        ELSE LimitOf(k) + 1
           /\ ttl[k] = 0 => count'[k] = 1
           /\ ttl'[k] = IF ttl[k] > 0 THEN ttl[k] ELSE Window
           /\ \A j \in Keys : j # k => count'[j] = count[j] /\ ttl'[j] = ttl[j]
<1>1. /\ Window \in Nat /\ Window >= 1 /\ LimitOf(k) \in Nat /\ LimitOf(k) >= 1
      /\ count[k] \in Nat /\ ttl[k] \in 0 .. Window /\ count[k] <= LimitOf(k) + 1
  BY LimitFacts DEF LimiterTypes
<1> DEFINE n == IF ttl[k] > 0 THEN count[k] + 1 ELSE 1
<1>2. Counted(k) = IF n <= LimitOf(k) + 1 THEN n ELSE LimitOf(k) + 1
  <2>1. n \in Int /\ LimitOf(k) + 1 \in Int
    BY <1>1
  <2> HIDE DEF n
  <2>2. Min({n, LimitOf(k) + 1}) = IF n <= LimitOf(k) + 1 THEN n ELSE LimitOf(k) + 1
    BY <2>1, MinIs
  <2> QED  BY <2>2 DEF Counted, n
<1>3. /\ Counted(k) \in Nat /\ Counted(k) <= LimitOf(k) + 1
      /\ ttl[k] > 0 => Counted(k) = IF count[k] <= LimitOf(k) THEN count[k] + 1
                                    ELSE LimitOf(k) + 1
      /\ ttl[k] = 0 => Counted(k) = 1
  BY <1>1, <1>2
<1>4. PICK new \in Nat : new = Counted(k)
  BY <1>3
<1>5. count' = [count EXCEPT ![k] = new]
  BY <1>4 DEF Incr
<1>6. PICK left \in 0 .. Window : left = IF ttl[k] > 0 THEN ttl[k] ELSE Window
  BY <1>1
<1>7. ttl' = [ttl EXCEPT ![k] = left]
  BY <1>6 DEF Incr
<1>8. count \in [Keys -> Nat] /\ ttl \in [Keys -> 0 .. Window]
  BY DEF LimiterTypes
<1>9. /\ count' \in [Keys -> Nat] /\ count'[k] = new
      /\ \A j \in Keys : j # k => count'[j] = count[j]
  BY <1>5, <1>8
<1>10. /\ ttl' \in [Keys -> 0 .. Window] /\ ttl'[k] = left
       /\ \A j \in Keys : j # k => ttl'[j] = ttl[j]
  BY <1>7, <1>8
<1> QED  BY <1>3, <1>4, <1>6, <1>9, <1>10

LEMMA TallyIs ==
    ASSUME LimiterTypes, NEW p \in Paths, NEW k \in Keys, NEW n \in {0, 1}, Tally(p, k, n)
    PROVE  /\ recent' \in [Paths -> [Keys -> [Ages -> Nat]]]
           /\ \A a \in Ages : recent'[p][k][a] = recent[p][k][a] + n
           /\ \A q \in Paths, j \in Keys : q # p \/ j # k => recent'[q][j] = recent[q][j]
<1>1. recent \in [Paths -> [Keys -> [Ages -> Nat]]]
  BY DEF LimiterTypes
<1>2. PICK new : new = [a \in Ages |-> recent[p][k][a] + n]
  OBVIOUS
<1>3. new \in [Ages -> Nat]
  <2>1. \A a \in Ages : recent[p][k][a] + n \in Nat
    BY <1>1
  <2> QED  BY <1>2, <2>1
<1>4. recent' = [recent EXCEPT ![p][k] = new]
  BY <1>2 DEF Tally
<1>5. /\ recent' \in [Paths -> [Keys -> [Ages -> Nat]]] /\ recent'[p][k] = new
      /\ \A q \in Paths, j \in Keys : q # p \/ j # k => recent'[q][j] = recent[q][j]
  BY <1>1, <1>3, <1>4
<1> QED  BY <1>2, <1>5

LEMMA ProceedIs ==
    ASSUME LimiterTypes, NEW r \in Replicas, stage[r] # <<>>, NEW n \in {0, 1},
           Proceed(r, n = 1)
    PROVE  stage' \in [Replicas -> Seq(Keys)] /\ Head(stage[r]) \in Keys
<1>1. stage \in [Replicas -> Seq(Keys)] /\ stage[r] \in Seq(Keys)
  BY DEF LimiterTypes
<1>2. Tail(stage[r]) \in Seq(Keys) /\ <<>> \in Seq(Keys) /\ Head(stage[r]) \in Keys
  BY <1>1
<1>3. PICK rest \in Seq(Keys) : rest = IF n = 1 THEN Tail(stage[r]) ELSE <<>>
  BY <1>2
<1>4. stage' = [stage EXCEPT ![r] = rest]
  BY <1>3 DEF Proceed
<1> QED  BY <1>1, <1>2, <1>4

LEMMA AllowSharedInv ==
    ASSUME LimiterInv, NEW r \in Replicas, AllowShared(r)
    PROVE  LimiterInv'
<1>1. LimiterTypes /\ Shared \in Paths /\ Shared \notin Replicas /\ Replicas \subseteq Paths
  BY LimitFacts DEF LimiterInv
<1>2. stage[r] # <<>> /\ UNCHANGED <<bucket, sinceSweep, unswept, unsure>>
  BY DEF AllowShared
<1>3. PICK k : k = Head(stage[r])
  OBVIOUS
<1>4. PICK n \in {0, 1} : n = IF Counted(k) <= LimitOf(k) THEN 1 ELSE 0
  OBVIOUS
<1>5. n = 1 <=> Counted(k) <= LimitOf(k)
  BY <1>4
<1>6. Incr(k) /\ Proceed(r, n = 1) /\ Tally(Shared, k, n)
  <2>1. /\ Incr(k) /\ Proceed(r, Counted(k) <= LimitOf(k))
        /\ Tally(Shared, k, IF Counted(k) <= LimitOf(k) THEN 1 ELSE 0)
    BY <1>3, Zenon DEF AllowShared
  <2>2. Tally(Shared, k, n)
    BY <1>4, <2>1
  <2>3. Proceed(r, n = 1)
    BY <1>5, <2>1 DEF Proceed
  <2> QED  BY <2>1, <2>2, <2>3
<1>7. k \in Keys /\ stage' \in [Replicas -> Seq(Keys)]
  BY <1>1, <1>2, <1>3, <1>6, ProceedIs
<1>8. /\ recent' \in [Paths -> [Keys -> [Ages -> Nat]]]
      /\ \A a \in Ages : recent'[Shared][k][a] = recent[Shared][k][a] + n
      /\ \A q \in Paths, j \in Keys : q # Shared \/ j # k => recent'[q][j] = recent[q][j]
  BY <1>1, <1>6, <1>7, TallyIs
<1>9. /\ count' \in [Keys -> Nat] /\ ttl' \in [Keys -> 0 .. Window]
      /\ count'[k] = Counted(k) /\ count'[k] <= LimitOf(k) + 1
      /\ ttl[k] > 0 => count'[k] = IF count[k] <= LimitOf(k) THEN count[k] + 1
                                   ELSE LimitOf(k) + 1
      /\ ttl[k] = 0 => count'[k] = 1
      /\ ttl'[k] = IF ttl[k] > 0 THEN ttl[k] ELSE Window
      /\ \A j \in Keys : j # k => count'[j] = count[j] /\ ttl'[j] = ttl[j]
  BY <1>1, <1>6, <1>7, IncrIs
<1>10. LimiterTypes'
  <2>1. \A j \in Keys : count'[j] <= LimitOf(j) + 1
    BY <1>1, <1>9 DEF LimiterTypes
  <2> QED  BY <1>1, <1>2, <1>7, <1>8, <1>9, <2>1 DEF LimiterTypes
<1>11. EvictionForgetsNothing'
  BY <1>2 DEF LimiterInv, EvictionForgetsNothing
<1>12. \A q \in Replicas, j \in Keys : LocalPart(j, unswept'[q][j], recent'[q][j])
  BY <1>1, <1>2, <1>8 DEF LimiterInv
<1>13. ASSUME NEW j \in Keys
       PROVE  SharedPart(j, count'[j], ttl'[j], recent'[Shared][j], unsure'[j])
  <2>1. SharedPart(j, count[j], ttl[j], recent[Shared][j], unsure[j])
    BY DEF LimiterInv
  <2>2. CASE j # k
    BY <1>1, <1>2, <1>8, <1>9, <2>1, <2>2
  <2>3. CASE j = k
    <3>1. \A a \in Ages :
            /\ unsure'[k][a] = unsure[k][a]
            /\ recent'[Shared][k][a] =
                 recent[Shared][k][a] + (IF count'[k] <= LimitOf(k) THEN 1 ELSE 0)
      BY <1>2, <1>4, <1>8, <1>9
    <3>2. /\ count[k] \in Nat /\ ttl[k] \in 0 .. Window /\ count[k] <= LimitOf(k) + 1
          /\ recent[Shared][k] \in [Ages -> Nat] /\ unsure[k] \in [Ages -> Nat]
          /\ count'[k] \in Nat /\ ttl'[k] \in 0 .. Window
          /\ recent'[Shared][k] \in [Ages -> Nat] /\ unsure'[k] \in [Ages -> Nat]
      BY <1>1, <1>7, <1>10, SMTT(40) DEF LimiterTypes
    <3>3. SharedPart(k, count[k], ttl[k], recent[Shared][k], unsure[k])
      BY <2>1, <2>3
    <3>4. SharedPart(k, count'[k], ttl'[k], recent'[Shared][k], unsure'[k])
      <4>1. PICK c \in Nat, left \in 0 .. Window, lets \in [Ages -> Nat],
                 failed \in [Ages -> Nat] :
              /\ c = count[k] /\ left = ttl[k]
              /\ lets = recent[Shared][k] /\ failed = unsure[k]
        BY <3>2
      <4>2. PICK c2 \in Nat, left2 \in 0 .. Window, lets2 \in [Ages -> Nat] :
              c2 = count'[k] /\ left2 = ttl'[k] /\ lets2 = recent'[Shared][k]
        BY <3>2
      <4>3. /\ SharedPart(k, c, left, lets, failed) /\ c <= LimitOf(k) + 1
            /\ left > 0 => c2 = IF c <= LimitOf(k) THEN c + 1 ELSE LimitOf(k) + 1
            /\ left = 0 => c2 = 1
            /\ left2 = IF left > 0 THEN left ELSE Window
            /\ \A a \in Ages : /\ failed[a] = failed[a]
                               /\ lets2[a] = lets[a] + (IF c2 <= LimitOf(k) THEN 1 ELSE 0)
        BY <1>9, <3>1, <3>2, <3>3, <4>1, <4>2
      <4>4. SharedPart(k, c2, left2, lets2, failed)
        BY <1>7, <4>3, SharedCounts, ZenonT(60)
      <4> QED  BY <1>2, <4>1, <4>2, <4>4
    <3> QED  BY <2>3, <3>4
  <2> QED  BY <2>2, <2>3
<1> QED  BY <1>10, <1>11, <1>12, <1>13 DEF LimiterInv

\* What a call leaves of the replica's buckets, those it swept included.
RowLeft(r, k, gone, found) ==
    [j \in Keys |->
        IF j = k THEN [age |-> 0, credit |-> Spend(k, Credit(k, found))]
        ELSE IF j \in gone THEN NoBucket ELSE bucket[r][j]]

LEMMA LocalBuckets ==
    ASSUME LimiterTypes, EvictionForgetsNothing, NEW r \in Replicas, NEW k \in Keys,
           NEW gone, gone = Swept(r, GroupOf[k]),
           NEW found, found = IF k \in gone THEN NoBucket ELSE bucket[r][k],
           bucket' = [bucket EXCEPT ![r] = RowLeft(r, k, gone, found)],
           unswept' = [unswept EXCEPT ![r][k] = Spend(k, @)]
    PROVE  /\ HasToken(k, found) <=> unswept[r][k] >= Window
           /\ bucket' \in [Replicas -> [Keys -> Bucket \cup {NoBucket}]]
           /\ unswept' \in [Replicas -> [Keys -> Nat]]
           /\ unswept'[r][k] = Spend(k, unswept[r][k]) /\ unswept'[r][k] <= unswept[r][k]
           /\ \A q \in Replicas, j \in Keys : q # r \/ j # k => unswept'[q][j] = unswept[q][j]
           /\ EvictionForgetsNothing'
<1>1. /\ bucket \in [Replicas -> [Keys -> Bucket \cup {NoBucket}]]
      /\ unswept \in [Replicas -> [Keys -> Nat]] /\ unswept[r][k] <= Full(k)
      /\ Full(k) \in Nat
  BY FullFacts DEF LimiterTypes
<1>2. \A j \in Keys : j \in gone => Credit(j, bucket[r][j]) = Full(j)
  <2>1. \A j \in Keys : j \in gone => Idle(bucket[r][j])
    BY DEF Swept
  <2> QED  BY <1>1, <2>1, IdleIsFull
<1>3. \A j \in Keys : Credit(j, NoBucket) = Full(j)
  BY DEF Credit
<1>4. Credit(k, found) = unswept[r][k]
  <2>1. CASE k \in gone
    BY <1>2, <1>3, <2>1 DEF EvictionForgetsNothing
  <2>2. CASE k \notin gone
    BY <2>2 DEF EvictionForgetsNothing
  <2> QED  BY <2>1, <2>2
<1>5. PICK u \in Nat : u = unswept[r][k]
  BY <1>1
<1>6. PICK left : left = Spend(k, u)
  OBVIOUS
<1>7. PICK b : b = [age |-> 0, credit |-> left]
  OBVIOUS
<1>8. /\ left \in Nat /\ left <= u /\ b \in Bucket /\ Credit(k, b) = left
  BY <1>1, <1>5, <1>6, <1>7, SpendIs
<1>9. PICK row : row = [j \in Keys |->
         IF j = k THEN b ELSE IF j \in gone THEN NoBucket ELSE bucket[r][j]]
  OBVIOUS
<1>10. bucket' = [bucket EXCEPT ![r] = row]
  BY <1>4, <1>5, <1>6, <1>7, <1>9 DEF RowLeft
<1>11. /\ row \in [Keys -> Bucket \cup {NoBucket}] /\ row[k] = b
       /\ \A j \in Keys : j # k => row[j] = IF j \in gone THEN NoBucket ELSE bucket[r][j]
  BY <1>1, <1>8, <1>9
<1>12. /\ bucket' \in [Replicas -> [Keys -> Bucket \cup {NoBucket}]] /\ bucket'[r] = row
       /\ \A q \in Replicas : q # r => bucket'[q] = bucket[q]
  BY <1>1, <1>10, <1>11
<1>13. unswept' = [unswept EXCEPT ![r][k] = left]
  BY <1>1, <1>5, <1>6
<1>14. /\ unswept' \in [Replicas -> [Keys -> Nat]] /\ unswept'[r][k] = left
       /\ \A q \in Replicas, j \in Keys : q # r \/ j # k => unswept'[q][j] = unswept[q][j]
  BY <1>1, <1>8, <1>13
<1>15. ASSUME NEW q \in Replicas, NEW j \in Keys
       PROVE  Credit(j, bucket'[q][j]) = unswept'[q][j]
  <2>0. Credit(j, bucket[q][j]) = unswept[q][j]
    BY DEF EvictionForgetsNothing
  <2>1. CASE q # r
    BY <1>12, <1>14, <2>0, <2>1
  <2>2. CASE q = r /\ j = k
    BY <1>8, <1>11, <1>12, <1>14, <2>2
  <2>3. CASE q = r /\ j # k
    <3>1. unswept'[q][j] = unswept[q][j]
      BY <1>14, <2>3
    <3>2. bucket'[q][j] = IF j \in gone THEN NoBucket ELSE bucket[q][j]
      BY <1>11, <1>12, <2>3
    <3>3. CASE j \in gone
      <4>1. Credit(j, bucket[q][j]) = Full(j) /\ Credit(j, NoBucket) = Full(j)
        BY <1>2, <1>3, <2>3, <3>3
      <4>2. bucket'[q][j] = NoBucket
        BY <3>2, <3>3
      <4> QED  BY <2>0, <3>1, <4>1, <4>2
    <3>4. CASE j \notin gone
      <4>1. bucket'[q][j] = bucket[q][j]
        BY <3>2, <3>4
      <4> QED  BY <2>0, <3>1, <4>1
    <3> QED  BY <3>3, <3>4
  <2> QED  BY <2>1, <2>2, <2>3
<1>16. EvictionForgetsNothing'
  BY <1>15 DEF EvictionForgetsNothing, Credit
<1>17. HasToken(k, found) <=> unswept[r][k] >= Window
  BY <1>4 DEF HasToken
<1> QED  BY <1>5, <1>6, <1>8, <1>12, <1>14, <1>16, <1>17

\* The call that failed may have been counted: what it does to the shared path.
LEMMA FailedCall ==
    ASSUME LimiterInv, NEW k \in Keys,
           \/ Incr(k) /\ TallyUnsure(k)
           \/ UNCHANGED <<count, ttl, unsure>>,
           \A j \in Keys : recent'[Shared][j] = recent[Shared][j]
    PROVE  /\ count' \in [Keys -> Nat] /\ ttl' \in [Keys -> 0 .. Window]
           /\ \A j \in Keys : count'[j] <= LimitOf(j) + 1
           /\ unsure' \in [Keys -> [Ages -> Nat]]
           /\ \A j \in Keys :
                SharedPart(j, count'[j], ttl'[j], recent'[Shared][j], unsure'[j])
<1>1. LimiterTypes /\ Shared \in Paths
  BY LimitFacts DEF LimiterInv
<1>2. CASE UNCHANGED <<count, ttl, unsure>>
  BY <1>1, <1>2 DEF LimiterInv, LimiterTypes
<1>3. CASE Incr(k) /\ TallyUnsure(k)
  <2>1. /\ count' \in [Keys -> Nat] /\ ttl' \in [Keys -> 0 .. Window]
        /\ count'[k] <= LimitOf(k) + 1
        /\ ttl[k] > 0 => count'[k] = IF count[k] <= LimitOf(k) THEN count[k] + 1
                                     ELSE LimitOf(k) + 1
        /\ ttl[k] = 0 => count'[k] = 1
        /\ ttl'[k] = IF ttl[k] > 0 THEN ttl[k] ELSE Window
        /\ \A j \in Keys : j # k => count'[j] = count[j] /\ ttl'[j] = ttl[j]
    BY <1>1, <1>3, IncrIs
  <2>2. unsure \in [Keys -> [Ages -> Nat]] /\ LimitOf(k) \in Nat
    BY <1>1, LimitFacts DEF LimiterTypes
  <2>3. \A a \in Ages : Min({unsure[k][a] + 1, LimitOf(k)}) =
          IF unsure[k][a] + 1 <= LimitOf(k) THEN unsure[k][a] + 1 ELSE LimitOf(k)
    <3>1. \A a \in Ages : unsure[k][a] + 1 \in Int /\ LimitOf(k) \in Int
      BY <2>2
    <3> QED  BY <3>1, MinIs
  <2>4. PICK new : new = [a \in Ages |-> Min({unsure[k][a] + 1, LimitOf(k)})]
    OBVIOUS
  <2>5. /\ new \in [Ages -> Nat]
        /\ \A a \in Ages : new[a] = IF unsure[k][a] + 1 <= LimitOf(k) THEN unsure[k][a] + 1
                                    ELSE LimitOf(k)
    BY <2>2, <2>3, <2>4
  <2>6. unsure' = [unsure EXCEPT ![k] = new]
    BY <1>3, <2>4 DEF TallyUnsure
  <2>7. /\ unsure' \in [Keys -> [Ages -> Nat]] /\ unsure'[k] = new
        /\ \A j \in Keys : j # k => unsure'[j] = unsure[j]
    BY <2>2, <2>5, <2>6
  <2>8. \A j \in Keys : count'[j] <= LimitOf(j) + 1
    BY <1>1, <2>1 DEF LimiterTypes
  <2>9. SharedPart(k, count'[k], ttl'[k], recent'[Shared][k], unsure'[k])
    <3>1. PICK c \in Nat, left \in 0 .. Window, lets \in [Ages -> Nat],
               failed \in [Ages -> Nat] :
            /\ c = count[k] /\ left = ttl[k]
            /\ lets = recent[Shared][k] /\ failed = unsure[k]
      <4>1. /\ count[k] \in Nat /\ ttl[k] \in 0 .. Window
            /\ recent[Shared][k] \in [Ages -> Nat] /\ unsure[k] \in [Ages -> Nat]
        BY <1>1 DEF LimiterTypes
      <4> QED  BY <4>1
    <3>2. PICK c2 \in Nat, left2 \in 0 .. Window, failed2 \in [Ages -> Nat] :
            c2 = count'[k] /\ left2 = ttl'[k] /\ failed2 = unsure'[k]
      BY <2>1, <2>7
    <3>3. /\ SharedPart(k, c, left, lets, failed) /\ c <= LimitOf(k) + 1
          /\ left > 0 => c2 = IF c <= LimitOf(k) THEN c + 1 ELSE LimitOf(k) + 1
          /\ left = 0 => c2 = 1
          /\ left2 = IF left > 0 THEN left ELSE Window
          /\ \A a \in Ages : /\ lets[a] = lets[a]
                             /\ failed2[a] = IF failed[a] + 1 <= LimitOf(k)
                                             THEN failed[a] + 1 ELSE LimitOf(k)
      BY <1>1, <2>1, <2>5, <2>7, <3>1, <3>2 DEF LimiterInv, LimiterTypes
    <3>4. SharedPart(k, c2, left2, lets, failed2)
      BY <3>3, SharedCounts, SMTT(40)
    <3> QED  BY <3>1, <3>2, <3>4
  <2>10. \A j \in Keys : j # k =>
           SharedPart(j, count'[j], ttl'[j], recent'[Shared][j], unsure'[j])
    BY <2>1, <2>7 DEF LimiterInv
  <2> QED  BY <2>1, <2>7, <2>8, <2>9, <2>10
<1> QED  BY <1>2, <1>3

LEMMA AllowLocalInv ==
    ASSUME LimiterInv, NEW r \in Replicas, AllowLocal(r)
    PROVE  LimiterInv'
<1>1. /\ LimiterTypes /\ EvictionForgetsNothing
      /\ Shared \in Paths /\ Shared \notin Replicas /\ Replicas \subseteq Paths
  BY LimitFacts DEF LimiterInv
<1>2. PICK k : k = Head(stage[r])
  OBVIOUS
<1>3. PICK g : g = GroupOf[k]
  OBVIOUS
<1>4. PICK gone : gone = Swept(r, g)
  OBVIOUS
<1>5. PICK found : found = IF k \in gone THEN NoBucket ELSE bucket[r][k]
  OBVIOUS
<1>6. PICK let \in {0, 1} : let = IF HasToken(k, found) THEN 1 ELSE 0
  OBVIOUS
<1>7. /\ stage[r] # <<>>
      /\ \/ Incr(k) /\ TallyUnsure(k)
         \/ UNCHANGED <<count, ttl, unsure>>
      /\ Tally(r, k, let)
      /\ bucket' = [bucket EXCEPT ![r] = RowLeft(r, k, gone, found)]
      /\ sinceSweep' = [sinceSweep EXCEPT ![r][g] = IF @ < SweepEvery THEN @ ELSE 0]
      /\ unswept' = [unswept EXCEPT ![r][k] = Spend(k, @)]
      /\ Proceed(r, let = 1)
  BY <1>2, <1>3, <1>4, <1>5, <1>6, Zenon DEF AllowLocal, RowLeft
<1>8. k \in Keys /\ stage' \in [Replicas -> Seq(Keys)]
  BY <1>1, <1>2, <1>7, ProceedIs
<1>9. /\ recent' \in [Paths -> [Keys -> [Ages -> Nat]]]
      /\ \A a \in Ages : recent'[r][k][a] = recent[r][k][a] + let
      /\ \A q \in Paths, j \in Keys : q # r \/ j # k => recent'[q][j] = recent[q][j]
  BY <1>1, <1>7, <1>8, TallyIs
<1>10. \A j \in Keys : recent'[Shared][j] = recent[Shared][j]
  BY <1>1, <1>9
<1>11. /\ count' \in [Keys -> Nat] /\ ttl' \in [Keys -> 0 .. Window]
       /\ \A j \in Keys : count'[j] <= LimitOf(j) + 1
       /\ unsure' \in [Keys -> [Ages -> Nat]]
       /\ \A j \in Keys : SharedPart(j, count'[j], ttl'[j], recent'[Shared][j], unsure'[j])
  BY <1>7, <1>8, <1>10, FailedCall
<1>12. /\ HasToken(k, found) <=> unswept[r][k] >= Window
       /\ bucket' \in [Replicas -> [Keys -> Bucket \cup {NoBucket}]]
       /\ unswept' \in [Replicas -> [Keys -> Nat]]
       /\ unswept'[r][k] = Spend(k, unswept[r][k]) /\ unswept'[r][k] <= unswept[r][k]
       /\ \A q \in Replicas, j \in Keys : q # r \/ j # k => unswept'[q][j] = unswept[q][j]
       /\ EvictionForgetsNothing'
  <2>1. gone = Swept(r, GroupOf[k])
    BY <1>3, <1>4
  <2>2. LimiterTypes /\ EvictionForgetsNothing /\ r \in Replicas /\ k \in Keys
    BY <1>1, <1>8
  <2>3. unswept' = [unswept EXCEPT ![r][k] = Spend(k, @)]
    BY <1>7
  <2>4. bucket' = [bucket EXCEPT ![r] = RowLeft(r, k, gone, found)]
    BY <1>7
  <2>5. EvictionForgetsNothing'
    BY <1>5, <2>1, <2>2, <2>3, <2>4, LocalBuckets
  <2>6. /\ HasToken(k, found) <=> unswept[r][k] >= Window
        /\ unswept'[r][k] = Spend(k, unswept[r][k]) /\ unswept'[r][k] <= unswept[r][k]
    BY <1>5, <2>1, <2>2, <2>3, <2>4, LocalBuckets
  <2>7. bucket' \in [Replicas -> [Keys -> Bucket \cup {NoBucket}]]
    BY <1>5, <2>1, <2>2, <2>3, <2>4, LocalBuckets
  <2>8. unswept' \in [Replicas -> [Keys -> Nat]]
    BY <1>5, <2>1, <2>2, <2>3, <2>4, LocalBuckets
  <2>9. \A q \in Replicas, j \in Keys : q # r \/ j # k => unswept'[q][j] = unswept[q][j]
    BY <1>5, <2>1, <2>2, <2>3, <2>4, LocalBuckets
  <2> QED  BY <2>5, <2>6, <2>7, <2>8, <2>9
<1>13. sinceSweep' \in [Replicas -> [Groups -> Nat]]
  <2>1. g \in Groups /\ sinceSweep \in [Replicas -> [Groups -> Nat]]
    BY <1>1, <1>3, <1>8, LimitFacts DEF LimiterTypes
  <2>2. PICK n \in Nat : n = IF sinceSweep[r][g] < SweepEvery THEN sinceSweep[r][g] ELSE 0
    BY <2>1
  <2>3. sinceSweep' = [sinceSweep EXCEPT ![r][g] = n]
    BY <1>7, <2>1, <2>2
  <2> QED  BY <2>1, <2>2, <2>3
<1>14. \A q \in Replicas, j \in Keys : unswept'[q][j] <= Full(j)
  <2> SUFFICES ASSUME NEW q \in Replicas, NEW j \in Keys PROVE unswept'[q][j] <= Full(j)
    OBVIOUS
  <2>1. /\ unswept[q][j] <= Full(j) /\ unswept[q][j] \in Nat /\ Full(j) \in Nat
        /\ unswept'[q][j] \in Nat
    BY <1>1, <1>12, FullFacts DEF LimiterTypes
  <2>2. unswept'[q][j] <= unswept[q][j]
    BY <1>12, <2>1
  <2> QED  BY <2>1, <2>2
<1>15. LimiterTypes'
  BY <1>8, <1>9, <1>11, <1>12, <1>13, <1>14 DEF LimiterTypes, LimitOf, Full
<1>16. ASSUME NEW q \in Replicas, NEW j \in Keys
       PROVE  LocalPart(j, unswept'[q][j], recent'[q][j])
  <2>1. LocalPart(j, unswept[q][j], recent[q][j])
    BY DEF LimiterInv
  <2>2. CASE q # r \/ j # k
    BY <1>1, <1>9, <1>12, <2>1, <2>2
  <2>3. CASE q = r /\ j = k
    <3>1. PICK u \in Nat, lets \in [Ages -> Nat], more \in [Ages -> Nat] :
            u = unswept[r][k] /\ lets = recent[r][k] /\ more = recent'[r][k]
      <4>1. /\ unswept[r][k] \in Nat /\ recent[r][k] \in [Ages -> Nat]
            /\ recent'[r][k] \in [Ages -> Nat]
        BY <1>1, <1>8, <1>9 DEF LimiterTypes
      <4> QED  BY <4>1
    <3>2. \A a \in Ages : more[a] = lets[a] + (IF u >= Window THEN 1 ELSE 0)
      BY <1>6, <1>9, <1>12, <3>1
    <3>3. LocalPart(k, u, lets)
      BY <2>1, <2>3, <3>1
    <3>4. LocalPart(k, Spend(k, u), more)
      BY <1>8, <3>2, <3>3, LocalSpends
    <3> QED  BY <1>12, <2>3, <3>1, <3>4
  <2> QED  BY <2>2, <2>3
<1> QED  BY <1>11, <1>12, <1>15, <1>16 DEF LimiterInv

LEMMA LimiterTickInv ==
    ASSUME LimiterInv, Tick
    PROVE  LimiterInv'
<1>1. LimiterTypes /\ EvictionForgetsNothing /\ Shared \in Paths /\ Replicas \subseteq Paths
  BY LimitFacts DEF LimiterInv
<1>2. Window \in Nat /\ Window >= 1 /\ SweepEvery \in Nat
  BY LimitFacts
<1>3. /\ ttl' \in [Keys -> 0 .. Window]
      /\ \A k \in Keys : ttl'[k] = IF ttl[k] > 0 THEN ttl[k] - 1 ELSE 0
  <2>1. \A k \in Keys : ttl[k] \in 0 .. Window
    BY <1>1 DEF LimiterTypes
  <2>2. \A k \in Keys : Max({ttl[k] - 1, 0}) = IF ttl[k] > 0 THEN ttl[k] - 1 ELSE 0
    <3> SUFFICES ASSUME NEW k \in Keys
                 PROVE  Max({ttl[k] - 1, 0}) = IF ttl[k] > 0 THEN ttl[k] - 1 ELSE 0
      OBVIOUS
    <3>1. ttl[k] - 1 \in Int /\ ttl[k] \in Int
      BY <1>2, <2>1
    <3>2. Max({ttl[k] - 1, 0}) = IF ttl[k] - 1 >= 0 THEN ttl[k] - 1 ELSE 0
      BY <3>1, MaxIs
    <3> QED  BY <3>1, <3>2
  <2>3. ttl' = [k \in Keys |-> Max({ttl[k] - 1, 0})]
    BY DEF Tick
  <2>4. \A k \in Keys : (IF ttl[k] > 0 THEN ttl[k] - 1 ELSE 0) \in 0 .. Window
    BY <1>2, <2>1
  <2>5. \A k \in Keys : Max({ttl[k] - 1, 0}) \in 0 .. Window
    BY <2>2, <2>4
  <2> QED  BY <2>2, <2>3, <2>5
<1>4. /\ count' \in [Keys -> Nat]
      /\ \A k \in Keys : count'[k] = IF ttl[k] > 1 THEN count[k] ELSE 0
      /\ \A k \in Keys : count'[k] <= LimitOf(k) + 1
  <2>1. count' = [k \in Keys |-> IF ttl[k] > 1 THEN count[k] ELSE 0]
    BY DEF Tick
  <2>2. \A k \in Keys : count[k] \in Nat /\ count[k] <= LimitOf(k) + 1 /\ LimitOf(k) \in Nat
    BY <1>1, LimitFacts DEF LimiterTypes
  <2> QED  BY <2>1, <2>2
<1>5. ASSUME NEW r \in Replicas, NEW k \in Keys
      PROVE  /\ unswept[r][k] \in Nat /\ unswept[r][k] <= Full(k) /\ Full(k) \in Nat
             /\ Min({unswept[r][k] + LimitOf(k), Full(k)}) =
                  IF unswept[r][k] + LimitOf(k) <= Full(k) THEN unswept[r][k] + LimitOf(k)
                  ELSE Full(k)
             /\ Min({unswept[r][k] + LimitOf(k), Full(k)}) \in Nat
             /\ Min({unswept[r][k] + LimitOf(k), Full(k)}) <= Full(k)
  <2>1. /\ unswept[r][k] \in Nat /\ unswept[r][k] <= Full(k) /\ Full(k) \in Nat
        /\ LimitOf(k) \in Nat
    BY <1>1, LimitFacts, FullFacts DEF LimiterTypes
  <2>2. unswept[r][k] + LimitOf(k) \in Int /\ Full(k) \in Int
    BY <2>1
  <2>3. Min({unswept[r][k] + LimitOf(k), Full(k)}) =
          IF unswept[r][k] + LimitOf(k) <= Full(k) THEN unswept[r][k] + LimitOf(k) ELSE Full(k)
    BY <2>2, MinIs
  <2> QED  BY <2>1, <2>3
<1>6. unswept' = [r \in Replicas |-> [k \in Keys |->
                    Min({unswept[r][k] + LimitOf(k), Full(k)})]]
  BY DEF Tick
<1>7. /\ unswept' \in [Replicas -> [Keys -> Nat]]
      /\ \A r \in Replicas, k \in Keys :
          /\ unswept'[r][k] <= Full(k)
          /\ unswept'[r][k] = IF unswept[r][k] + LimitOf(k) <= Full(k)
                              THEN unswept[r][k] + LimitOf(k) ELSE Full(k)
  BY <1>5, <1>6
<1>8. ASSUME NEW r \in Replicas, NEW k \in Keys
      PROVE  /\ bucket'[r][k] \in Bucket \cup {NoBucket}
             /\ Credit(k, bucket'[r][k]) = unswept'[r][k]
  <2>1. /\ bucket[r][k] \in Bucket \cup {NoBucket} /\ Credit(k, bucket[r][k]) = unswept[r][k]
    BY <1>1 DEF LimiterTypes, EvictionForgetsNothing
  <2>2. bucket'[r][k] = IF bucket[r][k] = NoBucket THEN NoBucket
                        ELSE [bucket[r][k] EXCEPT !.age = Min({@ + 1, Window})]
    BY DEF Tick
  <2>3. CASE bucket[r][k] = NoBucket
    <3>1. Credit(k, NoBucket) = Full(k) /\ LimitOf(k) >= 1 /\ LimitOf(k) \in Nat /\ Full(k) \in Nat
      BY LimitFacts, FullFacts DEF Credit
    <3>2. bucket'[r][k] = NoBucket
      BY <2>2, <2>3
    <3>3. unswept[r][k] = Full(k)
      BY <2>1, <2>3, <3>1
    <3>4. unswept'[r][k] = Full(k)
      BY <1>7, <3>1, <3>3
    <3> QED  BY <3>1, <3>2, <3>4
  <2>4. CASE bucket[r][k] # NoBucket
    <3>1. PICK b \in Bucket : b = bucket[r][k]
      BY <2>1, <2>4
    <3>2. PICK older : older = [b EXCEPT !.age = Min({@ + 1, Window})]
      OBVIOUS
    <3>3. /\ older \in Bucket
          /\ Credit(k, older) = IF Credit(k, b) + LimitOf(k) <= Full(k)
                                THEN Credit(k, b) + LimitOf(k) ELSE Full(k)
      BY <3>2, CreditAges
    <3>4. bucket'[r][k] = older
      BY <2>2, <2>4, <3>1, <3>2
    <3>5. Credit(k, b) = unswept[r][k]
      BY <2>1, <3>1
    <3> QED  BY <1>7, <3>3, <3>4, <3>5
  <2> QED  BY <2>3, <2>4
<1>9. bucket' \in [Replicas -> [Keys -> Bucket \cup {NoBucket}]]
  <2>1. bucket' = [r \in Replicas |-> [k \in Keys |-> bucket'[r][k]]]
    BY Zenon DEF Tick
  <2>2. PICK new : new = bucket'
    OBVIOUS
  <2>3. new = [r \in Replicas |-> [k \in Keys |-> new[r][k]]]
    BY <2>1, <2>2
  <2>4. \A r \in Replicas, k \in Keys : new[r][k] \in Bucket \cup {NoBucket}
    BY <1>8, <2>2
  <2>5. new \in [Replicas -> [Keys -> Bucket \cup {NoBucket}]]
    BY <2>3, <2>4
  <2> QED  BY <2>2, <2>5
<1>10. EvictionForgetsNothing'
  BY <1>8 DEF EvictionForgetsNothing, Credit, Full, LimitOf
<1>11. /\ recent' \in [Paths -> [Keys -> [Ages -> Nat]]]
       /\ unsure' \in [Keys -> [Ages -> Nat]]
       /\ \A p \in Paths, k \in Keys : recent'[p][k] = Later(recent[p][k])
       /\ \A k \in Keys : unsure'[k] = Later(unsure[k])
  <2>1. /\ \A p \in Paths, k \in Keys : recent[p][k] \in [Ages -> Nat]
        /\ \A k \in Keys : unsure[k] \in [Ages -> Nat]
    BY <1>1 DEF LimiterTypes
  <2>2. /\ \A p \in Paths, k \in Keys : Later(recent[p][k]) \in [Ages -> Nat]
        /\ \A k \in Keys : Later(unsure[k]) \in [Ages -> Nat]
    BY <2>1, LaterIs
  <2>3. /\ recent' = [p \in Paths |-> [k \in Keys |-> Later(recent[p][k])]]
        /\ unsure' = [k \in Keys |-> Later(unsure[k])]
    BY DEF Tick
  <2> QED  BY <2>2, <2>3
<1>12. sinceSweep' \in [Replicas -> [Groups -> Nat]] /\ UNCHANGED stage
  <2>1. \A r \in Replicas, g \in Groups : Min({sinceSweep[r][g] + 1, SweepEvery}) \in Nat
    <3> SUFFICES ASSUME NEW r \in Replicas, NEW g \in Groups
                 PROVE  Min({sinceSweep[r][g] + 1, SweepEvery}) \in Nat
      OBVIOUS
    <3>1. sinceSweep[r][g] + 1 \in Nat
      BY <1>1 DEF LimiterTypes
    <3>2. Min({sinceSweep[r][g] + 1, SweepEvery}) \in {sinceSweep[r][g] + 1, SweepEvery}
      BY <1>2, <3>1, MinIs
    <3> QED  BY <1>2, <3>1, <3>2
  <2> QED  BY <2>1 DEF Tick
<1>13. LimiterTypes'
  BY <1>1, <1>3, <1>4, <1>7, <1>9, <1>11, <1>12 DEF LimiterTypes
<1>14. ASSUME NEW r \in Replicas, NEW k \in Keys
       PROVE  LocalPart(k, unswept'[r][k], recent'[r][k])
  <2>1. PICK u \in Nat, lets \in [Ages -> Nat], new \in Nat :
          u = unswept[r][k] /\ lets = recent[r][k] /\ new = unswept'[r][k]
    <3>1. /\ unswept[r][k] \in Nat /\ unswept'[r][k] \in Nat /\ recent[r][k] \in [Ages -> Nat]
      BY <1>1, <1>7 DEF LimiterTypes
    <3> QED  BY <3>1
  <2>2. /\ LocalPart(k, u, lets) /\ u <= Full(k)
        /\ new = IF u + LimitOf(k) <= Full(k) THEN u + LimitOf(k) ELSE Full(k)
    BY <1>5, <1>7, <2>1 DEF LimiterInv
  <2>3. LocalPart(k, new, Later(lets))
    BY <2>2, LocalAges
  <2> QED  BY <1>1, <1>11, <2>1, <2>3
<1>15. ASSUME NEW k \in Keys
       PROVE  SharedPart(k, count'[k], ttl'[k], recent'[Shared][k], unsure'[k])
  <2>1. PICK c \in Nat, left \in 0 .. Window, lets \in [Ages -> Nat], failed \in [Ages -> Nat] :
          /\ c = count[k] /\ left = ttl[k]
          /\ lets = recent[Shared][k] /\ failed = unsure[k]
    <3>1. /\ count[k] \in Nat /\ ttl[k] \in 0 .. Window
          /\ recent[Shared][k] \in [Ages -> Nat] /\ unsure[k] \in [Ages -> Nat]
      BY <1>1 DEF LimiterTypes
    <3> QED  BY <3>1
  <2>2. PICK c2 \in Nat, left2 \in 0 .. Window : c2 = count'[k] /\ left2 = ttl'[k]
    BY <1>3, <1>4
  <2>3. /\ SharedPart(k, c, left, lets, failed)
        /\ c2 = IF left > 1 THEN c ELSE 0
        /\ left2 = IF left > 0 THEN left - 1 ELSE 0
    BY <1>3, <1>4, <2>1, <2>2 DEF LimiterInv
  <2>4. SharedPart(k, c2, left2, Later(lets), Later(failed))
    BY <2>3, SharedAges
  <2> QED  BY <1>1, <1>11, <2>1, <2>2, <2>4
<1> QED  BY <1>10, <1>13, <1>14, <1>15 DEF LimiterInv

LEMMA LimiterStep == LimiterInv /\ [LimiterNext]_limiterVars => LimiterInv'
<1> SUFFICES ASSUME LimiterInv, [LimiterNext]_limiterVars PROVE LimiterInv'
  OBVIOUS
<1>1. ASSUME NEW r \in Replicas, NEW route \in Routes, Arrive(r, route) PROVE LimiterInv'
  <2>1. /\ route \in Seq(Keys) /\ stage \in [Replicas -> Seq(Keys)]
        /\ stage' = [stage EXCEPT ![r] = route]
        /\ UNCHANGED <<count, ttl, bucket, sinceSweep, unswept, recent, unsure>>
    BY <1>1, LimitFacts DEF Arrive, LimiterInv, LimiterTypes
  <2>2. stage' \in [Replicas -> Seq(Keys)]
    BY <2>1
  <2> QED  BY <2>1, <2>2 DEF LimiterInv, LimiterTypes, EvictionForgetsNothing
<1>2. ASSUME NEW r \in Replicas, AllowShared(r) \/ AllowLocal(r) PROVE LimiterInv'
  BY <1>2, AllowSharedInv, AllowLocalInv
<1>3. CASE Tick
  BY <1>3, LimiterTickInv
<1>4. CASE UNCHANGED limiterVars
  BY <1>4 DEF limiterVars, LimiterInv, LimiterTypes, EvictionForgetsNothing
<1> QED  BY <1>1, <1>2, <1>3, <1>4 DEF LimiterNext

LEMMA LimiterStart == LimiterInit => LimiterInv
<1> SUFFICES ASSUME LimiterInit PROVE LimiterInv
  OBVIOUS
<1>1. /\ Window \in Nat /\ Window >= 1 /\ SweepEvery \in Nat /\ Ages \subseteq Nat
      /\ Shared \in Paths /\ Replicas \subseteq Paths
      /\ \A k \in Keys : LimitOf(k) \in Nat /\ LimitOf(k) >= 1 /\ Full(k) \in Nat
  BY LimitFacts, FullFacts
<1>2. LimiterTypes
  BY <1>1 DEF LimiterInit, LimiterTypes
<1>3. EvictionForgetsNothing
  BY DEF LimiterInit, EvictionForgetsNothing, Credit
<1>4. ASSUME NEW r \in Replicas, NEW k \in Keys
      PROVE  LocalPart(k, unswept[r][k], recent[r][k])
  <2>1. unswept[r][k] = Full(k) /\ \A a \in Ages : recent[r][k][a] = 0
    BY <1>1 DEF LimiterInit
  <2>2. ASSUME NEW a \in Ages
        PROVE  /\ Full(k) + Window * 0 >= (a + 1) * LimitOf(k)
               /\ Full(k) + Window * 0 <= Full(k) + a * LimitOf(k)
    <3>1. a \in Nat /\ a < Window
      BY <1>1 DEF Ages
    <3>2. (a + 1) * LimitOf(k) <= Full(k)
      BY <3>1, FullFacts
    <3>3. a * LimitOf(k) \in Nat /\ (a + 1) * LimitOf(k) \in Nat /\ Window * 0 = 0
      BY <1>1, <3>1
    <3> QED  BY <1>1, <3>2, <3>3
  <2> QED  BY <2>1, <2>2 DEF LocalPart
<1>5. ASSUME NEW k \in Keys
      PROVE  SharedPart(k, count[k], ttl[k], recent[Shared][k], unsure[k])
  BY <1>1 DEF LimiterInit, SharedPart
<1> QED  BY <1>2, <1>3, <1>4, <1>5 DEF LimiterInv

----------------------------------------------------------------------------
(* The theorems about the limiter. *)

\* For any limits, window and number of replicas, the counters and buckets keep the
\* accounts LimiterInv states (DistributedRateLimiter, RateLimiter).
THEOREM LimiterInductive == LimiterSpec => []LimiterInv
BY LimiterStart, LimiterStep, PTL DEF LimiterSpec

LEMMA LetsAreBounded ==
    ASSUME NEW w \in Nat, NEW l \in Nat, NEW n \in Nat, NEW u \in Nat,
           w >= 1, l >= 1, u + w * n <= l * w + (w - 1) * l
    PROVE  n < 2 * l
<1>1. CASE n >= 2 * l
  <2>1. PICK d \in Nat : n = 2 * l + d
    <3>1. n - 2 * l \in Nat /\ n = 2 * l + (n - 2 * l)
      BY <1>1
    <3> QED  BY <3>1
  <2>2. PICK x \in Nat, y \in Nat : x = w * l /\ y = w * d
    OBVIOUS
  <2>3. w * n = x + x + y /\ (w - 1) * l = x - l /\ l * w = x
    BY <2>1, <2>2
  <2>4. u + (x + x + y) <= x + (x - l)
    BY <2>3
  <2> QED  BY <2>4
<1>2. CASE ~(n >= 2 * l)
  BY <1>2
<1> QED  BY <1>1, <1>2

\* Over any window a path lets fewer than twice the limit through, whatever the mix of
\* answers and failures of Redis (DistributedRateLimiter.Allow, RateLimiter.allow).
THEOREM BurstsAreBounded == LimiterSpec => []FrontDoorBounded
<1>1. LimiterInv => FrontDoorBounded
  <2> SUFFICES ASSUME LimiterInv, NEW p \in Paths, NEW k \in Keys
               PROVE  recent[p][k][Window - 1] < 2 * LimitOf(k)
    BY DEF FrontDoorBounded, Recent
  <2>1. /\ Window \in Nat /\ Window >= 1 /\ LimitOf(k) \in Nat /\ LimitOf(k) >= 1
        /\ Window - 1 \in Ages
    BY LimitFacts
  <2>2. recent[p][k][Window - 1] \in Nat
    BY <2>1 DEF LimiterInv, LimiterTypes
  <2>3. CASE p = Shared
    <3>1. SharedPart(k, count[k], ttl[k], recent[Shared][k], unsure[k])
      BY DEF LimiterInv
    <3>2. count[k] \in Nat /\ ttl[k] \in 0 .. Window
      BY DEF LimiterInv, LimiterTypes
    <3>3. recent[Shared][k][Window - 1] <= LimitOf(k) + LimitOf(k) - 1
      <4>1. CASE ttl[k] = 0
        BY <2>1, <2>2, <2>3, <3>1, <4>1 DEF SharedPart
      <4>2. CASE ttl[k] > 0
        <5>1. recent[Shared][k][Window - 1] <=
                (IF count[k] <= LimitOf(k) THEN count[k] ELSE LimitOf(k)) + LimitOf(k) - 1
          BY <2>1, <3>1, <4>2 DEF SharedPart
        <5> QED  BY <2>1, <2>2, <2>3, <3>2, <5>1
      <4> QED  BY <3>2, <4>1, <4>2
    <3> QED  BY <2>1, <2>2, <2>3, <3>3
  <2>4. CASE p # Shared
    <3>1. p \in Replicas
      BY <2>4 DEF Paths
    <3>2. /\ unswept[p][k] \in Nat
          /\ unswept[p][k] + Window * recent[p][k][Window - 1]
               <= Full(k) + (Window - 1) * LimitOf(k)
      BY <2>1, <3>1 DEF LimiterInv, LimiterTypes, LocalPart
    <3> QED  BY <2>1, <2>2, <3>2, LetsAreBounded DEF Full
  <2> QED  BY <2>3, <2>4
<1> QED  BY <1>1, LimiterInductive, PTL

\* A refusal has the whole limit behind it, let through or failed, within one window: a
\* retry that is refused does not prolong the wait (EXPIRE NX, RateLimiter.allow).
THEOREM RefusalIsEarned == LimiterSpec => []RefusedOnlyWhenUsed
<1>1. LimiterInv => RefusedOnlyWhenUsed
  <2> SUFFICES ASSUME LimiterInv, NEW k \in Keys
               PROVE  /\ count[k] > LimitOf(k)
                           => recent[Shared][k][Window - 1] + unsure[k][Window - 1] >= LimitOf(k)
                      /\ \A r \in Replicas : ~HasToken(k, bucket[r][k])
                           => recent[r][k][Window - 1] >= LimitOf(k)
    BY DEF RefusedOnlyWhenUsed, Recent
  <2>1. /\ Window \in Nat /\ Window >= 1 /\ LimitOf(k) \in Nat /\ LimitOf(k) >= 1
        /\ Window - 1 \in Ages
    BY LimitFacts
  <2>2. ASSUME count[k] > LimitOf(k)
        PROVE  recent[Shared][k][Window - 1] + unsure[k][Window - 1] >= LimitOf(k)
    <3>1. SharedPart(k, count[k], ttl[k], recent[Shared][k], unsure[k])
      BY DEF LimiterInv
    <3>2. count[k] \in Nat /\ ttl[k] \in 0 .. Window
      BY DEF LimiterInv, LimiterTypes
    <3>3. ttl[k] > 0
      BY <2>1, <2>2, <3>1, <3>2 DEF SharedPart
    <3>4. ~(count[k] <= LimitOf(k)) /\ Window - 1 >= Window - ttl[k]
      BY <2>1, <2>2, <3>2, <3>3
    <3> QED  BY <2>1, <3>1, <3>3, <3>4 DEF SharedPart
  <2>3. ASSUME NEW r \in Replicas, ~HasToken(k, bucket[r][k])
        PROVE  recent[r][k][Window - 1] >= LimitOf(k)
    <3>1. /\ unswept[r][k] \in Nat /\ unswept[r][k] < Window
          /\ unswept[r][k] + Window * recent[r][k][Window - 1] >= (Window - 1 + 1) * LimitOf(k)
          /\ recent[r][k][Window - 1] \in Nat
      <4>1. Credit(k, bucket[r][k]) = unswept[r][k] /\ unswept[r][k] \in Nat
        BY DEF LimiterInv, LimiterTypes, EvictionForgetsNothing
      <4>2. unswept[r][k] < Window
        BY <2>1, <2>3, <4>1 DEF HasToken
      <4>3. recent[r][k][Window - 1] \in Nat
        BY <2>1, LimitFacts DEF LimiterInv, LimiterTypes
      <4> QED  BY <2>1, <4>1, <4>2, <4>3 DEF LimiterInv, LocalPart
    <3>2. \A w, l, n, u \in Nat : u < w /\ u + w * n >= (w - 1 + 1) * l => n >= l
      <4> SUFFICES ASSUME NEW w \in Nat, NEW l \in Nat, NEW n \in Nat, NEW u \in Nat,
                          u < w, n < l
                   PROVE  ~(u + w * n >= (w - 1 + 1) * l)
        OBVIOUS
      <4>1. PICK d \in Nat : l = n + 1 + d
        <5>1. l - n - 1 \in Nat /\ l = n + 1 + (l - n - 1)
          OBVIOUS
        <5> QED  BY <5>1
      <4>2. /\ (w - 1 + 1) * l = w * n + w + w * d /\ w * n \in Nat /\ w * d \in Nat
        BY <4>1
      <4> QED  BY <4>2
    <3> QED  BY <2>1, <3>1, <3>2
  <2> QED  BY <2>2, <2>3
<1> QED  BY <1>1, LimiterInductive, PTL

\* Dropping idle buckets never changes an answer, for any window and sweep interval
\* (RateLimiter.sweep).
THEOREM SweepIsInvisible == LimiterSpec => []EvictionForgetsNothing
<1>1. LimiterInv => EvictionForgetsNothing
  BY DEF LimiterInv
<1> QED  BY <1>1, LimiterInductive, PTL
=============================================================================
