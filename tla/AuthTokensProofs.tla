-------------------------- MODULE AuthTokensProofs --------------------------
(***************************************************************************)
(* Proofs about AuthTokens, for any number of requests, passwords and      *)
(* tokens: the types, and the three properties of its run.                 *)
(***************************************************************************)
EXTENDS AuthTokens, FiniteSetTheorems, SequenceTheorems, TLAPS

USE TokensAssumption DEF Held

Labels == {"idle", "create", "email", "link", "issue", "rotate",
           "alarm", "expire", "logout", "set"}

----------------------------------------------------------------------------
(* The inductive invariant. *)

\* What a request's place in its handler says of its arguments and of the row.
PlaceInv ==
    \A r \in Requests :
        /\ pc[r] \in {"rotate", "alarm", "expire", "logout"} => req[r].tok # 0
        /\ pc[r] \in {"create", "email", "link", "set"} => req[r].tok = 0
        /\ pc[r] \in {"link", "set"} => user # Absent

\* A rotation that an alarm overtook carries the mark, or its token does.
RacedInv ==
    \A r \in Requests :
        Rotating(r) /\ token[req[r].tok].root \in alarmed
            => req[r].raced \/ token[req[r].tok].raced

\* A sign-in without a cause to end has a live token or a rotation past its Revoke:
\* one that has only read its token is not enough, for another may have spent it.
LiveInv ==
    \A t \in Held : token[t].root \notin ended =>
        \/ \E u \in Held : token[u].root = token[t].root /\ ~token[u].revoked
        \/ \E r \in Requests : /\ pc[r] = "issue" /\ req[r].tok # 0
                               /\ token[req[r].tok].root = token[t].root

Claims(r, t) == Rotating(r) /\ req[r].tok = t

\* A token that has been traded, or is past its Revoke, is spent; two claims to one
\* token, traded already or not, contended for it.
ClaimInv ==
    \A t \in Held :
        /\ \A u \in Children(t) : token[t].revoked
        /\ \A r \in Requests : Claims(r, t) /\ pc[r] = "issue" => token[t].revoked
        /\ \A u, v \in Children(t) : u # v => token[t].contended
        /\ \A u \in Children(t), r \in Requests : Claims(r, t) => token[t].contended
        /\ \A q, r \in Requests : Claims(q, t) /\ Claims(r, t) /\ q # r => token[t].contended

TokenInv == PlaceInv /\ RacedInv /\ AlarmEndsSignIns /\ LiveInv /\ ClaimInv

----------------------------------------------------------------------------
(* Tokens that a statement rewrites in place. *)

LEMMA HeldType ==
    ASSUME TypeOK
    PROVE  /\ Len(token) \in Nat /\ Held = 1 .. Len(token)
           /\ token \in [Held -> Token]
           /\ \A t \in Held : token[t] \in Token
BY LenProperties, ElementOfSeq DEF TypeOK

LEMMA RewrittenType ==
    ASSUME TypeOK, NEW f \in [Held -> Token]
    PROVE  f \in Seq(Token) /\ Len(f) = Len(token) /\ DOMAIN f = Held
<1>1. f \in [1 .. Len(token) -> Token] /\ Len(token) \in Nat
  BY HeldType
<1>2. f \in Seq(Token)
  BY <1>1, SeqDef
<1> QED  BY <1>1, <1>2, LenProperties

\* The rows keep their number and everything but their flags, which only rise.
Rewrites ==
    /\ token' \in Seq(Token)
    /\ Len(token') = Len(token) /\ Held' = Held
    /\ \A t \in Held :
        /\ token'[t].root = token[t].root
        /\ token'[t].parent = token[t].parent
        /\ token'[t].raced = token[t].raced
        /\ token[t].revoked => token'[t].revoked
        /\ token[t].contended => token'[t].contended

LEMMA RevokedRewrites ==
    ASSUME TypeOK, NEW ts, token' = Revoked(ts)
    PROVE  /\ Rewrites
           /\ \A t \in Held : token'[t].revoked <=> t \in ts \/ token[t].revoked
<1>1. \A t \in Held : token[t] \in Token
  BY HeldType
<1>2. \A t \in Held :
        LET new == IF t \in ts THEN [token[t] EXCEPT !.revoked = TRUE] ELSE token[t]
        IN  /\ new \in Token
            /\ new.root = token[t].root /\ new.parent = token[t].parent
            /\ new.raced = token[t].raced /\ new.contended = token[t].contended
            /\ new.revoked <=> t \in ts \/ token[t].revoked
  BY <1>1 DEF Token
<1>3. token' \in [Held -> Token]
  BY <1>2 DEF Revoked
<1>4. \A t \in Held : token'[t] = IF t \in ts THEN [token[t] EXCEPT !.revoked = TRUE]
                                              ELSE token[t]
  BY DEF Revoked
<1>5. token' \in Seq(Token) /\ Len(token') = Len(token) /\ DOMAIN token' = Held
  BY <1>3, RewrittenType
<1> QED  BY <1>2, <1>4, <1>5 DEF Rewrites

\* A row that is rewritten keeps its place among the others.
LEMMA RewritesTypes ==
    ASSUME TypeOK, Rewrites
    PROVE  \A t \in Held' : token'[t].parent \in 0 .. (t - 1) /\ token'[t].root \in 1 .. t
BY DEF TypeOK, Rewrites

\* A sign-in is its first token.
LEMMA RootsHeld ==
    ASSUME TypeOK
    PROVE  {token[t].root : t \in Held} \subseteq Held
<1> SUFFICES ASSUME NEW t \in Held PROVE token[t].root \in Held
  OBVIOUS
<1> QED  BY HeldType DEF TypeOK

----------------------------------------------------------------------------
(* Steps of one request that leave the tokens alone. *)

\* Every other request stays where it is; this one gets a place and arguments.
OneMoves(r) ==
    /\ pc' \in [Requests -> Labels] /\ req' \in [Requests -> Request]
    /\ req'[r].tok \in 0 .. Len(token')
    /\ \A q \in Requests \ {r} : pc'[q] = pc[q] /\ req'[q] = req[q]

\* What the place of the request that moved must hold for PlaceInv.
PlaceOf(r) ==
    /\ pc[r] \in {"rotate", "alarm", "expire", "logout"} => req[r].tok # 0
    /\ pc[r] \in {"create", "email", "link", "set"} => req[r].tok = 0
    /\ pc[r] \in {"link", "set"} => user # Absent

UserMoves == user' \in User \cup {Absent} /\ (user # Absent => user' # Absent)

LEMMA BeginMoves ==
    ASSUME TypeOK, NEW r \in Requests, NEW op, NEW t \in 0 .. Len(token),
           NEW w \in Passwords \cup {NoPassword}, NEW label \in Labels,
           Begin(r, op, t, w, label), Len(token') = Len(token)
    PROVE  OneMoves(r) /\ pc'[r] = label /\ req'[r].tok = t
<1>1. [op |-> op, tok |-> t, password |-> w, raced |-> FALSE] \in Request
  BY HeldType DEF Begin, Request
<1> QED  BY <1>1 DEF Begin, OneMoves, TypeOK, Labels

LEMMA GotoMoves ==
    ASSUME TypeOK, NEW r \in Requests, NEW label \in Labels, Goto(r, label),
           Len(token') = Len(token)
    PROVE  OneMoves(r) /\ pc'[r] = label /\ req'[r].tok = req[r].tok
BY DEF Goto, OneMoves, TypeOK, Labels

LEMMA FinishMoves ==
    ASSUME TypeOK, NEW r \in Requests, Finish(r), Len(token') \in Nat
    PROVE  pc' \in [Requests -> Labels] /\ req' \in [Requests -> Request]
           /\ pc'[r] = "idle" /\ req'[r].tok = 0
           /\ \A q \in Requests \ {r} : pc'[q] = pc[q] /\ req'[q] = req[q]
BY DEF Finish, NoRequest, Request, TypeOK, Labels

LEMMA QuietInv ==
    ASSUME TypeOK, TokenInv, NEW r \in Requests, UserMoves, OneMoves(r), PlaceOf(r)',
           UNCHANGED <<token, alarmed>>, ended \subseteq ended', ended' \subseteq Held,
           pc'[r] \in {"rotate", "issue"} => req'[r].tok = 0,
           pc[r] = "issue" /\ req[r].tok # 0 => token[req[r].tok].root \in ended'
    PROVE  TypeOK' /\ TokenInv'
<1>1. TypeOK'
  BY DEF TypeOK, OneMoves, UserMoves, Labels
<1>2. PlaceInv'
  BY DEF PlaceInv, PlaceOf, OneMoves, UserMoves, TokenInv
<1>3. ~Rotating(r)' /\ \A q \in Requests : Rotating(q)' => Rotating(q) /\ q # r
  BY DEF Rotating, OneMoves
<1>4. RacedInv' /\ AlarmEndsSignIns'
  BY <1>3 DEF TokenInv, RacedInv, AlarmEndsSignIns, OneMoves
<1>5. LiveInv'
  <2> SUFFICES ASSUME NEW t \in Held, token[t].root \notin ended'
               PROVE  \/ \E u \in Held : token[u].root = token[t].root /\ ~token[u].revoked
                      \/ \E q \in Requests : /\ pc'[q] = "issue" /\ req'[q].tok # 0
                                             /\ token[req'[q].tok].root = token[t].root
    BY DEF LiveInv
  <2>1. CASE \E u \in Held : token[u].root = token[t].root /\ ~token[u].revoked
    BY <2>1
  <2>2. ASSUME NEW q \in Requests, pc[q] = "issue", req[q].tok # 0,
               token[req[q].tok].root = token[t].root
        PROVE  q # r
    BY <2>2
  <2> QED  BY <2>1, <2>2 DEF LiveInv, TokenInv, OneMoves
<1>6. ClaimInv'
  <2>1. \A t \in Held, q \in Requests : Claims(q, t)' => Claims(q, t) /\ q # r
    BY <1>3 DEF Claims, OneMoves
  <2>2. \A t \in Held : Children(t)' = Children(t)
    BY DEF Children
  <2> QED  BY <2>1, <2>2 DEF ClaimInv, TokenInv, OneMoves
<1> QED  BY <1>1, <1>2, <1>4, <1>5, <1>6 DEF TokenInv

\* Signing up, signing in and changing a password, up to the token they may store;
\* a logout that has yet to write; a request that fails.
QuietStep(r) ==
    \/ \E w \in Passwords : Register(r, w) \/ Authenticate(r, w)
    \/ GoogleSubject(r) \/ GoogleEmail(r) \/ SetGoogleID(r) \/ Create(r)
    \/ \E t \in Held : Logout(r, t)
    \/ \E c, w \in Passwords : CheckPassword(r, c, w)
    \/ SetPasswordHash(r) \/ Fail(r)

LEMMA QuietStepInv ==
    ASSUME TypeOK, TokenInv, NEW r \in Requests, QuietStep(r)
    PROVE  TypeOK' /\ TokenInv'
<1>0. UNCHANGED token /\ Len(token) \in Nat /\ 0 \in 0 .. Len(token)
      /\ (user \in User => user # Absent) /\ Absent \notin User
  BY HeldType DEF QuietStep, Register, Authenticate, GoogleSubject, GoogleEmail,
     SetGoogleID, Create, Logout, CheckPassword, SetPasswordHash, Fail, User
<1>1. ASSUME NEW w \in Passwords, Register(r, w) PROVE TypeOK' /\ TokenInv'
  <2>1. OneMoves(r) /\ pc'[r] = "create" /\ req'[r].tok = 0
    BY <1>0, <1>1, BeginMoves DEF Register, Labels
  <2> QED  BY <1>1, <2>1, QuietInv DEF Register, Begin, PlaceOf, UserMoves, TypeOK
<1>2. ASSUME NEW w \in Passwords, Authenticate(r, w) PROVE TypeOK' /\ TokenInv'
  <2>1. OneMoves(r) /\ pc'[r] = "issue" /\ req'[r].tok = 0
    BY <1>0, <1>2, BeginMoves DEF Authenticate, Labels
  <2> QED  BY <1>2, <2>1, QuietInv DEF Authenticate, Begin, PlaceOf, UserMoves, TypeOK
<1>3. ASSUME GoogleSubject(r) PROVE TypeOK' /\ TokenInv'
  <2>1. OneMoves(r) /\ pc'[r] \in {"issue", "email"} /\ req'[r].tok = 0
    BY <1>0, <1>3, BeginMoves DEF GoogleSubject, Labels
  <2> QED  BY <1>3, <2>1, QuietInv DEF GoogleSubject, Begin, PlaceOf, UserMoves, TypeOK
<1>4. ASSUME GoogleEmail(r) PROVE TypeOK' /\ TokenInv'
  <2>1. /\ OneMoves(r) /\ pc'[r] \in {"create", "link"} /\ req'[r].tok = 0
        /\ pc'[r] = "link" => user # Absent
    BY <1>0, <1>4, GotoMoves DEF GoogleEmail, Labels, TokenInv, PlaceInv
  <2> QED  BY <1>4, <2>1, QuietInv DEF GoogleEmail, PlaceOf, UserMoves, TypeOK
<1>5. ASSUME SetGoogleID(r) PROVE TypeOK' /\ TokenInv'
  <2>1. OneMoves(r) /\ pc'[r] = "issue" /\ req'[r].tok = 0
    BY <1>0, <1>5, GotoMoves DEF SetGoogleID, Labels, TokenInv, PlaceInv
  <2>2. user' \in User
    BY <1>5 DEF SetGoogleID, TokenInv, PlaceInv, TypeOK, User
  <2> QED  BY <1>0, <1>5, <2>1, <2>2, QuietInv DEF SetGoogleID, PlaceOf, UserMoves, TypeOK
<1>6. ASSUME Create(r) PROVE TypeOK' /\ TokenInv'
  <2>1. OneMoves(r) /\ pc'[r] \in {"issue", "idle"} /\ req'[r].tok = 0
    BY <1>0, <1>6, GotoMoves, FinishMoves DEF Create, Labels, TokenInv, PlaceInv, OneMoves
  <2>2. CASE user # Absent
    BY <1>6, <2>1, <2>2, QuietInv DEF Create, PlaceOf, UserMoves, TypeOK
  <2>3. CASE user = Absent
    <3>1. req[r].password \in Passwords \cup {NoPassword}
      BY DEF TypeOK, Request
    <3>2. (req[r].op = "google") \in BOOLEAN
      OBVIOUS
    <3>3. user' = [password |-> req[r].password, google |-> req[r].op = "google"]
      BY <1>6, <2>3 DEF Create
    <3>4. user' \in User
      BY <3>1, <3>2, <3>3, Zenon DEF User
    <3> QED  BY <1>0, <1>6, <2>1, <2>3, <3>4, QuietInv DEF Create, PlaceOf, UserMoves, TypeOK
  <2> QED  BY <2>2, <2>3
<1>7. ASSUME NEW t \in Held, Logout(r, t) PROVE TypeOK' /\ TokenInv'
  <2>1. t \in 0 .. Len(token) /\ t # 0
    BY HeldType
  <2>2. OneMoves(r) /\ pc'[r] = "logout" /\ req'[r].tok # 0
    BY <1>0, <1>7, <2>1, BeginMoves DEF Logout, Labels
  <2> QED  BY <1>7, <2>2, QuietInv DEF Logout, Begin, PlaceOf, UserMoves, TypeOK
<1>8. ASSUME NEW c \in Passwords, NEW w \in Passwords, CheckPassword(r, c, w)
      PROVE  TypeOK' /\ TokenInv'
  <2>1. OneMoves(r) /\ pc'[r] = "set" /\ req'[r].tok = 0
    BY <1>0, <1>8, BeginMoves DEF CheckPassword, Labels
  <2> QED  BY <1>8, <2>1, QuietInv DEF CheckPassword, Begin, PlaceOf, UserMoves, TypeOK
<1>9. ASSUME SetPasswordHash(r) PROVE TypeOK' /\ TokenInv'
  <2>1. OneMoves(r) /\ pc'[r] = "idle" /\ req'[r].tok = 0
    BY <1>0, <1>9, FinishMoves DEF SetPasswordHash, OneMoves
  <2>2. user' \in User
    BY <1>9 DEF SetPasswordHash, TokenInv, PlaceInv, TypeOK, User, Request
  <2> QED  BY <1>0, <1>9, <2>1, <2>2, QuietInv DEF SetPasswordHash, PlaceOf, UserMoves, TypeOK
<1>10. ASSUME Fail(r) PROVE TypeOK' /\ TokenInv'
  <2>1. OneMoves(r) /\ pc'[r] = "idle" /\ req'[r].tok = 0
    BY <1>0, <1>10, FinishMoves DEF Fail, OneMoves
  <2>2. req[r].tok # 0 => token[req[r].tok].root \in Held
    BY HeldType, RootsHeld DEF TypeOK
  <2>3. /\ ended \subseteq ended' /\ ended' \subseteq Held
        /\ pc[r] = "issue" /\ req[r].tok # 0 => token[req[r].tok].root \in ended'
    BY <1>10, <2>2 DEF Fail, TypeOK
  <2> QED  BY <1>10, <2>1, <2>3, QuietInv DEF Fail, PlaceOf, UserMoves, TypeOK
<1> QED  BY <1>1, <1>2, <1>3, <1>4, <1>5, <1>6, <1>7, <1>8, <1>9, <1>10 DEF QuietStep

----------------------------------------------------------------------------
(* Steps that rewrite tokens. *)

LEMMA RewrittenTypes ==
    ASSUME TypeOK, Rewrites, UNCHANGED user,
           pc' \in [Requests -> Labels], req' \in [Requests -> Request],
           \A r \in Requests : req'[r].tok \in 0 .. Len(token),
           alarmed' \subseteq Held, ended' \subseteq Held
    PROVE  TypeOK'
<1>1. \A t \in Held' : token'[t].parent \in 0 .. (t - 1) /\ token'[t].root \in 1 .. t
  BY RewritesTypes
<1> QED  BY <1>1 DEF TypeOK, Rewrites, Labels

LEMMA ChildrenStay ==
    ASSUME Rewrites, NEW t
    PROVE  Children(t)' = Children(t)
BY DEF Rewrites, Children

LEMMA LoadTokenInv ==
    ASSUME TypeOK, TokenInv, NEW r \in Requests, NEW t \in Held, LoadToken(r, t)
    PROVE  TypeOK' /\ TokenInv'
<1> DEFINE other == \E q \in Requests : pc[q] = "rotate" /\ req[q].tok = t
           new == [token[t] EXCEPT !.contended = @ \/ other]
<1>1. /\ new \in Token /\ new.root = token[t].root /\ new.parent = token[t].parent
      /\ new.raced = token[t].raced /\ new.revoked = token[t].revoked
      /\ new.contended <=> token[t].contended \/ other
  <2>1. token[t] \in Token
    BY HeldType
  <2> HIDE DEF other
  <2> QED  BY <2>1 DEF Token
<1>2. token' = [token EXCEPT ![t] = new]
  BY DEF LoadToken
<1> HIDE DEF new
<1>3. /\ token' \in [Held -> Token] /\ token'[t] = new
      /\ \A u \in Held : u # t => token'[u] = token[u]
  BY <1>1, <1>2, HeldType
<1>4. Rewrites
  BY <1>1, <1>3, RewrittenType DEF Rewrites
<1>5. \A u \in Held : token'[u].revoked = token[u].revoked
  BY <1>1, <1>3
<1>6. /\ OneMoves(r) /\ pc'[r] = Outcome(t) /\ req'[r].tok = t /\ t # 0
      /\ pc[r] = "idle" /\ UNCHANGED <<user, alarmed, ended>>
  <2>1. Outcome(t) \in Labels \ {"issue"} /\ t \in 0 .. Len(token) /\ t # 0
    BY HeldType DEF Outcome, Labels
  <2>2. Begin(r, "refresh", t, NoPassword, Outcome(t)) /\ UNCHANGED <<user, alarmed, ended>>
    BY DEF LoadToken
  <2>3. OneMoves(r) /\ pc'[r] = Outcome(t) /\ req'[r].tok = t
    BY <1>4, <2>1, <2>2, BeginMoves DEF Rewrites
  <2> QED  BY <2>1, <2>2, <2>3 DEF Begin
<1>7. TypeOK'
  BY <1>4, <1>6, RewrittenTypes DEF OneMoves, TypeOK, Rewrites
<1>8. PlaceInv'
  BY <1>6 DEF TokenInv, PlaceInv, OneMoves, Outcome
<1>9. AlarmEndsSignIns'
  BY <1>4, <1>5, <1>6 DEF TokenInv, AlarmEndsSignIns, Rewrites
<1>10. pc'[r] = "rotate" => ~token[t].revoked
  BY <1>6 DEF Outcome
<1>11. pc'[r] # "issue"
  BY <1>6 DEF Outcome
<1>12. RacedInv'
  <2>1. ASSUME NEW q \in Requests, q # r PROVE req[q].tok # 0 => req[q].tok \in Held
    BY HeldType DEF TypeOK
  <2> QED  BY <1>4, <1>6, <1>10, <1>11, <2>1
           DEF TokenInv, RacedInv, AlarmEndsSignIns, OneMoves, Rotating, Rewrites
<1>13. LiveInv'
  <2> SUFFICES ASSUME NEW u \in Held, token[u].root \notin ended
               PROVE  \/ \E v \in Held : token'[v].root = token'[u].root /\ ~token'[v].revoked
                      \/ \E q \in Requests : /\ pc'[q] = "issue" /\ req'[q].tok # 0
                                             /\ token'[req'[q].tok].root = token'[u].root
    BY <1>4, <1>6 DEF LiveInv, Rewrites
  <2>1. CASE \E v \in Held : token[v].root = token[u].root /\ ~token[v].revoked
    BY <1>4, <1>5, <2>1 DEF Rewrites
  <2>2. ASSUME NEW q \in Requests, pc[q] = "issue", req[q].tok # 0,
               token[req[q].tok].root = token[u].root
        PROVE  q # r /\ req[q].tok \in Held
    BY <1>6, <2>2, HeldType DEF TypeOK
  <2> QED  BY <1>4, <1>6, <2>1, <2>2, SMTT(40) DEF LiveInv, TokenInv, OneMoves, Rewrites
<1>14. ClaimInv'
  <2> SUFFICES ASSUME NEW u \in Held
               PROVE  /\ \A v \in Children(u) : token'[u].revoked
                      /\ \A q \in Requests : Claims(q, u)' /\ pc'[q] = "issue" => token'[u].revoked
                      /\ \A v, w \in Children(u) : v # w => token'[u].contended
                      /\ \A v \in Children(u), q \in Requests :
                            Claims(q, u)' => token'[u].contended
                      /\ \A p, q \in Requests :
                            Claims(p, u)' /\ Claims(q, u)' /\ p # q => token'[u].contended
    BY <1>4, ChildrenStay DEF ClaimInv, Rewrites
  <2>1. \A q \in Requests : Claims(q, u)' /\ q # r => Claims(q, u) /\ pc'[q] = pc[q]
    BY <1>6 DEF Claims, Rotating, OneMoves
  <2>2. Claims(r, u)' => u = t /\ ~token[t].revoked
    BY <1>6, <1>10, <1>11 DEF Claims, Rotating
  <2>3. ASSUME NEW q \in Requests, q # r, Claims(q, u), Claims(r, u)'
        PROVE  token'[u].contended
    <3>1. u = t /\ pc[q] = "rotate"
      BY <2>2, <2>3 DEF Claims, Rotating, TokenInv, ClaimInv
    <3> QED  BY <1>1, <1>3, <2>3, <3>1 DEF Claims
  <2> QED  BY <1>4, <1>5, <1>11, <2>1, <2>2, <2>3 DEF ClaimInv, TokenInv, Rewrites
<1> QED  BY <1>7, <1>8, <1>9, <1>12, <1>13, <1>14 DEF TokenInv

LEMMA RotateInv ==
    ASSUME TypeOK, TokenInv, NEW r \in Requests, Rotate(r)
    PROVE  TypeOK' /\ TokenInv'
<1> DEFINE t == req[r].tok
<1>1. t \in Held /\ t # 0 /\ pc[r] = "rotate"
  BY HeldType DEF Rotate, TokenInv, PlaceInv, TypeOK
<1>2. /\ Rewrites
      /\ \A u \in Held : token'[u].revoked <=> u = t \/ token[u].revoked
  BY RevokedRewrites DEF Rotate
<1>3. OneMoves(r) /\ pc'[r] = "issue" /\ UNCHANGED <<user, req, alarmed, ended>>
  BY <1>2, GotoMoves DEF Rotate, Goto, Labels, Rewrites
<1>4. TypeOK'
  BY <1>2, <1>3, RewrittenTypes DEF OneMoves, TypeOK
<1>5. PlaceInv'
  BY <1>1, <1>3 DEF TokenInv, PlaceInv, OneMoves
<1>6. AlarmEndsSignIns'
  BY <1>2, <1>3 DEF TokenInv, AlarmEndsSignIns, Rewrites
<1>7. \A q \in Requests : Rotating(q)' <=> Rotating(q)
  BY <1>1, <1>3 DEF Rotating, OneMoves
<1>8. \A q \in Requests : req[q].tok # 0 => req[q].tok \in Held
  BY HeldType DEF TypeOK
<1>9. RacedInv'
  BY <1>2, <1>3, <1>7, <1>8 DEF TokenInv, RacedInv, Rotating, Rewrites
<1>10. LiveInv'
  <2> SUFFICES ASSUME NEW u \in Held, token[u].root \notin ended
               PROVE  \/ \E v \in Held : token'[v].root = token'[u].root /\ ~token'[v].revoked
                      \/ \E q \in Requests : /\ pc'[q] = "issue" /\ req'[q].tok # 0
                                             /\ token'[req'[q].tok].root = token'[u].root
    BY <1>2, <1>3 DEF LiveInv, Rewrites
  <2>1. CASE token[t].root = token[u].root
    BY <1>1, <1>2, <1>3, <2>1 DEF Rewrites
  <2>2. CASE token[t].root # token[u].root
    BY <1>2, <1>3, <1>8, <2>2, SMTT(40) DEF LiveInv, TokenInv, OneMoves, Rewrites
  <2> QED  BY <2>1, <2>2
<1>11. ClaimInv'
  <2>1. \A u \in Held, q \in Requests : Claims(q, u)' <=> Claims(q, u)
    BY <1>3, <1>7 DEF Claims
  <2>2. \A u \in Held, q \in Requests : Claims(q, u)' /\ pc'[q] = "issue"
            => u = t \/ pc[q] = "issue"
    BY <1>3 DEF Claims, OneMoves
  <2> QED  BY <1>2, <2>1, <2>2, ChildrenStay DEF ClaimInv, TokenInv, Rewrites
<1> QED  BY <1>4, <1>5, <1>6, <1>9, <1>10, <1>11 DEF TokenInv

LEMMA DiscardInv ==
    ASSUME TypeOK, TokenInv, NEW r \in Requests, Discard(r)
    PROVE  TypeOK' /\ TokenInv'
<1> DEFINE t == req[r].tok
<1>1. t \in Held /\ ~Rotating(r)
  BY HeldType DEF Discard, TokenInv, PlaceInv, TypeOK, Rotating
<1>2. /\ Rewrites
      /\ \A u \in Held : token'[u].revoked <=> u = t \/ token[u].revoked
  <2>1. token' = Revoked({t})
    BY DEF Discard
  <2>2. /\ Rewrites
        /\ \A u \in Held : token'[u].revoked <=> u \in {t} \/ token[u].revoked
    BY <2>1, RevokedRewrites, Zenon
  <2> QED  BY <2>2
<1>3. OneMoves(r) /\ pc'[r] = "idle" /\ req'[r].tok = 0
  <2>1. Finish(r) /\ Len(token') \in Nat
    BY <1>2, HeldType DEF Discard, Rewrites
  <2> QED  BY <2>1, FinishMoves DEF OneMoves
<1>4. UNCHANGED <<user, alarmed>> /\ ended' = ended \cup {token[t].root}
  BY DEF Discard
<1>5. TypeOK'
  <2>1. ended' \subseteq Held
    BY <1>1, <1>4, RootsHeld DEF TypeOK
  <2> QED  BY <1>2, <1>3, <1>4, <2>1, RewrittenTypes, SMTT(40) DEF OneMoves, TypeOK
<1>6. PlaceInv'
  BY <1>3, <1>4 DEF TokenInv, PlaceInv, OneMoves
<1>7. AlarmEndsSignIns'
  BY <1>2, <1>4 DEF TokenInv, AlarmEndsSignIns, Rewrites
<1>8. \A q \in Requests : Rotating(q)' => Rotating(q) /\ q # r
  BY <1>3 DEF Rotating, OneMoves
<1>9. \A q \in Requests : req[q].tok # 0 => req[q].tok \in Held
  BY HeldType DEF TypeOK
<1>10. RacedInv'
  BY <1>2, <1>3, <1>4, <1>8, <1>9 DEF TokenInv, RacedInv, Rotating, OneMoves, Rewrites
<1>11. LiveInv'
  <2> SUFFICES ASSUME NEW u \in Held, token[u].root \notin ended'
               PROVE  \/ \E v \in Held : token'[v].root = token'[u].root /\ ~token'[v].revoked
                      \/ \E q \in Requests : /\ pc'[q] = "issue" /\ req'[q].tok # 0
                                             /\ token'[req'[q].tok].root = token'[u].root
    BY <1>2, <1>4 DEF LiveInv, Rewrites
  <2>1. token[u].root # token[t].root /\ token[u].root \notin ended
    BY <1>4
  <2>2. CASE \E v \in Held : token[v].root = token[u].root /\ ~token[v].revoked
    BY <1>2, <2>1, <2>2 DEF Rewrites
  <2>3. ASSUME NEW q \in Requests, pc[q] = "issue", req[q].tok # 0,
               token[req[q].tok].root = token[u].root
        PROVE  q # r /\ req[q].tok \in Held
    BY <1>1, <1>9, <2>3 DEF Rotating
  <2> QED  BY <1>2, <1>3, <2>1, <2>2, <2>3 DEF LiveInv, TokenInv, OneMoves, Rewrites
<1>12. ClaimInv'
  <2>1. \A u \in Held, q \in Requests : Claims(q, u)' => Claims(q, u) /\ pc'[q] = pc[q]
    BY <1>3, <1>8 DEF Claims, OneMoves
  <2> QED  BY <1>2, <2>1, ChildrenStay DEF ClaimInv, TokenInv, Rewrites
<1> QED  BY <1>5, <1>6, <1>7, <1>10, <1>11, <1>12 DEF TokenInv

LEMMA AlarmInv ==
    ASSUME TypeOK, TokenInv, NEW r \in Requests, Alarm(r)
    PROVE  TypeOK' /\ TokenInv'
<1>1. /\ Rewrites
      /\ \A u \in Held : token'[u].revoked
  <2>1. token' = Revoked(Held)
    BY DEF Alarm
  <2> QED  BY <2>1, RevokedRewrites
<1>2. /\ pc' \in [Requests -> Labels] /\ pc'[r] = "idle"
      /\ \A q \in Requests \ {r} : pc'[q] = pc[q]
  BY DEF Alarm, TypeOK, Labels
<1>3. /\ req' \in [Requests -> Request] /\ req'[r].tok = 0
      /\ \A q \in Requests \ {r} :
            /\ req'[q].tok = req[q].tok
            /\ req'[q].raced <=> req[q].raced \/ pc[q] \in {"rotate", "issue"}
  <2> DEFINE new(q) == [req[q] EXCEPT !.raced = @ \/ pc[q] \in {"rotate", "issue"}]
  <2>1. \A q \in Requests :
          /\ new(q) \in Request /\ new(q).tok = req[q].tok
          /\ new(q).raced <=> req[q].raced \/ pc[q] \in {"rotate", "issue"}
    <3> SUFFICES ASSUME NEW q \in Requests
                 PROVE  /\ new(q) \in Request /\ new(q).tok = req[q].tok
                        /\ new(q).raced <=> req[q].raced \/ pc[q] \in {"rotate", "issue"}
      OBVIOUS
    <3> DEFINE mark == req[q].raced \/ pc[q] \in {"rotate", "issue"}
               old == req[q]
    <3>1. old \in Request
      BY DEF TypeOK
    <3>2. mark \in BOOLEAN
      OBVIOUS
    <3>3. new(q) = [old EXCEPT !.raced = mark]
      OBVIOUS
    <3> HIDE DEF mark, old, new
    <3>4. /\ [old EXCEPT !.raced = mark] \in Request
          /\ [old EXCEPT !.raced = mark].tok = old.tok
          /\ [old EXCEPT !.raced = mark].raced = mark
      BY <3>1, <3>2 DEF Request
    <3> QED  BY <3>3, <3>4 DEF mark, old
  <2>2. NoRequest \in Request /\ NoRequest.tok = 0
    BY DEF NoRequest, Request
  <2>3. req' = [q \in Requests |-> IF q = r THEN NoRequest ELSE new(q)]
    BY DEF Alarm
  <2> HIDE DEF new
  <2> QED  BY <2>1, <2>2, <2>3
<1>4. UNCHANGED user /\ alarmed' = {token[t].root : t \in Held} /\ ended' = ended \cup alarmed'
  BY DEF Alarm
<1>5. TypeOK'
  <2>1. alarmed' \subseteq Held /\ ended' \subseteq Held
    BY <1>4, RootsHeld DEF TypeOK
  <2> QED  BY <1>1, <1>2, <1>3, <1>4, <2>1, RewrittenTypes DEF TypeOK
<1>6. PlaceInv'
  BY <1>2, <1>3, <1>4 DEF TokenInv, PlaceInv
<1>7. AlarmEndsSignIns'
  BY <1>1 DEF AlarmEndsSignIns, Rewrites
<1>8. \A q \in Requests : Rotating(q)' => Rotating(q) /\ q # r /\ req'[q].raced
  BY <1>2, <1>3 DEF Rotating
<1>9. RacedInv'
  BY <1>8 DEF RacedInv
<1>10. LiveInv'
  BY <1>1, <1>4 DEF LiveInv, Rewrites
<1>11. ClaimInv'
  <2>1. \A u \in Held, q \in Requests : Claims(q, u)' => Claims(q, u)
    BY <1>3, <1>8 DEF Claims
  <2> QED  BY <1>1, <2>1, ChildrenStay DEF ClaimInv, TokenInv, Rewrites
<1> QED  BY <1>5, <1>6, <1>7, <1>9, <1>10, <1>11 DEF TokenInv

LEMMA ExpireInv ==
    ASSUME TypeOK, TokenInv, NEW t \in Held, Expire(t)
    PROVE  TypeOK' /\ TokenInv'
<1> DEFINE new == [token[t] EXCEPT !.expired = TRUE]
<1>1. /\ new \in Token /\ new.root = token[t].root /\ new.parent = token[t].parent
      /\ new.raced = token[t].raced /\ new.revoked = token[t].revoked
      /\ new.contended = token[t].contended
  BY HeldType DEF Token
<1>2. token' = [token EXCEPT ![t] = new]
  BY DEF Expire
<1> HIDE DEF new
<1>3. /\ token' \in [Held -> Token] /\ token'[t] = new
      /\ \A u \in Held : u # t => token'[u] = token[u]
  BY <1>1, <1>2, HeldType
<1>4. /\ Rewrites
      /\ \A u \in Held : token'[u].revoked = token[u].revoked
  BY <1>1, <1>3, RewrittenType DEF Rewrites
<1>5. UNCHANGED <<user, pc, req, alarmed, ended>>
  BY DEF Expire
<1>6. TypeOK'
  BY <1>4, <1>5, RewrittenTypes DEF TypeOK, Labels
<1>7. \A q \in Requests : req[q].tok # 0 => req[q].tok \in Held
  BY HeldType DEF TypeOK
<1>8. PlaceInv' /\ AlarmEndsSignIns'
  BY <1>4, <1>5 DEF TokenInv, PlaceInv, AlarmEndsSignIns, Rewrites
<1>9. RacedInv'
  BY <1>4, <1>5, <1>7 DEF TokenInv, RacedInv, Rotating, Rewrites
<1>10. LiveInv'
  BY <1>4, <1>5, <1>7 DEF TokenInv, LiveInv, Rewrites
<1>11. ClaimInv'
  <2>1. \A u \in Held, q \in Requests : Claims(q, u)' = Claims(q, u)
    BY <1>5 DEF Claims, Rotating
  <2> QED  BY <1>4, <1>5, <2>1, ChildrenStay DEF ClaimInv, TokenInv, Rewrites
<1> QED  BY <1>6, <1>8, <1>9, <1>10, <1>11 DEF TokenInv

----------------------------------------------------------------------------
(* Storing a token. *)

\* The tokens stored before keep their rows; the new one comes last.
LEMMA IssueAppends ==
    ASSUME TypeOK, NEW r \in Requests, Issue(r)
    PROVE  LET t == req[r].tok
               n == Len(token) + 1
           IN  /\ token' \in Seq(Token) /\ Len(token') = n /\ n \in Nat
               /\ Held' = Held \cup {n} /\ n \notin Held
               /\ \A u \in Held : token'[u] = token[u]
               /\ t # 0 => t \in Held
               /\ token'[n].root = IF t = 0 THEN n ELSE token[t].root
               /\ token'[n].parent = t /\ ~token'[n].revoked
               /\ token'[n].raced <=> t # 0 /\ (req[r].raced \/ token[t].raced)
<1> DEFINE t == req[r].tok
           n == Len(token) + 1
           root == IF t = 0 THEN n ELSE token[t].root
           raced == t # 0 /\ (req[r].raced \/ token[t].raced)
           new == [root |-> root, parent |-> t, revoked |-> FALSE, expired |-> FALSE,
                   raced |-> raced, contended |-> FALSE]
<1>1. Len(token) \in Nat /\ Held = 1 .. Len(token) /\ token \in Seq(Token)
  BY HeldType DEF TypeOK
<1>2. t \in Nat /\ (t # 0 => t \in Held)
  BY <1>1 DEF TypeOK, Request
<1>3. n \in Nat /\ (t # 0 => token[t].root \in Nat)
  BY <1>1, <1>2, HeldType DEF Token
<1>4. new \in Token /\ new.root = root /\ new.parent = t /\ ~new.revoked /\ new.raced = raced
  <2>1. raced \in BOOLEAN /\ root \in Nat
    BY <1>3
  <2> HIDE DEF raced, root, t
  <2> QED  BY <1>2, <2>1 DEF Token
<1>5. token' = Append(token, new)
  BY DEF Issue
<1> HIDE DEF new
<1>6. /\ token' \in Seq(Token) /\ Len(token') = n /\ token'[n] = new
      /\ \A u \in 1 .. Len(token) : token'[u] = token[u]
  BY <1>1, <1>4, <1>5, AppendProperties
<1>7. Held' = Held \cup {n} /\ n \notin Held
  <2>1. Held' = 1 .. n
    BY <1>6, LenProperties
  <2> QED  BY <1>1, <2>1
<1> QED  BY <1>1, <1>2, <1>3, <1>4, <1>6, <1>7

LEMMA IssueInv ==
    ASSUME TypeOK, TokenInv, NEW r \in Requests, Issue(r)
    PROVE  TypeOK' /\ TokenInv'
<1> DEFINE t == req[r].tok
           n == Len(token) + 1
<1>1. /\ token' \in Seq(Token) /\ Len(token') = n /\ n \in Nat
      /\ Held' = Held \cup {n} /\ n \notin Held
      /\ \A u \in Held : token'[u] = token[u]
      /\ t # 0 => t \in Held
      /\ token'[n].root = IF t = 0 THEN n ELSE token[t].root
      /\ token'[n].parent = t /\ ~token'[n].revoked
      /\ token'[n].raced <=> t # 0 /\ (req[r].raced \/ token[t].raced)
  BY IssueAppends
<1>2. pc[r] = "issue" /\ UNCHANGED <<user, alarmed, ended>>
  BY DEF Issue
<1>3. OneMoves(r) /\ pc'[r] = "idle" /\ req'[r].tok = 0
  BY <1>1, FinishMoves DEF Issue, OneMoves
<1>4. Len(token) \in Nat /\ Held = 1 .. Len(token) /\ t \in 0 .. Len(token)
      /\ \A u \in Held : token[u].parent \in 0 .. (u - 1) /\ token[u].root \in 1 .. u
  BY HeldType DEF TypeOK
<1> HIDE DEF n, t
<1>5. TypeOK'
  <2>1. token'[n].parent \in 0 .. (n - 1) /\ token'[n].root \in 1 .. n
    BY <1>1, <1>4 DEF n
  <2>2. \A u \in Held' : token'[u].parent \in 0 .. (u - 1) /\ token'[u].root \in 1 .. u
    BY <1>1, <1>4, <2>1
  <2>3. \A q \in Requests : req'[q].tok \in 0 .. Len(token')
    BY <1>1, <1>3, <1>4 DEF OneMoves, TypeOK, n
  <2> QED  BY <1>1, <1>2, <1>3, <2>2, <2>3 DEF TypeOK, OneMoves, Labels
<1>6. PlaceInv'
  BY <1>2, <1>3 DEF TokenInv, PlaceInv, OneMoves
<1>7. \A q \in Requests : Rotating(q)' => Rotating(q) /\ q # r
  BY <1>3 DEF Rotating, OneMoves
<1>8. \A q \in Requests : req[q].tok # 0 => req[q].tok \in Held
  BY HeldType DEF TypeOK
<1>9. AlarmEndsSignIns'
  <2>1. n \notin alarmed
    BY <1>1, <1>4 DEF TypeOK
  <2>2. token'[n].root \in alarmed => token'[n].raced
    <3>1. t # 0 /\ token[t].root \in alarmed => req[r].raced \/ token[t].raced
      BY <1>2 DEF TokenInv, RacedInv, Rotating, t
    <3> QED  BY <1>1, <2>1, <3>1
  <2> QED  BY <1>1, <1>2, <2>2 DEF TokenInv, AlarmEndsSignIns
<1>10. RacedInv'
  BY <1>1, <1>2, <1>3, <1>7, <1>8 DEF TokenInv, RacedInv, OneMoves, Rotating
<1>11. LiveInv'
  <2> SUFFICES ASSUME NEW u \in Held', token'[u].root \notin ended
               PROVE  \/ \E v \in Held' : token'[v].root = token'[u].root /\ ~token'[v].revoked
                      \/ \E q \in Requests : /\ pc'[q] = "issue" /\ req'[q].tok # 0
                                             /\ token'[req'[q].tok].root = token'[u].root
    BY <1>2 DEF LiveInv
  <2>1. CASE token'[u].root = token'[n].root
    BY <1>1, <2>1
  <2>2. CASE token'[u].root # token'[n].root
    <3>1. u \in Held /\ token[u].root \notin ended
      BY <1>1, <2>2
    <3>2. CASE \E v \in Held : token[v].root = token[u].root /\ ~token[v].revoked
      BY <1>1, <3>1, <3>2
    <3>3. ASSUME NEW q \in Requests, pc[q] = "issue", req[q].tok # 0,
                 token[req[q].tok].root = token[u].root
          PROVE  q # r /\ req[q].tok \in Held
      BY <1>1, <1>8, <2>2, <3>1, <3>3 DEF t
    <3> QED  BY <1>1, <1>3, <3>1, <3>2, <3>3 DEF LiveInv, TokenInv, OneMoves
  <2> QED  BY <2>1, <2>2
<1>12. ClaimInv'
  <2> SUFFICES ASSUME NEW u \in Held'
               PROVE  /\ \A v \in Children(u)' : token'[u].revoked
                      /\ \A q \in Requests : Claims(q, u)' /\ pc'[q] = "issue" => token'[u].revoked
                      /\ \A v, w \in Children(u)' : v # w => token'[u].contended
                      /\ \A v \in Children(u)', q \in Requests :
                            Claims(q, u)' => token'[u].contended
                      /\ \A p, q \in Requests :
                            Claims(p, u)' /\ Claims(q, u)' /\ p # q => token'[u].contended
    BY DEF ClaimInv
  <2>1. \A q \in Requests : Claims(q, u)' => Claims(q, u) /\ q # r /\ pc'[q] = pc[q]
    BY <1>3, <1>7 DEF Claims, OneMoves
  <2>2. CASE u = n
    <3>1. Children(u)' = {}
      BY <1>1, <1>4, <2>2 DEF Children, n
    <3>2. \A q \in Requests : ~Claims(q, u)'
      BY <1>1, <1>8, <2>1, <2>2 DEF Claims, Rotating
    <3> QED  BY <3>1, <3>2
  <2>3. CASE u # n
    <3>1. u \in Held /\ token'[u] = token[u]
      BY <1>1, <2>3
    <3>2. Children(u)' = IF u = t THEN Children(u) \cup {n} ELSE Children(u)
      BY <1>1 DEF Children
    <3>3. u = t => Claims(r, u)
      BY <1>1, <1>2, <1>4, <3>1 DEF Claims, Rotating, t
    <3>4. u = t => /\ token[u].revoked
                   /\ \A v \in Children(u) : token[u].contended
                   /\ \A q \in Requests : Claims(q, u) /\ q # r => token[u].contended
      BY <1>2, <3>1, <3>3 DEF ClaimInv, TokenInv
    <3> QED  BY <2>1, <3>1, <3>2, <3>4 DEF ClaimInv, TokenInv
  <2> QED  BY <2>2, <2>3
<1> QED  BY <1>5, <1>6, <1>9, <1>10, <1>11, <1>12 DEF TokenInv

----------------------------------------------------------------------------
(* The theorems. *)

LEMMA InitInv == Init => TypeOK /\ TokenInv
<1> SUFFICES ASSUME Init PROVE TypeOK /\ TokenInv
  OBVIOUS
<1>1. token = <<>> /\ token \in Seq(Token) /\ Len(token) = 0 /\ Held = {}
  BY EmptySeq DEF Init
<1>2. NoRequest \in Request /\ NoRequest.tok = 0
  BY DEF NoRequest, Request
<1>3. TypeOK
  BY <1>1, <1>2 DEF Init, TypeOK
<1>4. TokenInv
  BY <1>1, <1>2 DEF Init, TokenInv, PlaceInv, RacedInv, AlarmEndsSignIns, LiveInv, ClaimInv,
     Rotating
<1> QED  BY <1>3, <1>4

LEMMA StepInv == TypeOK /\ TokenInv /\ [Next]_vars => TypeOK' /\ TokenInv'
<1> SUFFICES ASSUME TypeOK, TokenInv, [Next]_vars PROVE TypeOK' /\ TokenInv'
  OBVIOUS
<1>1. ASSUME NEW r \in Requests, QuietStep(r) PROVE TypeOK' /\ TokenInv'
  BY <1>1, QuietStepInv
<1>2. ASSUME NEW r \in Requests, NEW t \in Held, LoadToken(r, t) PROVE TypeOK' /\ TokenInv'
  BY <1>2, LoadTokenInv
<1>3. ASSUME NEW r \in Requests, Rotate(r) \/ Alarm(r) \/ Discard(r) \/ Issue(r)
      PROVE  TypeOK' /\ TokenInv'
  BY <1>3, RotateInv, AlarmInv, DiscardInv, IssueInv
<1>4. ASSUME NEW t \in Held, Expire(t) PROVE TypeOK' /\ TokenInv'
  BY <1>4, ExpireInv
<1>5. CASE UNCHANGED vars
  BY <1>5 DEF vars, TypeOK, TokenInv, PlaceInv, RacedInv, AlarmEndsSignIns, LiveInv, ClaimInv,
     Rotating, Claims, Children
<1> QED  BY <1>1, <1>2, <1>3, <1>4, <1>5 DEF Next, QuietStep

\* However requests, failures and expiries interleave, every variable keeps its type and
\* a request holds only stored tokens (service.Refresh, issueSession).
THEOREM TokenTypes == Spec => []TypeOK
<1> QED  BY InitInv, StepInv, PTL DEF Spec

\* For any number of requests and tokens, a reuse alarm leaves no live token of an
\* earlier sign-in, but for what rotations in flight carried past it (service.Refresh).
THEOREM AlarmsEndSignIns == Spec => []AlarmEndsSignIns
<1>1. TokenInv => AlarmEndsSignIns
  BY DEF TokenInv
<1> QED  BY <1>1, InitInv, StepInv, PTL DEF Spec

\* For any number of requests and tokens, nobody is signed out without a logout, an
\* expiry, an alarm or a fault between Revoke and Store (service.Refresh, Logout).
THEOREM NobodySignedOutWithoutCause == Spec => []SignInsEndForACause
<1>1. TypeOK /\ TokenInv => SignInsEndForACause
  BY DEF TokenInv, LiveInv, SignInsEndForACause, Rotating
<1> QED  BY <1>1, InitInv, StepInv, PTL DEF Spec

\* For any number of requests and tokens, a refresh token is traded twice only by
\* requests that held it at once (service.Refresh, whose Revoke does not look).
THEOREM TradesOverlap == Spec => []TradedTwiceOnlyByOverlap
<1>1. TypeOK /\ TokenInv => TradedTwiceOnlyByOverlap
  <2> SUFFICES ASSUME TypeOK, TokenInv, NEW t \in Held, Cardinality(Children(t)) > 1
               PROVE  token[t].contended
    BY DEF TradedTwiceOnlyByOverlap
  <2>1. IsFiniteSet(Children(t)) /\ Cardinality(Children(t)) \in Nat
    <3>1. IsFiniteSet(Held)
      BY HeldType, FS_Interval
    <3> QED  BY <3>1, FS_Subset, FS_CardinalityType DEF Children
  <2>2. PICK u : u \in Children(t)
    BY <2>1, FS_EmptySet
  <2>3. PICK v \in Children(t) : v # u
    <3>1. CASE Children(t) = {u}
      BY <2>1, <3>1, FS_Singleton
    <3> QED  BY <2>2, <3>1
  <2> QED  BY <2>2, <2>3 DEF TokenInv, ClaimInv
<1> QED  BY <1>1, InitInv, StepInv, PTL DEF Spec
=============================================================================
