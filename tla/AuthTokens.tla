----------------------------- MODULE AuthTokens -----------------------------
(***************************************************************************)
(* One person's users row and the refresh tokens issued to it.  Every      *)
(* statement of the user service is a transaction of its own: a request    *)
(* reads, decides on what it read, and writes one statement at a time, so  *)
(* sign-ins, rotations, logouts and password changes interleave.  A client *)
(* may present any token it was ever given, whenever it likes.             *)
(***************************************************************************)
EXTENDS Integers, Sequences, FiniteSets

CONSTANTS
    Requests,
    Passwords,      \* password hashes, each verifying the password of its name
    NoPassword,     \* users.password_hash IS NULL
    Absent,         \* no users row has this email or Google subject
    Ops,            \* the endpoints clients call
    MaxTokens       \* bound: so many refresh tokens are stored

ASSUME TokensAssumption ==
    /\ NoPassword \notin Passwords
    /\ Absent \notin [password: Passwords \cup {NoPassword}, google: BOOLEAN]
    /\ Ops \subseteq {"register", "login", "google", "refresh", "logout", "password"}
    /\ MaxTokens \in Nat

VARIABLES
    user,       \* the users row
    token,      \* the refresh_tokens rows, in the order they were stored
    pc,         \* where each request is
    req,        \* its arguments
    alarmed,    \* history: sign-ins whose tokens a reuse alarm has revoked
    ended       \* history: sign-ins logged out, expired, alarmed, or cut off by a fault

vars == <<user, token, pc, req, alarmed, ended>>

\* root is the sign-in a token goes back to, parent the token it was traded for;
\* raced and contended are history: see Alarm and LoadToken.
Token == [root: Nat, parent: Nat, revoked: BOOLEAN, expired: BOOLEAN,
          raced: BOOLEAN, contended: BOOLEAN]

User == [password: Passwords \cup {NoPassword}, google: BOOLEAN]
Request == [op: Ops \cup {"none"}, tok: Nat, password: Passwords \cup {NoPassword},
            raced: BOOLEAN]

NoRequest == [op |-> "none", tok |-> 0, password |-> NoPassword, raced |-> FALSE]
Held == DOMAIN token

Init ==
    /\ user = Absent
    /\ token = <<>>
    /\ pc = [r \in Requests |-> "idle"]
    /\ req = [r \in Requests |-> NoRequest]
    /\ alarmed = {} /\ ended = {}

Begin(r, op, t, w, label) ==
    /\ pc[r] = "idle"
    /\ op \in Ops
    /\ pc' = [pc EXCEPT ![r] = label]
    /\ req' = [req EXCEPT ![r] = [op |-> op, tok |-> t, password |-> w, raced |-> FALSE]]

Goto(r, label) == pc' = [pc EXCEPT ![r] = label] /\ UNCHANGED req

Finish(r) ==
    /\ pc' = [pc EXCEPT ![r] = "idle"]
    /\ req' = [req EXCEPT ![r] = NoRequest]

----------------------------------------------------------------------------
(* Signing up and signing in. *)

\* Register finds nobody by that email.  (A row without password and without Google
\* link, which it would claim, is one the table's CHECK refuses.)
Register(r, w) ==
    /\ user = Absent
    /\ Begin(r, "register", 0, w, "create")
    /\ UNCHANGED <<user, token, alarmed, ended>>

\* The unique email and google_id let one Create through; the other caller is told
\* the address is registered.
Create(r) ==
    /\ pc[r] = "create"
    /\ \/ /\ user = Absent
          /\ user' = [password |-> req[r].password, google |-> req[r].op = "google"]
          /\ Goto(r, "issue")
       \/ /\ user # Absent
          /\ Finish(r)
          /\ UNCHANGED user
    /\ UNCHANGED <<token, alarmed, ended>>

\* Authenticate: only a password of the row as it was read gets further.
Authenticate(r, w) ==
    /\ user # Absent
    /\ user.password = w
    /\ Begin(r, "login", 0, w, "issue")
    /\ UNCHANGED <<user, token, alarmed, ended>>

\* AuthenticateGoogle: GetByGoogleID.
GoogleSubject(r) ==
    /\ Begin(r, "google", 0, NoPassword,
             IF user # Absent /\ user.google THEN "issue" ELSE "email")
    /\ UNCHANGED <<user, token, alarmed, ended>>

\* GetByEmail: link the row that has the address, or create one without password.
GoogleEmail(r) ==
    /\ pc[r] = "email"
    /\ Goto(r, IF user = Absent THEN "create" ELSE "link")
    /\ UNCHANGED <<user, token, alarmed, ended>>

SetGoogleID(r) ==
    /\ pc[r] = "link"
    /\ user' = [user EXCEPT !.google = TRUE]
    /\ Goto(r, "issue")
    /\ UNCHANGED <<token, alarmed, ended>>

\* issueSession: Store, the last statement of every sign-in and of a rotation.
Issue(r) ==
    /\ pc[r] = "issue"
    /\ Len(token) < MaxTokens
    /\ LET t == req[r].tok
       IN token' = Append(token,
              [root |-> IF t = 0 THEN Len(token) + 1 ELSE token[t].root, parent |-> t,
               revoked |-> FALSE, expired |-> FALSE,
               raced |-> t # 0 /\ (req[r].raced \/ token[t].raced), contended |-> FALSE])
    /\ Finish(r)
    /\ UNCHANGED <<user, alarmed, ended>>

----------------------------------------------------------------------------
(* Rotation, reuse and logout. *)

Revoked(ts) == [t \in Held |-> IF t \in ts THEN [token[t] EXCEPT !.revoked = TRUE]
                                           ELSE token[t]]

\* (Variant: a revoked token is not looked for.)
OutcomeOfAny(t) == IF token[t].expired THEN "expire" ELSE "rotate"

\* What Refresh makes of the row it read.
Outcome(t) ==
    IF token[t].revoked THEN "alarm"
    ELSE IF token[t].expired THEN "expire" ELSE "rotate"

\* Refresh: GetByHash.  History: two requests hold one live token at once.
LoadToken(r, t) ==
    /\ Begin(r, "refresh", t, NoPassword, Outcome(t))
    /\ token' = [token EXCEPT ![t].contended =
                   @ \/ \E q \in Requests : pc[q] = "rotate" /\ req[q].tok = t]
    /\ UNCHANGED <<user, alarmed, ended>>

\* (Variant: rotating signs every other device out.)
RotateAll(r) ==
    /\ pc[r] = "rotate"
    /\ token' = Revoked(Held)
    /\ Goto(r, "issue")
    /\ UNCHANGED <<user, alarmed, ended>>

\* Revoke: whether the row was still live is not looked at.  GetByID follows.
Rotate(r) ==
    /\ pc[r] = "rotate"
    /\ token' = Revoked({req[r].tok})
    /\ Goto(r, "issue")
    /\ UNCHANGED <<user, alarmed, ended>>

\* (Variant: only the token that came back is revoked.)
AlarmOne(r) ==
    /\ pc[r] = "alarm"
    /\ token' = Revoked({req[r].tok})
    /\ alarmed' = {token[t].root : t \in Held}
    /\ ended' = ended \cup alarmed'
    /\ Finish(r)
    /\ UNCHANGED user

\* RevokeAllForUser: the tokens stored by now.  History: rotations in flight, which
\* read their token before and will store another, are marked.
Alarm(r) ==
    /\ pc[r] = "alarm"
    /\ token' = Revoked(Held)
    /\ alarmed' = {token[t].root : t \in Held}
    /\ ended' = ended \cup alarmed'
    /\ pc' = [pc EXCEPT ![r] = "idle"]
    /\ req' = [q \in Requests |-> IF q = r THEN NoRequest
                 ELSE [req[q] EXCEPT !.raced = @ \/ pc[q] \in {"rotate", "issue"}]]
    /\ UNCHANGED user

\* An expired token is revoked and refused; a logout revokes the token it was given.
Discard(r) ==
    /\ pc[r] \in {"expire", "logout"}
    /\ token' = Revoked({req[r].tok})
    /\ ended' = ended \cup {token[req[r].tok].root}
    /\ Finish(r)
    /\ UNCHANGED <<user, alarmed>>

\* Logout of a token that is live when read; of any other it does nothing.
Logout(r, t) ==
    /\ ~token[t].revoked
    /\ Begin(r, "logout", t, NoPassword, "logout")
    /\ UNCHANGED <<user, token, alarmed, ended>>

Expire(t) ==
    /\ ~token[t].expired /\ ~token[t].revoked
    /\ token' = [token EXCEPT ![t].expired = TRUE]
    /\ UNCHANGED <<user, pc, req, alarmed, ended>>

----------------------------------------------------------------------------

\* ChangePassword: the current one is asked for unless the row has none.
CheckPassword(r, current, w) ==
    /\ user # Absent
    /\ user.password \in {current, NoPassword}
    /\ Begin(r, "password", 0, w, "set")
    /\ UNCHANGED <<user, token, alarmed, ended>>

\* No token is revoked with the password it was obtained by.
SetPasswordHash(r) ==
    /\ pc[r] = "set"
    /\ user' = [user EXCEPT !.password = req[r].password]
    /\ Finish(r)
    /\ UNCHANGED <<token, alarmed, ended>>

\* A statement fails, the client hangs up or the process dies: what was done stays.
Fail(r) ==
    /\ pc[r] # "idle"
    /\ ended' = IF pc[r] = "issue" /\ req[r].tok # 0
                THEN ended \cup {token[req[r].tok].root} ELSE ended
    /\ Finish(r)
    /\ UNCHANGED <<user, token, alarmed>>

Next ==
    \/ \E r \in Requests :
          \/ \E w \in Passwords : Register(r, w) \/ Authenticate(r, w)
          \/ GoogleSubject(r) \/ GoogleEmail(r) \/ SetGoogleID(r)
          \/ Create(r) \/ Issue(r)
          \/ \E t \in Held : LoadToken(r, t) \/ Logout(r, t)
          \/ Rotate(r) \/ Alarm(r) \/ Discard(r)
          \/ \E c, w \in Passwords : CheckPassword(r, c, w)
          \/ SetPasswordHash(r)
          \/ Fail(r)
    \/ \E t \in Held : Expire(t)

Spec == Init /\ [][Next]_vars

----------------------------------------------------------------------------
(* Properties. *)

\* Every variable keeps its type; a request that holds a token holds a stored one.
TypeOK ==
    /\ user \in User \cup {Absent}
    /\ token \in Seq(Token)
    /\ \A t \in Held : token[t].parent \in 0 .. (t - 1) /\ token[t].root \in 1 .. t
    /\ pc \in [Requests -> {"idle", "create", "email", "link", "issue", "rotate",
                            "alarm", "expire", "logout", "set"}]
    /\ req \in [Requests -> Request]
    /\ \A r \in Requests : req[r].tok \in 0 .. Len(token)
    /\ alarmed \subseteq Held /\ ended \subseteq Held

Rotating(r) == pc[r] \in {"rotate", "issue"} /\ req[r].tok # 0

\* Reuse ends what it should: once a spent token has come back, no token of a sign-in
\* from before is live, except what a rotation already in flight carried past the alarm.
AlarmEndsSignIns ==
    \A t \in Held : token[t].root \in alarmed /\ ~token[t].revoked => token[t].raced

\* Nobody is signed out without a cause: a sign-in that was neither logged out, expired,
\* alarmed nor hit by a fault has a live token, or a rotation about to store one.
SignInsEndForACause ==
    \A root \in {token[t].root : t \in Held} \ ended :
        \/ \E t \in Held : token[t].root = root /\ ~token[t].revoked
        \/ \E r \in Requests : Rotating(r) /\ token[req[r].tok].root = root

Children(t) == {u \in Held : token[u].parent = t}

\* A refresh token is traded twice only by requests that both read it before either
\* revoked it; one that begins later is refused.
TradedTwiceOnlyByOverlap ==
    \A t \in Held : Cardinality(Children(t)) > 1 => token[t].contended
=============================================================================
