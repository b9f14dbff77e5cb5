--------------------------- MODULE SessionOpening ---------------------------
(***************************************************************************)
(* How a session comes to be and goes, as its account sees it, beside the  *)
(* resets of AccountTree.  Start reads the account, the live session and   *)
(* the feed and then inserts, each in a statement of its own; the insert,  *)
(* a close and a sweep each commit before the event that tells of them is  *)
(* written.                                                                *)
(***************************************************************************)
EXTENDS AccountTree

CONSTANTS
    Starters,   \* requests to POST /sessions
    Closer,     \* a request to close
    Sweeper,    \* the worker's idle sweeper
    Sessions,   \* bound: the sessions ever started
    SweepLimit,
    MaxFaults   \* bound: event writes that fail and processes that die

ASSUME OpeningAssumption ==
    /\ SweepLimit \in Nat \ {0} /\ MaxFaults \in Nat
    /\ Closer \notin Starters /\ Sweeper \notin Starters /\ Closer # Sweeper

VARIABLES
    session,    \* the replay_sessions rows
    start,      \* where each Start is, for which account, read at which version
    selected,   \* the idle rows the sweep's statement has selected
    hand,       \* the events each actor has yet to write
    told,       \* the events written
    lost,       \* history: the events a failed write or a crash took
    troubles

openingVars == <<session, start, selected, hand, told, lost, troubles>>

Actors == Starters \cup {Closer, Sweeper}

Unborn == [status |-> "none", account |-> NoAccount, read |-> 0]
NoStart == [at |-> "idle", account |-> NoAccount, read |-> 0]

OpeningInit ==
    /\ session = [s \in Sessions |-> Unborn]
    /\ start = [q \in Starters |-> NoStart]
    /\ selected = {}
    /\ hand = [p \in Actors |-> {}]
    /\ told = {}
    /\ lost = {}
    /\ troubles = 0

Live(s) == session[s].status \in {"open", "paused"}

\* (Variant: the partial index misses the paused ones.)
LiveOnOpen(a) == {s \in Sessions : session[s].status = "open" /\ session[s].account = a}

LiveOn(a) == {s \in Sessions : Live(s) /\ session[s].account = a}

----------------------------------------------------------------------------
(* Start. *)

\* (Variant: the account need only exist.)
StartCheckOwned(q, a) ==
    /\ start[q].at = "idle" /\ hand[q] = {}
    /\ Exists(a)
    /\ start' = [start EXCEPT ![q] = [at |-> "live", account |-> a,
                                      read |-> accounts[a].version]]
    /\ UNCHANGED <<session, selected, hand, told, lost, troubles>>

\* OwnedActiveAccount: a sealed iteration is refused.
StartCheckAccount(q, a) ==
    /\ start[q].at = "idle" /\ hand[q] = {}
    /\ accounts[a].status = "active"
    /\ start' = [start EXCEPT ![q] = [at |-> "live", account |-> a,
                                      read |-> accounts[a].version]]
    /\ UNCHANGED <<session, selected, hand, told, lost, troubles>>

Refuse(q) == start' = [start EXCEPT ![q] = NoStart]

\* GetLiveByAccountID, SESSION_ALREADY_OPEN.
StartCheckLive(q) ==
    /\ start[q].at = "live"
    /\ IF LiveOn(start[q].account) = {}
       THEN start' = [start EXCEPT ![q].at = "feed"]
       ELSE Refuse(q)
    /\ UNCHANGED <<session, selected, hand, told, lost, troubles>>

\* Feeds.Get and the timeframe: an unpublished feed is not found.
StartGetFeed(q) ==
    /\ start[q].at = "feed"
    /\ start' = [start EXCEPT ![q].at = "create"] \/ Refuse(q)
    /\ UNCHANGED <<session, selected, hand, told, lost, troubles>>

\* replay_sessions_single_open: the insert of a second live session fails.
Indexed(a) == LiveOn(a)

StartCreate(q) ==
    /\ start[q].at = "create"
    /\ Refuse(q)
    /\ IF Indexed(start[q].account) # {}
       THEN UNCHANGED <<session, hand>>
       ELSE \E s \in Sessions :
            /\ session[s] = Unborn
            /\ session' = [session EXCEPT ![s] =
                  [status |-> "open", account |-> start[q].account, read |-> start[q].read]]
            /\ hand' = [hand EXCEPT ![q] = {<<"started", s>>}]
    /\ UNCHANGED <<selected, told, lost, troubles>>

----------------------------------------------------------------------------
(* The session's life, as far as its account is concerned. *)

Pause(s) ==
    /\ session[s].status = "open"
    /\ session' = [session EXCEPT ![s].status = "paused"]
    /\ UNCHANGED <<start, selected, hand, told, lost, troubles>>

Resume(s) ==
    /\ session[s].status = "paused"
    /\ session' = [session EXCEPT ![s].status = "open"]
    /\ UNCHANGED <<start, selected, hand, told, lost, troubles>>

\* Close: its update names the version it read, so it ends a live session only.
Close(s) ==
    /\ hand[Closer] = {}
    /\ Live(s)
    /\ session' = [session EXCEPT ![s].status = "closed"]
    /\ hand' = [hand EXCEPT ![Closer] = {<<"closed", s>>}]
    /\ UNCHANGED <<start, selected, told, lost, troubles>>

\* AbandonIdle, the subselect: up to SweepLimit of the live rows that have gone idle.
SweepSelect ==
    /\ selected = {} /\ hand[Sweeper] = {}
    /\ \E idle \in SUBSET {s \in Sessions : Live(s)} :
        /\ idle # {} /\ Cardinality(idle) <= SweepLimit
        /\ selected' = idle
    /\ UNCHANGED <<session, start, hand, told, lost, troubles>>

\* AbandonIdle, the update: by id, whatever has become of the rows.
SweepFlip ==
    /\ selected # {}
    /\ session' = [s \in Sessions |->
          IF s \in selected THEN [session[s] EXCEPT !.status = "abandoned"] ELSE session[s]]
    /\ hand' = [hand EXCEPT ![Sweeper] = {<<"abandoned", s>> : s \in selected}]
    /\ selected' = {}
    /\ UNCHANGED <<start, told, lost, troubles>>

----------------------------------------------------------------------------
(* The events, each written after its change has committed. *)

Emit(p, e) ==
    /\ e \in hand[p]
    /\ told' = told \cup {e}
    /\ hand' = [hand EXCEPT ![p] = @ \ {e}]
    /\ UNCHANGED <<session, start, selected, lost, troubles>>

Trouble == troubles < MaxFaults /\ troubles' = troubles + 1

\* (Variant: the sweep gives up at the first event it cannot write.)
EmitFailsForAll(p, e) ==
    /\ e \in hand[p]
    /\ Trouble
    /\ hand' = [hand EXCEPT ![p] = {}]
    /\ lost' = lost \cup {e}
    /\ UNCHANGED <<session, start, selected, told>>

\* Start and Close return the error; the sweep logs it and goes on with its batch.
EmitFails(p, e) ==
    /\ e \in hand[p]
    /\ Trouble
    /\ hand' = [hand EXCEPT ![p] = @ \ {e}]
    /\ lost' = lost \cup {e}
    /\ UNCHANGED <<session, start, selected, told>>

\* The process dies with the events it had in memory.
Die(p) ==
    /\ hand[p] # {}
    /\ Trouble
    /\ hand' = [hand EXCEPT ![p] = {}]
    /\ lost' = lost \cup hand[p]
    /\ UNCHANGED <<session, start, selected, told>>

OpeningNext ==
    \/ \E q \in Starters :
          \/ \E a \in Accounts : StartCheckAccount(q, a)
          \/ StartCheckLive(q) \/ StartGetFeed(q) \/ StartCreate(q)
    \/ \E s \in Sessions : Pause(s) \/ Resume(s) \/ Close(s)
    \/ SweepSelect \/ SweepFlip
    \/ \E p \in Actors :
          \/ \E e \in hand[p] : Emit(p, e) \/ EmitFails(p, e)
          \/ Die(p)

\* The account desk and the sessions on its accounts, in any interleaving.
TradeInit == Init /\ OpeningInit

TradeNext ==
    \/ Next /\ UNCHANGED openingVars
    \/ OpeningNext /\ UNCHANGED vars

TradeSpec == TradeInit /\ [][TradeNext]_<<vars, openingVars>>

----------------------------------------------------------------------------
(* Properties. *)

\* One live session per account, however many requests pass Start's own check at once.
OneLivePerAccount == \A a \in Accounts : Cardinality(LiveOn(a)) <= 1

\* A live session on a sealed iteration was opened on the row as it was before the seal:
\* its account was reset after it started, or between Start's check and its insert.
SealedStartsOnlyByRace ==
    \A s \in Sessions : session[s] # Unborn =>
        \/ accounts[session[s].account].status = "active"
        \/ session[s].read < accounts[session[s].account].version

Told(e) == e \in told \cup lost \/ \E p \in Actors : e \in hand[p]

\* Every start and end of a session is told of, unless that very write failed or its
\* process died, and nothing is told that did not happen: one session that fails to emit
\* does not strand the rest of its sweep.
EventsLostOnlyByFault ==
    /\ \A s \in Sessions :
        /\ session[s] # Unborn <=> Told(<<"started", s>>)
        /\ session[s].status \in {"closed", "abandoned"} => Told(<<session[s].status, s>>)
    /\ \A e \in told : session[e[2]].status # "none"
=============================================================================
