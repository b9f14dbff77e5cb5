--------------------------- MODULE EventConsumer ---------------------------
(***************************************************************************)
(* The other end of the spine: a consumer of the partition the relays of   *)
(* OutboxRelay write.  It fetches a message, gives it to the handler up to *)
(* MaxTries times, and commits the offset whether the handler succeeded or *)
(* the message was abandoned.                                              *)
(***************************************************************************)
EXTENDS OutboxRelay

CONSTANTS
    MaxTries,       \* cfg.MaxAttempts of the consumer
    MaxTroubles     \* bound: relay faults and consumer stumbles together

ASSUME ConsumerAssumption == MaxTries \in Nat \ {0} /\ MaxTroubles \in Nat

VARIABLES
    offset,         \* the message fetched last, as a position of log
    committed,      \* the group's committed position
    at,             \* where Run and dispatch are
    try,            \* attempt
    handled,        \* history: the positions of log the handler succeeded on, in order
    abandoned,      \* history: the positions given up after MaxTries
    cancelled,      \* history: the positions whose handler returned context.Canceled
    stumbles        \* restarts, failed commits and cancelled handlers

consumerVars ==
    <<offset, committed, at, try, handled, abandoned, cancelled, stumbles>>

ConsumerInit ==
    /\ offset = 0
    /\ committed = 0
    /\ at = "fetch"
    /\ try = 0
    /\ handled = <<>>
    /\ abandoned = {}
    /\ cancelled = {}
    /\ stumbles = 0

Stumble == stumbles' = stumbles + 1

\* (Variant: the offset is committed by the fetch.)
FetchCommitting ==
    /\ at = "fetch" /\ offset < Len(log)
    /\ offset' = offset + 1
    /\ committed' = offset'
    /\ at' = "handle"
    /\ try' = 1
    /\ UNCHANGED <<handled, abandoned, cancelled, stumbles>>

\* FetchMessage: the reader goes on from what it fetched last, committed or not.
FetchMessage ==
    /\ at = "fetch" /\ offset < Len(log)
    /\ offset' = offset + 1
    /\ at' = "handle"
    /\ try' = 1
    /\ UNCHANGED <<committed, handled, abandoned, cancelled, stumbles>>

\* (Variant: the loop does not break on success.)
HandleOn ==
    /\ at = "handle"
    /\ handled' = Append(handled, offset)
    /\ IF try < MaxTries
       THEN try' = try + 1 /\ UNCHANGED at
       ELSE try' = 0 /\ at' = "commit"
    /\ UNCHANGED <<offset, committed, abandoned, cancelled, stumbles>>

Handle ==
    /\ at = "handle"
    /\ handled' = Append(handled, offset)
    /\ try' = 0
    /\ at' = "commit"
    /\ UNCHANGED <<offset, committed, abandoned, cancelled, stumbles>>

\* The handler fails: tried again after a backoff, in the end skipped.
HandleFails ==
    /\ at = "handle"
    /\ IF try < MaxTries
       THEN try' = try + 1 /\ UNCHANGED <<at, abandoned>>
       ELSE try' = 0 /\ at' = "commit" /\ abandoned' = abandoned \cup {offset}
    /\ UNCHANGED <<offset, committed, handled, cancelled, stumbles>>

\* The handler returns context.Canceled while Run goes on: nothing is committed, and the
\* next message is fetched.
HandleCancelled ==
    /\ at = "handle"
    /\ Stumble
    /\ cancelled' = cancelled \cup {offset}
    /\ try' = 0
    /\ at' = "fetch"
    /\ UNCHANGED <<offset, committed, handled, abandoned>>

\* CommitMessages, which covers every message before this one.
CommitMessages ==
    /\ at = "commit"
    /\ committed' = offset
    /\ at' = "fetch"
    /\ UNCHANGED <<offset, try, handled, abandoned, cancelled, stumbles>>

\* The commit fails and ends Run, or the process stops anywhere: the next one starts
\* from the committed offset.
Restart ==
    /\ at # "fetch" \/ offset > committed
    /\ Stumble
    /\ offset' = committed
    /\ at' = "fetch"
    /\ try' = 0
    /\ UNCHANGED <<committed, handled, abandoned, cancelled>>

Consume == FetchMessage \/ Handle \/ HandleFails \/ CommitMessages

SpineInit == Init /\ ConsumerInit

SpineNext ==
    /\ \/ Next /\ UNCHANGED consumerVars
       \/ (Consume \/ HandleCancelled \/ Restart) /\ UNCHANGED vars
    /\ faults' + stumbles' <= MaxTroubles

spineVars == <<vars, consumerVars>>

\* The relays' fairness, and a consumer that runs.
SpineSpec ==
    /\ SpineInit /\ [][SpineNext]_spineVars
    /\ \A e \in Events : WF_spineVars(FallDue(e) /\ UNCHANGED consumerVars)
    /\ \A r \in Relays : WF_spineVars(Drain(r) /\ UNCHANGED consumerVars)
    /\ WF_spineVars(Consume /\ UNCHANGED vars)

----------------------------------------------------------------------------
(* Properties. *)

Settled(i) == i \in abandoned \/ \E j \in DOMAIN handled : handled[j] = i

\* How often a handler that is not idempotent would count an event: once for each time
\* the relays sent it, and once more for each restart of the consumer.
HandledAgainOnlyByCause ==
    \A e \in Events :
        Cardinality({j \in DOMAIN handled : log[handled[j]] = e}) <= Times(e) + stumbles

\* From the table to the handler: every recorded event is parked by the relays or, in
\* the end, marked published and its message handled or given up after its tries.  The
\* one other way it ends is a handler cancelled on it: what happens then, see below.
\* No poisoned message wedges its partition, and no restart skips a message.
EveryEventArrives ==
    \A e \in Events :
        status[e] # "none" ~>
            \/ status[e] = "failed"
            \/ /\ status[e] = "published"
               /\ \E i \in DOMAIN log : log[i] = e /\ (Settled(i) \/ i \in cancelled)

----------------------------------------------------------------------------
(* What the code's comments say and a run refutes. *)

\* consumer.go on Handler and Run: an error leaves the offset uncommitted, so that the
\* message is redelivered; the offset is committed only after the handler succeeded (or
\* the message was given up).
CommittedIsSettled == \A i \in 1 .. committed : Settled(i)
=============================================================================
