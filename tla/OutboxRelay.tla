---------------------------- MODULE OutboxRelay ----------------------------
(***************************************************************************)
(* The outbox events of one aggregate, from the table to Kafka: the relays *)
(* of the worker replicas claim a batch of due rows, publish it, and mark  *)
(* each row published or back it off.  ClaimDue runs in no transaction, so *)
(* its row locks are gone when it returns.                                 *)
(***************************************************************************)
EXTENDS Integers, Sequences, FiniteSets

CONSTANTS
    Relays,       \* worker replicas
    Last,         \* bound: how many events the aggregate raises
    BatchSize,    \* cfg.BatchSize
    MaxAttempts,  \* cfg.MaxAttempts
    MaxFaults     \* bound: crashes, failed bookkeeping statements, answers Kafka lost

ASSUME RelayAssumption ==
    /\ Last \in Nat /\ BatchSize \in Nat \ {0}
    /\ MaxAttempts \in Nat \ {0} /\ MaxFaults \in Nat

VARIABLES
    status,     \* of each row; events are numbered in created_at order
    attempts,   \* of each row
    due,        \* available_at <= now(), for each row
    log,        \* what Kafka has accepted, in the order of its partition
    pc,         \* where each relay is
    batch,      \* the rows it holds in memory, with the attempts they had
    writer,     \* of that batch, the rows the writer is done with, and those it holds
    faults,
    late,       \* history: rows that appeared when a younger one was on its way
    refused     \* history: events the writer gave up and Kafka did not accept

history == <<late, refused>>

vars == <<status, attempts, due, log, pc, batch, writer, faults, history>>

Events == 1 .. Last

NoWrites == [done |-> 0, held |-> 0]

Init ==
    /\ status = [e \in Events |-> "none"]
    /\ attempts = [e \in Events |-> 0]
    /\ due = [e \in Events |-> FALSE]
    /\ log = <<>>
    /\ pc = [r \in Relays |-> "idle"]
    /\ batch = [r \in Relays |-> <<>>]
    /\ writer = [r \in Relays |-> NoWrites]
    /\ faults = 0
    /\ late = {}
    /\ refused = {}

Goto(r, label) == pc' = [pc EXCEPT ![r] = label]

Finish(r) ==
    /\ Goto(r, "idle")
    /\ batch' = [batch EXCEPT ![r] = <<>>]
    /\ writer' = [writer EXCEPT ![r] = NoWrites]

Held(r, e) == \E i \in DOMAIN batch[r] : batch[r][i].id = e
Sent(e) == \E i \in DOMAIN log : log[i] = e

\* What a crash, a failed statement or a lost answer costs.
Fault == faults < MaxFaults /\ faults' = faults + 1

\* Outbox.Create.  created_at is the application's clock from before the insert, so of
\* two requests' rows the younger may appear first.
Record(e) ==
    /\ status[e] = "none"
    /\ status' = [status EXCEPT ![e] = "pending"]
    /\ due' = [due EXCEPT ![e] = TRUE]
    /\ late' = IF \E y \in Events : y > e /\ (Sent(y) \/ \E r \in Relays : Held(r, y))
               THEN late \cup {e} ELSE late
    /\ UNCHANGED <<attempts, log, pc, batch, writer, faults, refused>>

\* available_at passes.
FallDue(e) ==
    /\ status[e] = "pending" /\ ~due[e]
    /\ due' = [due EXCEPT ![e] = TRUE]
    /\ UNCHANGED <<status, attempts, log, pc, batch, writer, faults, history>>

----------------------------------------------------------------------------
(* drain. *)

Due == {e \in Events : status[e] = "pending" /\ due[e]}

\* Rows another replica's statement may be locking at this very moment.
Lockable(r) == {e \in Events : \E q \in Relays \ {r} : Held(q, e)}

\* (Variant: the newest rows first.)
InReverse(rows) ==
    {s \in [1 .. Cardinality(rows) -> rows] : \A i, j \in DOMAIN s : i < j => s[i] > s[j]}

\* The one listing of the rows in created_at order.
InOrder(rows) ==
    {s \in [1 .. Cardinality(rows) -> rows] : \A i, j \in DOMAIN s : i < j => s[i] < s[j]}

\* ORDER BY created_at LIMIT.
Oldest(rows) == {e \in rows : Cardinality({d \in rows : d <= e}) <= BatchSize}

\* ClaimDue, FOR UPDATE SKIP LOCKED.
ClaimDue(r) ==
    /\ pc[r] = "idle"
    /\ \E skipped \in SUBSET Lockable(r) : \E ids \in InOrder(Oldest(Due \ skipped)) :
        /\ ids # <<>>
        /\ batch' = [batch EXCEPT ![r] =
              [i \in DOMAIN ids |-> [id |-> ids[i], attempts |-> attempts[ids[i]]]]]
    /\ Goto(r, "claimed")
    /\ UNCHANGED <<status, attempts, due, log, writer, faults, history>>

Ids(r) == [i \in DOMAIN batch[r] |-> batch[r][i].id]

----------------------------------------------------------------------------
(* Publish.  WriteMessages splits the batch by count, by size and by time, among  *)
(* other aggregates' events: any next few of these rows make up a writer batch.   *)
(* Kafka accepts a writer batch whole or not at all, and each is written after    *)
(* the one before it has succeeded or been given up.                              *)

Writing == {"claimed", "failing"}

\* A writer batch that is sent again is the same one.
Sizes(r) ==
    IF writer[r].held = 0 THEN 1 .. Len(batch[r]) - writer[r].done ELSE {writer[r].held}

Slice(r, n) == SubSeq(Ids(r), writer[r].done + 1, writer[r].done + n)

Accept(r, n) == log' = log \o Slice(r, n)

\* After the last writer batch Publish returns; an error if one of them failed.
Wrote(r, n, label) ==
    LET done == writer[r].done + n IN
    IF done < Len(batch[r])
    THEN Goto(r, label) /\ writer' = [writer EXCEPT ![r] = [done |-> done, held |-> 0]]
    ELSE /\ Goto(r, IF label = "claimed" THEN "sent" ELSE "retry")
         /\ writer' = [writer EXCEPT ![r] = NoWrites]

\* The brokers acknowledge a writer batch.
Publish(r) ==
    /\ pc[r] \in Writing
    /\ \E n \in Sizes(r) : Accept(r, n) /\ Wrote(r, n, pc[r])
    /\ UNCHANGED <<status, attempts, due, batch, faults, history>>

\* They accept it, their answer is lost, and the writer tries again on its own.
PublishAgain(r) ==
    /\ pc[r] \in Writing
    /\ Fault
    /\ \E n \in Sizes(r) : /\ Accept(r, n)
                           /\ writer' = [writer EXCEPT ![r].held = n]
    /\ UNCHANGED <<status, attempts, due, pc, batch, history>>

\* (Variant: a partial failure is taken for an acknowledgement.)
PublishFailsSilently(r) ==
    /\ pc[r] \in Writing
    /\ \E n \in Sizes(r) :
        /\ \/ Accept(r, n) /\ UNCHANGED refused
           \/ refused' = refused \cup {Slice(r, n)[i] : i \in 1 .. n} /\ UNCHANGED log
        /\ Wrote(r, n, pc[r])
    /\ UNCHANGED <<status, attempts, due, batch, faults, late>>

\* The writer's last attempt at a writer batch fails, accepted or not; the later ones
\* are written all the same.
PublishFails(r) ==
    /\ pc[r] \in Writing
    /\ \E n \in Sizes(r) :
        /\ \/ Accept(r, n) /\ UNCHANGED refused
           \/ refused' = refused \cup {Slice(r, n)[i] : i \in 1 .. n} /\ UNCHANGED log
        /\ Wrote(r, n, "failing")
    /\ UNCHANGED <<status, attempts, due, batch, faults, late>>

----------------------------------------------------------------------------
(* The bookkeeping. *)

\* MarkPublished: one statement for the batch, whatever the rows' status.
MarkPublished(r) ==
    /\ pc[r] = "sent"
    /\ status' = [e \in Events |->
                    IF Held(r, e) THEN "published" ELSE status[e]]
    /\ Finish(r)
    /\ UNCHANGED <<attempts, due, log, faults, history>>

\* Published but not marked: the rows stay due.
MarkPublishedFails(r) ==
    /\ pc[r] = "sent"
    /\ Fault
    /\ Finish(r)
    /\ UNCHANGED <<status, attempts, due, log, history>>

\* (Variant: off by one.)
ExhaustedEarly(row) == row.attempts + 2 >= MaxAttempts

\* Counted from the attempts the row had when it was claimed.
Exhausted(row) == row.attempts + 1 >= MaxAttempts

Advance(r) ==
    IF Len(batch[r]) = 1
    THEN Finish(r)
    ELSE batch' = [batch EXCEPT ![r] = Tail(@)] /\ UNCHANGED <<pc, writer>>

\* (Variant: the row is backed off without counting the attempt.)
MarkFailedUncounted(r) ==
    /\ pc[r] = "retry"
    /\ LET row == Head(batch[r]) IN
        /\ status' = [status EXCEPT ![row.id] =
                        IF Exhausted(row) THEN "failed" ELSE "pending"]
        /\ due' = [due EXCEPT ![row.id] = FALSE]
    /\ Advance(r)
    /\ UNCHANGED <<attempts, log, faults, history>>

\* retryBatch, row by row: MarkFailed.
MarkFailed(r) ==
    /\ pc[r] = "retry"
    /\ LET row == Head(batch[r]) IN
        /\ status' = [status EXCEPT ![row.id] =
                        IF Exhausted(row) THEN "failed" ELSE "pending"]
        /\ attempts' = [attempts EXCEPT ![row.id] = @ + 1]
        /\ due' = [due EXCEPT ![row.id] = FALSE]
    /\ Advance(r)
    /\ UNCHANGED <<log, faults, history>>

\* The statement fails: it is logged and the next row is tried.
MarkFailedFails(r) ==
    /\ pc[r] = "retry"
    /\ Fault
    /\ Advance(r)
    /\ UNCHANGED <<status, attempts, due, log, history>>

\* The worker dies and restarts; the batch was only in memory.
Crash(r) ==
    /\ pc[r] # "idle"
    /\ Fault
    /\ Finish(r)
    /\ UNCHANGED <<status, attempts, due, log, history>>

Drain(r) ==
    \/ ClaimDue(r)
    \/ Publish(r) \/ PublishFails(r)
    \/ MarkPublished(r) \/ MarkPublishedFails(r)
    \/ MarkFailed(r) \/ MarkFailedFails(r)

Next ==
    \/ \E e \in Events : Record(e) \/ FallDue(e)
    \/ \E r \in Relays : Drain(r) \/ PublishAgain(r) \/ Crash(r)

Spec == Init /\ [][Next]_vars

----------------------------------------------------------------------------
(* Properties. *)

\* Every variable keeps its type, a relay is idle exactly while it holds no row, and the
\* writer never gets past the batch.
TypeOK ==
    /\ status \in [Events -> {"none", "pending", "published", "failed"}]
    /\ attempts \in [Events -> Nat]
    /\ due \in [Events -> BOOLEAN]
    /\ log \in Seq(Events)
    /\ pc \in [Relays -> Writing \cup {"idle", "sent", "retry"}]
    /\ batch \in [Relays -> Seq([id : Events, attempts : Nat])]
    /\ writer \in [Relays -> [done : Nat, held : Nat]]
    /\ \A r \in Relays :
        /\ batch[r] = <<>> <=> pc[r] = "idle"
        /\ IF pc[r] \in Writing
           THEN /\ writer[r].done < Len(batch[r])
                /\ writer[r].done + writer[r].held <= Len(batch[r])
           ELSE writer[r] = NoWrites
    /\ faults \in 0 .. MaxFaults
    /\ late \subseteq Events /\ refused \subseteq Events

Times(e) == Cardinality({i \in DOMAIN log : log[i] = e})

\* A row marked published was accepted by the broker, whatever failed in
\* between (Publish's comment: a partial failure must surface as an error).
PublishedWasSent == \A e \in Events : status[e] = "published" => Sent(e)

\* A row is given up only after MaxAttempts failures, however many relays count
\* them from copies of their own.
GivenUpWasTried == \A e \in Events : status[e] = "failed" => attempts[e] >= MaxAttempts

\* Kafka holds an event more than once only for a failed publish that the row counts,
\* or for a crash, a failed bookkeeping statement or a lost answer.
ResendsAreCaused == \A e \in Events : Times(e) <= 1 + attempts[e] + faults

Before(d, e) ==
    \E i \in DOMAIN log : log[i] = d /\ \A j \in 1 .. i : log[j] # e

\* An event reaches the log before an older one of its aggregate only where the writer
\* gave the older one up, or where the older row appeared when the younger one was
\* already on its way: no claim, crash, failed statement or retry reorders them.
OvertakesOnlyForACause ==
    \A d, e \in Events :
        d < e /\ status[d] # "none" /\ Before(e, d) => d \in refused \cup late

----------------------------------------------------------------------------
(* What the code's comments and documents say and its runs refute. *)

\* publisher.go: all events for one session or account stay strictly ordered.
StrictlyOrdered == \A d, e \in Events : d < e => ~Before(e, d)

\* interface.go on ClaimDue: several relay replicas can drain concurrently
\* without publishing the same event twice.
NeverTwiceUntroubled ==
    \A e \in Events :
        faults = 0 /\ (\A r \in Relays : pc[r] \notin {"failing", "retry"}) /\ (\A d \in Events : attempts[d] = 0)
            => Times(e) <= 1
=============================================================================
