------------------------- MODULE OutboxRelayProofs -------------------------
(***************************************************************************)
(* Proofs about OutboxRelay and EventConsumer, for any number of events,   *)
(* attempts and faults.  Of any number of relays: the types, that a row    *)
(* marked published was accepted by the broker, and that a row given up    *)
(* used its attempts.  Of a lone relay: why it sends an event again, and   *)
(* what it sends out of order.  Of the consumer behind any number of them: *)
(* why its handler sees an event twice.                                    *)
(***************************************************************************)
EXTENDS EventConsumer, FiniteSetTheorems, SequenceTheorems, TLAPS

USE RelayAssumption DEF Events

Row == [id : Events, attempts : Nat]

Pcs == Writing \cup {"idle", "sent", "retry"}
Writers == [done : Nat, held : Nat]

\* The writer never gets past the batch.
WriterFits(r) ==
    IF pc[r] \in Writing
    THEN /\ writer[r].done < Len(batch[r])
         /\ writer[r].done + writer[r].held <= Len(batch[r])
    ELSE writer[r] = NoWrites

\* What a relay holds in memory: rows that were recorded, with a count the table
\* has reached, and, as far as the broker acknowledged them, rows that are in the log.
Grounded(r) ==
    \A i \in DOMAIN batch[r] :
        /\ status[batch[r][i].id] # "none"
        /\ batch[r][i].attempts <= attempts[batch[r][i].id]
        /\ pc[r] = "sent" => Sent(batch[r][i].id)
        /\ pc[r] = "claimed" /\ i <= writer[r].done => Sent(batch[r][i].id)

RelayInv ==
    /\ \A r \in Relays : Grounded(r)
    /\ PublishedWasSent
    /\ GivenUpWasTried

\* A listing of rows is a sequence of them.
LEMMA InOrderType ==
    ASSUME NEW rows \in SUBSET Events, NEW ids \in InOrder(rows)
    PROVE  ids \in Seq(rows)
<1>1. IsFiniteSet(Events)
  BY FS_Interval
<1>2. Cardinality(rows) \in Nat
  BY <1>1, FS_Subset, FS_CardinalityType
<1>3. ids \in [1 .. Cardinality(rows) -> rows]
  BY DEF InOrder
<1> QED  BY <1>2, <1>3

\* A batch is what its relay claimed or what is left of it.
LEMMA ClaimedType ==
    ASSUME TypeOK, NEW r \in Relays, ClaimDue(r)
    PROVE  /\ batch'[r] \in Seq(Row)
           /\ batch'[r] # <<>>
           /\ \A i \in DOMAIN batch'[r] :
                /\ status[batch'[r][i].id] = "pending"
                /\ batch'[r][i].attempts = attempts[batch'[r][i].id]
           /\ \A q \in Relays \ {r} : batch'[q] = batch[q]
           /\ batch' \in [Relays -> Seq(Row)]
<1>0. PICK skipped \in SUBSET Lockable(r) : \E ids \in InOrder(Oldest(Due \ skipped)) :
        /\ ids # <<>>
        /\ batch' = [batch EXCEPT ![r] =
              [i \in DOMAIN ids |-> [id |-> ids[i], attempts |-> attempts[ids[i]]]]]
  BY DEF ClaimDue
<1>1. PICK ids \in InOrder(Oldest(Due \ skipped)) :
        /\ ids # <<>>
        /\ batch' = [batch EXCEPT ![r] =
              [i \in DOMAIN ids |-> [id |-> ids[i], attempts |-> attempts[ids[i]]]]]
  BY <1>0
<1> DEFINE rows == Oldest(Due \ skipped)
           new == [i \in DOMAIN ids |-> [id |-> ids[i], attempts |-> attempts[ids[i]]]]
<1>2. rows \in SUBSET Events /\ \A e \in rows : status[e] = "pending"
  BY DEF Oldest, Due
<1> HIDE DEF rows
<1>3. \A e \in rows : status[e] = "pending"
  BY <1>2
<1>4. ids \in Seq(rows)
  BY <1>2, InOrderType DEF rows
<1>5. /\ Len(ids) \in Nat /\ DOMAIN ids = 1 .. Len(ids)
      /\ \A i \in DOMAIN ids : ids[i] \in rows /\ ids[i] \in Events
  <2>1. Len(ids) \in Nat /\ DOMAIN ids = 1 .. Len(ids)
    BY <1>4, LenProperties
  <2>2. \A i \in 1 .. Len(ids) : ids[i] \in rows
    BY <1>4, ElementOfSeq
  <2> QED  BY <1>2, <2>1, <2>2
<1>6. \A i \in DOMAIN ids : [id |-> ids[i], attempts |-> attempts[ids[i]]] \in Row
  BY <1>5 DEF Row, TypeOK
<1>7. new \in Seq(Row)
  <2>1. new \in [1 .. Len(ids) -> Row]
    BY <1>5, <1>6
  <2> QED  BY <1>5, <2>1
<1>8. new # <<>>
  <2>1. Len(ids) # 0
    BY <1>1, <1>4, EmptySeq
  <2>2. DOMAIN new = 1 .. Len(ids)
    BY <1>5
  <2>3. 1 \in DOMAIN new
    BY <1>5, <2>1, <2>2
  <2> QED  BY <2>3
<1>9. batch \in [Relays -> Seq(Row)]
  BY DEF TypeOK, Row
<1>10. batch'[r] = new /\ DOMAIN new = DOMAIN ids
       /\ \A q \in Relays \ {r} : batch'[q] = batch[q]
  BY <1>1, <1>9
<1>11. \A i \in DOMAIN new : new[i].id = ids[i] /\ new[i].attempts = attempts[ids[i]]
  BY <1>5
<1>12. \A i \in DOMAIN new : status[new[i].id] = "pending" /\ new[i].attempts = attempts[new[i].id]
  BY <1>3, <1>5, <1>10, <1>11
<1>13. batch' \in [Relays -> Seq(Row)]
  BY <1>1, <1>7, <1>9
<1> QED  BY <1>7, <1>8, <1>10, <1>12, <1>13

\* What is appended to the log is in it, and what was in it stays.
LEMMA Appended ==
    ASSUME TypeOK, NEW t \in Seq(Events), log' = log \o t
    PROVE  /\ log' \in Seq(Events)
           /\ \A e \in Events : Sent(e) => Sent(e)'
           /\ \A i \in DOMAIN t : \E j \in DOMAIN log' : log'[j] = t[i]
<1>1. log \in Seq(Events)
  BY DEF TypeOK
<1>2. /\ log' \in Seq(Events)
      /\ Len(log) \in Nat /\ Len(t) \in Nat /\ Len(log') = Len(log) + Len(t)
      /\ DOMAIN log = 1 .. Len(log) /\ DOMAIN t = 1 .. Len(t)
      /\ DOMAIN log' = 1 .. Len(log')
  BY <1>1
<1>3. \A i \in DOMAIN log : i \in DOMAIN log' /\ log'[i] = log[i]
  BY <1>1, <1>2
<1>4. \A i \in DOMAIN t : i + Len(log) \in DOMAIN log' /\ log'[i + Len(log)] = t[i]
  BY <1>1, <1>2
<1> QED  BY <1>2, <1>3, <1>4 DEF Sent

\* The identifiers of a batch are a sequence of events.
LEMMA IdsType ==
    ASSUME TypeOK, NEW r \in Relays
    PROVE  /\ Ids(r) \in Seq(Events)
           /\ Len(Ids(r)) = Len(batch[r])
           /\ DOMAIN Ids(r) = DOMAIN batch[r]
<1>1. batch[r] \in Seq(Row)
  BY DEF TypeOK, Row
<1>2. /\ Len(batch[r]) \in Nat /\ DOMAIN batch[r] = 1 .. Len(batch[r])
      /\ \A i \in 1 .. Len(batch[r]) : batch[r][i] \in Row
  BY <1>1, ElementOfSeq
<1>3. \A i \in 1 .. Len(batch[r]) : batch[r][i].id \in Events
  BY <1>2 DEF Row
<1>4. Ids(r) = [i \in 1 .. Len(batch[r]) |-> batch[r][i].id]
  BY <1>2 DEF Ids
<1>5. Ids(r) \in Seq(Events)
  BY <1>2, <1>3, <1>4
<1>6. Len(Ids(r)) = Len(batch[r]) /\ DOMAIN Ids(r) = DOMAIN batch[r]
  BY <1>2, <1>4
<1> QED  BY <1>5, <1>6

\* A relay that lets go of its batch holds nothing.
LEMMA Finished ==
    ASSUME TypeOK, NEW r \in Relays, Finish(r)
    PROVE  /\ pc' \in [Relays -> Pcs]
           /\ batch' \in [Relays -> Seq(Row)]
           /\ writer' \in [Relays -> Writers]
           /\ pc'[r] = "idle" /\ batch'[r] = <<>> /\ WriterFits(r)'
           /\ \A q \in Relays \ {r} :
                pc'[q] = pc[q] /\ batch'[q] = batch[q] /\ writer'[q] = writer[q]
<1>1. batch \in [Relays -> Seq(Row)] /\ <<>> \in Seq(Row)
  BY EmptySeq DEF TypeOK, Row
<1>2. /\ pc \in [Relays -> Pcs] /\ writer \in [Relays -> Writers]
      /\ NoWrites \in Writers /\ "idle" \in Pcs /\ "idle" \notin Writing
  BY DEF TypeOK, Pcs, Writers, NoWrites, Writing
<1>3. /\ pc' = [pc EXCEPT ![r] = "idle"] /\ batch' = [batch EXCEPT ![r] = <<>>]
      /\ writer' = [writer EXCEPT ![r] = NoWrites]
  BY DEF Finish, Goto
<1>4. /\ pc' \in [Relays -> Pcs] /\ pc'[r] = "idle"
      /\ \A q \in Relays \ {r} : pc'[q] = pc[q]
  BY <1>2, <1>3
<1>5. /\ writer' \in [Relays -> Writers] /\ writer'[r] = NoWrites
      /\ \A q \in Relays \ {r} : writer'[q] = writer[q]
  BY <1>2, <1>3
<1>6. /\ batch' \in [Relays -> Seq(Row)] /\ batch'[r] = <<>>
      /\ \A q \in Relays \ {r} : batch'[q] = batch[q]
  BY <1>1, <1>3
<1>7. WriterFits(r)'
  BY <1>2, <1>4, <1>5 DEF WriterFits, NoWrites
<1> QED  BY <1>4, <1>5, <1>6, <1>7

\* Moving on to the next row of a batch leaves a part of the batch.
LEMMA Advanced ==
    ASSUME TypeOK, NEW r \in Relays, pc[r] = "retry", Advance(r)
    PROVE  /\ pc' \in [Relays -> Pcs]
           /\ batch' \in [Relays -> Seq(Row)]
           /\ writer' \in [Relays -> Writers] /\ WriterFits(r)'
           /\ pc'[r] \in {"idle", "retry"}
           /\ batch'[r] = <<>> <=> pc'[r] = "idle"
           /\ \A i \in DOMAIN batch'[r] :
                \E j \in DOMAIN batch[r] : batch'[r][i] = batch[r][j]
           /\ \A q \in Relays \ {r} :
                pc'[q] = pc[q] /\ batch'[q] = batch[q] /\ writer'[q] = writer[q]
<1>1. batch \in [Relays -> Seq(Row)] /\ batch[r] \in Seq(Row) /\ batch[r] # <<>>
  BY DEF TypeOK, Row
<1>2. CASE Len(batch[r]) = 1
  BY <1>2, Finished DEF Advance
<1>3. CASE Len(batch[r]) # 1
  <2>1. batch' = [batch EXCEPT ![r] = Tail(@)] /\ pc' = pc /\ writer' = writer
    BY <1>3 DEF Advance
  <2>2. Len(batch[r]) \in Nat /\ Len(batch[r]) > 1
    <3>1. Len(batch[r]) \in Nat \ {0}
      BY <1>1, EmptySeq
    <3>2. \A n \in Nat \ {0} : n # 1 => n \in Nat /\ n > 1
      OBVIOUS
    <3> QED  BY <1>3, <3>1, <3>2
  <2>3. /\ Tail(batch[r]) \in Seq(Row) /\ Len(Tail(batch[r])) = Len(batch[r]) - 1
        /\ \A i \in 1 .. Len(Tail(batch[r])) : Tail(batch[r])[i] = batch[r][i + 1]
    BY <1>1, <2>2
  <2>4. Tail(batch[r]) # <<>>
    BY <2>2, <2>3
  <2>5. \A i \in DOMAIN Tail(batch[r]) :
            i + 1 \in DOMAIN batch[r] /\ Tail(batch[r])[i] = batch[r][i + 1]
    BY <1>1, <2>2, <2>3
  <2>6. batch'[r] = Tail(batch[r]) /\ \A q \in Relays \ {r} : batch'[q] = batch[q]
    BY <1>1, <2>1
  <2>7. batch' \in [Relays -> Seq(Row)]
    BY <1>1, <2>1, <2>3
  <2>8. pc'[r] = "retry"
    BY <2>1
  <2>9. \A i \in DOMAIN batch'[r] : \E j \in DOMAIN batch[r] : batch'[r][i] = batch[r][j]
    BY <2>5, <2>6
  <2>10. writer' \in [Relays -> Writers] /\ pc' \in [Relays -> Pcs]
    BY <2>1 DEF TypeOK, Writers, Pcs
  <2>11. WriterFits(r)'
    BY <2>1, <2>8 DEF TypeOK, WriterFits, Writing
  <2> QED  BY <2>1, <2>4, <2>6, <2>7, <2>8, <2>9, <2>10, <2>11
<1> QED  BY <1>2, <1>3

\* What a relay holds stays good while the table and the log only grow and its
\* batch only shrinks.
LEMMA StillHeld ==
    ASSUME TypeOK, NEW q \in Relays, Grounded(q),
           \A e \in Events : status[e] # "none" => status'[e] # "none",
           \A e \in Events : attempts'[e] \in Nat /\ attempts[e] <= attempts'[e],
           \A e \in Events : Sent(e) => Sent(e)',
           pc'[q] = "sent" => pc[q] = "sent",
           pc'[q] = "claimed" => pc[q] = "claimed" /\ batch'[q] = batch[q] /\ writer'[q] = writer[q],
           \A i \in DOMAIN batch'[q] : \E j \in DOMAIN batch[q] : batch'[q][i] = batch[q][j]
    PROVE  Grounded(q)'
<1> SUFFICES ASSUME NEW i \in DOMAIN batch'[q]
             PROVE  /\ status'[batch'[q][i].id] # "none"
                    /\ batch'[q][i].attempts <= attempts'[batch'[q][i].id]
                    /\ pc'[q] = "sent" => Sent(batch[q][i].id)'
                    /\ pc'[q] = "claimed" /\ i <= writer'[q].done => Sent(batch[q][i].id)'
  BY DEF Grounded
<1>1. PICK j \in DOMAIN batch[q] : batch'[q][i] = batch[q][j]
  OBVIOUS
<1>2. batch[q] \in Seq(Row)
  BY DEF TypeOK, Row
<1>3. batch[q][j] \in Row
  BY <1>2
<1>4. batch[q][j].id \in Events /\ batch[q][j].attempts \in Nat
  BY <1>3 DEF Row
<1>5. /\ status[batch[q][j].id] # "none"
      /\ batch[q][j].attempts <= attempts[batch[q][j].id]
      /\ pc[q] = "sent" => Sent(batch[q][j].id)
  BY DEF Grounded
<1>6. attempts[batch[q][j].id] \in Nat
  <2>1. attempts \in [Events -> Nat]
    BY Zenon DEF TypeOK
  <2> QED  BY <1>4, <2>1
<1>7. Sent(batch[q][j].id) => Sent(batch[q][i].id)'
  BY <1>1, <1>4 DEF Sent
<1>8. ASSUME pc'[q] = "claimed", i <= writer'[q].done PROVE Sent(batch[q][i].id)'
  <2>1. /\ pc[q] = "claimed" /\ batch'[q] = batch[q] /\ i \in DOMAIN batch[q]
        /\ i <= writer[q].done
    BY <1>8
  <2>2. Sent(batch[q][i].id)
    BY <2>1 DEF Grounded
  <2>3. batch[q][i].id \in Events
    <3>1. batch[q][i] \in Row
      BY <1>2, <2>1, LenProperties, ElementOfSeq
    <3> QED  BY <3>1 DEF Row
  <2> QED  BY <2>1, <2>2, <2>3 DEF Sent
<1>9. status'[batch'[q][i].id] # "none"
  BY <1>1, <1>4, <1>5
<1>10. batch'[q][i].attempts <= attempts'[batch'[q][i].id]
  BY <1>1, <1>4, <1>5, <1>6
<1> QED  BY <1>5, <1>7, <1>8, <1>9, <1>10

\* A step that leaves the table's rows alone.
LEMMA TableKept ==
    ASSUME TypeOK, RelayInv,
           UNCHANGED <<status, attempts>>,
           \A e \in Events : Sent(e) => Sent(e)'
    PROVE  PublishedWasSent' /\ GivenUpWasTried'
<1>1. \A e \in Events : Sent(e) => Sent(e)'
  OBVIOUS
<1> QED  BY <1>1 DEF RelayInv, PublishedWasSent, GivenUpWasTried, Sent

\* The parts of TypeOK, by the names used here.
LEMMA TypeParts ==
    TypeOK <=>
      /\ status \in [Events -> {"none", "pending", "published", "failed"}]
      /\ attempts \in [Events -> Nat]
      /\ due \in [Events -> BOOLEAN]
      /\ log \in Seq(Events)
      /\ pc \in [Relays -> Pcs]
      /\ batch \in [Relays -> Seq(Row)]
      /\ writer \in [Relays -> Writers]
      /\ \A r \in Relays : batch[r] = <<>> <=> pc[r] = "idle"
      /\ \A r \in Relays : WriterFits(r)
      /\ faults \in 0 .. MaxFaults
      /\ late \in SUBSET Events /\ refused \in SUBSET Events
  BY Zenon DEF TypeOK, Pcs, Row, Writers, WriterFits

\* What a step has to show for TypeOK.
LEMMA TypeAgain ==
    ASSUME status' \in [Events -> {"none", "pending", "published", "failed"}],
           attempts' \in [Events -> Nat], due' \in [Events -> BOOLEAN],
           log' \in Seq(Events), pc' \in [Relays -> Pcs],
           batch' \in [Relays -> Seq(Row)], writer' \in [Relays -> Writers],
           \A r \in Relays : batch'[r] = <<>> <=> pc'[r] = "idle",
           \A r \in Relays : WriterFits(r)',
           faults' \in 0 .. MaxFaults,
           late' \in SUBSET Events, refused' \in SUBSET Events
    PROVE  TypeOK'
  BY Zenon DEF TypeOK, Pcs, Row, Writers, WriterFits

\* Initially nothing was recorded and nothing is held.
LEMMA InitInv == Init => TypeOK /\ RelayInv
<1> SUFFICES ASSUME Init PROVE TypeOK /\ RelayInv
  OBVIOUS
<1>1. TypeOK
  <2>1. log \in Seq(Events) /\ batch \in [Relays -> Seq(Row)]
    BY EmptySeq DEF Init
  <2>2. writer \in [Relays -> Writers] /\ pc \in [Relays -> Pcs]
    BY DEF Init, Writers, NoWrites, Pcs
  <2>3. \A r \in Relays : WriterFits(r)
    BY DEF Init, WriterFits, Writing
  <2>4. \A r \in Relays : batch[r] = <<>> /\ pc[r] = "idle"
    BY DEF Init
  <2>5. /\ status \in [Events -> {"none", "pending", "published", "failed"}]
        /\ attempts \in [Events -> Nat] /\ due \in [Events -> BOOLEAN]
        /\ faults \in 0 .. MaxFaults /\ late \in SUBSET Events /\ refused \in SUBSET Events
    BY DEF Init
  <2> QED  BY <2>1, <2>2, <2>3, <2>4, <2>5, TypeParts
<1>2. RelayInv
  BY DEF Init, RelayInv, Grounded, PublishedWasSent, GivenUpWasTried
<1> QED  BY <1>1, <1>2

\* The domain raises an event.
LEMMA RecordInv ==
    ASSUME TypeOK, RelayInv, NEW f \in Events, Record(f)
    PROVE  TypeOK' /\ RelayInv'
<1>1. /\ status[f] = "none" /\ UNCHANGED <<attempts, log, pc, batch, writer, faults, refused>>
      /\ status' = [status EXCEPT ![f] = "pending"]
      /\ due' = [due EXCEPT ![f] = TRUE]
      /\ late' \in SUBSET Events
  <2>1. late \in SUBSET Events
    BY TypeParts
  <2> QED  BY <2>1 DEF Record
<1>2. /\ status'[f] = "pending" /\ \A e \in Events : e # f => status'[e] = status[e]
      /\ status' \in [Events -> {"none", "pending", "published", "failed"}]
      /\ due' \in [Events -> BOOLEAN]
  BY <1>1 DEF TypeOK
<1>3. TypeOK'
  <2>1. \A r \in Relays : WriterFits(r)'
    BY <1>1, TypeParts DEF WriterFits
  <2>2. /\ attempts \in [Events -> Nat] /\ log \in Seq(Events) /\ pc \in [Relays -> Pcs]
        /\ batch \in [Relays -> Seq(Row)] /\ writer \in [Relays -> Writers]
        /\ \A r \in Relays : batch[r] = <<>> <=> pc[r] = "idle"
        /\ faults \in 0 .. MaxFaults /\ refused \in SUBSET Events
    BY TypeParts
  <2> QED  BY <1>1, <1>2, <2>1, <2>2, TypeAgain
<1>4. \A e \in Events : Sent(e) <=> Sent(e)'
  BY <1>1 DEF Sent
<1>5. \A q \in Relays : Grounded(q)'
  <2> TAKE q \in Relays
  <2>1. Grounded(q)
    BY DEF RelayInv
  <2>2. \A e \in Events : attempts'[e] \in Nat /\ attempts[e] <= attempts'[e]
    BY <1>1 DEF TypeOK
  <2>3. \A e \in Events : status[e] # "none" => status'[e] # "none"
    BY <1>2
  <2>4. pc'[q] = pc[q] /\ batch'[q] = batch[q] /\ writer'[q] = writer[q]
    BY <1>1
  <2>5. \A i \in DOMAIN batch'[q] : \E j \in DOMAIN batch[q] : batch'[q][i] = batch[q][j]
    BY <2>4
  <2> QED  BY <1>4, <2>1, <2>2, <2>3, <2>4, <2>5, StillHeld
<1>6. \A e \in Events : status'[e] \in {"published", "failed"} => status'[e] = status[e]
  BY <1>2
<1>7. PublishedWasSent'
  BY <1>4, <1>6 DEF RelayInv, PublishedWasSent, Sent
<1>8. GivenUpWasTried'
  BY <1>1, <1>6 DEF RelayInv, GivenUpWasTried
<1> QED  BY <1>3, <1>5, <1>7, <1>8 DEF RelayInv

\* What every step of a relay that leaves the table alone must show.
LEMMA RelayStepInv ==
    ASSUME TypeOK, RelayInv, NEW r \in Relays,
           UNCHANGED <<status, attempts, due>>,
           log' \in Seq(Events), faults' \in 0 .. MaxFaults,
           late' \in SUBSET Events, refused' \in SUBSET Events,
           \A e \in Events : Sent(e) => Sent(e)',
           pc' \in [Relays -> Pcs],
           batch' \in [Relays -> Seq(Row)],
           writer' \in [Relays -> Writers],
           batch'[r] = <<>> <=> pc'[r] = "idle",
           \A q \in Relays \ {r} : pc'[q] = pc[q] /\ batch'[q] = batch[q] /\ writer'[q] = writer[q],
           WriterFits(r)', Grounded(r)'
    PROVE  TypeOK' /\ RelayInv'
<1>1. TypeOK'
  <2>1. \A q \in Relays : WriterFits(q)'
    <3>1. ASSUME NEW q \in Relays \ {r} PROVE WriterFits(q)'
      <4>1. WriterFits(q) /\ pc'[q] = pc[q] /\ batch'[q] = batch[q] /\ writer'[q] = writer[q]
        BY TypeParts
      <4> QED  BY <4>1 DEF WriterFits
    <3> QED  BY <3>1
  <2>2. \A q \in Relays : batch'[q] = <<>> <=> pc'[q] = "idle"
    BY TypeParts
  <2>3. /\ status \in [Events -> {"none", "pending", "published", "failed"}]
        /\ attempts \in [Events -> Nat] /\ due \in [Events -> BOOLEAN]
    BY TypeParts
  <2> QED  BY <2>1, <2>2, <2>3, TypeAgain
<1>2. PublishedWasSent' /\ GivenUpWasTried'
  BY TableKept
<1>3. \A q \in Relays : Grounded(q)'
  <2>1. ASSUME NEW q \in Relays \ {r} PROVE Grounded(q)'
    <3>1. Grounded(q)
      BY DEF RelayInv
    <3>2. \A e \in Events : attempts'[e] \in Nat /\ attempts[e] <= attempts'[e]
      BY DEF TypeOK
    <3>3. pc'[q] = pc[q] /\ batch'[q] = batch[q] /\ writer'[q] = writer[q]
      OBVIOUS
    <3>4. \A i \in DOMAIN batch'[q] : \E j \in DOMAIN batch[q] : batch'[q][i] = batch[q][j]
      BY <3>3
    <3>5. \A e \in Events : status[e] # "none" => status'[e] # "none"
      OBVIOUS
    <3> QED  BY <3>1, <3>2, <3>3, <3>4, <3>5, StillHeld
  <2> QED  BY <2>1
<1> QED  BY <1>1, <1>2, <1>3 DEF RelayInv

\* A relay that claims holds recorded rows as the table has them.
LEMMA ClaimDueInv ==
    ASSUME TypeOK, RelayInv, NEW r \in Relays, ClaimDue(r)
    PROVE  TypeOK' /\ RelayInv'
<1>1. /\ UNCHANGED <<status, attempts, due, log, writer, faults, late, refused>>
      /\ pc' = [pc EXCEPT ![r] = "claimed"] /\ pc[r] = "idle"
  BY DEF ClaimDue, Goto, history
<1>2. /\ pc'[r] = "claimed" /\ \A q \in Relays \ {r} : pc'[q] = pc[q]
      /\ pc' \in [Relays -> Pcs]
  BY <1>1 DEF TypeOK, Pcs, Writing
<1>3. \A e \in Events : Sent(e) => Sent(e)'
  BY <1>1 DEF Sent
<1>4. writer'[r] = NoWrites
  <2>1. WriterFits(r)
    BY TypeParts
  <2> QED  BY <1>1, <2>1 DEF WriterFits, Writing
<1>5. /\ batch'[r] \in Seq(Row) /\ batch'[r] # <<>> /\ batch' \in [Relays -> Seq(Row)]
      /\ \A q \in Relays \ {r} : batch'[q] = batch[q]
  BY ClaimedType
<1>6. Len(batch'[r]) \in Nat \ {0} /\ DOMAIN batch'[r] = 1 .. Len(batch'[r])
  <2>1. PICK b : b = batch'[r]
    OBVIOUS
  <2>2. b \in Seq(Row) /\ b # <<>>
    BY <1>5, <2>1
  <2>3. Len(b) \in Nat \ {0} /\ DOMAIN b = 1 .. Len(b)
    BY <2>2, EmptySeq, LenProperties
  <2> QED  BY <2>1, <2>3
<1>7. WriterFits(r)'
  BY <1>2, <1>4, <1>6 DEF WriterFits, NoWrites, Writing
<1>8. Grounded(r)'
  <2>1. \A i \in DOMAIN batch'[r] :
            /\ batch'[r][i] \in Row /\ status[batch'[r][i].id] = "pending"
            /\ batch'[r][i].attempts = attempts[batch'[r][i].id]
    BY ClaimedType, ElementOfSeq
  <2>2. \A i \in DOMAIN batch'[r] :
            /\ batch'[r][i].attempts <= attempts'[batch'[r][i].id]
            /\ status'[batch'[r][i].id] # "none"
    BY <1>1, <2>1 DEF Row
  <2>3. \A i \in DOMAIN batch'[r] : ~(i <= writer'[r].done)
    BY <1>4, <1>6 DEF NoWrites
  <2> QED  BY <1>2, <2>2, <2>3 DEF Grounded
<1>9. /\ log' \in Seq(Events) /\ faults' \in 0 .. MaxFaults
      /\ late' \in SUBSET Events /\ refused' \in SUBSET Events /\ writer' \in [Relays -> Writers]
      /\ \A q \in Relays \ {r} : writer'[q] = writer[q]
  BY <1>1, TypeParts
<1> QED  BY <1>1, <1>2, <1>3, <1>5, <1>7, <1>8, <1>9, RelayStepInv

----------------------------------------------------------------------------
(* What one writer batch does. *)

\* t is the next n rows of the batch.
Piece(r, n, t) ==
    /\ t \in Seq(Events) /\ Len(t) = n /\ DOMAIN t = 1 .. n
    /\ writer[r].done + n <= Len(batch[r])
    /\ \A i \in 1 .. n : /\ writer[r].done + i \in DOMAIN batch[r]
                         /\ t[i] = batch[r][writer[r].done + i].id

\* The writer goes on behind them.
Past(r, n) ==
    /\ faults' = faults
    /\ writer[r].done + n < Len(batch[r]) =>
         pc'[r] \in Writing /\ writer'[r] = [done |-> writer[r].done + n, held |-> 0]
    /\ ~(writer[r].done + n < Len(batch[r])) =>
         pc'[r] \in {"sent", "retry"} /\ writer'[r] = NoWrites

\* It keeps them, to try them again.
Again(r, n) ==
    /\ faults < MaxFaults /\ faults' = faults + 1
    /\ pc'[r] = pc[r]
    /\ writer'[r] = [done |-> writer[r].done, held |-> n]

Accepted(t) == log' = log \o t /\ refused' = refused

Refused(n, t) == log' = log /\ refused' = refused \cup {t[i] : i \in 1 .. n}

Written(r, n, t) ==
    /\ pc[r] \in Writing
    /\ UNCHANGED <<status, attempts, due, batch, late>>
    /\ pc' \in [Relays -> Pcs] /\ writer' \in [Relays -> Writers]
    /\ \A q \in Relays \ {r} : pc'[q] = pc[q] /\ writer'[q] = writer[q]
    /\ \/ Past(r, n) /\ (Accepted(t) \/ Refused(n, t))
       \/ Again(r, n) /\ Accepted(t)
    /\ pc'[r] \in {"claimed", "sent"} => pc[r] = "claimed" /\ Accepted(t)

LEMMA SliceIs ==
    ASSUME TypeOK, NEW r \in Relays, pc[r] \in Writing, NEW n \in Sizes(r)
    PROVE  n \in Nat \ {0} /\ Piece(r, n, Slice(r, n))
<1>1. PICK d : d = writer[r].done
  OBVIOUS
<1>2. PICK k : k = Len(batch[r])
  OBVIOUS
<1>3. /\ d \in Nat /\ writer[r].held \in Nat /\ k \in Nat
      /\ d < k /\ d + writer[r].held <= k
  <2>1. writer[r] \in Writers /\ WriterFits(r) /\ batch[r] \in Seq(Row)
    BY TypeParts
  <2> QED  BY <1>1, <1>2, <2>1, LenProperties DEF Writers, WriterFits
<1>4. n \in Nat \ {0} /\ d + n <= k
  <2>1. CASE writer[r].held = 0
    <3>1. n \in 1 .. k - d
      BY <1>1, <1>2, <2>1 DEF Sizes
    <3> QED  BY <1>3, <3>1
  <2>2. CASE writer[r].held # 0
    BY <1>3, <2>2 DEF Sizes
  <2> QED  BY <2>1, <2>2
<1>5. PICK s : s = Ids(r)
  OBVIOUS
<1>6. s \in Seq(Events) /\ Len(s) = k /\ DOMAIN s = 1 .. k /\ DOMAIN batch[r] = 1 .. k
  <2>1. s \in Seq(Events) /\ Len(s) = k /\ DOMAIN s = DOMAIN batch[r]
    BY <1>2, <1>5, IdsType
  <2> QED  BY <2>1, LenProperties
<1>7. PICK t : t = SubSeq(s, d + 1, d + n)
  OBVIOUS
<1>8. /\ t \in Seq(Events) /\ Len(t) = n /\ DOMAIN t = 1 .. n
      /\ \A i \in 1 .. n : t[i] = s[d + i]
  <2>1. /\ d + 1 \in 1 .. Len(s) + 1 /\ d + n \in (d + 1) - 1 .. Len(s)
        /\ (d + n) - (d + 1) + 1 = n
    BY <1>3, <1>4, <1>6
  <2>2. /\ t \in Seq(Events) /\ Len(t) = n
        /\ \A i \in 1 .. n : t[i] = s[(d + 1) + i - 1]
    BY <1>3, <1>4, <1>6, <1>7, <2>1, SubSeqProperties
  <2>3. \A i \in 1 .. n : (d + 1) + i - 1 = d + i
    BY <1>3, <1>4
  <2> QED  BY <2>2, <2>3, LenProperties
<1>9. \A i \in 1 .. n : d + i \in DOMAIN batch[r]
  BY <1>3, <1>4, <1>6
<1>10. \A i \in DOMAIN batch[r] : s[i] = batch[r][i].id
  BY <1>5 DEF Ids
<1>11. t = Slice(r, n)
  BY <1>1, <1>5, <1>7 DEF Slice
<1> QED  BY <1>1, <1>2, <1>4, <1>8, <1>9, <1>10, <1>11 DEF Piece

\* Where the writer is when it is done with n rows.
LEMMA WroteIs ==
    ASSUME TypeOK, NEW r \in Relays, pc[r] \in Writing, NEW n \in Nat, faults' = faults,
           NEW label \in Writing, Wrote(r, n, label), writer[r].done + n <= Len(batch[r])
    PROVE  /\ pc' \in [Relays -> Pcs] /\ writer' \in [Relays -> Writers]
           /\ \A q \in Relays \ {r} : pc'[q] = pc[q] /\ writer'[q] = writer[q]
           /\ Past(r, n)
           /\ pc'[r] \in {"claimed", "sent"} => label = "claimed"
<1>1. /\ pc \in [Relays -> Pcs] /\ writer \in [Relays -> Writers] /\ label \in Pcs
      /\ NoWrites \in Writers /\ writer[r].done \in Nat
      /\ [done |-> writer[r].done + n, held |-> 0] \in Writers
  BY TypeParts DEF Pcs, Writers, NoWrites
<1>2. CASE writer[r].done + n < Len(batch[r])
  <2>1. /\ pc' = [pc EXCEPT ![r] = label]
        /\ writer' = [writer EXCEPT ![r] = [done |-> writer[r].done + n, held |-> 0]]
    BY <1>2 DEF Wrote, Goto
  <2>2. pc'[r] = label /\ writer'[r] = [done |-> writer[r].done + n, held |-> 0]
    BY <1>1, <2>1
  <2> QED  BY <1>1, <1>2, <2>1, <2>2 DEF Past, Writing
<1>3. CASE ~(writer[r].done + n < Len(batch[r]))
  <2>1. PICK to : to = IF label = "claimed" THEN "sent" ELSE "retry"
    OBVIOUS
  <2>2. pc' = [pc EXCEPT ![r] = to] /\ writer' = [writer EXCEPT ![r] = NoWrites]
    BY <1>3, <2>1 DEF Wrote, Goto
  <2>3. to \in {"sent", "retry"} /\ to \in Pcs
    BY <2>1 DEF Pcs
  <2>4. pc'[r] = to /\ writer'[r] = NoWrites
    BY <1>1, <2>2
  <2> QED  BY <1>1, <1>3, <2>1, <2>2, <2>3, <2>4 DEF Past
<1> QED  BY <1>2, <1>3

LEMMA WriteIs ==
    ASSUME TypeOK, NEW r \in Relays, Publish(r) \/ PublishFails(r) \/ PublishAgain(r)
    PROVE  \E n \in Nat \ {0}, t \in Seq(Events) : Piece(r, n, t) /\ Written(r, n, t)
<1>1. pc[r] \in Writing
  BY DEF Publish, PublishFails, PublishAgain
<1>2. CASE Publish(r)
  <2>1. PICK n \in Sizes(r) : Accept(r, n) /\ Wrote(r, n, pc[r])
    BY <1>2 DEF Publish
  <2>2. UNCHANGED <<status, attempts, due, batch, faults, late, refused>>
    BY <1>2 DEF Publish, history
  <2>3. n \in Nat \ {0} /\ Piece(r, n, Slice(r, n))
    BY <1>1, SliceIs
  <2>4. PICK t : t = Slice(r, n)
    OBVIOUS
  <2>5. Piece(r, n, t) /\ t \in Seq(Events) /\ writer[r].done + n <= Len(batch[r])
    BY <2>3, <2>4 DEF Piece
  <2>6. Accepted(t)
    BY <2>1, <2>2, <2>4 DEF Accepted, Accept
  <2>7. Written(r, n, t)
    BY <1>1, <2>1, <2>2, <2>3, <2>5, <2>6, WroteIs DEF Written
  <2> QED  BY <2>3, <2>5, <2>7
<1>3. CASE PublishFails(r)
  <2>1. PICK n \in Sizes(r) :
          /\ \/ Accept(r, n) /\ UNCHANGED refused
             \/ refused' = refused \cup {Slice(r, n)[i] : i \in 1 .. n} /\ UNCHANGED log
          /\ Wrote(r, n, "failing")
    BY <1>3 DEF PublishFails
  <2>2. UNCHANGED <<status, attempts, due, batch, faults, late>>
    BY <1>3 DEF PublishFails
  <2>3. n \in Nat \ {0} /\ Piece(r, n, Slice(r, n))
    BY <1>1, SliceIs
  <2>4. PICK t : t = Slice(r, n)
    OBVIOUS
  <2>5. Piece(r, n, t) /\ t \in Seq(Events) /\ writer[r].done + n <= Len(batch[r])
    BY <2>3, <2>4 DEF Piece
  <2>6. Accepted(t) \/ Refused(n, t)
    BY <2>1, <2>4 DEF Accepted, Accept, Refused
  <2>7. /\ pc' \in [Relays -> Pcs] /\ writer' \in [Relays -> Writers]
        /\ \A q \in Relays \ {r} : pc'[q] = pc[q] /\ writer'[q] = writer[q]
        /\ Past(r, n)
        /\ pc'[r] \notin {"claimed", "sent"}
    BY <1>1, <2>1, <2>2, <2>3, <2>5, WroteIs DEF Writing
  <2>8. Written(r, n, t)
    BY <1>1, <2>2, <2>6, <2>7 DEF Written
  <2> QED  BY <2>3, <2>5, <2>8
<1>4. CASE PublishAgain(r)
  <2>1. PICK n \in Sizes(r) : Accept(r, n) /\ writer' = [writer EXCEPT ![r].held = n]
    BY <1>4 DEF PublishAgain
  <2>2. /\ UNCHANGED <<status, attempts, due, pc, batch, late, refused>>
        /\ faults < MaxFaults /\ faults' = faults + 1
    BY <1>4 DEF PublishAgain, history, Fault
  <2>3. n \in Nat \ {0} /\ Piece(r, n, Slice(r, n))
    BY <1>1, SliceIs
  <2>4. PICK t : t = Slice(r, n)
    OBVIOUS
  <2>5. Piece(r, n, t) /\ t \in Seq(Events)
    BY <2>3, <2>4 DEF Piece
  <2>6. Accepted(t)
    BY <2>1, <2>2, <2>4 DEF Accepted, Accept
  <2>7. /\ writer \in [Relays -> Writers] /\ writer[r] \in Writers /\ pc \in [Relays -> Pcs]
    BY TypeParts
  <2>8. /\ writer' \in [Relays -> Writers] /\ writer'[r] = [done |-> writer[r].done, held |-> n]
        /\ \A q \in Relays \ {r} : writer'[q] = writer[q]
    BY <2>1, <2>3, <2>7 DEF Writers
  <2>9. Again(r, n)
    BY <2>2, <2>8 DEF Again
  <2>10. pc'[r] \in {"claimed", "sent"} => pc[r] = "claimed"
    BY <1>1, <2>2 DEF Writing
  <2>11. Written(r, n, t)
    BY <1>1, <2>2, <2>6, <2>7, <2>8, <2>9, <2>10 DEF Written
  <2> QED  BY <2>3, <2>5, <2>11
<1> QED  BY <1>2, <1>3, <1>4

\* Writing, acknowledged or not, only lengthens the log.
LEMMA PublishInv ==
    ASSUME TypeOK, RelayInv, NEW r \in Relays, Publish(r) \/ PublishFails(r) \/ PublishAgain(r)
    PROVE  TypeOK' /\ RelayInv'
<1>1. PICK n \in Nat \ {0}, t \in Seq(Events) : Piece(r, n, t) /\ Written(r, n, t)
  BY WriteIs
<1>2. /\ UNCHANGED <<status, attempts, due, batch, late>> /\ pc[r] \in Writing
      /\ pc' \in [Relays -> Pcs] /\ writer' \in [Relays -> Writers]
      /\ \A q \in Relays \ {r} : pc'[q] = pc[q] /\ writer'[q] = writer[q]
      /\ Past(r, n) \/ Again(r, n)
      /\ Accepted(t) \/ Refused(n, t)
      /\ pc'[r] \in {"claimed", "sent"} => pc[r] = "claimed" /\ Accepted(t)
  BY <1>1 DEF Written
<1>3. /\ DOMAIN t = 1 .. n /\ writer[r].done \in Nat /\ Len(batch[r]) \in Nat /\ n \in Nat
      /\ DOMAIN batch[r] = 1 .. Len(batch[r]) /\ batch[r] \in Seq(Row)
      /\ writer[r].done < Len(batch[r]) /\ writer[r].done + n <= Len(batch[r])
  <2>1. writer[r] \in Writers /\ WriterFits(r) /\ batch[r] \in Seq(Row)
    BY TypeParts
  <2> QED  BY <1>1, <1>2, <2>1, LenProperties DEF Writers, WriterFits, Piece
<1>4. \A i \in 1 .. n : t[i] \in Events
  BY <1>3, ElementOfSeq DEF Piece
<1>5. /\ log' \in Seq(Events) /\ refused' \in SUBSET Events
      /\ \A e \in Events : Sent(e) => Sent(e)'
      /\ Accepted(t) => \A i \in 1 .. n : Sent(t[i])'
  <2>1. CASE Accepted(t)
    <3>1. log' = log \o t /\ refused' = refused
      BY <2>1 DEF Accepted
    <3>2. /\ log' \in Seq(Events) /\ \A e \in Events : Sent(e) => Sent(e)'
          /\ \A i \in DOMAIN t : \E j \in DOMAIN log' : log'[j] = t[i]
      BY <3>1, Appended
    <3>3. \A i \in 1 .. n : Sent(t[i])'
      BY <1>3, <3>2 DEF Sent
    <3> QED  BY <3>1, <3>2, <3>3, TypeParts
  <2>2. CASE ~Accepted(t)
    <3>1. log' = log /\ refused' = refused \cup {t[i] : i \in 1 .. n}
      BY <1>2, <2>2 DEF Refused
    <3> QED  BY <1>4, <2>2, <3>1, TypeParts DEF Sent
  <2> QED  BY <2>1, <2>2
<1>6. WriterFits(r)' /\ faults' \in 0 .. MaxFaults /\ pc'[r] # "idle"
  <2>1. faults \in 0 .. MaxFaults
    BY TypeParts
  <2>2. CASE Past(r, n)
    <3>1. CASE writer[r].done + n < Len(batch[r])
      BY <1>2, <1>3, <2>1, <2>2, <3>1 DEF Past, WriterFits, Writing
    <3>2. CASE ~(writer[r].done + n < Len(batch[r]))
      BY <1>2, <1>3, <2>1, <2>2, <3>2 DEF Past, WriterFits, Writing
    <3> QED  BY <3>1, <3>2
  <2>3. CASE Again(r, n)
    BY <1>2, <1>3, <2>1, <2>3 DEF Again, WriterFits, Writing
  <2> QED  BY <1>2, <2>2, <2>3
<1>7. Grounded(r)'
  <2>1. Grounded(r)
    BY DEF RelayInv
  <2>2. \A i \in DOMAIN batch'[r] :
            /\ status'[batch'[r][i].id] # "none"
            /\ batch'[r][i].attempts <= attempts'[batch'[r][i].id]
    BY <1>2, <2>1 DEF Grounded
  <2>3. ASSUME NEW i \in DOMAIN batch[r], pc'[r] \in {"claimed", "sent"},
               i <= writer[r].done + n
        PROVE  Sent(batch[r][i].id)'
    <3>1. i \in Nat /\ i >= 1 /\ batch[r][i].id \in Events
      <4>1. batch[r][i] \in Row
        BY <1>3, <2>3, ElementOfSeq
      <4> QED  BY <1>3, <2>3, <4>1, SMTT(40) DEF Row
    <3>2. CASE i <= writer[r].done
      <4>1. Sent(batch[r][i].id)
        BY <1>2, <2>1, <2>3, <3>2 DEF Grounded
      <4> QED  BY <1>2, <1>5, <3>1, <4>1 DEF Sent
    <3>3. CASE ~(i <= writer[r].done)
      <4>1. PICK k \in 1 .. n : i = writer[r].done + k
        <5>1. i - writer[r].done \in 1 .. n /\ i = writer[r].done + (i - writer[r].done)
          BY <1>3, <2>3, <3>1, <3>3, SMTT(40)
        <5> QED  BY <5>1
      <4>2. t[k] = batch[r][i].id
        BY <1>1, <4>1 DEF Piece
      <4>3. Accepted(t)
        BY <1>2, <2>3
      <4> QED  BY <1>2, <1>5, <4>2, <4>3 DEF Sent
    <3> QED  BY <3>2, <3>3
  <2>4. ASSUME NEW i \in DOMAIN batch[r], pc'[r] = "sent" PROVE Sent(batch[r][i].id)'
    <3>1. writer[r].done + n = Len(batch[r])
      <4>1. Past(r, n)
        BY <1>2, <2>4 DEF Again, Writing
      <4>2. ~(writer[r].done + n < Len(batch[r]))
        BY <2>4, <4>1 DEF Past, Writing
      <4>3. writer[r].done + n \in Nat
        BY <1>3
      <4>4. \A a, b \in Nat : a <= b /\ ~(a < b) => a = b
        OBVIOUS
      <4> QED  BY <1>3, <4>2, <4>3, <4>4, Zenon
    <3> QED  BY <1>3, <2>3, <2>4, <3>1
  <2>5. ASSUME NEW i \in DOMAIN batch[r], pc'[r] = "claimed", i <= writer'[r].done
        PROVE  Sent(batch[r][i].id)'
    <3>1. writer'[r].done <= writer[r].done + n /\ writer'[r].done \in Nat
      BY <1>2, <1>3, <2>5 DEF Past, Again
    <3>2. i <= writer[r].done + n
      BY <1>3, <2>5, <3>1
    <3> QED  BY <2>3, <2>5, <3>2
  <2> QED  BY <1>2, <2>2, <2>4, <2>5 DEF Grounded
<1>8. /\ batch' \in [Relays -> Seq(Row)] /\ late' \in SUBSET Events
      /\ batch'[r] = <<>> <=> pc'[r] = "idle"
      /\ \A q \in Relays \ {r} : batch'[q] = batch[q]
  BY <1>2, <1>6, TypeParts DEF Writing
<1> QED  BY <1>2, <1>5, <1>6, <1>7, <1>8, RelayStepInv

\* A relay that lets go of its rows without touching the table.
LEMMA DropInv ==
    ASSUME TypeOK, RelayInv, NEW r \in Relays,
           MarkPublishedFails(r) \/ MarkFailedFails(r) \/ Crash(r)
    PROVE  TypeOK' /\ RelayInv'
<1>1. /\ UNCHANGED <<status, attempts, due, log, late, refused>>
      /\ faults < MaxFaults /\ faults' = faults + 1
  BY DEF MarkPublishedFails, MarkFailedFails, Crash, Fault, history
<1>2. /\ log' \in Seq(Events) /\ faults' \in 0 .. MaxFaults
      /\ late' \in SUBSET Events /\ refused' \in SUBSET Events
  BY <1>1 DEF TypeOK
<1>3. \A e \in Events : Sent(e) => Sent(e)'
  BY <1>1 DEF Sent
<1>4. CASE Finish(r)
  <2>1. Grounded(r)'
    <3>1. DOMAIN batch'[r] = {}
      BY <1>4, Finished
    <3> QED  BY <3>1 DEF Grounded
  <2> QED  BY <1>1, <1>2, <1>3, <1>4, <2>1, Finished, RelayStepInv
<1>5. CASE MarkFailedFails(r)
  <2>1. pc[r] = "retry" /\ Advance(r)
    BY <1>5 DEF MarkFailedFails
  <2>2. Grounded(r) /\ \A e \in Events : attempts[e] \in Nat
    BY DEF RelayInv, TypeOK
  <2>3. /\ \A e \in Events : attempts'[e] \in Nat /\ attempts[e] <= attempts'[e]
        /\ \A e \in Events : status[e] # "none" => status'[e] # "none"
    BY <1>1, <2>2
  <2>4. Grounded(r)'
    BY <1>3, <2>1, <2>2, <2>3, Advanced, StillHeld
  <2> QED  BY <1>1, <1>2, <1>3, <2>1, <2>4, Advanced, RelayStepInv
<1> QED  BY <1>4, <1>5 DEF MarkPublishedFails, Crash


\* Only acknowledged rows are marked published.
LEMMA MarkPublishedInv ==
    ASSUME TypeOK, RelayInv, NEW r \in Relays, MarkPublished(r)
    PROVE  TypeOK' /\ RelayInv'
<1>1. /\ UNCHANGED <<attempts, due, log, faults, late, refused>>
      /\ pc[r] = "sent" /\ Finish(r)
      /\ status' = [e \in Events |-> IF Held(r, e) THEN "published" ELSE status[e]]
  BY DEF MarkPublished, history
<1>2. \A e \in Events : Held(r, e) => Sent(e)
  BY <1>1 DEF RelayInv, Grounded, Held
<1>3. \A e \in Events : Sent(e) <=> Sent(e)'
  BY <1>1 DEF Sent
<1>4. \A e \in Events : status'[e] = IF Held(r, e) THEN "published" ELSE status[e]
  BY <1>1
<1>5. TypeOK'
  <2>1. status' \in [Events -> {"none", "pending", "published", "failed"}]
    BY <1>1 DEF TypeOK
  <2>2. \A q \in Relays : (batch'[q] = <<>> <=> pc'[q] = "idle") /\ WriterFits(q)'
    <3> TAKE q \in Relays
    <3>1. (batch[q] = <<>> <=> pc[q] = "idle") /\ WriterFits(q)
      BY TypeParts
    <3>2. CASE q = r
      BY <1>1, <3>2, Finished
    <3>3. CASE q # r
      <4>1. pc'[q] = pc[q] /\ batch'[q] = batch[q] /\ writer'[q] = writer[q]
        BY <1>1, <3>3, Finished
      <4> QED  BY <3>1, <4>1 DEF WriterFits
    <3> QED  BY <3>2, <3>3
  <2>3. /\ attempts \in [Events -> Nat] /\ due \in [Events -> BOOLEAN] /\ log \in Seq(Events)
        /\ faults \in 0 .. MaxFaults /\ late \in SUBSET Events /\ refused \in SUBSET Events
    BY TypeParts
  <2> QED  BY <1>1, <2>1, <2>2, <2>3, Finished, TypeAgain
<1>6. \A q \in Relays : Grounded(q)'
  <2> TAKE q \in Relays
  <2>1. Grounded(q) /\ \A e \in Events : attempts[e] \in Nat
    BY DEF RelayInv, TypeOK
  <2>2. /\ \A e \in Events : attempts'[e] \in Nat /\ attempts[e] <= attempts'[e]
        /\ \A e \in Events : status[e] # "none" => status'[e] # "none"
    BY <1>1, <1>4, <2>1
  <2>3. CASE q = r
    <3>1. DOMAIN batch'[q] = {}
      BY <1>1, <2>3, Finished
    <3> QED  BY <3>1 DEF Grounded
  <2>4. CASE q # r
    <3>1. pc'[q] = pc[q] /\ batch'[q] = batch[q] /\ writer'[q] = writer[q]
      BY <1>1, <2>4, Finished
    <3>2. \A i \in DOMAIN batch'[q] : \E j \in DOMAIN batch[q] : batch'[q][i] = batch[q][j]
      BY <3>1
    <3> QED  BY <1>3, <2>1, <2>2, <3>1, <3>2, StillHeld
  <2> QED  BY <2>3, <2>4
<1>7. PublishedWasSent'
  <2>1. \A e \in Events : status'[e] = "published" => Sent(e)
    BY <1>2, <1>4 DEF RelayInv, PublishedWasSent
  <2> QED  BY <1>3, <2>1 DEF PublishedWasSent, Sent
<1>8. GivenUpWasTried'
  BY <1>1, <1>4 DEF RelayInv, GivenUpWasTried
<1> QED  BY <1>5, <1>6, <1>7, <1>8 DEF RelayInv

\* Backing a row off counts an attempt at least as high as the relay's copy.
LEMMA MarkFailedInv ==
    ASSUME TypeOK, RelayInv, NEW r \in Relays, MarkFailed(r)
    PROVE  TypeOK' /\ RelayInv'
<1> DEFINE row == Head(batch[r])
           fate == IF Exhausted(row) THEN "failed" ELSE "pending"
<1>1. /\ UNCHANGED <<log, faults, late, refused>>
      /\ pc[r] = "retry" /\ Advance(r)
      /\ status' = [status EXCEPT ![row.id] = fate]
      /\ attempts' = [attempts EXCEPT ![row.id] = @ + 1]
      /\ due' = [due EXCEPT ![row.id] = FALSE]
  BY DEF MarkFailed, history
<1>2. batch[r] \in Seq(Row) /\ batch[r] # <<>>
  BY <1>1 DEF TypeOK, Row
<1>3. row \in Row /\ 1 \in DOMAIN batch[r] /\ row = batch[r][1]
  <2>1. Len(batch[r]) \in Nat \ {0} /\ DOMAIN batch[r] = 1 .. Len(batch[r])
    BY <1>2, EmptySeq, LenProperties
  <2> QED  BY <1>2, <2>1, ElementOfSeq
<1>4. /\ row.id \in Events /\ row.attempts \in Nat
      /\ row.attempts <= attempts[row.id]
  BY <1>3 DEF RelayInv, Grounded, Row
<1> HIDE DEF row
<1>5. /\ status'[row.id] = fate /\ fate \in {"failed", "pending"}
      /\ attempts'[row.id] = attempts[row.id] + 1
      /\ \A e \in Events \ {row.id} : status'[e] = status[e] /\ attempts'[e] = attempts[e]
  BY <1>1, <1>4 DEF TypeOK
<1>6. \A e \in Events : attempts'[e] \in Nat /\ attempts[e] <= attempts'[e]
  <2>1. \A e \in Events : attempts[e] \in Nat
    BY DEF TypeOK
  <2>2. \A n \in Nat : n + 1 \in Nat /\ n <= n + 1 /\ n <= n
    OBVIOUS
  <2> QED  BY <1>5, <2>1, <2>2
<1>7. \A e \in Events : Sent(e) <=> Sent(e)'
  BY <1>1 DEF Sent
<1>8. TypeOK'
  <2>1. /\ status' \in [Events -> {"none", "pending", "published", "failed"}]
        /\ attempts' \in [Events -> Nat]
        /\ due' \in [Events -> BOOLEAN]
    <3>1. /\ status \in [Events -> {"none", "pending", "published", "failed"}]
          /\ attempts \in [Events -> Nat] /\ due \in [Events -> BOOLEAN]
          /\ attempts[row.id] + 1 \in Nat
      BY <1>4, TypeParts, SMTT(40)
    <3>2. fate \in {"none", "pending", "published", "failed"}
      BY <1>5
    <3> HIDE DEF fate
    <3> QED  BY <1>1, <1>4, <3>1, <3>2
  <2>2. \A q \in Relays : (batch'[q] = <<>> <=> pc'[q] = "idle") /\ WriterFits(q)'
    <3> TAKE q \in Relays
    <3>1. (batch[q] = <<>> <=> pc[q] = "idle") /\ WriterFits(q)
      BY TypeParts
    <3>2. CASE q = r
      BY <1>1, <3>2, Advanced
    <3>3. CASE q # r
      <4>1. pc'[q] = pc[q] /\ batch'[q] = batch[q] /\ writer'[q] = writer[q]
        BY <1>1, <3>3, Advanced
      <4> QED  BY <3>1, <4>1 DEF WriterFits
    <3> QED  BY <3>2, <3>3
  <2>3. /\ log \in Seq(Events)
        /\ faults \in 0 .. MaxFaults /\ late \in SUBSET Events /\ refused \in SUBSET Events
    BY TypeParts
  <2> QED  BY <1>1, <2>1, <2>2, <2>3, Advanced, TypeAgain
<1>9. \A q \in Relays : Grounded(q)'
  <2> TAKE q \in Relays
  <2>1. Grounded(q)
    BY DEF RelayInv
  <2>2. \A e \in Events : status[e] # "none" => status'[e] # "none"
    BY <1>5
  <2>3. CASE q = r
    <3>1. /\ pc'[q] \notin {"sent", "claimed"}
          /\ \A i \in DOMAIN batch'[q] : \E j \in DOMAIN batch[q] : batch'[q][i] = batch[q][j]
      BY <1>1, <2>3, Advanced
    <3> QED  BY <1>6, <1>7, <2>1, <2>2, <3>1, StillHeld
  <2>4. CASE q # r
    <3>1. pc'[q] = pc[q] /\ batch'[q] = batch[q] /\ writer'[q] = writer[q]
      BY <1>1, <2>4, Advanced
    <3>2. \A i \in DOMAIN batch'[q] : \E j \in DOMAIN batch[q] : batch'[q][i] = batch[q][j]
      BY <3>1
    <3> QED  BY <1>6, <1>7, <2>1, <2>2, <3>1, <3>2, StillHeld
  <2> QED  BY <2>3, <2>4
<1>10. PublishedWasSent'
  <2>1. \A e \in Events : status'[e] = "published" => status[e] = "published"
    BY <1>5
  <2> QED  BY <1>7, <2>1 DEF RelayInv, PublishedWasSent, Sent
<1>11. GivenUpWasTried'
  <2> SUFFICES ASSUME NEW e \in Events, status'[e] = "failed"
               PROVE  attempts'[e] >= MaxAttempts
    BY DEF GivenUpWasTried
  <2>1. attempts[e] \in Nat /\ attempts'[e] \in Nat
    BY <1>6 DEF TypeOK
  <2>2. CASE e = row.id
    <3>1. row.attempts + 1 >= MaxAttempts
      BY <1>5, <2>2 DEF Exhausted
    <3> QED  BY <1>4, <1>5, <2>1, <2>2, <3>1
  <2>3. CASE e # row.id
    BY <1>5, <2>3 DEF RelayInv, GivenUpWasTried
  <2> QED  BY <2>2, <2>3
<1> QED  BY <1>8, <1>9, <1>10, <1>11 DEF RelayInv

\* Time passing, or nothing at all.
LEMMA QuietInv ==
    ASSUME TypeOK, RelayInv, (\E e \in Events : FallDue(e)) \/ UNCHANGED vars
    PROVE  TypeOK' /\ RelayInv'
<1>1. UNCHANGED <<status, attempts, log, pc, batch, writer, faults, late, refused>>
  BY DEF FallDue, vars, history
<1>2. due' \in [Events -> BOOLEAN]
  BY DEF FallDue, vars, TypeOK
<1>3. TypeOK'
  BY <1>1, <1>2 DEF TypeOK
<1>4. RelayInv'
  BY <1>1 DEF RelayInv, Grounded, Sent, PublishedWasSent, GivenUpWasTried
<1> QED  BY <1>3, <1>4

\* Every step keeps the types and what the relays hold.
LEMMA StepInv == TypeOK /\ RelayInv /\ [Next]_vars => TypeOK' /\ RelayInv'
<1> SUFFICES ASSUME TypeOK, RelayInv, [Next]_vars PROVE TypeOK' /\ RelayInv'
  OBVIOUS
<1>1. ASSUME NEW e \in Events, Record(e) PROVE TypeOK' /\ RelayInv'
  BY <1>1, RecordInv
<1>2. CASE (\E e \in Events : FallDue(e)) \/ UNCHANGED vars
  BY <1>2, QuietInv
<1>3. ASSUME NEW r \in Relays, Drain(r) \/ PublishAgain(r) \/ Crash(r)
      PROVE  TypeOK' /\ RelayInv'
  BY <1>3, ClaimDueInv, PublishInv, DropInv, MarkPublishedInv, MarkFailedInv DEF Drain
<1> QED  BY <1>1, <1>2, <1>3 DEF Next

----------------------------------------------------------------------------
\* Whatever the relays, the broker and the database do, every variable keeps its
\* type (Relay.drain, Repo of outbox_events).
THEOREM RelayTypes == Spec => []TypeOK
<1>1. Init => TypeOK /\ RelayInv
  BY InitInv
<1>2. TypeOK /\ RelayInv /\ [Next]_vars => TypeOK' /\ RelayInv'
  BY StepInv
<1> QED  BY <1>1, <1>2, PTL DEF Spec

\* No number of relays, crashes or lost statements marks a row published that
\* the broker has not accepted (Relay.drain marks only after Publish returns).
THEOREM RelaysPublishWhatTheyMark == Spec => []PublishedWasSent
<1>1. Init => TypeOK /\ RelayInv
  BY InitInv
<1>2. TypeOK /\ RelayInv /\ [Next]_vars => TypeOK' /\ RelayInv'
  BY StepInv
<1>3. RelayInv => PublishedWasSent
  BY DEF RelayInv
<1> QED  BY <1>1, <1>2, <1>3, PTL DEF Spec

\* Although each relay counts from the copy it claimed, no number of them parks a
\* row as failed before MaxAttempts publishes of it failed (retryBatch).
THEOREM RelaysTryBeforeGivingUp == Spec => []GivenUpWasTried
<1>1. Init => TypeOK /\ RelayInv
  BY InitInv
<1>2. TypeOK /\ RelayInv /\ [Next]_vars => TypeOK' /\ RelayInv'
  BY StepInv
<1>3. RelayInv => GivenUpWasTried
  BY DEF RelayInv
<1> QED  BY <1>1, <1>2, <1>3, PTL DEF Spec

----------------------------------------------------------------------------
(* How often an event is sent.  One relay alone: with two, both may claim  *)
(* the same row, which is what the run FindOutboxTwice shows.              *)

OneRelay == \A q, r \in Relays : q = r

Count(l, e) == Cardinality({i \in DOMAIN l : l[i] = e})

LEMMA CountIs ==
    ASSUME NEW l \in Seq(Events), NEW e
    PROVE  /\ IsFiniteSet({i \in DOMAIN l : l[i] = e})
           /\ Count(l, e) \in Nat
<1>1. Len(l) \in Nat /\ DOMAIN l = 1 .. Len(l)
  BY LenProperties
<1>2. IsFiniteSet(1 .. Len(l))
  BY <1>1, FS_Interval
<1>3. {i \in DOMAIN l : l[i] = e} \in SUBSET (1 .. Len(l))
  BY <1>1
<1>4. IsFiniteSet({i \in DOMAIN l : l[i] = e})
  BY <1>2, <1>3, FS_Subset
<1> QED  BY <1>4, FS_CardinalityType DEF Count

\* Appending a listing without repetitions counts each of its events once more.
LEMMA CountGrows ==
    ASSUME NEW l \in Seq(Events), NEW t \in Seq(Events), NEW e,
           \A i, j \in DOMAIN t : t[i] = e /\ t[j] = e => i = j
    PROVE  /\ Count(l \o t, e) <= Count(l, e) + 1
           /\ (\A i \in DOMAIN t : t[i] # e) => Count(l \o t, e) = Count(l, e)
<1> DEFINE old == {i \in DOMAIN l : l[i] = e}
           new == {i \in DOMAIN (l \o t) : (l \o t)[i] = e}
<1>1. /\ l \o t \in Seq(Events)
      /\ Len(l) \in Nat /\ Len(t) \in Nat /\ Len(l \o t) = Len(l) + Len(t)
      /\ DOMAIN l = 1 .. Len(l) /\ DOMAIN t = 1 .. Len(t)
      /\ DOMAIN (l \o t) = 1 .. Len(l \o t)
  OBVIOUS
<1>2. \A i \in DOMAIN l : i \in DOMAIN (l \o t) /\ (l \o t)[i] = l[i]
  BY <1>1
<1>3. \A i \in DOMAIN (l \o t) : i \notin DOMAIN l =>
        /\ i - Len(l) \in DOMAIN t /\ (l \o t)[i] = t[i - Len(l)] /\ i = (i - Len(l)) + Len(l)
  BY <1>1
<1>4. \A j \in DOMAIN t : j + Len(l) \in DOMAIN (l \o t) /\ (l \o t)[j + Len(l)] = t[j]
  BY <1>1
<1>5. IsFiniteSet(old) /\ Cardinality(old) \in Nat
  BY CountIs DEF Count
<1>6. CASE \A i \in DOMAIN t : t[i] # e
  <2>1. \A i : i \in new <=> i \in old
    BY <1>2, <1>3, <1>6
  <2>2. new = old
    BY <2>1
  <2> HIDE DEF new, old
  <2>3. Cardinality(new) = Cardinality(old) /\ Cardinality(new) <= Cardinality(old) + 1
    BY <1>5, <2>2
  <2> QED  BY <2>3 DEF Count, new, old
<1>7. CASE ~(\A i \in DOMAIN t : t[i] # e)
  <2>1. PICK j \in DOMAIN t : t[j] = e
    BY <1>7
  <2>2. PICK at0 : at0 = j + Len(l)
    OBVIOUS
  <2>3. \A i : i \in new => i \in old \/ i = at0
    <3> SUFFICES ASSUME NEW i, i \in new, i \notin old PROVE i = at0
      OBVIOUS
    <3>1. i \in DOMAIN (l \o t) /\ (l \o t)[i] = e /\ i \notin DOMAIN l
      BY <1>2
    <3>2. i - Len(l) \in DOMAIN t /\ t[i - Len(l)] = e /\ i = (i - Len(l)) + Len(l)
      BY <1>3, <3>1
    <3>3. i - Len(l) = j
      BY <2>1, <3>2
    <3> QED  BY <2>2, <3>2, <3>3
  <2>4. new \subseteq old \cup {at0}
    BY <2>3
  <2> HIDE DEF new, old
  <2>5. IsFiniteSet(old \cup {at0}) /\ Cardinality(old \cup {at0}) <= Cardinality(old) + 1
    <3>1. /\ IsFiniteSet(old \cup {at0})
          /\ Cardinality(old \cup {at0}) = IF at0 \in old THEN Cardinality(old)
                                           ELSE Cardinality(old) + 1
      BY <1>5, FS_AddElement
    <3> QED  BY <1>5, <3>1
  <2>6. Cardinality(new) <= Cardinality(old \cup {at0})
    BY <2>4, <2>5, FS_Subset
  <2>7. IsFiniteSet(new)
    BY <2>4, <2>5, FS_Subset
  <2>8. Cardinality(new) \in Nat /\ Cardinality(old \cup {at0}) \in Nat
    BY <2>5, <2>7, FS_CardinalityType
  <2>9. Cardinality(new) <= Cardinality(old) + 1
    BY <1>5, <2>5, <2>6, <2>8
  <2> QED  BY <1>7, <2>9 DEF Count, new, old
<1> QED  BY <1>6, <1>7

Increasing(r) ==
    \A i, j \in DOMAIN batch[r] : i < j => batch[r][i].id < batch[r][j].id

\* How far into its batch the writer has been; all the way, once it returned.
Through(r) == IF pc[r] \in Writing THEN writer[r].done ELSE Len(batch[r])

\* Sent, or perhaps sent, and not yet accounted for in the table.
Unsettled(r, e) == \E i \in DOMAIN batch[r] : i <= Through(r) /\ batch[r][i].id = e

\* What a lone relay holds is still pending, and every time an event was sent but for the
\* batch in hand is a counted attempt or a fault.
CauseOf(r) ==
    /\ Increasing(r)
    /\ \A e \in Events : Held(r, e) => status[e] = "pending"
    /\ \A e \in Events : status[e] # "published" /\ ~Unsettled(r, e)
                            => Count(log, e) <= attempts[e] + faults

CauseInv ==
    /\ \A r \in Relays : CauseOf(r)
    /\ \A e \in Events : Count(log, e) <= 1 + attempts[e] + faults

\* The numbers CauseInv is about.
LEMMA CauseTypes ==
    ASSUME TypeOK
    PROVE  /\ faults \in Nat
           /\ \A e \in Events : attempts[e] \in Nat /\ Count(log, e) \in Nat
           /\ \A r \in Relays : /\ batch[r] \in Seq(Row)
                                /\ Len(batch[r]) \in Nat /\ DOMAIN batch[r] = 1 .. Len(batch[r])
                                /\ \A i \in DOMAIN batch[r] : batch[r][i].id \in Events
<1>1. log \in Seq(Events)
  BY DEF TypeOK
<1>2. \A e \in Events : Count(log, e) \in Nat
  BY <1>1, CountIs
<1>3. ASSUME NEW r \in Relays
      PROVE  /\ batch[r] \in Seq(Row)
             /\ Len(batch[r]) \in Nat /\ DOMAIN batch[r] = 1 .. Len(batch[r])
             /\ \A i \in DOMAIN batch[r] : batch[r][i].id \in Events
  <2>1. batch[r] \in Seq(Row)
    BY TypeParts
  <2>2. Len(batch[r]) \in Nat /\ DOMAIN batch[r] = 1 .. Len(batch[r])
    BY <2>1, LenProperties
  <2>3. \A i \in DOMAIN batch[r] : batch[r][i] \in Row
    BY <2>1, <2>2, ElementOfSeq
  <2> QED  BY <2>1, <2>2, <2>3 DEF Row
<1>4. faults \in Nat /\ \A e \in Events : attempts[e] \in Nat
  BY TypeParts
<1> QED  BY <1>2, <1>3, <1>4

\* Where a relay that is not writing is, it has been through all it holds.
LEMMA AllThrough ==
    ASSUME TypeOK, NEW r \in Relays, pc[r] \notin Writing, NEW e
    PROVE  Unsettled(r, e) <=> Held(r, e)
<1>1. Len(batch[r]) \in Nat /\ DOMAIN batch[r] = 1 .. Len(batch[r])
  BY CauseTypes
<1>2. \A i \in DOMAIN batch[r] : i <= Through(r)
  BY <1>1 DEF Through
<1> QED  BY <1>2 DEF Unsettled, Held

\* A batch is claimed in order, of rows that are pending.
LEMMA ClaimedInOrder ==
    ASSUME TypeOK, NEW r \in Relays, ClaimDue(r)
    PROVE  /\ Increasing(r)'
           /\ \A i \in DOMAIN batch'[r] :
                /\ batch'[r][i].id \in Due
                /\ \A d \in Due \ Lockable(r) : d < batch'[r][i].id =>
                     \E j \in DOMAIN batch'[r] : j < i /\ batch'[r][j].id = d
<1>0. PICK skipped \in SUBSET Lockable(r) : \E ids \in InOrder(Oldest(Due \ skipped)) :
        /\ ids # <<>>
        /\ batch' = [batch EXCEPT ![r] =
              [i \in DOMAIN ids |-> [id |-> ids[i], attempts |-> attempts[ids[i]]]]]
  BY DEF ClaimDue
<1>1. PICK ids \in InOrder(Oldest(Due \ skipped)) :
        /\ ids # <<>>
        /\ batch' = [batch EXCEPT ![r] =
              [i \in DOMAIN ids |-> [id |-> ids[i], attempts |-> attempts[ids[i]]]]]
  BY <1>0
<1>2. PICK free : free = Due \ skipped
  OBVIOUS
<1>3. PICK rows : rows = Oldest(free)
  OBVIOUS
<1>4. /\ rows \subseteq free /\ free \subseteq Due /\ Due \subseteq Events
      /\ Due \ Lockable(r) \subseteq free
  BY <1>2, <1>3 DEF Oldest, Due
<1>5. /\ IsFiniteSet(Events) /\ IsFiniteSet(rows) /\ IsFiniteSet(free)
      /\ Cardinality(rows) \in Nat
  <2>1. IsFiniteSet(Events)
    BY FS_Interval
  <2>2. IsFiniteSet(rows) /\ IsFiniteSet(free)
    BY <1>4, <2>1, FS_Subset
  <2> QED  BY <2>1, <2>2, FS_CardinalityType
<1>6. /\ ids \in [1 .. Cardinality(rows) -> rows]
      /\ \A i, j \in DOMAIN ids : i < j => ids[i] < ids[j]
  BY <1>1, <1>2, <1>3 DEF InOrder
<1>7. batch'[r] = [i \in DOMAIN ids |-> [id |-> ids[i], attempts |-> attempts[ids[i]]]]
  <2>1. DOMAIN batch = Relays
    BY DEF TypeOK
  <2> QED  BY <1>1, <2>1
<1>8. DOMAIN batch'[r] = DOMAIN ids /\ \A i \in DOMAIN ids : batch'[r][i].id = ids[i]
  BY <1>7
<1>9. Increasing(r)'
  BY <1>6, <1>8 DEF Increasing
<1>10. \A i \in DOMAIN ids : ids[i] \in rows /\ i \in Nat /\ ids[i] \in Nat
  <2>1. DOMAIN ids = 1 .. Cardinality(rows)
    BY <1>6
  <2>2. \A i \in DOMAIN ids : ids[i] \in rows /\ i \in Nat
    BY <1>5, <1>6, <2>1
  <2>3. \A e \in Events : e \in Nat
    OBVIOUS
  <2>4. \A e \in rows : e \in Events
    BY <1>4, Zenon
  <2> QED  BY <2>2, <2>3, <2>4
<1>11. \A i, j \in DOMAIN ids : ids[i] = ids[j] => i = j
  <2> SUFFICES ASSUME NEW i \in DOMAIN ids, NEW j \in DOMAIN ids, i # j PROVE ids[i] # ids[j]
    OBVIOUS
  <2>1. i < j \/ j < i
    BY <1>10
  <2>2. ids[i] < ids[j] \/ ids[j] < ids[i]
    BY <1>6, <2>1
  <2>3. ids[i] \in Nat /\ ids[j] \in Nat
    BY <1>10
  <2> QED  BY <2>2, <2>3
\* As many places as rows, and no row twice: every row has its place.
<1>12. \A d \in rows : \E j \in DOMAIN ids : ids[j] = d
  <2>1. ids \in Injection(1 .. Cardinality(rows), rows)
    BY <1>6, <1>11 DEF Injection, IsInjective
  <2>2. Cardinality(1 .. Cardinality(rows)) = Cardinality(rows)
    BY <1>5, FS_Interval
  <2>3. ids \in Surjection(1 .. Cardinality(rows), rows)
    BY <1>5, <2>1, <2>2, FS_Injection
  <2> QED  BY <1>6, <2>3 DEF Surjection
<1>13. ASSUME NEW i \in DOMAIN ids, NEW d \in Due \ Lockable(r), d < ids[i]
       PROVE  \E j \in DOMAIN ids : j < i /\ ids[j] = d
  <2>1. d \in free /\ d \in Nat /\ ids[i] \in Nat /\ ids[i] \in rows
    BY <1>4, <1>10
  <2>2. d \in rows
    <3> DEFINE below == {c \in free : c <= d}
               belowI == {c \in free : c <= ids[i]}
    <3>1. \A c \in free : c \in Nat
      BY <1>4
    <3>2. below \subseteq belowI /\ belowI \subseteq free
      <4>1. \A c \in free : c <= d => c <= ids[i]
        BY <1>13, <2>1, <3>1
      <4> QED  BY <4>1
    <3>3. Cardinality(belowI) <= BatchSize
      BY <1>3, <2>1 DEF Oldest
    <3> HIDE DEF below, belowI
    <3>4. IsFiniteSet(belowI)
      BY <1>5, <3>2, FS_Subset
    <3>5. IsFiniteSet(below) /\ Cardinality(below) <= Cardinality(belowI)
      BY <3>2, <3>4, FS_Subset
    <3>6. Cardinality(below) \in Nat /\ Cardinality(belowI) \in Nat
      BY <3>4, <3>5, FS_CardinalityType
    <3>7. Cardinality(below) <= BatchSize
      BY <3>3, <3>5, <3>6
    <3> QED  BY <1>3, <2>1, <3>7 DEF Oldest, below
  <2>3. PICK j \in DOMAIN ids : ids[j] = d
    BY <1>12, <2>2
  <2>4. j < i
    <3>1. i \in Nat /\ j \in Nat
      BY <1>10
    <3>2. ~(i < j)
      <4>1. i < j => ids[i] < ids[j]
        BY <1>6
      <4> QED  BY <1>13, <2>1, <2>3, <4>1
    <3>3. i # j
      BY <1>13, <2>1, <2>3
    <3> QED  BY <3>1, <3>2, <3>3
  <2> QED  BY <2>3, <2>4
<1>14. \A i \in DOMAIN ids : ids[i] \in Due
  BY <1>4, <1>10
<1> QED  BY <1>8, <1>9, <1>13, <1>14

\* Moving on to the next row leaves all the rows but the first, in their order.
LEMMA AdvanceKeeps ==
    ASSUME TypeOK, NEW r \in Relays, pc[r] = "retry", Advance(r),
           NEW first, first = Head(batch[r]).id
    PROVE  /\ Increasing(r) => Increasing(r)'
           /\ \A e \in Events : Held(r, e)' => Held(r, e)
           /\ Increasing(r) => ~Held(r, first)'
           /\ \A e \in Events : Held(r, e) /\ e # first =>
                Held(r, e)' /\ pc'[r] = "retry"
<1>1. /\ batch[r] \in Seq(Row) /\ Len(batch[r]) \in Nat /\ DOMAIN batch[r] = 1 .. Len(batch[r])
      /\ \A i \in DOMAIN batch[r] : batch[r][i].id \in Events
      /\ batch[r] # <<>>
  BY CauseTypes DEF TypeOK
<1>2. Len(batch[r]) >= 1 /\ Head(batch[r]) = batch[r][1] /\ 1 \in DOMAIN batch[r]
  BY <1>1
<1>3. CASE Len(batch[r]) = 1
  <2>1. batch'[r] = <<>>
    BY <1>3, Finished DEF Advance
  <2>2. DOMAIN batch'[r] = {}
    BY <2>1
  <2>3. \A e \in Events : Held(r, e) => e = first
    BY <1>1, <1>2, <1>3 DEF Held
  <2> QED  BY <2>2, <2>3 DEF Increasing, Held
<1>4. CASE Len(batch[r]) # 1
  <2>1. batch' = [batch EXCEPT ![r] = Tail(@)] /\ pc' = pc
    BY <1>4 DEF Advance
  <2>2. DOMAIN batch = Relays
    BY DEF TypeOK
  <2>3. batch'[r] = Tail(batch[r])
    BY <2>1, <2>2
  <2>4. /\ DOMAIN batch'[r] = 1 .. (Len(batch[r]) - 1)
        /\ \A i \in DOMAIN batch'[r] : batch'[r][i] = batch[r][i + 1]
    BY <1>1, <1>2, <2>3
  <2>5. \A i \in DOMAIN batch'[r] : i \in Nat /\ i >= 1 /\ i + 1 \in DOMAIN batch[r]
    BY <1>1, <2>4
  <2>6. Increasing(r) => Increasing(r)'
    <3> SUFFICES ASSUME Increasing(r), NEW i \in DOMAIN batch'[r], NEW j \in DOMAIN batch'[r],
                        i < j
                 PROVE  batch'[r][i].id < batch'[r][j].id
      BY DEF Increasing
    <3>1. i + 1 < j + 1 /\ i + 1 \in DOMAIN batch[r] /\ j + 1 \in DOMAIN batch[r]
      BY <2>5
    <3>2. batch[r][i + 1].id < batch[r][j + 1].id
      BY <3>1 DEF Increasing
    <3> QED  BY <2>4, <3>2
  <2>7. \A e \in Events : Held(r, e)' => Held(r, e)
    BY <2>4, <2>5 DEF Held
  <2>8. Increasing(r) => ~Held(r, first)'
    <3> SUFFICES ASSUME Increasing(r), NEW i \in DOMAIN batch'[r]
                 PROVE  batch'[r][i].id # batch[r][1].id
      <4>1. first = batch[r][1].id
        BY <1>2
      <4> QED  BY <4>1 DEF Held
    <3>1. 1 < i + 1 /\ i + 1 \in DOMAIN batch[r]
      BY <2>5
    <3>2. batch[r][1].id < batch[r][i + 1].id
      BY <1>2, <3>1 DEF Increasing
    <3>3. batch[r][1].id \in Int /\ batch[r][i + 1].id \in Int
      BY <1>1, <1>2, <3>1
    <3> QED  BY <2>4, <3>2, <3>3
  <2>9. ASSUME NEW e \in Events, Held(r, e), e # first
        PROVE  Held(r, e)' /\ pc'[r] = "retry"
    <3>1. PICK i \in DOMAIN batch[r] : batch[r][i].id = e
      BY <2>9 DEF Held
    <3>2. i # 1
      BY <1>2, <2>9, <3>1
    <3>3. i - 1 \in DOMAIN batch'[r] /\ (i - 1) + 1 = i
      BY <1>1, <2>4, <3>2
    <3>4. batch'[r][i - 1] = batch[r][i]
      BY <2>4, <3>3
    <3> QED  BY <2>1, <3>1, <3>3, <3>4 DEF Held
  <2> QED  BY <2>6, <2>7, <2>8, <2>9
<1> QED  BY <1>3, <1>4

Once(t) == \A i, j \in DOMAIN t : t[i] = t[j] => i = j

\* A writer batch holds each of its rows once, and none the writer has been through.
LEMMA PieceOnce ==
    ASSUME TypeOK, NEW r \in Relays, Increasing(r), NEW n \in Nat, NEW t, Piece(r, n, t),
           pc[r] \in Writing
    PROVE  /\ Once(t)
           /\ \A i \in DOMAIN t : Held(r, t[i]) /\ ~Unsettled(r, t[i])
<1>1. /\ Len(batch[r]) \in Nat /\ DOMAIN batch[r] = 1 .. Len(batch[r])
      /\ \A i \in DOMAIN batch[r] : batch[r][i].id \in Events
  BY CauseTypes
<1>2. PICK d : d = writer[r].done
  OBVIOUS
<1>3. d \in Nat /\ Through(r) = d
  BY <1>2, TypeParts DEF Through, Writers
<1>4. /\ t \in Seq(Events) /\ DOMAIN t = 1 .. n
      /\ \A i \in 1 .. n : d + i \in DOMAIN batch[r] /\ t[i] = batch[r][d + i].id
  BY <1>2 DEF Piece
<1>5. ASSUME NEW i \in DOMAIN t, NEW j \in DOMAIN t, i # j
      PROVE  t[i] # t[j]
  <2>1. /\ d + i \in DOMAIN batch[r] /\ d + j \in DOMAIN batch[r]
        /\ t[i] = batch[r][d + i].id /\ t[j] = batch[r][d + j].id
    BY <1>4
  <2>2. d + i < d + j \/ d + j < d + i
    BY <1>3, <1>4, <1>5
  <2>3. t[i] \in Int /\ t[j] \in Int
    <3>1. t[i] \in Events /\ t[j] \in Events
      BY <1>1, <2>1
    <3> QED  BY <3>1
  <2>4. t[i] < t[j] \/ t[j] < t[i]
    BY <2>1, <2>2 DEF Increasing
  <2> QED  BY <2>3, <2>4
<1>6. ASSUME NEW i \in DOMAIN t PROVE Held(r, t[i]) /\ ~Unsettled(r, t[i])
  <2>1. d + i \in DOMAIN batch[r] /\ t[i] = batch[r][d + i].id /\ i >= 1 /\ i \in Nat
    BY <1>4
  <2>2. ASSUME NEW j \in DOMAIN batch[r], j <= d PROVE batch[r][j].id # t[i]
    <3>1. j < d + i
      BY <1>1, <1>3, <2>1, <2>2
    <3>2. batch[r][j].id < batch[r][d + i].id
      BY <2>1, <3>1 DEF Increasing
    <3>3. batch[r][j].id \in Events /\ batch[r][d + i].id \in Events
      BY <1>1, <2>1
    <3>4. batch[r][j].id \in Int /\ batch[r][d + i].id \in Int
      BY <3>3
    <3> QED  BY <2>1, <3>2, <3>4
  <2> QED  BY <1>3, <2>1, <2>2 DEF Held, Unsettled
<1> QED  BY <1>5, <1>6 DEF Once

\* A writer that goes on has been through the rows it leaves behind.
LEMMA PastThrough ==
    ASSUME TypeOK, NEW r \in Relays, NEW n \in Nat, NEW t, Piece(r, n, t), Written(r, n, t)
    PROVE  /\ Past(r, n) => Through(r)' = writer[r].done + n
           /\ Again(r, n) => Through(r)' = writer[r].done
           /\ Through(r) = writer[r].done /\ writer[r].done \in Nat
           /\ \A e : Unsettled(r, e) => Unsettled(r, e)'
           /\ Past(r, n) => \A i \in DOMAIN t : Unsettled(r, t[i])'
<1>1. /\ Len(batch[r]) \in Nat /\ DOMAIN batch[r] = 1 .. Len(batch[r])
  BY CauseTypes
<1>2. PICK d : d = writer[r].done
  OBVIOUS
<1>3. /\ pc[r] \in Writing /\ batch' = batch
      /\ Past(r, n) \/ Again(r, n)
  BY DEF Written
<1>4. d \in Nat /\ Through(r) = d
  BY <1>2, <1>3, TypeParts DEF Through, Writers
<1>5. /\ DOMAIN t = 1 .. n /\ d + n <= Len(batch[r])
      /\ \A i \in 1 .. n : d + i \in DOMAIN batch[r] /\ t[i] = batch[r][d + i].id
  BY <1>2 DEF Piece
<1>6. ASSUME Past(r, n) PROVE Through(r)' = d + n
  <2>1. CASE d + n < Len(batch[r])
    <3>1. pc'[r] \in Writing /\ writer'[r].done = d + n
      BY <1>2, <1>6, <2>1 DEF Past
    <3> QED  BY <3>1 DEF Through
  <2>2. CASE ~(d + n < Len(batch[r]))
    <3>1. pc'[r] \notin Writing
      BY <1>2, <1>6, <2>2 DEF Past, Writing
    <3>2. Len(batch[r]) = d + n
      BY <1>1, <1>4, <1>5, <2>2
    <3> QED  BY <1>3, <3>1, <3>2 DEF Through
  <2> QED  BY <2>1, <2>2
<1>7. ASSUME Again(r, n) PROVE Through(r)' = d
  BY <1>2, <1>3, <1>7 DEF Again, Through
<1>8. Through(r)' \in Nat /\ d <= Through(r)'
  BY <1>3, <1>4, <1>6, <1>7
<1>9. ASSUME NEW e, Unsettled(r, e) PROVE Unsettled(r, e)'
  <2>1. PICK i \in DOMAIN batch[r] : i <= d /\ batch[r][i].id = e
    BY <1>4, <1>9 DEF Unsettled
  <2>2. i <= Through(r)'
    BY <1>1, <1>4, <1>8, <2>1
  <2> QED  BY <1>3, <2>1, <2>2 DEF Unsettled
<1>10. ASSUME Past(r, n), NEW i \in DOMAIN t PROVE Unsettled(r, t[i])'
  <2>1. d + i \in DOMAIN batch[r] /\ t[i] = batch[r][d + i].id
    BY <1>5
  <2>2. d + i <= Through(r)'
    BY <1>4, <1>5, <1>6, <1>10
  <2>3. \E j \in DOMAIN batch'[r] : j <= Through(r)' /\ batch'[r][j].id = t[i]
    BY <1>3, <2>1, <2>2
  <2> QED  BY <2>3 DEF Unsettled
<1> QED  BY <1>2, <1>4, <1>6, <1>7, <1>9, <1>10

\* A writer batch is sent once, or again for a fault.
LEMMA CauseWrite ==
    ASSUME TypeOK, TypeOK', NEW r \in Relays, CauseInv,
           NEW n \in Nat, NEW t \in Seq(Events), Piece(r, n, t), Written(r, n, t)
    PROVE  /\ CauseOf(r)'
           /\ \A e \in Events : Count(log, e)' <= 1 + attempts'[e] + faults'
<1>1. /\ faults \in Nat
      /\ \A e \in Events : attempts[e] \in Nat /\ Count(log, e) \in Nat
  BY CauseTypes
<1>2. /\ pc[r] \in Writing /\ UNCHANGED <<status, attempts, batch>>
      /\ \/ Past(r, n) /\ (Accepted(t) \/ Refused(n, t))
         \/ Again(r, n) /\ Accepted(t)
  BY DEF Written
<1>3. CauseOf(r) /\ \A e \in Events : Count(log, e) <= 1 + attempts[e] + faults
  BY DEF CauseInv
<1>4. Increasing(r)' /\ \A e \in Events : Held(r, e)' => status'[e] = "pending"
  BY <1>2, <1>3 DEF CauseOf, Increasing, Held
<1>5. Once(t) /\ \A i \in DOMAIN t : Held(r, t[i]) /\ ~Unsettled(r, t[i])
  BY <1>2, <1>3, PieceOnce DEF CauseOf
<1>6. /\ \A e : Unsettled(r, e) => Unsettled(r, e)'
      /\ Past(r, n) => \A i \in DOMAIN t : Unsettled(r, t[i])'
  BY PastThrough
<1>7. \A e \in Events : Count(log, e)' \in Nat
  BY CountIs DEF TypeOK
<1>8. ASSUME Accepted(t), NEW e \in Events
      PROVE  /\ Count(log, e)' <= Count(log, e) + 1
             /\ (\A i \in DOMAIN t : t[i] # e) => Count(log, e)' = Count(log, e)
  <2>1. PICK l : l = log
    OBVIOUS
  <2>2. l \in Seq(Events) /\ log' = l \o t
    BY <1>8, <2>1, TypeParts DEF Accepted
  <2>3. \A i, j \in DOMAIN t : t[i] = e /\ t[j] = e => i = j
    BY <1>5 DEF Once
  <2>4. /\ Count(l \o t, e) <= Count(l, e) + 1
        /\ (\A i \in DOMAIN t : t[i] # e) => Count(l \o t, e) = Count(l, e)
    BY <2>2, <2>3, CountGrows
  <2>5. Count(log, e)' = Count(l \o t, e)
    BY <2>2 DEF Count
  <2> QED  BY <2>1, <2>4, <2>5
<1>9. ASSUME NEW e \in Events
      PROVE  /\ Count(log, e)' <= 1 + attempts'[e] + faults'
             /\ status'[e] # "published" /\ ~Unsettled(r, e)'
                  => Count(log, e)' <= attempts'[e] + faults'
  <2>1. Count(log, e) <= 1 + attempts[e] + faults
    BY <1>3
  <2>2. status[e] # "published" /\ ~Unsettled(r, e) => Count(log, e) <= attempts[e] + faults
    BY <1>3 DEF CauseOf
  <2>3. CASE Again(r, n)
    <3>1. faults' = faults + 1 /\ attempts'[e] = attempts[e] /\ status'[e] = status[e]
      BY <1>2, <2>3 DEF Again
    <3>2. Accepted(t)
      BY <1>1, <1>2, <2>3 DEF Past, Again
    <3>3. Count(log, e)' <= Count(log, e) + 1
      BY <1>8, <3>2
    <3>4. ~Unsettled(r, e)' => ~Unsettled(r, e)
      BY <1>6
    <3> QED  BY <1>1, <1>7, <2>1, <2>2, <3>1, <3>3, <3>4, SMTT(40)
  <2>4. CASE Past(r, n) /\ Accepted(t)
    <3>1. faults' = faults /\ attempts'[e] = attempts[e] /\ status'[e] = status[e]
      BY <1>2, <2>4 DEF Past
    <3>2. CASE \E i \in DOMAIN t : t[i] = e
      <4>1. Held(r, e) /\ ~Unsettled(r, e) /\ Unsettled(r, e)'
        BY <1>5, <1>6, <2>4, <3>2
      <4>2. status[e] = "pending"
        BY <1>3, <4>1 DEF CauseOf
      <4>3. Count(log, e) <= attempts[e] + faults
        BY <2>2, <4>1, <4>2
      <4>4. Count(log, e)' <= Count(log, e) + 1
        BY <1>8, <2>4
      <4> QED  BY <1>1, <1>7, <3>1, <4>1, <4>3, <4>4
    <3>3. CASE \A i \in DOMAIN t : t[i] # e
      <4>1. Count(log, e)' = Count(log, e)
        BY <1>8, <2>4, <3>3
      <4>2. ~Unsettled(r, e)' => ~Unsettled(r, e)
        BY <1>6
      <4> QED  BY <2>1, <2>2, <3>1, <4>1, <4>2
    <3> QED  BY <3>2, <3>3
  <2>5. CASE Past(r, n) /\ Refused(n, t)
    <3>1. /\ faults' = faults /\ attempts'[e] = attempts[e] /\ status'[e] = status[e]
          /\ log' = log
      BY <1>2, <2>5 DEF Past, Refused
    <3>2. Count(log, e)' = Count(log, e)
      BY <3>1 DEF Count
    <3>3. ~Unsettled(r, e)' => ~Unsettled(r, e)
      BY <1>6
    <3> QED  BY <2>1, <2>2, <3>1, <3>2, <3>3
  <2> QED  BY <1>2, <2>3, <2>4, <2>5
<1> QED  BY <1>4, <1>9 DEF CauseOf

\* The steps of a lone relay.
LEMMA CauseDrain ==
    ASSUME TypeOK, TypeOK', NEW r \in Relays, CauseInv, Drain(r) \/ PublishAgain(r) \/ Crash(r)
    PROVE  /\ CauseOf(r)'
           /\ \A e \in Events : Count(log, e)' <= 1 + attempts'[e] + faults'
<1>1. /\ faults \in Nat
      /\ \A e \in Events : attempts[e] \in Nat /\ Count(log, e) \in Nat
  BY CauseTypes
<1>2. /\ Increasing(r)
      /\ \A e \in Events : Held(r, e) => status[e] = "pending"
      /\ \A e \in Events : Count(log, e) <= 1 + attempts[e] + faults
      /\ \A e \in Events : status[e] # "published" /\ ~Unsettled(r, e)
           => Count(log, e) <= attempts[e] + faults
  BY DEF CauseInv, CauseOf
<1>3. CASE ClaimDue(r)
  <2>1. pc[r] = "idle" /\ pc'[r] = "claimed"
        /\ UNCHANGED <<status, attempts, due, log, writer, faults>>
    BY <1>3, TypeParts DEF ClaimDue, Goto
  <2>2. \A e \in Events : Held(r, e)' => status'[e] = "pending"
    BY <1>3, <2>1, ClaimedInOrder DEF Held, Due
  <2>3. \A e \in Events : ~Unsettled(r, e)
    <3>1. batch[r] = <<>>
      BY <2>1, TypeParts
    <3> QED  BY <3>1 DEF Unsettled
  <2>4. Increasing(r)'
    BY <1>3, ClaimedInOrder
  <2>5. \A e \in Events : Count(log, e)' = Count(log, e)
    BY <2>1 DEF Count
  <2> QED  BY <1>2, <2>1, <2>2, <2>3, <2>4, <2>5 DEF CauseOf
<1>4. CASE Publish(r) \/ PublishFails(r) \/ PublishAgain(r)
  <2>1. PICK n \in Nat \ {0}, t \in Seq(Events) : Piece(r, n, t) /\ Written(r, n, t)
    BY <1>4, WriteIs
  <2> QED  BY <2>1, CauseWrite
<1>5. CASE MarkPublished(r)
  <2>1. /\ pc[r] = "sent" /\ Finish(r) /\ UNCHANGED <<attempts, due, log, faults>>
        /\ status' = [e \in Events |-> IF Held(r, e) THEN "published" ELSE status[e]]
    BY <1>5 DEF MarkPublished
  <2>2. pc'[r] = "idle" /\ DOMAIN batch'[r] = {}
    BY <2>1, Finished
  <2>3. Increasing(r)' /\ \A e \in Events : ~Held(r, e)'
    BY <2>2 DEF Increasing, Held
  <2>4. \A e \in Events : status'[e] # "published" => status[e] # "published" /\ ~Unsettled(r, e)
    <3>1. \A e \in Events : Unsettled(r, e) <=> Held(r, e)
      BY <2>1, AllThrough DEF Writing
    <3> QED  BY <2>1, <3>1
  <2>5. \A e \in Events : Count(log, e)' = Count(log, e)
    BY <2>1 DEF Count
  <2> QED  BY <1>2, <2>1, <2>3, <2>4, <2>5 DEF CauseOf
<1>6. CASE MarkPublishedFails(r) \/ MarkFailedFails(r) \/ Crash(r)
  <2>1. UNCHANGED <<status, attempts, due, log>> /\ faults' = faults + 1
    BY <1>6 DEF MarkPublishedFails, MarkFailedFails, Crash, Fault
  <2>2. Increasing(r)' /\ \A e \in Events : Held(r, e)' => Held(r, e)
    <3>1. CASE Finish(r)
      <4>1. DOMAIN batch'[r] = {}
        BY <3>1, Finished
      <4> QED  BY <4>1 DEF Increasing, Held
    <3>2. CASE MarkFailedFails(r)
      <4>1. pc[r] = "retry" /\ Advance(r)
        BY <3>2 DEF MarkFailedFails
      <4> QED  BY <1>2, <4>1, AdvanceKeeps
    <3> QED  BY <1>6, <3>1, <3>2 DEF MarkPublishedFails, Crash
  <2>3. \A e \in Events : Count(log, e) <= attempts[e] + (faults + 1)
                          /\ Count(log, e) <= 1 + attempts[e] + (faults + 1)
    BY <1>1, <1>2
  <2>4. \A e \in Events : Count(log, e)' = Count(log, e)
    BY <2>1 DEF Count
  <2> QED  BY <1>2, <2>1, <2>2, <2>3, <2>4 DEF CauseOf
<1>7. CASE MarkFailed(r)
  <2>1. PICK row : row = Head(batch[r])
    OBVIOUS
  <2>2. PICK first : first = row.id
    OBVIOUS
  <2>3. /\ pc[r] = "retry" /\ Advance(r) /\ UNCHANGED <<log, faults>>
        /\ status' = [status EXCEPT ![first] = IF Exhausted(row) THEN "failed" ELSE "pending"]
        /\ attempts' = [attempts EXCEPT ![first] = @ + 1]
    BY <1>7, <2>1, <2>2 DEF MarkFailed
  <2>4. first \in Events /\ Held(r, first)
    <3>1. /\ batch[r] \in Seq(Row) /\ Len(batch[r]) \in Nat /\ DOMAIN batch[r] = 1 .. Len(batch[r])
          /\ \A i \in DOMAIN batch[r] : batch[r][i].id \in Events
      BY CauseTypes
    <3>2. batch[r] # <<>>
      BY <2>3, TypeParts
    <3>3. row = batch[r][1] /\ 1 \in DOMAIN batch[r]
      BY <2>1, <3>1, <3>2
    <3> QED  BY <2>2, <3>1, <3>3 DEF Held
  <2>5. /\ status'[first] \in {"failed", "pending"} /\ attempts'[first] = attempts[first] + 1
        /\ \A e \in Events : e # first => status'[e] = status[e] /\ attempts'[e] = attempts[e]
    BY <2>3, <2>4 DEF TypeOK
  <2>6. /\ Increasing(r)'
        /\ \A e \in Events : Held(r, e)' => Held(r, e)
        /\ ~Held(r, first)'
        /\ \A e \in Events : Held(r, e) /\ e # first => Held(r, e)' /\ pc'[r] = "retry"
    <3>1. first = Head(batch[r]).id
      BY <2>1, <2>2
    <3> QED  BY <1>2, <2>3, <3>1, AdvanceKeeps
  <2>7. \A e \in Events : Unsettled(r, e) <=> Held(r, e)
    BY <2>3, AllThrough DEF Writing
  <2>8. \A e \in Events : Held(r, e)' => Unsettled(r, e)'
    <3>1. Len(batch'[r]) \in Nat /\ DOMAIN batch'[r] = 1 .. Len(batch'[r])
      <4>1. batch' \in [Relays -> Seq(Row)]
        BY <2>3, Advanced
      <4> QED  BY <4>1, LenProperties
    <3>2. pc'[r] \notin Writing
      BY <2>3, Advanced DEF Writing
    <3>3. \A i \in DOMAIN batch'[r] : i <= Through(r)'
      BY <3>1, <3>2 DEF Through
    <3> QED  BY <3>3 DEF Unsettled, Held
  <2>9. ASSUME NEW e \in Events
        PROVE  /\ Held(r, e)' => status'[e] = "pending"
               /\ Count(log, e)' <= 1 + attempts'[e] + faults'
               /\ status'[e] # "published" /\ ~Unsettled(r, e)'
                    => Count(log, e)' <= attempts'[e] + faults'
    <3>0. Count(log, e)' = Count(log, e)
      BY <2>3 DEF Count
    <3>1. CASE e = first
      BY <1>1, <1>2, <2>3, <2>5, <2>6, <3>0, <3>1
    <3>2. CASE e # first
      <4>1. ~Unsettled(r, e)' => ~Unsettled(r, e)
        BY <2>6, <2>7, <2>8, <3>2
      <4> QED  BY <1>2, <2>3, <2>5, <2>6, <3>0, <3>2, <4>1
    <3> QED  BY <3>1, <3>2
  <2> QED  BY <2>6, <2>9 DEF CauseOf
<1> QED  BY <1>3, <1>4, <1>5, <1>6, <1>7 DEF Drain

LEMMA CauseStep ==
    ASSUME OneRelay, TypeOK, TypeOK', CauseInv, [Next]_vars
    PROVE  CauseInv'
<1>1. ASSUME NEW f \in Events, Record(f) PROVE CauseInv'
  <2>1. /\ UNCHANGED <<attempts, log, pc, batch, writer, faults>>
        /\ status[f] = "none" /\ status'[f] = "pending"
        /\ \A e \in Events : e # f => status'[e] = status[e]
    BY <1>1 DEF Record, TypeOK
  <2>2. \A e \in Events : status[e] = "pending" => status'[e] = "pending"
    BY <2>1
  <2>3. \A e \in Events : status'[e] # "published" => status[e] # "published"
    BY <2>1
  <2>4. /\ \A r \in Relays : Increasing(r) => Increasing(r)'
        /\ \A r \in Relays, e \in Events :
             (Held(r, e)' <=> Held(r, e)) /\ (Unsettled(r, e)' <=> Unsettled(r, e))
        /\ \A e \in Events : Count(log, e)' = Count(log, e)
    BY <2>1 DEF Increasing, Held, Unsettled, Through, Count
  <2> QED  BY <2>1, <2>2, <2>3, <2>4 DEF CauseInv, CauseOf
<1>2. ASSUME UNCHANGED <<status, attempts, log, pc, batch, writer, faults>> PROVE CauseInv'
  BY <1>2 DEF CauseInv, CauseOf, Increasing, Held, Unsettled, Through, Count
<1>3. CASE (\E e \in Events : FallDue(e)) \/ UNCHANGED vars
  BY <1>2, <1>3 DEF FallDue, vars
<1>4. ASSUME NEW r \in Relays, Drain(r) \/ PublishAgain(r) \/ Crash(r) PROVE CauseInv'
  <2>1. /\ CauseOf(r)'
        /\ \A e \in Events : Count(log, e)' <= 1 + attempts'[e] + faults'
    BY <1>4, CauseDrain
  <2>2. \A q \in Relays : q = r
    BY DEF OneRelay
  <2>3. \A q \in Relays : CauseOf(q)'
    BY <2>1, <2>2
  <2> QED  BY <2>1, <2>3 DEF CauseInv
<1> QED  BY <1>1, <1>3, <1>4 DEF Next

LEMMA CauseStart == Init => CauseInv
<1> SUFFICES ASSUME Init PROVE CauseInv
  OBVIOUS
<1>1. TypeOK
  BY InitInv
<1>2. \A e \in Events : {i \in DOMAIN log : log[i] = e} = {}
  BY DEF Init
<1>3. \A e \in Events : Count(log, e) = 0
  BY <1>2, FS_EmptySet DEF Count
<1>4. \A r \in Relays : DOMAIN batch[r] = {}
  BY DEF Init
<1>5. faults = 0 /\ \A e \in Events : attempts[e] = 0
  BY DEF Init
<1> QED  BY <1>3, <1>4, <1>5 DEF CauseInv, CauseOf, Increasing, Held

\* A lone relay sends an event again only for a failure it counted, a crash, a failed
\* statement or an answer it lost, however many events, attempts and faults there are and
\* however the writer splits a batch (Relay.drain, retryBatch, Publisher.Publish).
THEOREM LoneRelayResends ==
    ASSUME OneRelay
    PROVE  Spec => []ResendsAreCaused
<1>1. Init => TypeOK /\ RelayInv /\ CauseInv
  BY InitInv, CauseStart
<1>2. TypeOK /\ RelayInv /\ CauseInv /\ [Next]_vars => TypeOK' /\ RelayInv' /\ CauseInv'
  BY StepInv, CauseStep
<1>3. CauseInv => ResendsAreCaused
  BY DEF CauseInv, ResendsAreCaused, Times, Count
<1> QED  BY <1>1, <1>2, <1>3, PTL DEF Spec

----------------------------------------------------------------------------
(* In what order events are sent, again by one relay alone. *)

\* Every older event is in the log already, or earlier in the batch, unless the writer
\* gave it up once or its row came late.
Followed(r) ==
    \A i \in DOMAIN batch[r] : \A d \in Events :
        d < batch[r][i].id /\ status[d] # "none" =>
            \/ Sent(d)
            \/ d \in refused \cup late
            \/ \E j \in DOMAIN batch[r] : j < i /\ batch[r][j].id = d

\* A row that was never written stays due, so a claim takes it before any younger one;
\* and where the writer has been, a row was sent or given up.
OrderInv ==
    /\ \A d \in Events : status[d] # "none" /\ ~Sent(d) /\ d \notin refused =>
          status[d] = "pending" /\ due[d]
    /\ \A r \in Relays, e \in Events : Unsettled(r, e) => Sent(e) \/ e \in refused
    /\ \A r \in Relays : pc[r] \in Writing => Followed(r)
    /\ OvertakesOnlyForACause

\* A step that leaves the log alone.
LEMMA LogKept ==
    ASSUME OvertakesOnlyForACause, UNCHANGED <<log, refused>>, late \subseteq late',
           \A e \in Events : status'[e] # "none" => status[e] # "none"
    PROVE  OvertakesOnlyForACause'
<1> SUFFICES ASSUME NEW d \in Events, NEW e \in Events, d < e, status'[d] # "none", Before(e, d)'
             PROVE  d \in refused' \cup late'
  BY DEF OvertakesOnlyForACause
<1>1. Before(e, d)
  BY DEF Before
<1>2. d \in refused \cup late
  BY <1>1 DEF OvertakesOnlyForACause
<1> QED  BY <1>2

\* A relay on its way back to the table leaves no row unsettled that was not.
LEMMA OnTheWayBack ==
    ASSUME TypeOK, NEW r \in Relays, Finish(r) \/ (pc[r] = "retry" /\ Advance(r))
    PROVE  /\ pc'[r] \notin Writing
           /\ \A e \in Events : Unsettled(r, e)' => Unsettled(r, e)
<1>1. CASE Finish(r)
  <2>1. pc'[r] = "idle" /\ DOMAIN batch'[r] = {}
    BY <1>1, Finished
  <2> QED  BY <2>1 DEF Unsettled, Writing
<1>2. CASE pc[r] = "retry" /\ Advance(r)
  <2>1. pc'[r] \notin Writing
    BY <1>2, Advanced DEF Writing
  <2>2. \A e \in Events : Held(r, e)' => Held(r, e)
    BY <1>2, AdvanceKeeps
  <2>3. \A e \in Events : Unsettled(r, e) <=> Held(r, e)
    BY <1>2, AllThrough DEF Writing
  <2>4. \A e \in Events : Unsettled(r, e)' => Held(r, e)'
    BY DEF Unsettled, Held
  <2> QED  BY <2>1, <2>2, <2>3, <2>4
<1> QED  BY <1>1, <1>2

\* A writer batch keeps the order.
LEMMA OrderWrite ==
    ASSUME TypeOK, TypeOK', NEW r \in Relays, OneRelay, OrderInv,
           NEW n \in Nat, NEW t \in Seq(Events), Piece(r, n, t), Written(r, n, t)
    PROVE  OrderInv'
<1>1. /\ pc[r] \in Writing /\ UNCHANGED <<status, due, batch, late>>
      /\ \/ Past(r, n) /\ (Accepted(t) \/ Refused(n, t))
         \/ Again(r, n) /\ Accepted(t)
      /\ Accepted(t) \/ Refused(n, t)
  BY DEF Written
<1>2. /\ \A q \in Relays : q = r
      /\ \A d \in Events : status[d] # "none" /\ ~Sent(d) /\ d \notin refused =>
            status[d] = "pending" /\ due[d]
      /\ \A e \in Events : Unsettled(r, e) => Sent(e) \/ e \in refused
      /\ Followed(r) /\ OvertakesOnlyForACause
  BY <1>1 DEF OrderInv, OneRelay
<1>3. /\ DOMAIN t = 1 .. n /\ Len(t) = n
      /\ \A i \in 1 .. n : /\ writer[r].done + i \in DOMAIN batch[r]
                           /\ t[i] = batch[r][writer[r].done + i].id
  BY DEF Piece
<1>4. /\ refused \subseteq refused'
      /\ \A e \in Events : Sent(e) => Sent(e)'
      /\ \A i \in 1 .. n : Sent(t[i])' \/ t[i] \in refused'
  <2>1. CASE Accepted(t)
    <3>1. log' = log \o t /\ refused' = refused
      BY <2>1 DEF Accepted
    <3>2. /\ \A e \in Events : Sent(e) => Sent(e)'
          /\ \A i \in DOMAIN t : \E j \in DOMAIN log' : log'[j] = t[i]
      BY <3>1, Appended
    <3> QED  BY <1>3, <3>1, <3>2 DEF Sent
  <2>2. CASE Refused(n, t)
    BY <2>2 DEF Refused, Sent
  <2> QED  BY <1>1, <2>1, <2>2
<1>5. \A d \in Events : status'[d] # "none" /\ ~Sent(d)' /\ d \notin refused' =>
          status'[d] = "pending" /\ due'[d]
  BY <1>1, <1>2, <1>4
<1>6. PICK d0 : d0 = writer[r].done
  OBVIOUS
<1>7. /\ Past(r, n) => Through(r)' = d0 + n
      /\ Again(r, n) => Through(r)' = d0
      /\ Through(r) = d0 /\ d0 \in Nat
  BY <1>6, PastThrough
<1>8. Len(batch[r]) \in Nat /\ DOMAIN batch[r] = 1 .. Len(batch[r])
  BY CauseTypes
<1>9. ASSUME NEW e \in Events, Unsettled(r, e)' PROVE Sent(e)' \/ e \in refused'
  <2>1. PICK i \in DOMAIN batch[r] : i <= Through(r)' /\ batch[r][i].id = e
    BY <1>1, <1>9 DEF Unsettled
  <2>2. CASE i <= d0
    <3>1. Unsettled(r, e)
      BY <1>7, <2>1, <2>2 DEF Unsettled
    <3> QED  BY <1>2, <1>4, <3>1
  <2>3. CASE ~(i <= d0)
    <3>1. i <= d0 + n /\ i \in Nat
      BY <1>1, <1>7, <1>8, <2>1, <2>3
    <3>2. i - d0 \in 1 .. n /\ d0 + (i - d0) = i
      BY <1>7, <2>3, <3>1
    <3>3. t[i - d0] = e
      BY <1>3, <1>6, <2>1, <3>2
    <3> QED  BY <1>4, <3>2, <3>3
  <2> QED  BY <2>2, <2>3
<1>10. Followed(r)'
  <2> SUFFICES ASSUME NEW i \in DOMAIN batch[r], NEW d \in Events,
                      d < batch[r][i].id, status[d] # "none"
               PROVE  \/ Sent(d)'
                      \/ d \in refused' \cup late
                      \/ \E j \in DOMAIN batch[r] : j < i /\ batch[r][j].id = d
    BY <1>1 DEF Followed
  <2>1. \/ Sent(d) \/ d \in refused \cup late
        \/ \E j \in DOMAIN batch[r] : j < i /\ batch[r][j].id = d
    BY <1>2 DEF Followed
  <2> QED  BY <1>4, <2>1
<1>11. OvertakesOnlyForACause'
  <2>1. CASE log' = log
    <3> SUFFICES ASSUME NEW d \in Events, NEW e \in Events, d < e, status'[d] # "none", Before(e, d)'
                 PROVE  d \in refused' \cup late'
      BY DEF OvertakesOnlyForACause
    <3>1. Before(e, d)
      BY <2>1 DEF Before
    <3>2. d \in refused \cup late
      BY <1>1, <1>2, <3>1 DEF OvertakesOnlyForACause
    <3> QED  BY <1>1, <1>4, <3>2
  <2>2. CASE Accepted(t)
    <3> SUFFICES ASSUME NEW d \in Events, NEW e \in Events, d < e, status'[d] # "none", Before(e, d)'
                 PROVE  d \in refused' \cup late'
      BY DEF OvertakesOnlyForACause
    <3>1. PICK l : l = log
      OBVIOUS
    <3>2. log' = l \o t /\ l \in Seq(Events) /\ refused' = refused /\ late' = late /\ status[d] # "none"
      BY <1>1, <2>2, <3>1, TypeParts DEF Accepted
    <3>3. /\ Len(l) \in Nat /\ DOMAIN l = 1 .. Len(l)
          /\ DOMAIN (l \o t) = 1 .. (Len(l) + n)
          /\ \A i \in 1 .. Len(l) : (l \o t)[i] = l[i]
          /\ \A i \in 1 .. n : (l \o t)[Len(l) + i] = t[i]
      BY <1>3, <3>2
    <3>4. PICK i \in DOMAIN (l \o t) :
            (l \o t)[i] = e /\ \A j \in 1 .. i : (l \o t)[j] # d
      BY <3>2 DEF Before
    <3>5. i \in Nat
      BY <3>3
    <3>6. CASE i <= Len(l)
      <4>1. i \in DOMAIN l /\ l[i] = e /\ \A j \in 1 .. i : l[j] # d
        BY <3>3, <3>4, <3>6
      <4>2. Before(e, d)
        BY <3>1, <4>1 DEF Before
      <4> QED  BY <1>2, <3>2, <4>2 DEF OvertakesOnlyForACause
    <3>7. CASE i > Len(l)
      <4>1. PICK k \in 1 .. n : i = Len(l) + k
        <5>1. i - Len(l) \in 1 .. n /\ i = Len(l) + (i - Len(l))
          BY <3>3, <3>7
        <5> QED  BY <5>1
      <4>2. t[k] = e /\ d0 + k \in DOMAIN batch[r] /\ batch[r][d0 + k].id = e
        BY <1>3, <1>6, <3>3, <3>4, <4>1
      <4>3. ~Sent(d)
        <5>1. \A j \in DOMAIN l : j \in 1 .. i /\ (l \o t)[j] = l[j]
          BY <3>3, <3>7
        <5>2. \A j \in DOMAIN l : l[j] # d
          BY <3>4, <5>1
        <5> QED  BY <3>1, <5>2 DEF Sent
      <4>4. \A j \in 1 .. n : j <= k => t[j] # d
        <5> SUFFICES ASSUME NEW j \in 1 .. n, j <= k PROVE t[j] # d
          OBVIOUS
        <5>1. Len(l) + j \in 1 .. i /\ (l \o t)[Len(l) + j] = t[j]
          BY <3>3, <4>1
        <5> QED  BY <3>4, <5>1
      <4>5. \/ d \in refused \cup late
            \/ \E j \in DOMAIN batch[r] : j < d0 + k /\ batch[r][j].id = d
        BY <1>2, <3>2, <4>2, <4>3, ZenonT(60) DEF Followed
      <4>6. ASSUME NEW j \in DOMAIN batch[r], j < d0 + k, batch[r][j].id = d
            PROVE  d \in refused
        <5>1. CASE j <= d0
          <6>1. Unsettled(r, d)
            BY <1>7, <4>6, <5>1 DEF Unsettled
          <6> QED  BY <1>2, <4>3, <6>1
        <5>2. CASE ~(j <= d0)
          <6>1. j - d0 \in 1 .. n /\ d0 + (j - d0) = j /\ j - d0 <= k
            BY <1>7, <1>8, <4>6, <5>2, SMTT(40)
          <6>2. t[j - d0] = d
            BY <1>3, <1>6, <4>6, <6>1
          <6> QED  BY <4>4, <6>1, <6>2
        <5> QED  BY <5>1, <5>2
      <4> QED  BY <3>2, <4>5, <4>6
    <3> QED  BY <3>3, <3>5, <3>6, <3>7
  <2> QED  BY <1>1, <2>1, <2>2 DEF Refused
<1>12. \A q \in Relays : Followed(q)'
  BY <1>2, <1>10
<1>13. \A q \in Relays, e \in Events : Unsettled(q, e)' => Sent(e)' \/ e \in refused'
  BY <1>2, <1>9
<1> QED  BY <1>5, <1>11, <1>12, <1>13 DEF OrderInv

\* The bookkeeping keeps it.
LEMMA OrderMark ==
    ASSUME TypeOK, TypeOK', RelayInv, NEW r \in Relays, OneRelay, OrderInv,
           \/ MarkPublished(r) \/ MarkPublishedFails(r) \/ MarkFailed(r)
           \/ MarkFailedFails(r) \/ Crash(r)
    PROVE  OrderInv'
<1>1. UNCHANGED <<log, late, refused>>
  BY DEF MarkPublished, MarkPublishedFails, MarkFailed, MarkFailedFails, Crash, history
<1>2. Finish(r) \/ (pc[r] = "retry" /\ Advance(r))
  BY DEF MarkPublished, MarkPublishedFails, MarkFailed, MarkFailedFails, Crash
<1>3. /\ \A q \in Relays : q = r
      /\ \A d \in Events : status[d] # "none" /\ ~Sent(d) /\ d \notin refused =>
            status[d] = "pending" /\ due[d]
      /\ \A e \in Events : Unsettled(r, e) => Sent(e) \/ e \in refused
      /\ OvertakesOnlyForACause
  BY DEF OrderInv, OneRelay
<1>4. pc'[r] \notin Writing /\ \A e \in Events : Unsettled(r, e)' => Unsettled(r, e)
  BY <1>2, OnTheWayBack
<1>5. \A e \in Events :
        \/ status'[e] = status[e] /\ due'[e] = due[e]
        \/ status[e] # "none" /\ (Sent(e) \/ e \in refused)
  <2>1. CASE MarkPublished(r)
    <3>1. /\ pc[r] = "sent" /\ due' = due
          /\ status' = [e \in Events |-> IF Held(r, e) THEN "published" ELSE status[e]]
      BY <2>1 DEF MarkPublished
    <3>2. \A e \in Events : Held(r, e) => Sent(e) /\ status[e] # "none"
      BY <3>1 DEF RelayInv, Grounded, Held
    <3> QED  BY <3>1, <3>2
  <2>2. CASE MarkPublishedFails(r) \/ MarkFailedFails(r) \/ Crash(r)
    <3>1. UNCHANGED <<status, due>>
      BY <2>2 DEF MarkPublishedFails, MarkFailedFails, Crash
    <3> QED  BY <3>1
  <2>3. CASE MarkFailed(r)
    <3>1. PICK row : row = Head(batch[r])
      OBVIOUS
    <3>2. PICK first : first = row.id
      OBVIOUS
    <3>3. /\ pc[r] = "retry"
          /\ status' = [status EXCEPT ![first] = IF Exhausted(row) THEN "failed" ELSE "pending"]
          /\ due' = [due EXCEPT ![first] = FALSE]
      BY <2>3, <3>1, <3>2 DEF MarkFailed
    <3>4. first \in Events /\ Held(r, first) /\ status[first] # "none"
      <4>1. /\ batch[r] \in Seq(Row) /\ Len(batch[r]) \in Nat /\ DOMAIN batch[r] = 1 .. Len(batch[r])
            /\ \A i \in DOMAIN batch[r] : batch[r][i].id \in Events
        BY CauseTypes
      <4>2. batch[r] # <<>>
        BY <3>3, TypeParts
      <4>3. row = batch[r][1] /\ 1 \in DOMAIN batch[r]
        BY <3>1, <4>1, <4>2
      <4> QED  BY <3>2, <4>1, <4>3 DEF Held, RelayInv, Grounded
    <3>5. Sent(first) \/ first \in refused
      BY <1>3, <3>3, <3>4, AllThrough DEF Writing
    <3>6. \A e \in Events : e # first => status'[e] = status[e] /\ due'[e] = due[e]
      BY <3>3, TypeParts
    <3> QED  BY <3>4, <3>5, <3>6
  <2> QED  BY <2>1, <2>2, <2>3
<1>6. \A e \in Events : Sent(e)' <=> Sent(e)
  BY <1>1 DEF Sent
<1>7. \A d \in Events : status'[d] # "none" /\ ~Sent(d)' /\ d \notin refused' =>
          status'[d] = "pending" /\ due'[d]
  BY <1>1, <1>3, <1>5, <1>6
<1>8. \A q \in Relays, e \in Events : Unsettled(q, e)' => Sent(e)' \/ e \in refused'
  BY <1>1, <1>3, <1>4, <1>6
<1>9. \A q \in Relays : pc'[q] \notin Writing
  BY <1>3, <1>4
<1>10. OvertakesOnlyForACause'
  <2>1. \A e \in Events : status'[e] # "none" => status[e] # "none"
    BY <1>5
  <2> QED  BY <1>1, <1>3, <2>1, LogKept
<1> QED  BY <1>7, <1>8, <1>9, <1>10 DEF OrderInv

\* A lone relay's claim takes every older row that is due.
LEMMA OrderClaim ==
    ASSUME TypeOK, TypeOK', NEW r \in Relays, OneRelay, OrderInv, ClaimDue(r)
    PROVE  OrderInv'
<1>1. /\ pc'[r] = "claimed" /\ pc[r] = "idle"
      /\ UNCHANGED <<status, attempts, due, log, writer, faults, late, refused>>
  BY TypeParts DEF ClaimDue, Goto, history
<1>2. /\ \A q \in Relays : q = r
      /\ \A d \in Events : status[d] # "none" /\ ~Sent(d) /\ d \notin refused =>
            status[d] = "pending" /\ due[d]
      /\ OvertakesOnlyForACause
  BY DEF OrderInv, OneRelay
<1>3. Lockable(r) = {}
  BY <1>2 DEF Lockable
<1>4. Followed(r)'
  <2> SUFFICES ASSUME NEW i \in DOMAIN batch'[r], NEW d \in Events,
                      d < batch'[r][i].id, status[d] # "none", ~Sent(d), d \notin refused
               PROVE  \E j \in DOMAIN batch'[r] : j < i /\ batch'[r][j].id = d
    BY <1>1 DEF Followed, Sent
  <2>1. d \in Due
    BY <1>2 DEF Due
  <2>2. \A c \in Due \ Lockable(r) : c < batch'[r][i].id =>
          \E j \in DOMAIN batch'[r] : j < i /\ batch'[r][j].id = c
    BY ClaimedInOrder
  <2> QED  BY <1>3, <2>1, <2>2
<1>5. \A e \in Events : ~Unsettled(r, e)'
  <2>1. writer'[r].done = 0
    <3>1. WriterFits(r)
      BY TypeParts
    <3> QED  BY <1>1, <3>1 DEF WriterFits, NoWrites, Writing
  <2>2. Through(r)' = 0
    BY <1>1, <2>1 DEF Through, Writing
  <2>3. batch' \in [Relays -> Seq(Row)]
    BY ClaimedType
  <2>4. Len(batch'[r]) \in Nat /\ DOMAIN batch'[r] = 1 .. Len(batch'[r])
    BY <2>3, LenProperties
  <2>5. \A i \in DOMAIN batch'[r] : ~(i <= 0)
    BY <2>4
  <2> QED  BY <2>2, <2>5 DEF Unsettled
<1>6. OvertakesOnlyForACause'
  BY <1>1, <1>2, LogKept
<1>7. \A d \in Events : Sent(d)' <=> Sent(d)
  BY <1>1 DEF Sent
<1> QED  BY <1>1, <1>2, <1>4, <1>5, <1>6, <1>7 DEF OrderInv

\* A row that appears behind younger ones is a late one.
LEMMA OrderRecord ==
    ASSUME TypeOK, OrderInv, NEW f \in Events, Record(f)
    PROVE  OrderInv'
<1>1. /\ UNCHANGED <<attempts, log, pc, batch, writer, faults, refused>>
      /\ status[f] = "none" /\ status'[f] = "pending" /\ due'[f] = TRUE
      /\ \A e \in Events : e # f => status'[e] = status[e] /\ due'[e] = due[e]
      /\ late \subseteq late'
  BY DEF Record, TypeOK
<1>2. (\E y \in Events : y > f /\ (Sent(y) \/ \E r \in Relays : Held(r, y))) => f \in late'
  BY DEF Record
<1>3. /\ \A e \in Events : Sent(e)' <=> Sent(e)
      /\ \A r \in Relays, e \in Events : Unsettled(r, e)' <=> Unsettled(r, e)
  BY <1>1 DEF Sent, Unsettled, Through
<1>4. \A d \in Events : status'[d] # "none" /\ ~Sent(d)' /\ d \notin refused' =>
          status'[d] = "pending" /\ due'[d]
  BY <1>1, <1>3 DEF OrderInv
<1>5. \A r \in Relays, e \in Events : Unsettled(r, e)' => Sent(e)' \/ e \in refused'
  BY <1>1, <1>3 DEF OrderInv
<1>6. ASSUME NEW r \in Relays, pc'[r] \in Writing PROVE Followed(r)'
  <2> SUFFICES ASSUME NEW i \in DOMAIN batch[r], NEW d \in Events,
                      d < batch[r][i].id, status'[d] # "none"
               PROVE  \/ Sent(d) \/ d \in refused \cup late'
                      \/ \E j \in DOMAIN batch[r] : j < i /\ batch[r][j].id = d
    BY <1>1, <1>3 DEF Followed
  <2>1. CASE d = f
    <3>1. batch[r][i].id \in Events /\ Held(r, batch[r][i].id)
      BY CauseTypes DEF Held
    <3>2. batch[r][i].id > f
      BY <2>1, <3>1
    <3> QED  BY <1>2, <2>1, <3>1, <3>2
  <2>2. CASE d # f
    <3>1. Followed(r) /\ status[d] # "none"
      BY <1>1, <1>6, <2>2 DEF OrderInv
    <3>2. \/ Sent(d) \/ d \in refused \cup late
          \/ \E j \in DOMAIN batch[r] : j < i /\ batch[r][j].id = d
      BY <3>1 DEF Followed
    <3> QED  BY <1>1, <3>2
  <2> QED  BY <2>1, <2>2
<1>7. OvertakesOnlyForACause'
  <2> SUFFICES ASSUME NEW d \in Events, NEW e \in Events, d < e, status'[d] # "none", Before(e, d)'
               PROVE  d \in refused' \cup late'
    BY DEF OvertakesOnlyForACause
  <2>1. Before(e, d)
    BY <1>1 DEF Before
  <2>2. CASE d = f
    <3>1. Sent(e) /\ e > f
      BY <2>1, <2>2 DEF Before, Sent
    <3> QED  BY <1>2, <2>2, <3>1
  <2>3. CASE d # f
    <3>1. d \in refused \cup late
      BY <1>1, <2>1, <2>3 DEF OrderInv, OvertakesOnlyForACause
    <3> QED  BY <1>1, <3>1
  <2> QED  BY <2>2, <2>3
<1> QED  BY <1>4, <1>5, <1>6, <1>7 DEF OrderInv

LEMMA OrderStep ==
    ASSUME OneRelay, TypeOK, TypeOK', RelayInv, OrderInv, [Next]_vars
    PROVE  OrderInv'
<1>1. ASSUME NEW e \in Events, Record(e) PROVE OrderInv'
  BY <1>1, OrderRecord
<1>2. CASE (\E e \in Events : FallDue(e)) \/ UNCHANGED vars
  <2>1. /\ UNCHANGED <<status, attempts, log, pc, batch, writer, faults, late, refused>>
        /\ \A d \in Events : due[d] => due'[d]
    BY <1>2 DEF FallDue, vars, history, TypeOK
  <2>2. /\ \A e \in Events : Sent(e)' <=> Sent(e)
        /\ \A r \in Relays, e \in Events : Unsettled(r, e)' <=> Unsettled(r, e)
        /\ \A r \in Relays : Followed(r) => Followed(r)'
    BY <2>1 DEF Sent, Unsettled, Through, Followed
  <2>3. OvertakesOnlyForACause'
    BY <2>1, LogKept DEF OrderInv
  <2> QED  BY <2>1, <2>2, <2>3 DEF OrderInv
<1>3. ASSUME NEW r \in Relays, Drain(r) \/ PublishAgain(r) \/ Crash(r) PROVE OrderInv'
  <2>1. CASE ClaimDue(r)
    BY <2>1, OrderClaim
  <2>2. CASE Publish(r) \/ PublishFails(r) \/ PublishAgain(r)
    <3>1. PICK n \in Nat \ {0}, t \in Seq(Events) : Piece(r, n, t) /\ Written(r, n, t)
      BY <2>2, WriteIs
    <3> QED  BY <3>1, OrderWrite
  <2>3. CASE \/ MarkPublished(r) \/ MarkPublishedFails(r) \/ MarkFailed(r)
             \/ MarkFailedFails(r) \/ Crash(r)
    BY <2>3, OrderMark
  <2> QED  BY <1>3, <2>1, <2>2, <2>3 DEF Drain
<1> QED  BY <1>1, <1>2, <1>3 DEF Next

LEMMA OrderStart == Init => OrderInv
<1> SUFFICES ASSUME Init PROVE OrderInv
  OBVIOUS
<1>1. /\ DOMAIN log = {} /\ \A r \in Relays : pc[r] = "idle" /\ DOMAIN batch[r] = {}
      /\ \A d \in Events : status[d] = "none"
  BY DEF Init
<1>2. OvertakesOnlyForACause
  BY <1>1 DEF OvertakesOnlyForACause
<1> QED  BY <1>1, <1>2 DEF OrderInv, Unsettled, Writing

\* From a lone relay an event overtakes an older one of its aggregate only where the
\* writer gave the older one up or its row appeared late, for any batch size, however the
\* writer splits a batch and whichever parts of it fail (ClaimDue, Publish).
THEOREM LoneRelayOrder ==
    ASSUME OneRelay
    PROVE  Spec => []OvertakesOnlyForACause
<1>1. Init => TypeOK /\ RelayInv /\ OrderInv
  BY InitInv, OrderStart
<1>2. TypeOK /\ RelayInv /\ OrderInv /\ [Next]_vars => TypeOK' /\ RelayInv' /\ OrderInv'
  BY StepInv, OrderStep
<1>3. OrderInv => OvertakesOnlyForACause
  BY DEF OrderInv
<1> QED  BY <1>1, <1>2, <1>3, PTL DEF Spec

----------------------------------------------------------------------------
(* The consumer at the other end, for any number of relays. *)

HandledOf(h, l, e) == {j \in DOMAIN h : l[h[j]] = e}

UpTo(l, e, n) == {i \in DOMAIN l : l[i] = e /\ i <= n}

\* The message fetched last, on its way to the commit, counts as if committed.
Owed(l, e) == IF at = "commit" /\ l[offset] = e THEN 1 ELSE 0

\* What lies beyond the committed position was not handled, but for the message that is
\* about to be committed: a restart repeats one handled message at the most.
ConsumerInv ==
    /\ committed \in Nat /\ offset \in Nat /\ stumbles \in Nat
    /\ committed <= offset /\ offset <= Len(log)
    /\ at # "fetch" => committed < offset
    /\ handled \in Seq(Nat)
    /\ \A j \in DOMAIN handled : 1 <= handled[j] /\ handled[j] <= Len(log)
    /\ \A e \in Events :
          Cardinality(HandledOf(handled, log, e))
              <= Cardinality(UpTo(log, e, committed)) + Owed(log, e) + stumbles

LEMMA OneMore ==
    ASSUME NEW T, IsFiniteSet(T), NEW S \in SUBSET T, NEW x \in T, x \notin S
    PROVE  Cardinality(S) + 1 <= Cardinality(T) /\ Cardinality(S) \in Nat
<1>1. IsFiniteSet(S) /\ S \cup {x} \in SUBSET T
  BY FS_Subset
<1>2. Cardinality(S \cup {x}) = Cardinality(S) + 1
  BY <1>1, FS_AddElement
<1>3. Cardinality(S \cup {x}) <= Cardinality(T)
  BY <1>1, FS_Subset
<1>4. Cardinality(S) \in Nat
  BY <1>1, FS_CardinalityType
<1> QED  BY <1>2, <1>3, <1>4

LEMMA UpToIs ==
    ASSUME NEW l \in Seq(Events), NEW e, NEW n \in Nat
    PROVE  /\ IsFiniteSet(UpTo(l, e, n)) /\ Cardinality(UpTo(l, e, n)) \in Nat
           /\ Cardinality(UpTo(l, e, n)) <= Count(l, e)
           /\ \A m \in Nat : n <= m => Cardinality(UpTo(l, e, n)) <= Cardinality(UpTo(l, e, m))
           /\ \A m \in Nat : n < m /\ m <= Len(l) /\ l[m] = e =>
                Cardinality(UpTo(l, e, n)) + 1 <= Cardinality(UpTo(l, e, m))
<1> DEFINE all == {i \in DOMAIN l : l[i] = e}
<1>1. IsFiniteSet(all) /\ Len(l) \in Nat /\ DOMAIN l = 1 .. Len(l)
  BY CountIs, LenProperties
<1>2. \A m \in Nat : UpTo(l, e, m) \in SUBSET all
  BY DEF UpTo
<1> HIDE DEF all
<1>3. \A m \in Nat : /\ IsFiniteSet(UpTo(l, e, m)) /\ Cardinality(UpTo(l, e, m)) \in Nat
                     /\ Cardinality(UpTo(l, e, m)) <= Cardinality(all)
  BY <1>1, <1>2, FS_Subset, FS_CardinalityType
<1>4. ASSUME NEW m \in Nat, n <= m
      PROVE  UpTo(l, e, n) \in SUBSET UpTo(l, e, m)
  BY <1>1, <1>4 DEF UpTo
<1>5. \A m \in Nat : n <= m => Cardinality(UpTo(l, e, n)) <= Cardinality(UpTo(l, e, m))
  BY <1>3, <1>4, FS_Subset
<1>6. ASSUME NEW m \in Nat, n < m, m <= Len(l), l[m] = e
      PROVE  Cardinality(UpTo(l, e, n)) + 1 <= Cardinality(UpTo(l, e, m))
  <2>1. m \in UpTo(l, e, m) /\ m \notin UpTo(l, e, n)
    BY <1>1, <1>6 DEF UpTo
  <2>2. UpTo(l, e, n) \in SUBSET UpTo(l, e, m)
    BY <1>4, <1>6
  <2> QED  BY <1>3, <2>1, <2>2, OneMore
<1>7. Cardinality(UpTo(l, e, n)) <= Count(l, e)
  BY <1>3 DEF Count, all
<1> QED  BY <1>3, <1>5, <1>6, <1>7

LEMMA HandledIs ==
    ASSUME NEW h \in Seq(Nat), NEW l, NEW e
    PROVE  IsFiniteSet(HandledOf(h, l, e)) /\ Cardinality(HandledOf(h, l, e)) \in Nat
<1>1. Len(h) \in Nat /\ DOMAIN h = 1 .. Len(h)
  BY LenProperties
<1>2. IsFiniteSet(1 .. Len(h)) /\ HandledOf(h, l, e) \in SUBSET (1 .. Len(h))
  BY <1>1, FS_Interval DEF HandledOf
<1> QED  BY <1>2, FS_Subset, FS_CardinalityType

LEMMA HandledGrows ==
    ASSUME NEW h \in Seq(Nat), NEW l, NEW e, NEW n \in Nat
    PROVE  /\ l[n] # e => HandledOf(Append(h, n), l, e) = HandledOf(h, l, e)
           /\ Cardinality(HandledOf(Append(h, n), l, e)) <= Cardinality(HandledOf(h, l, e)) + 1
<1>1. /\ Len(h) \in Nat /\ DOMAIN h = 1 .. Len(h)
      /\ DOMAIN Append(h, n) = 1 .. (Len(h) + 1)
      /\ Append(h, n)[Len(h) + 1] = n
      /\ \A j \in 1 .. Len(h) : Append(h, n)[j] = h[j]
  BY AppendProperties
<1>2. \A j : j \in HandledOf(Append(h, n), l, e) <=>
               j \in HandledOf(h, l, e) \/ (j = Len(h) + 1 /\ l[n] = e)
  <2>1. \A j : j \in 1 .. (Len(h) + 1) <=> j \in 1 .. Len(h) \/ j = Len(h) + 1
    BY <1>1
  <2>2. Len(h) + 1 \notin 1 .. Len(h)
    BY <1>1
  <2> QED  BY <1>1, <2>1, <2>2 DEF HandledOf
<1>3. l[n] # e => HandledOf(Append(h, n), l, e) = HandledOf(h, l, e)
  BY <1>2
<1>4. HandledOf(Append(h, n), l, e) \in SUBSET (HandledOf(h, l, e) \cup {Len(h) + 1})
  BY <1>2
<1>5. PICK S : S = HandledOf(h, l, e)
  OBVIOUS
<1>6. IsFiniteSet(S) /\ Cardinality(S) \in Nat
  BY <1>5, HandledIs
<1>7. /\ IsFiniteSet(S \cup {Len(h) + 1})
      /\ Cardinality(S \cup {Len(h) + 1}) =
           IF Len(h) + 1 \in S THEN Cardinality(S) ELSE Cardinality(S) + 1
  BY <1>6, FS_AddElement
<1>8. Cardinality(S \cup {Len(h) + 1}) <= Cardinality(S) + 1
      /\ Cardinality(S \cup {Len(h) + 1}) \in Nat
  BY <1>6, <1>7
<1>9. PICK T : T = HandledOf(Append(h, n), l, e)
  OBVIOUS
<1>10. IsFiniteSet(T) /\ Cardinality(T) <= Cardinality(S \cup {Len(h) + 1})
  BY <1>4, <1>5, <1>7, <1>9, FS_Subset
<1>11. Cardinality(T) \in Nat
  BY <1>10, FS_CardinalityType
<1>12. Cardinality(T) <= Cardinality(S) + 1
  BY <1>6, <1>8, <1>10, <1>11
<1> QED  BY <1>3, <1>5, <1>9, <1>12

\* The relays only ever append to the partition.
LEMMA LogExtends ==
    ASSUME TypeOK, [Next]_vars
    PROVE  /\ log' \in Seq(Events) /\ Len(log) <= Len(log')
           /\ \A i \in 1 .. Len(log) : log'[i] = log[i]
<1>1. log \in Seq(Events) /\ Len(log) \in Nat
  BY DEF TypeOK
<1>2. CASE UNCHANGED log
  BY <1>1, <1>2
<1>3. ASSUME NEW t \in Seq(Events), log' = log \o t
      PROVE  /\ log' \in Seq(Events) /\ Len(log) <= Len(log')
             /\ \A i \in 1 .. Len(log) : log'[i] = log[i]
  <2>1. PICK l : l = log
    OBVIOUS
  <2>2. l \in Seq(Events) /\ log' = l \o t
    BY <1>1, <1>3, <2>1
  <2>3. /\ l \o t \in Seq(Events) /\ Len(l \o t) = Len(l) + Len(t) /\ Len(t) \in Nat
        /\ \A i \in 1 .. Len(l) : (l \o t)[i] = l[i]
    BY <2>2
  <2>4. Len(l) <= Len(l) + Len(t)
    BY <1>1, <2>1, <2>3
  <2> QED  BY <2>1, <2>2, <2>3, <2>4
<1>4. ASSUME NEW r \in Relays, Publish(r) \/ PublishFails(r) \/ PublishAgain(r)
      PROVE  UNCHANGED log \/ \E t \in Seq(Events) : log' = log \o t
  <2>1. PICK n \in Nat \ {0}, t \in Seq(Events) : Piece(r, n, t) /\ Written(r, n, t)
    BY <1>4, WriteIs
  <2> QED  BY <2>1 DEF Written, Accepted, Refused
<1>5. \/ UNCHANGED log
      \/ \E r \in Relays : Publish(r) \/ PublishFails(r) \/ PublishAgain(r)
  BY DEF Next, Drain, Record, FallDue, ClaimDue, MarkPublished, MarkPublishedFails,
         MarkFailed, MarkFailedFails, Crash, vars
<1> QED  BY <1>2, <1>3, <1>4, <1>5

\* A longer partition leaves the consumer's account as it is.
LEMMA RelaysLeaveConsumer ==
    ASSUME TypeOK, ConsumerInv, [Next]_vars, UNCHANGED consumerVars
    PROVE  ConsumerInv'
<1>1. /\ log \in Seq(Events) /\ Len(log) \in Nat /\ DOMAIN log = 1 .. Len(log)
      /\ log' \in Seq(Events) /\ Len(log) <= Len(log')
      /\ Len(log') \in Nat /\ DOMAIN log' = 1 .. Len(log')
      /\ \A i \in 1 .. Len(log) : log'[i] = log[i]
  <2>1. log \in Seq(Events) /\ Len(log) \in Nat /\ DOMAIN log = 1 .. Len(log)
    BY DEF TypeOK
  <2>2. log' \in Seq(Events)
    BY LogExtends
  <2>3. Len(log') \in Nat /\ DOMAIN log' = 1 .. Len(log')
    BY <2>2, LenProperties
  <2>4. Len(log) <= Len(log')
    BY LogExtends
  <2>5. \A i \in 1 .. Len(log) : log'[i] = log[i]
    BY LogExtends
  <2> QED  BY <2>1, <2>2, <2>3, <2>4, <2>5
<1>2. UNCHANGED <<offset, committed, at, try, handled, abandoned, cancelled, stumbles>>
  BY DEF consumerVars
<1>3. /\ committed \in Nat /\ offset \in Nat /\ stumbles \in Nat
      /\ committed <= offset /\ offset <= Len(log)
      /\ at # "fetch" => committed < offset
      /\ handled \in Seq(Nat)
      /\ \A j \in DOMAIN handled : 1 <= handled[j] /\ handled[j] <= Len(log)
  BY DEF ConsumerInv
<1>4. \A j \in DOMAIN handled : handled[j] \in 1 .. Len(log)
  <2>1. \A j \in DOMAIN handled : handled[j] \in Nat
    BY <1>3, LenProperties, ElementOfSeq
  <2> QED  BY <1>1, <1>3, <2>1
<1>5. ASSUME NEW e \in Events
      PROVE  Cardinality(HandledOf(handled, log', e))
                 <= Cardinality(UpTo(log', e, committed)) + Owed(log, e)' + stumbles
  <2>1. HandledOf(handled, log', e) = HandledOf(handled, log, e)
    BY <1>1, <1>4 DEF HandledOf
  <2>2. UpTo(log', e, committed) = UpTo(log, e, committed)
    BY <1>1, <1>3, SMTT(40) DEF UpTo
  <2>3. Owed(log, e)' = Owed(log, e)
    <3>1. at = "commit" => offset \in 1 .. Len(log)
      BY <1>1, <1>3
    <3>2. at = "commit" => log'[offset] = log[offset]
      BY <1>1, <3>1
    <3> QED  BY <1>2, <3>2 DEF Owed
  <2>4. Cardinality(HandledOf(handled, log, e))
            <= Cardinality(UpTo(log, e, committed)) + Owed(log, e) + stumbles
    BY DEF ConsumerInv
  <2> QED  BY <2>1, <2>2, <2>3, <2>4
<1>6. /\ offset <= Len(log') /\ \A j \in DOMAIN handled : handled[j] <= Len(log')
  <2>1. \A j \in DOMAIN handled : handled[j] \in Nat
    BY <1>3, LenProperties, ElementOfSeq
  <2> QED  BY <1>1, <1>3, <2>1
<1> QED  BY <1>2, <1>3, <1>5, <1>6 DEF ConsumerInv

LEMMA ConsumerStep ==
    ASSUME TypeOK, ConsumerInv, Consume \/ HandleCancelled \/ Restart, UNCHANGED vars
    PROVE  ConsumerInv'
<1>1. /\ log \in Seq(Events) /\ Len(log) \in Nat /\ log' = log
  BY DEF TypeOK, vars
<1>2. /\ committed \in Nat /\ offset \in Nat /\ stumbles \in Nat
      /\ committed <= offset /\ offset <= Len(log)
      /\ at # "fetch" => committed < offset
      /\ handled \in Seq(Nat)
      /\ \A j \in DOMAIN handled : 1 <= handled[j] /\ handled[j] <= Len(log)
  BY DEF ConsumerInv
<1>3. ASSUME NEW e \in Events
      PROVE  /\ Cardinality(HandledOf(handled, log, e)) \in Nat
             /\ Cardinality(UpTo(log, e, committed)) \in Nat
             /\ Owed(log, e) \in {0, 1} /\ (at # "commit" => Owed(log, e) = 0)
             /\ Cardinality(HandledOf(handled, log, e))
                    <= Cardinality(UpTo(log, e, committed)) + Owed(log, e) + stumbles
  BY <1>1, <1>2, HandledIs, UpToIs DEF ConsumerInv, Owed
<1>4. CASE Handle
  <2>1. /\ at = "handle" /\ handled' = Append(handled, offset) /\ at' = "commit"
        /\ UNCHANGED <<offset, committed, stumbles>> /\ 1 <= offset
    BY <1>2, <1>4 DEF Handle
  <2>2. /\ handled' \in Seq(Nat)
        /\ \A j \in DOMAIN handled' : 1 <= handled'[j] /\ handled'[j] <= Len(log)
    BY <1>2, <2>1, AppendProperties
  <2>3. ASSUME NEW e \in Events
        PROVE  Cardinality(HandledOf(handled', log, e))
                   <= Cardinality(UpTo(log, e, committed)) + Owed(log, e)' + stumbles
    <3>1. Owed(log, e)' = IF log[offset] = e THEN 1 ELSE 0
      BY <1>1, <2>1 DEF Owed
    <3>2. /\ log[offset] # e => HandledOf(handled', log, e) = HandledOf(handled, log, e)
          /\ Cardinality(HandledOf(handled', log, e))
                 <= Cardinality(HandledOf(handled, log, e)) + 1
      BY <1>2, <2>1, HandledGrows
    <3>3. Cardinality(HandledOf(handled', log, e)) \in Nat
      BY <2>2, HandledIs
    <3>4. Owed(log, e) = 0
      BY <1>3, <2>1
    <3>5. CASE log[offset] = e
      BY <1>2, <1>3, <3>1, <3>2, <3>3, <3>4, <3>5
    <3>6. CASE log[offset] # e
      BY <1>2, <1>3, <3>1, <3>2, <3>4, <3>6
    <3> QED  BY <3>5, <3>6
  <2> QED  BY <1>1, <1>2, <2>1, <2>2, <2>3 DEF ConsumerInv
<1>5. CASE CommitMessages
  <2>1. at = "commit" /\ committed' = offset /\ at' = "fetch"
        /\ UNCHANGED <<offset, handled, stumbles>>
    BY <1>5 DEF CommitMessages
  <2>2. ASSUME NEW e \in Events
        PROVE  Cardinality(HandledOf(handled, log, e))
                   <= Cardinality(UpTo(log, e, offset)) + 0 + stumbles
    <3>1. /\ Cardinality(UpTo(log, e, committed)) <= Cardinality(UpTo(log, e, offset))
          /\ log[offset] = e =>
                Cardinality(UpTo(log, e, committed)) + 1 <= Cardinality(UpTo(log, e, offset))
      BY <1>1, <1>2, <2>1, UpToIs
    <3>2. Cardinality(UpTo(log, e, offset)) \in Nat
      BY <1>1, <1>2, UpToIs
    <3>3. Owed(log, e) = IF log[offset] = e THEN 1 ELSE 0
      BY <2>1 DEF Owed
    <3>4. Cardinality(UpTo(log, e, committed)) + Owed(log, e) <= Cardinality(UpTo(log, e, offset))
      BY <1>3, <3>1, <3>2, <3>3
    <3> QED  BY <1>2, <1>3, <3>2, <3>4
  <2>3. \A e \in Events : Owed(log, e)' = 0
    BY <2>1 DEF Owed
  <2> QED  BY <1>1, <1>2, <2>1, <2>2, <2>3 DEF ConsumerInv
<1>6. CASE FetchMessage \/ HandleFails
  <2>1. /\ at # "commit" /\ UNCHANGED <<committed, handled, stumbles>>
        /\ offset' \in Nat /\ offset <= offset' /\ offset' <= Len(log)
        /\ committed <= offset' /\ (at' # "fetch" => committed < offset')
    <3>1. CASE FetchMessage
      BY <1>1, <1>2, <3>1 DEF FetchMessage
    <3>2. CASE HandleFails
      BY <1>2, <3>2 DEF HandleFails
    <3> QED  BY <1>6, <3>1, <3>2
  <2>2. ASSUME NEW e \in Events
        PROVE  Cardinality(HandledOf(handled, log, e))
                   <= Cardinality(UpTo(log, e, committed)) + Owed(log, e)' + stumbles
    <3>1. Owed(log, e)' \in {0, 1} /\ Owed(log, e) = 0
      BY <1>3, <2>1 DEF Owed
    <3> QED  BY <1>2, <1>3, <3>1
  <2> QED  BY <1>1, <1>2, <2>1, <2>2 DEF ConsumerInv
<1>7. CASE HandleCancelled \/ Restart
  <2>1. /\ stumbles' = stumbles + 1 /\ at' = "fetch" /\ UNCHANGED <<committed, handled>>
        /\ offset' \in Nat /\ committed <= offset' /\ offset' <= Len(log)
    BY <1>1, <1>2, <1>7 DEF HandleCancelled, Restart, Stumble
  <2>2. ASSUME NEW e \in Events
        PROVE  Cardinality(HandledOf(handled, log, e))
                   <= Cardinality(UpTo(log, e, committed)) + 0 + (stumbles + 1)
    BY <1>2, <1>3
  <2>3. \A e \in Events : Owed(log, e)' = 0
    BY <2>1 DEF Owed
  <2> QED  BY <1>1, <1>2, <2>1, <2>2, <2>3 DEF ConsumerInv
<1> QED  BY <1>4, <1>5, <1>6, <1>7 DEF Consume

LEMMA ConsumerStart == SpineInit => TypeOK /\ RelayInv /\ ConsumerInv
<1> SUFFICES ASSUME SpineInit PROVE TypeOK /\ RelayInv /\ ConsumerInv
  OBVIOUS
<1>1. TypeOK /\ RelayInv
  BY InitInv DEF SpineInit
<1>2. /\ log = <<>> /\ handled = <<>> /\ offset = 0 /\ committed = 0 /\ stumbles = 0
      /\ at = "fetch"
  BY DEF SpineInit, Init, ConsumerInit
<1>3. Len(log) = 0 /\ handled \in Seq(Nat) /\ DOMAIN handled = {}
  BY <1>2
<1>4. \A e \in Events : HandledOf(handled, log, e) = {} /\ UpTo(log, e, committed) = {}
  BY <1>2 DEF HandledOf, UpTo
<1>5. \A e \in Events : Owed(log, e) = 0
  BY <1>2 DEF Owed
<1>6. \A e \in Events : Cardinality(HandledOf(handled, log, e)) = 0
                        /\ Cardinality(UpTo(log, e, committed)) = 0
  BY <1>4, FS_EmptySet
<1> QED  BY <1>1, <1>2, <1>3, <1>5, <1>6 DEF ConsumerInv

\* The relays do with a consumer what they do alone: every theorem above holds of the
\* spine too (Consumer.Run touches nothing of the outbox).
THEOREM SpineHasRelays == SpineSpec => Spec
<1>1. SpineInit => Init
  BY DEF SpineInit
<1>2. [SpineNext]_spineVars => [Next]_vars
  BY DEF SpineNext, spineVars
<1>3. SpineSpec => SpineInit /\ [][SpineNext]_spineVars
  BY PTL DEF SpineSpec
<1> QED  BY <1>1, <1>2, <1>3, PTL DEF Spec

\* However many relays resend, and wherever the consumer stops and starts, the handler
\* succeeds on an event no more often than it was sent plus once for each restart or
\* cancelled handler (Consumer.Run commits after each message it settled).
THEOREM RedeliveryHasACause == SpineSpec => []HandledAgainOnlyByCause
<1>1. TypeOK /\ RelayInv /\ ConsumerInv /\ [SpineNext]_spineVars
        => TypeOK' /\ RelayInv' /\ ConsumerInv'
  <2> SUFFICES ASSUME TypeOK, RelayInv, ConsumerInv, [SpineNext]_spineVars
               PROVE  TypeOK' /\ RelayInv' /\ ConsumerInv'
    OBVIOUS
  <2>1. [Next]_vars
    BY DEF SpineNext, spineVars
  <2>2. TypeOK' /\ RelayInv'
    BY <2>1, StepInv
  <2>3. CASE UNCHANGED consumerVars
    BY <2>1, <2>2, <2>3, RelaysLeaveConsumer
  <2>4. CASE (Consume \/ HandleCancelled \/ Restart) /\ UNCHANGED vars
    BY <2>2, <2>4, ConsumerStep
  <2> QED  BY <2>3, <2>4 DEF SpineNext, spineVars
<1>2. TypeOK /\ ConsumerInv => HandledAgainOnlyByCause
  <2> SUFFICES ASSUME TypeOK, ConsumerInv, NEW e \in Events
               PROVE  Cardinality(HandledOf(handled, log, e)) <= Count(log, e) + stumbles
    BY DEF HandledAgainOnlyByCause, HandledOf, Times, Count
  <2>1. /\ log \in Seq(Events) /\ committed \in Nat /\ offset \in Nat /\ stumbles \in Nat
        /\ handled \in Seq(Nat) /\ offset <= Len(log) /\ (at = "commit" => committed < offset)
        /\ Cardinality(HandledOf(handled, log, e))
               <= Cardinality(UpTo(log, e, committed)) + Owed(log, e) + stumbles
    BY DEF TypeOK, ConsumerInv
  <2>2. /\ Cardinality(HandledOf(handled, log, e)) \in Nat
        /\ Cardinality(UpTo(log, e, committed)) \in Nat /\ Count(log, e) \in Nat
        /\ Cardinality(UpTo(log, e, committed)) <= Count(log, e)
    BY <2>1, HandledIs, UpToIs, CountIs
  <2>3. Cardinality(UpTo(log, e, committed)) + Owed(log, e) <= Count(log, e)
    <3>1. CASE at = "commit" /\ log[offset] = e
      <4>1. Cardinality(UpTo(log, e, committed)) + 1 <= Cardinality(UpTo(log, e, offset))
        BY <2>1, <3>1, UpToIs
      <4>2. Cardinality(UpTo(log, e, offset)) <= Count(log, e)
            /\ Cardinality(UpTo(log, e, offset)) \in Nat
        BY <2>1, UpToIs
      <4> QED  BY <2>2, <3>1, <4>1, <4>2 DEF Owed
    <3>2. CASE ~(at = "commit" /\ log[offset] = e)
      BY <2>2, <3>2 DEF Owed
    <3> QED  BY <3>1, <3>2
  <2>4. Owed(log, e) \in Nat
    BY DEF Owed
  <2> QED  BY <2>1, <2>2, <2>3, <2>4
<1>3. SpineSpec => SpineInit /\ [][SpineNext]_spineVars
  BY PTL DEF SpineSpec
<1> QED  BY <1>1, <1>2, <1>3, ConsumerStart, PTL
=============================================================================
