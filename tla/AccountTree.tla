---------------------------- MODULE AccountTree ----------------------------
(***************************************************************************)
(* Accounts as reset trees with hash-chained ledgers: Open, Reset and      *)
(* VerifyLedger as concurrent requests over READ COMMITTED transactions.   *)
(* What a transaction wrote is invisible until it commits; a unique key it *)
(* has inserted or a row it has updated makes others wait until it ends.   *)
(***************************************************************************)
EXTENDS Integers, Sequences, FiniteSets

CONSTANTS
    Requests,   \* requests in flight
    Accounts,   \* account ids (bound: as many accounts as this set has)
    Names,      \* the names clients choose
    NoAccount,  \* no parent
    NoHash      \* root_hash is NULL

ASSUME TreeAssumption == NoAccount \notin Accounts

VARIABLES
    accounts,   \* committed rows, by id; Absent where there is none
    ledger,     \* committed entries of each account, in sequence order
    outbox,     \* committed account.opened and account.reset events
    pc,         \* where each request is
    subject,    \* the account it works on
    seen,       \* the row it loaded
    entry,      \* the seal entry it inserted and has not committed
    name        \* the name it wants

vars == <<accounts, ledger, outbox, pc, subject, seen, entry, name>>

Absent == [status |-> "absent", root |-> NoAccount, parent |-> NoAccount, index |-> 0,
           hash |-> NoHash, version |-> 0, name |-> NoAccount]
NoEntry == [seq |-> 0, kind |-> "none", by |-> NoAccount, amount |-> "plain", hash |-> <<>>]

Exists(a) == accounts[a].status # "absent"

Init ==
    /\ accounts = [a \in Accounts |-> Absent]
    /\ ledger = [a \in Accounts |-> <<>>]
    /\ outbox = {}
    /\ pc = [p \in Requests |-> "idle"]
    /\ subject = [p \in Requests |-> NoAccount]
    /\ seen = [p \in Requests |-> Absent]
    /\ entry = [p \in Requests |-> NoEntry]
    /\ name = [p \in Requests |-> NoAccount]

Goto(p, label) == pc' = [pc EXCEPT ![p] = label]

\* The request has answered; what it had in hand goes with it.
Done(p) ==
    /\ subject' = [subject EXCEPT ![p] = NoAccount]
    /\ seen' = [seen EXCEPT ![p] = Absent]
    /\ entry' = [entry EXCEPT ![p] = NoEntry]
    /\ name' = [name EXCEPT ![p] = NoAccount]
    /\ Goto(p, "idle")

\* GetTree and ListTrees: one statement lists the rows of a root as they are committed.
Tree(r) == {a \in Accounts : Exists(a) /\ accounts[a].root = r}

----------------------------------------------------------------------------
(* The ledger. *)

\* What the columns, NUMERIC(20,8), tell apart: a balance they hold as it is, and a
\* finer one, which they round.
Amounts == {"plain", "fine"}
Rounded(amount) == "plain"

\* SHA-256 over the fields and the previous hash, taken to be injective: a hash
\* is the list of everything it covers.  `by' stands for the entry's payload and
\* timestamp, which differ from request to request.
Covered(a, e) == <<a, e.seq, e.kind, e.by, e.amount>>
hashEntry(a, e, previous) == Append(previous, Covered(a, e))

LastHash(entries) == IF entries = <<>> THEN <<>> ELSE entries[Len(entries)].hash

\* The entry as the columns hold it, hashed before it got there.
Stored(a, e, previous) ==
    [e EXCEPT !.hash = hashEntry(a, e, previous), !.amount = Rounded(e.amount)]

Entry(entries, kind, p, amount) ==
    [seq |-> Len(entries) + 1, kind |-> kind, by |-> p, amount |-> amount, hash |-> <<>>]

\* (Variant: the entry is hashed before it is linked to the last one.)
NextEntryUnlinked(a, entries, kind, p, amount) ==
    Stored(a, Entry(entries, kind, p, amount), <<>>)

\* appendLedger: the entry that follows what Last returned.
NextEntry(a, entries, kind, p, amount) ==
    Stored(a, Entry(entries, kind, p, amount), LastHash(entries))

\* VerifyLedger, given the row's root hash and the entries it read.
Verifies(a, entries, stored) ==
    /\ \A i \in 1 .. Len(entries) :
          entries[i].hash = hashEntry(a, entries[i],
                                IF i = 1 THEN <<>> ELSE entries[i - 1].hash)
    /\ stored # NoHash => stored = LastHash(entries)

----------------------------------------------------------------------------
(* Open: the name is checked first; the transaction only inserts new rows,   *)
(* which conflict with nothing, so it is one step.                           *)

OpenCheck(p, n) ==
    /\ pc[p] = "idle"
    /\ \A a \in Accounts : Exists(a) => accounts[a].name # n
    /\ name' = [name EXCEPT ![p] = n]
    /\ Goto(p, "open")
    /\ UNCHANGED <<accounts, ledger, outbox, subject, seen, entry>>

Root(a, n) == [status |-> "active", root |-> a, parent |-> NoAccount, index |-> 1,
               hash |-> NoHash, version |-> 1, name |-> n]

Open(p) ==
    /\ pc[p] = "open"
    /\ \E a \in Accounts, amount \in Amounts :
        /\ ~Exists(a)
        /\ accounts' = [accounts EXCEPT ![a] = Root(a, name[p])]
        /\ ledger' = [ledger EXCEPT ![a] = <<NextEntry(a, <<>>, "open", p, amount)>>]
        /\ outbox' = outbox \cup {<<"opened", a>>}
    /\ Done(p)

----------------------------------------------------------------------------
(* Reset. *)

\* load, before the transaction; a sealed iteration is refused.
ResetLoad(p, a, n) ==
    /\ pc[p] = "idle"
    /\ accounts[a].status = "active"
    /\ subject' = [subject EXCEPT ![p] = a]
    /\ seen' = [seen EXCEPT ![p] = accounts[a]]
    /\ name' = [name EXCEPT ![p] = n]
    /\ Goto(p, "begin")
    /\ UNCHANGED <<accounts, ledger, outbox, entry>>

\* Ledger.Last, inside the transaction.  The balances sealed are those of the row.
ResetLast(p) ==
    /\ pc[p] = "begin"
    /\ entry' = [entry EXCEPT ![p] = NextEntry(subject[p], ledger[subject[p]], "seal", p,
                                                "plain")]
    /\ Goto(p, "append")
    /\ UNCHANGED <<accounts, ledger, outbox, subject, seen, name>>

\* Some other open transaction has inserted the same (account_id, sequence).
KeyHeld(p) ==
    \E q \in Requests \ {p} :
        /\ pc[q] \in {"seal", "create"}
        /\ subject[q] = subject[p]
        /\ entry[q].seq = entry[p].seq

\* Some other open transaction has updated the same accounts row.
RowHeld(p) ==
    \E q \in Requests \ {p} : pc[q] = "create" /\ subject[q] = subject[p]

Rollback(p) == Done(p) /\ UNCHANGED <<accounts, ledger, outbox>>

\* (Variant: the insert does not go through the transaction's handle.)
ResetAppendUnscoped(p) ==
    /\ pc[p] = "append"
    /\ entry[p].seq > Len(ledger[subject[p]])
    /\ ledger' = [ledger EXCEPT ![subject[p]] = Append(@, entry[p])]
    /\ Goto(p, "seal")
    /\ UNCHANGED <<accounts, outbox, subject, seen, entry, name>>

\* Ledger.Append: the unique key makes a second seal wait, then fail.
ResetAppend(p) ==
    /\ pc[p] = "append"
    /\ ~KeyHeld(p)
    /\ IF entry[p].seq <= Len(ledger[subject[p]])
       THEN Rollback(p)
       ELSE /\ Goto(p, "seal")
            /\ UNCHANGED <<accounts, ledger, outbox, subject, seen, entry, name>>

Sealed(e, hash) == [e EXCEPT !.status = "reset", !.hash = hash, !.version = @ + 1]

\* (Variant: the seal does not go through the transaction's handle.)
ResetSealUnscoped(p) ==
    /\ pc[p] = "seal"
    /\ IF accounts[subject[p]].version # seen[p].version
       THEN Rollback(p)
       ELSE /\ accounts' = [accounts EXCEPT ![subject[p]] = Sealed(@, entry[p].hash)]
            /\ Goto(p, "create")
            /\ UNCHANGED <<ledger, outbox, subject, seen, entry, name>>

\* Repo.Seal: waits for the row, then CONCURRENT_MODIFICATION unless it is the
\* version that was loaded and still active.
ResetSeal(p) ==
    /\ pc[p] = "seal"
    /\ ~RowHeld(p)
    /\ IF \/ accounts[subject[p]].version # seen[p].version
          \/ accounts[subject[p]].status # "active"
       THEN Rollback(p)
       ELSE /\ Goto(p, "create")
            /\ UNCHANGED <<accounts, ledger, outbox, subject, seen, entry, name>>

Child(p) ==
    [status |-> "active", root |-> seen[p].root, parent |-> subject[p],
     index |-> seen[p].index + 1, hash |-> NoHash, version |-> 1, name |-> name[p]]

\* accounts_tree_iteration_key.
Taken(child) ==
    \E a \in Accounts : /\ Exists(a)
                        /\ accounts[a].root = child.root
                        /\ accounts[a].index = child.index

\* (Variant: the event is left to be written after the commit.)
ResetCommitSilent(p) ==
    /\ pc[p] = "create"
    /\ IF Taken(Child(p))
       THEN Rollback(p)
       ELSE \E c \in Accounts, amount \in Amounts :
            /\ ~Exists(c)
            /\ accounts' = [accounts EXCEPT ![subject[p]] = Sealed(@, entry[p].hash),
                                            ![c] = Child(p)]
            /\ ledger' = [ledger EXCEPT ![subject[p]] = Append(@, entry[p]),
                                        ![c] = <<NextEntry(c, <<>>, "open", p, amount)>>]
            /\ UNCHANGED outbox
            /\ Done(p)

\* The child, with its parent's initial balance or another, its opening entry and the
\* event, and the commit of it all.
ResetCommit(p) ==
    /\ pc[p] = "create"
    /\ IF Taken(Child(p))
       THEN Rollback(p)
       ELSE \E c \in Accounts, amount \in Amounts :
            /\ ~Exists(c)
            /\ accounts' = [accounts EXCEPT ![subject[p]] = Sealed(@, entry[p].hash),
                                            ![c] = Child(p)]
            /\ ledger' = [ledger EXCEPT ![subject[p]] = Append(@, entry[p]),
                                        ![c] = <<NextEntry(c, <<>>, "open", p, amount)>>]
            /\ outbox' = outbox \cup {<<"reset", c>>}
            /\ Done(p)

\* An error, a cancelled request or a crash rolls an open transaction back.
Abort(p) ==
    /\ pc[p] # "idle"
    /\ Rollback(p)

----------------------------------------------------------------------------
(* VerifyLedger reads the row and then the entries, in no transaction. *)

VerifyLoad(p, a) ==
    /\ pc[p] = "idle"
    /\ Exists(a)
    /\ subject' = [subject EXCEPT ![p] = a]
    /\ seen' = [seen EXCEPT ![p] = accounts[a]]
    /\ Goto(p, "verify")
    /\ UNCHANGED <<accounts, ledger, outbox, entry, name>>

VerifyRead(p) ==
    /\ pc[p] = "verify"
    /\ Goto(p, IF Verifies(subject[p], ledger[subject[p]], seen[p].hash)
               THEN "valid" ELSE "broken")
    /\ UNCHANGED <<accounts, ledger, outbox, subject, seen, entry, name>>

----------------------------------------------------------------------------
(* The endpoints.  Binding a body and writing an answer are left out.       *)

OpenAccount(p) == (\E n \in Names : OpenCheck(p, n)) \/ Open(p)

ResetAccount(p) ==
    \/ \E a \in Accounts, n \in Names : ResetLoad(p, a, n)
    \/ ResetLast(p) \/ ResetAppend(p) \/ ResetSeal(p) \/ ResetCommit(p)

Verify(p) == (\E a \in Accounts : VerifyLoad(p, a)) \/ VerifyRead(p)

Request(p) == OpenAccount(p) \/ ResetAccount(p) \/ Verify(p) \/ Abort(p)

Next == \E p \in Requests : Request(p)

Spec == Init /\ [][Next]_vars

----------------------------------------------------------------------------
(* Properties. *)

\* A tree is one line of iterations 1 .. n, each the child of the one before, of
\* which the last is active and all others are sealed, whoever resets at once.
TreeIsALine ==
    \A a \in Accounts : Exists(a) =>
        LET tree == Tree(accounts[a].root)
            n == Cardinality(tree) IN
        /\ {accounts[b].index : b \in tree} = 1 .. n
        /\ \A b \in tree : (accounts[b].status = "active") <=> (accounts[b].index = n)
        /\ \A b \in tree : accounts[b].index > 1 =>
              /\ accounts[b].parent \in tree
              /\ accounts[accounts[b].parent].index = accounts[b].index - 1

\* A sealed iteration's root hash is the hash of its last entry, the only seal in
\* its ledger, and an active iteration's ledger holds no seal.
SealAttestsLedger ==
    \A a \in Accounts : Exists(a) =>
        LET seals == {i \in 1 .. Len(ledger[a]) : ledger[a][i].kind = "seal"} IN
        IF accounts[a].status = "reset"
        THEN seals = {Len(ledger[a])} /\ accounts[a].hash = LastHash(ledger[a])
        ELSE seals = {} /\ accounts[a].hash = NoHash

\* The entry was hashed with an amount its columns do not hold.
RoundedAway(a, e) == e.hash[Len(e.hash)] # Covered(a, e)

\* VerifyLedger reports an untouched ledger broken, even with a reset committing between
\* its two reads, only where some entry's amount was finer than its columns: the chain
\* and the seal themselves always hold.
AlarmsOnlyOnRounding ==
    \A p \in Requests : pc[p] = "broken" =>
        \E i \in 1 .. Len(ledger[subject[p]]) :
            RoundedAway(subject[p], ledger[subject[p]][i])

\* BR-07: nothing changes an iteration, or its ledger, once it is sealed.
SealedIsReadOnly ==
    [][\A a \in Accounts : accounts[a].status = "reset" =>
            accounts'[a] = accounts[a] /\ ledger'[a] = ledger[a]]_vars

\* A committed fork and its event are one: no account without, no event before.
EventWithChange ==
    {o[2] : o \in outbox} = {a \in Accounts : Exists(a)}

----------------------------------------------------------------------------
(* What the requirements say and a run refutes. *)

\* 01-AC-6: an untouched chain verifies, sealed or not.
VerifyNeverAlarms == \A p \in Requests : pc[p] # "broken"
=============================================================================
