------------------------ MODULE SessionOpeningProofs ------------------------
(***************************************************************************)
(* Proofs about AccountTree and SessionOpening, for any requests, accounts *)
(* and sessions: reset trees are lines, ledgers are chains that a seal     *)
(* closes, and what holds between an account and the sessions on it.       *)
(***************************************************************************)
EXTENDS SessionOpening, FiniteSetTheorems, SequenceTheorems, TLAPS

USE TreeAssumption

Kinds == {"open", "seal"}
Hashes == Seq(Accounts \X Nat \X Kinds \X Requests \X Amounts)
EntryRow == [seq : Nat, kind : Kinds, by : Requests, amount : {"plain"}, hash : Hashes]
Row == [status : {"absent", "active", "reset"}, root : Accounts \cup {NoAccount},
        parent : Accounts \cup {NoAccount}, index : Nat, hash : Hashes \cup {NoHash},
        version : Nat, name : Names \cup {NoAccount}]

InReset == {"begin", "append", "seal", "create"}
Sealing == {"append", "seal", "create"}
Places == {"idle", "open", "verify", "valid", "broken"} \cup InReset

TreeTypes ==
    /\ accounts \in [Accounts -> Row]
    /\ ledger \in [Accounts -> Seq(EntryRow)]
    /\ pc \in [Requests -> Places]
    /\ subject \in [Requests -> Accounts \cup {NoAccount}]
    /\ seen \in [Requests -> Row]
    /\ entry \in [Requests -> EntryRow \cup {NoEntry}]
    /\ name \in [Requests -> Names \cup {NoAccount}]

\* The hash covers the entry, with the amount it was hashed with, and the hash before it.
Linked(a, e, previous) ==
    \E amount \in Amounts :
        e.hash = Append(previous, <<a, e.seq, e.kind, e.by, amount>>)

\* Each entry's hash covers the one before it.
Chained(a, entries) ==
    \A i \in 1 .. Len(entries) :
        Linked(a, entries[i], IF i = 1 THEN <<>> ELSE entries[i - 1].hash)

RoundedIn(a) == \E i \in 1 .. Len(ledger[a]) : RoundedAway(a, ledger[a][i])

Seals(entries) == {i \in 1 .. Len(entries) : entries[i].kind = "seal"}

LedgerInv ==
    \A a \in Accounts : Exists(a) =>
        /\ Chained(a, ledger[a])
        /\ accounts[a].status = "active" => Seals(ledger[a]) = {} /\ accounts[a].hash = NoHash
        /\ accounts[a].status = "reset" =>
              Seals(ledger[a]) = {Len(ledger[a])} /\ accounts[a].hash = LastHash(ledger[a])

Rooted == \A a \in Accounts : Exists(a) => accounts[a].root \in Accounts /\ Exists(accounts[a].root)

\* Iterations 1 .. n, no two of one index, each the child of the one before; the last
\* is active and the others are sealed.
IsLine(rows, tree, n) ==
    /\ {rows[b].index : b \in tree} = 1 .. n
    /\ \A b, c \in tree : rows[b].index = rows[c].index => b = c
    /\ \A b \in tree : (rows[b].status = "active") <=> (rows[b].index = n)
    /\ \A b \in tree : rows[b].index > 1 =>
          /\ rows[b].parent \in tree
          /\ rows[rows[b].parent].index = rows[b].index - 1

Line(r) == IsFiniteSet(Tree(r)) /\ IsLine(accounts, Tree(r), Cardinality(Tree(r)))

LineInv == Rooted /\ \A r \in Accounts : Line(r)

\* What a request holds agrees with the rows, or the row has been sealed meanwhile; once
\* its transaction has updated the row, the row is active and nobody else's.
Holds(p) ==
    /\ pc[p] \in InReset =>
        /\ subject[p] \in Accounts /\ Exists(subject[p])
        /\ seen[p].root = accounts[subject[p]].root
        /\ seen[p].index = accounts[subject[p]].index
    /\ pc[p] \in Sealing =>
        \/ accounts[subject[p]].status = "reset"
        \/ entry[p] = NextEntry(subject[p], ledger[subject[p]], "seal", p, "plain")
    /\ pc[p] = "create" => accounts[subject[p]].status = "active"
    /\ pc[p] = "verify" =>
        /\ subject[p] \in Accounts /\ Exists(subject[p])
        /\ seen[p].hash # NoHash => /\ accounts[subject[p]].status = "reset"
                                    /\ accounts[subject[p]].hash = seen[p].hash
    /\ pc[p] = "broken" =>
        subject[p] \in Accounts /\ Exists(subject[p]) /\ RoundedIn(subject[p])

RequestInv ==
    /\ \A p \in Requests : Holds(p)
    /\ \A p, q \in Requests :
          pc[p] = "create" /\ pc[q] = "create" /\ subject[p] = subject[q] => p = q

TreeInv == TreeTypes /\ LedgerInv /\ LineInv /\ RequestInv /\ EventWithChange

----------------------------------------------------------------------------
(* Entries and chains. *)

LEMMA LastHashType ==
    ASSUME NEW entries \in Seq(EntryRow)
    PROVE  LastHash(entries) \in Hashes
<1>1. CASE entries = <<>>
  BY <1>1 DEF LastHash, Hashes
<1>2. CASE entries # <<>>
  <2>1. Len(entries) \in 1 .. Len(entries)
    BY <1>2
  <2>2. entries[Len(entries)] \in EntryRow
    BY <2>1
  <2> QED  BY <1>2, <2>2 DEF LastHash, EntryRow
<1> QED  BY <1>1, <1>2

LEMMA NextEntryIs ==
    ASSUME NEW a \in Accounts, NEW entries \in Seq(EntryRow), NEW kind \in Kinds,
           NEW p \in Requests, NEW amount \in Amounts
    PROVE  LET e == NextEntry(a, entries, kind, p, amount) IN
           /\ e \in EntryRow /\ e.kind = kind
           /\ Linked(a, e, LastHash(entries))
<1>1. PICK n : n = Len(entries) + 1
  OBVIOUS
<1>2. PICK last : last = LastHash(entries)
  OBVIOUS
<1>3. n \in Nat /\ last \in Hashes
  BY <1>1, <1>2, LastHashType
<1>4. PICK h : h = Append(last, <<a, n, kind, p, amount>>)
  OBVIOUS
<1>5. h \in Hashes
  BY <1>3, <1>4 DEF Hashes
<1>6. PICK e : e = [seq |-> n, kind |-> kind, by |-> p, amount |-> "plain", hash |-> h]
  OBVIOUS
<1>7. NextEntry(a, entries, kind, p, amount) = e
  <2>1. PICK e0 : e0 = Entry(entries, kind, p, amount)
    OBVIOUS
  <2>2. e0 = [seq |-> n, kind |-> kind, by |-> p, amount |-> amount, hash |-> <<>>]
    BY <1>1, <2>1 DEF Entry
  <2>3. hashEntry(a, e0, last) = h /\ Rounded(e0.amount) = "plain"
    BY <1>4, <2>2 DEF hashEntry, Covered, Rounded
  <2>4. NextEntry(a, entries, kind, p, amount) = Stored(a, e0, last)
    BY <1>2, <2>1, Zenon DEF NextEntry
  <2>5. Stored(a, e0, last) = [e0 EXCEPT !.hash = h, !.amount = "plain"]
    BY <2>3, Zenon DEF Stored
  <2> QED  BY <1>6, <2>2, <2>4, <2>5
<1>8. e \in EntryRow /\ e.kind = kind
  BY <1>3, <1>5, <1>6 DEF EntryRow
<1>9. Linked(a, e, last)
  BY <1>4, <1>6 DEF Linked
<1> QED  BY <1>2, <1>7, <1>8, <1>9

\* An entry linked to the last one continues the chain.
LEMMA ChainGrows ==
    ASSUME NEW a \in Accounts, NEW entries \in Seq(EntryRow), Chained(a, entries),
           NEW e \in EntryRow, Linked(a, e, LastHash(entries))
    PROVE  LET more == Append(entries, e) IN
           /\ more \in Seq(EntryRow) /\ Chained(a, more) /\ LastHash(more) = e.hash
           /\ Len(more) = Len(entries) + 1
           /\ Seals(more) = Seals(entries) \cup IF e.kind = "seal" THEN {Len(more)} ELSE {}
<1> DEFINE more == Append(entries, e)
           n == Len(entries)
<1>1. /\ more \in Seq(EntryRow) /\ Len(more) = n + 1 /\ n \in Nat
      /\ \A i \in 1 .. n : more[i] = entries[i]
      /\ more[n + 1] = e
  OBVIOUS
<1>2. entries = <<>> <=> n = 0
  OBVIOUS
<1>3. LastHash(entries) = IF n = 0 THEN <<>> ELSE entries[n].hash
  BY <1>2 DEF LastHash
<1>4. Chained(a, more)
  <2> SUFFICES ASSUME NEW i \in 1 .. n + 1
               PROVE  Linked(a, more[i], IF i = 1 THEN <<>> ELSE more[i - 1].hash)
    BY <1>1 DEF Chained
  <2>1. CASE i = n + 1
    BY <1>1, <1>3, <2>1
  <2>2. CASE i \in 1 .. n
    BY <1>1, <2>2 DEF Chained
  <2> QED  BY <2>1, <2>2, <1>1
<1>5. more # <<>> /\ LastHash(more) = e.hash
  BY <1>1 DEF LastHash
<1>6. Seals(more) = Seals(entries) \cup IF e.kind = "seal" THEN {Len(more)} ELSE {}
  BY <1>1 DEF Seals
<1> QED  BY <1>1, <1>4, <1>5, <1>6, Zenon

\* An entry whose amount is the one it was hashed with verifies.
LEMMA UnroundedIs ==
    ASSUME NEW a \in Accounts, NEW e \in EntryRow, NEW previous \in Hashes,
           Linked(a, e, previous), ~RoundedAway(a, e)
    PROVE  e.hash = hashEntry(a, e, previous)
<1>1. PICK amount \in Amounts :
        e.hash = Append(previous, <<a, e.seq, e.kind, e.by, amount>>)
  BY DEF Linked
<1>2. PICK covering : covering = <<a, e.seq, e.kind, e.by, amount>>
  OBVIOUS
<1>3. PICK h : h = Append(previous, covering)
  OBVIOUS
<1>4. h[Len(h)] = covering
  BY <1>3 DEF Hashes
<1>5. covering = Covered(a, e)
  BY <1>1, <1>2, <1>3, <1>4 DEF RoundedAway
<1> QED  BY <1>1, <1>2, <1>5 DEF hashEntry

\* The ledger a new account begins with.
LEMMA FirstEntry ==
    ASSUME NEW a \in Accounts, NEW p \in Requests, NEW amount \in Amounts
    PROVE  LET first == <<NextEntry(a, <<>>, "open", p, amount)>> IN
           first \in Seq(EntryRow) /\ Chained(a, first) /\ Seals(first) = {}
<1>1. PICK none \in Seq(EntryRow) : none = <<>>
  <2>1. <<>> \in Seq(EntryRow)
    BY EmptySeq, Zenon
  <2> QED  BY <2>1, Zenon
<1>2. Chained(a, none) /\ Seals(none) = {} /\ "open" \in Kinds
  BY <1>1 DEF Chained, Seals, Kinds
<1>3. PICK e : e = NextEntry(a, none, "open", p, amount)
  OBVIOUS
<1>4. e \in EntryRow /\ e.kind = "open" /\ Linked(a, e, LastHash(none))
  BY <1>2, <1>3, NextEntryIs
<1>5. PICK first : first = Append(none, e)
  OBVIOUS
<1>6. first \in Seq(EntryRow) /\ Chained(a, first) /\ Seals(first) = {}
  BY <1>2, <1>4, <1>5, ChainGrows
<1>7. first = <<NextEntry(a, <<>>, "open", p, amount)>>
  BY <1>1, <1>3, <1>5
<1> QED  BY <1>6, <1>7

----------------------------------------------------------------------------
(* Lines. *)

LEMMA SameLine ==
    ASSUME NEW r \in Accounts, Line(r), Tree(r)' = Tree(r),
           \A b \in Tree(r) : accounts'[b] = accounts[b]
    PROVE  Line(r)'
<1>1. IsLine(accounts', Tree(r), Cardinality(Tree(r)))
  <2> DEFINE tree == Tree(r)
             n == Cardinality(tree)
  <2>1. IsLine(accounts, tree, n) /\ \A b \in tree : accounts'[b] = accounts[b]
    BY DEF Line
  <2> HIDE DEF tree, n
  <2>2. {accounts'[b].index : b \in tree} = {accounts[b].index : b \in tree}
    BY <2>1
  <2>3. IsLine(accounts', tree, n)
    BY <2>1, <2>2 DEF IsLine
  <2> QED  BY <2>3 DEF tree, n
<1> QED  BY <1>1 DEF Line

\* A root of its own is a line of one.
LEMMA OpenLine ==
    ASSUME TreeTypes, LineInv, NEW a \in Accounts, ~Exists(a), NEW row,
           row.status = "active", row.root = a, row.index = 1,
           accounts' = [accounts EXCEPT ![a] = row]
    PROVE  LineInv'
<1>1. accounts'[a] = row /\ \A b \in Accounts \ {a} : accounts'[b] = accounts[b]
  BY DEF TreeTypes
<1>2. Exists(a)' /\ \A b \in Accounts \ {a} : Exists(b)' <=> Exists(b)
  BY <1>1 DEF Exists
<1>3. Rooted'
  BY <1>1, <1>2 DEF Rooted, LineInv
<1>4. ASSUME NEW r \in Accounts \ {a}
      PROVE  Line(r)'
  <2>1. Tree(r)' = Tree(r)
    BY <1>1, <1>2 DEF Tree
  <2>2. \A b \in Tree(r) : accounts'[b] = accounts[b]
    BY <1>1 DEF Tree
  <2>3. Line(r)
    BY DEF LineInv
  <2> QED  BY <2>1, <2>2, <2>3, SameLine
<1>5. Line(a)'
  <2>1. Tree(a)' = {a}
    BY <1>1, <1>2 DEF Tree, LineInv, Rooted
  <2>2. IsFiniteSet({a}) /\ Cardinality({a}) = 1
    BY FS_Singleton
  <2>3. IsLine(accounts', {a}, 1)
    BY <1>1 DEF IsLine
  <2> QED  BY <2>1, <2>2, <2>3 DEF Line
<1> QED  BY <1>3, <1>4, <1>5 DEF LineInv

\* A line whose last iteration is sealed goes on with its child.
LEMMA ForkLine ==
    ASSUME TreeTypes, LineInv, NEW a \in Accounts, accounts[a].status = "active",
           NEW c \in Accounts, ~Exists(c), NEW sealed, NEW child,
           sealed.status = "reset", sealed.root = accounts[a].root,
           sealed.index = accounts[a].index, sealed.parent = accounts[a].parent,
           child.status = "active", child.root = accounts[a].root,
           child.index = accounts[a].index + 1, child.parent = a,
           accounts' = [accounts EXCEPT ![a] = sealed, ![c] = child]
    PROVE  LineInv'
<1>0. /\ a # c /\ accounts'[a] = sealed /\ accounts'[c] = child
      /\ \A b \in Accounts \ {a, c} : accounts'[b] = accounts[b]
  BY DEF TreeTypes, Exists
<1>1. \A b \in Accounts : b # c => /\ accounts'[b].root = accounts[b].root
                                   /\ accounts'[b].index = accounts[b].index
                                   /\ accounts'[b].parent = accounts[b].parent
                                   /\ Exists(b)' <=> Exists(b)
                                   /\ b # a => accounts'[b] = accounts[b]
  BY <1>0 DEF Exists
<1>2. Exists(a) /\ Exists(c)'
  BY <1>0 DEF Exists
<1>r. PICK root : root = accounts[a].root
  OBVIOUS
<1> DEFINE tree == Tree(root)
           n == Cardinality(tree)
<1>3. root \in Accounts /\ a \in tree /\ Exists(root) /\ c \notin tree
  BY <1>2, <1>r DEF LineInv, Rooted, Tree
<1>5. accounts'[c].root = root /\ accounts'[c].index = accounts[a].index + 1
      /\ accounts'[c].status = "active" /\ accounts'[c].parent = a
      /\ accounts'[a].status = "reset"
  BY <1>0, <1>r
<1>4. Rooted'
  <2> SUFFICES ASSUME NEW b \in Accounts, Exists(b)'
               PROVE  (accounts[b].root \in Accounts /\ Exists(accounts[b].root))'
    BY DEF Rooted
  <2>1. CASE b = c
    BY <1>1, <1>3, <1>5, <2>1, ZenonT(60) DEF Exists
  <2>2. CASE b # c
    <3>1. Exists(b) /\ accounts'[b].root = accounts[b].root
      BY <1>1, <2>2
    <3>2. accounts[b].root \in Accounts /\ Exists(accounts[b].root) /\ accounts[b].root # c
      BY <3>1 DEF LineInv, Rooted
    <3> QED  BY <1>1, <3>1, <3>2, ZenonT(60) DEF Exists
  <2> QED  BY <2>1, <2>2
<1>6. ASSUME NEW r \in Accounts \ {root}
      PROVE  Line(r)'
  <2>1. \A b \in Accounts : b \in Tree(r)' <=> b \in Tree(r)
    BY <1>1, <1>5 DEF Tree, Exists
  <2>2. Tree(r)' = Tree(r)
    BY <2>1 DEF Tree
  <2>3. \A b \in Tree(r) : b \in Accounts /\ b # a /\ b # c
    BY <1>3 DEF Tree
  <2>4. Line(r)
    BY DEF LineInv
  <2>5. \A b \in Tree(r) : accounts'[b] = accounts[b]
    BY <1>1, <2>3
  <2> QED  BY <2>2, <2>4, <2>5, SameLine
<1>7. Line(root)'
  <2>1. \A b \in Accounts : b \in Tree(root)' <=> b \in tree \cup {c}
    BY <1>1, <1>2, <1>5 DEF Tree, Exists
  <2>2. Tree(root)' = tree \cup {c}
    BY <2>1 DEF Tree
  <2>3. Line(root)
    BY <1>3 DEF LineInv
  <2>4. \A b \in tree : b \in Accounts /\ b # c
    BY <1>3 DEF Tree
  <2> HIDE DEF tree
  <2>5. IsFiniteSet(tree) /\ IsLine(accounts, tree, n)
    BY <2>3 DEF Line, tree
  <2>6. n \in Nat
    BY <2>5, FS_CardinalityType
  <2>7. IsFiniteSet(tree \cup {c}) /\ Cardinality(tree \cup {c}) = n + 1
    BY <1>3, <2>5, FS_AddElement
  <2> HIDE DEF n
  <2>8. accounts[a].index = n
    BY <1>3, <2>5 DEF IsLine
  <2>9. \A b \in tree : /\ accounts'[b].index = accounts[b].index
                        /\ accounts'[b].parent = accounts[b].parent
                        /\ accounts'[b].index \in 1 .. n
    BY <1>1, <2>4, <2>5 DEF IsLine
  <2>10. \A b \in tree : accounts'[b].status # "active"
    <3> SUFFICES ASSUME NEW b \in tree, b # a
                 PROVE  accounts'[b].status # "active"
      BY <1>5
    <3>1. accounts[b].index # n
      BY <1>3, <2>5, <2>8 DEF IsLine
    <3> QED  BY <1>1, <2>4, <2>5, <3>1, ZenonT(60) DEF IsLine
  <2>11. accounts'[c].index = n + 1
    BY <1>5, <2>8
  <2>12. {accounts'[b].index : b \in tree \cup {c}} = 1 .. (n + 1)
    <3>1. {accounts'[b].index : b \in tree} = {accounts[b].index : b \in tree}
      BY <2>9, ZenonT(60)
    <3>2. {accounts'[b].index : b \in tree \cup {c}} = {accounts'[b].index : b \in tree} \cup {n + 1}
      BY <2>11
    <3>3. 1 .. (n + 1) = (1 .. n) \cup {n + 1}
      BY <2>6
    <3> QED  BY <2>5, <3>1, <3>2, <3>3 DEF IsLine
  <2>13. \A b, d \in tree \cup {c} : accounts'[b].index = accounts'[d].index => b = d
    BY <2>5, <2>6, <2>9, <2>11 DEF IsLine
  <2>14. \A b \in tree \cup {c} : (accounts'[b].status = "active") <=> (accounts'[b].index = n + 1)
    <3>1. ASSUME NEW b \in tree  PROVE accounts'[b].index # n + 1
      <4>1. accounts'[b].index \in 1 .. n
        BY <2>9
      <4> QED  BY <2>6, <4>1
    <3> QED  BY <1>5, <2>10, <2>11, <3>1
  <2>15. ASSUME NEW b \in tree \cup {c}, accounts'[b].index > 1
         PROVE  /\ accounts'[b].parent \in tree \cup {c}
                /\ accounts'[accounts'[b].parent].index = accounts'[b].index - 1
    <3>1. CASE b \in tree
      <4>1. accounts[b].parent \in tree /\ accounts[accounts[b].parent].index = accounts[b].index - 1
        BY <2>5, <2>9, <2>15, <3>1 DEF IsLine
      <4> QED  BY <2>9, <3>1, <4>1
    <3>2. CASE b = c
      <4>1. accounts'[b].parent = a /\ accounts'[a].index = n /\ accounts'[b].index = n + 1
        BY <1>3, <1>5, <2>8, <2>9, <2>11, <3>2
      <4> QED  BY <1>3, <2>6, <4>1
    <3> QED  BY <3>1, <3>2
  <2>16. IsLine(accounts', tree \cup {c}, n + 1)
    BY <2>12, <2>13, <2>14, <2>15 DEF IsLine
  <2> QED  BY <2>2, <2>7, <2>16 DEF Line
<1> QED  BY <1>3, <1>4, <1>6, <1>7 DEF LineInv

LEMMA LineIsKept ==
    ASSUME LineInv, UNCHANGED accounts
    PROVE  LineInv'
<1>1. \A a : Exists(a)' <=> Exists(a)
  BY DEF Exists
<1>2. \A r : Tree(r)' = Tree(r)
  BY <1>1 DEF Tree
<1>3. \A r : Line(r)' <=> Line(r)
  BY <1>2 DEF Line
<1> QED  BY <1>1, <1>3 DEF LineInv, Rooted

----------------------------------------------------------------------------
(* One step of one request. *)

LEMMA AbsentIs == Absent \in Row /\ Absent.status = "absent"
BY DEF Absent, Row

LEMMA SealedIs ==
    ASSUME NEW e \in Row, NEW h \in Hashes
    PROVE  LET s == Sealed(e, h) IN
           /\ s \in Row /\ s.status = "reset" /\ s.hash = h /\ s.root = e.root
           /\ s.index = e.index /\ s.parent = e.parent /\ s.version = e.version + 1
<1>1. PICK e1 : e1 = [e EXCEPT !.status = "reset"]
  OBVIOUS
<1>2. PICK e2 : e2 = [e1 EXCEPT !.hash = h]
  OBVIOUS
<1>3. PICK e3 : e3 = [e2 EXCEPT !.version = e.version + 1]
  OBVIOUS
<1>4. e1 \in Row /\ e1.status = "reset" /\ e1.root = e.root /\ e1.index = e.index
      /\ e1.parent = e.parent
  BY <1>1 DEF Row
<1>5. e2 \in Row /\ e2.status = "reset" /\ e2.hash = h /\ e2.root = e.root
      /\ e2.index = e.index /\ e2.parent = e.parent
  BY <1>2, <1>4 DEF Row
<1>6. e3 \in Row /\ e3.status = "reset" /\ e3.hash = h /\ e3.root = e.root
      /\ e3.index = e.index /\ e3.parent = e.parent /\ e3.version = e.version + 1
  BY <1>3, <1>5 DEF Row
<1>7. Sealed(e, h) = e3
  BY <1>1, <1>2, <1>3, Zenon DEF Sealed
<1> QED  BY <1>6, <1>7

\* What the other requests have in hand stays as it is.
Undisturbed(p) ==
    \A q \in Requests \ {p} :
        pc'[q] = pc[q] /\ subject'[q] = subject[q] /\ seen'[q] = seen[q] /\ entry'[q] = entry[q]

LEMMA GotoIs ==
    ASSUME TreeTypes, NEW p \in Requests, NEW l \in Places, Goto(p, l)
    PROVE  /\ pc' \in [Requests -> Places] /\ pc'[p] = l
           /\ \A q \in Requests \ {p} : pc'[q] = pc[q]
BY DEF TreeTypes, Goto

\* A request that answers, having changed nothing.
LEMMA DoneIs ==
    ASSUME TreeTypes, NEW p \in Requests, Done(p)
    PROVE  /\ pc' \in [Requests -> Places] /\ pc'[p] = "idle"
           /\ subject' \in [Requests -> Accounts \cup {NoAccount}]
           /\ seen' \in [Requests -> Row]
           /\ entry' \in [Requests -> EntryRow \cup {NoEntry}]
           /\ name' \in [Requests -> Names \cup {NoAccount}]
           /\ Undisturbed(p)
<1>1. "idle" \in Places
  BY DEF Places
<1>2. /\ pc' \in [Requests -> Places] /\ pc'[p] = "idle"
      /\ \A q \in Requests \ {p} : pc'[q] = pc[q]
  BY <1>1, GotoIs DEF Done
<1>3. Absent \in Row
  BY AbsentIs
<1> QED  BY <1>2, <1>3 DEF Done, TreeTypes, Undisturbed

\* A step that leaves the tables alone has only its own hand to account for.
LEMMA QuietStep ==
    ASSUME TreeInv, TreeTypes', NEW p \in Requests, UNCHANGED <<accounts, ledger, outbox>>,
           Undisturbed(p), Holds(p)',
           pc'[p] = "create" => \A q \in Requests \ {p} :
                                    pc[q] = "create" => subject[q] # subject'[p]
    PROVE  TreeInv'
<1>1. \A a : Exists(a)' <=> Exists(a)
  BY DEF Exists
<1>2. LedgerInv'
  BY <1>1 DEF LedgerInv, TreeInv, Chained, Seals
<1>3. LineInv'
  BY LineIsKept DEF TreeInv
<1>4. EventWithChange'
  BY <1>1 DEF EventWithChange, TreeInv
<1>5. \A q \in Requests : Holds(q)'
  <2> SUFFICES ASSUME NEW q \in Requests \ {p}
               PROVE  Holds(q)'
    OBVIOUS
  <2>1. Holds(q)
    BY DEF TreeInv, RequestInv
  <2>2. \A a : RoundedIn(a)' <=> RoundedIn(a)
    BY DEF RoundedIn, RoundedAway
  <2> QED  BY <1>1, <2>1, <2>2 DEF Holds, Undisturbed
<1>6. ASSUME NEW q \in Requests, NEW o \in Requests, pc'[q] = "create", pc'[o] = "create",
             subject'[q] = subject'[o]
      PROVE  q = o
  BY <1>6 DEF TreeInv, RequestInv, Undisturbed
<1> QED  BY <1>2, <1>3, <1>4, <1>5, <1>6 DEF TreeInv, RequestInv

LEMMA RollbackInv ==
    ASSUME TreeInv, NEW p \in Requests, Rollback(p)
    PROVE  TreeInv'
<1>1. TreeTypes /\ Done(p) /\ UNCHANGED <<accounts, ledger, outbox>>
  BY DEF Rollback, TreeInv
<1>2. pc'[p] = "idle" /\ Undisturbed(p) /\ TreeTypes'
  BY <1>1, DoneIs DEF TreeTypes
<1>3. Holds(p)'
  BY <1>2 DEF Holds, InReset, Sealing
<1> QED  BY <1>1, <1>2, <1>3, QuietStep

LEMMA OpenCheckInv ==
    ASSUME TreeInv, NEW p \in Requests, NEW n \in Names, OpenCheck(p, n)
    PROVE  TreeInv'
<1>1. TreeTypes /\ Goto(p, "open") /\ "open" \in Places /\ name' = [name EXCEPT ![p] = n]
      /\ UNCHANGED <<accounts, ledger, outbox, subject, seen, entry>>
  BY DEF OpenCheck, TreeInv, Places
<1>2. /\ pc' \in [Requests -> Places] /\ pc'[p] = "open"
      /\ \A q \in Requests \ {p} : pc'[q] = pc[q]
  BY <1>1, GotoIs
<1>3. TreeTypes' /\ Undisturbed(p)
  BY <1>1, <1>2 DEF TreeTypes, Undisturbed
<1>4. Holds(p)'
  BY <1>2 DEF Holds, InReset, Sealing
<1> QED  BY <1>1, <1>2, <1>3, <1>4, QuietStep

LEMMA ResetLoadInv ==
    ASSUME TreeInv, NEW p \in Requests, NEW a \in Accounts, NEW n \in Names, ResetLoad(p, a, n)
    PROVE  TreeInv'
<1>1. TreeTypes /\ Goto(p, "begin") /\ "begin" \in Places /\ name' = [name EXCEPT ![p] = n]
      /\ subject' = [subject EXCEPT ![p] = a] /\ seen' = [seen EXCEPT ![p] = accounts[a]]
      /\ UNCHANGED <<accounts, ledger, outbox, entry>> /\ accounts[a].status = "active"
  BY DEF ResetLoad, TreeInv, Places, InReset
<1>2. /\ pc' \in [Requests -> Places] /\ pc'[p] = "begin"
      /\ \A q \in Requests \ {p} : pc'[q] = pc[q]
  BY <1>1, GotoIs
<1>3. /\ TreeTypes' /\ Undisturbed(p)
      /\ subject'[p] = a /\ seen'[p] = accounts[a]
  BY <1>1, <1>2 DEF TreeTypes, Undisturbed
<1>4. Holds(p)'
  BY <1>1, <1>2, <1>3 DEF Holds, InReset, Sealing, Exists
<1> QED  BY <1>1, <1>2, <1>3, <1>4, QuietStep

LEMMA ResetLastInv ==
    ASSUME TreeInv, NEW p \in Requests, ResetLast(p)
    PROVE  TreeInv'
<1> DEFINE e == NextEntry(subject[p], ledger[subject[p]], "seal", p, "plain")
<1>1. TreeTypes /\ Goto(p, "append") /\ "append" \in Places /\ entry' = [entry EXCEPT ![p] = e]
      /\ UNCHANGED <<accounts, ledger, outbox, subject, seen, name>> /\ pc[p] = "begin"
  BY DEF ResetLast, TreeInv, Places, InReset
<1>2. /\ pc' \in [Requests -> Places] /\ pc'[p] = "append"
      /\ \A q \in Requests \ {p} : pc'[q] = pc[q]
  BY <1>1, GotoIs
<1>3. Holds(p) /\ subject[p] \in Accounts
  BY <1>1 DEF TreeInv, RequestInv, Holds, InReset
<1>4. e \in EntryRow
  BY <1>1, <1>3, NextEntryIs DEF TreeTypes, Kinds, Amounts
<1> HIDE DEF e
<1>5. /\ TreeTypes' /\ Undisturbed(p) /\ entry'[p] = e
  BY <1>1, <1>2, <1>4 DEF TreeTypes, Undisturbed
<1>6. Holds(p)'
  BY <1>1, <1>2, <1>3, <1>5 DEF Holds, InReset, Sealing, Exists, e
<1> QED  BY <1>1, <1>2, <1>5, <1>6, QuietStep

LEMMA ResetAppendInv ==
    ASSUME TreeInv, NEW p \in Requests, ResetAppend(p)
    PROVE  TreeInv'
<1>1. CASE Rollback(p)
  BY <1>1, RollbackInv
<1>2. CASE ~Rollback(p)
  <2>1. TreeTypes /\ Goto(p, "seal") /\ "seal" \in Places /\ pc[p] = "append"
        /\ UNCHANGED <<accounts, ledger, outbox, subject, seen, entry, name>>
    BY <1>2 DEF ResetAppend, TreeInv, Places, InReset
  <2>2. /\ pc' \in [Requests -> Places] /\ pc'[p] = "seal"
        /\ \A q \in Requests \ {p} : pc'[q] = pc[q]
    BY <2>1, GotoIs
  <2>3. TreeTypes' /\ Undisturbed(p)
    BY <2>1, <2>2 DEF TreeTypes, Undisturbed
  <2>4. Holds(p)
    BY DEF TreeInv, RequestInv
  <2>5. Holds(p)'
    BY <2>1, <2>2, <2>4 DEF Holds, InReset, Sealing, Exists
  <2> QED  BY <2>1, <2>2, <2>3, <2>5, QuietStep
<1> QED  BY <1>1, <1>2

\* The row's lock: no other transaction has it updated.
LEMMA ResetSealInv ==
    ASSUME TreeInv, NEW p \in Requests, ResetSeal(p)
    PROVE  TreeInv'
<1>1. CASE Rollback(p)
  BY <1>1, RollbackInv
<1>2. CASE ~Rollback(p)
  <2>1. TreeTypes /\ Goto(p, "create") /\ "create" \in Places /\ pc[p] = "seal" /\ ~RowHeld(p)
        /\ accounts[subject[p]].status = "active"
        /\ UNCHANGED <<accounts, ledger, outbox, subject, seen, entry, name>>
    BY <1>2 DEF ResetSeal, TreeInv, Places, InReset
  <2>2. /\ pc' \in [Requests -> Places] /\ pc'[p] = "create"
        /\ \A q \in Requests \ {p} : pc'[q] = pc[q]
    BY <2>1, GotoIs
  <2>3. TreeTypes' /\ Undisturbed(p)
    BY <2>1, <2>2 DEF TreeTypes, Undisturbed
  <2>4. Holds(p)
    BY DEF TreeInv, RequestInv
  <2>5. Holds(p)'
    BY <2>1, <2>2, <2>4 DEF Holds, InReset, Sealing, Exists
  <2>6. \A q \in Requests \ {p} : pc[q] = "create" => subject[q] # subject'[p]
    BY <2>1 DEF RowHeld
  <2> QED  BY <2>1, <2>2, <2>3, <2>5, <2>6, QuietStep
<1> QED  BY <1>1, <1>2

LEMMA VerifyLoadInv ==
    ASSUME TreeInv, NEW p \in Requests, NEW a \in Accounts, VerifyLoad(p, a)
    PROVE  TreeInv'
<1>1. TreeTypes /\ Goto(p, "verify") /\ "verify" \in Places /\ Exists(a)
      /\ subject' = [subject EXCEPT ![p] = a] /\ seen' = [seen EXCEPT ![p] = accounts[a]]
      /\ UNCHANGED <<accounts, ledger, outbox, entry, name>>
  BY DEF VerifyLoad, TreeInv, Places
<1>2. /\ pc' \in [Requests -> Places] /\ pc'[p] = "verify"
      /\ \A q \in Requests \ {p} : pc'[q] = pc[q]
  BY <1>1, GotoIs
<1>3. /\ TreeTypes' /\ Undisturbed(p)
      /\ subject'[p] = a /\ seen'[p] = accounts[a]
  BY <1>1, <1>2 DEF TreeTypes, Undisturbed
<1>4. accounts[a].hash # NoHash => accounts[a].status = "reset"
  BY <1>1 DEF TreeInv, LedgerInv, TreeTypes, Exists, Row
<1>5. Holds(p)'
  BY <1>1, <1>2, <1>3, <1>4 DEF Holds, InReset, Sealing, Exists
<1> QED  BY <1>1, <1>2, <1>3, <1>5, QuietStep

\* Whatever was committed since the row was read, the entries agree with it.
LEMMA VerifyReadInv ==
    ASSUME TreeInv, NEW p \in Requests, VerifyRead(p)
    PROVE  TreeInv'
<1>1. pc[p] = "verify" /\ Holds(p) /\ TreeTypes
  BY DEF VerifyRead, TreeInv, RequestInv
<1>2. subject[p] \in Accounts /\ Exists(subject[p])
  BY <1>1 DEF Holds
<1>3. RoundedIn(subject[p]) \/ Verifies(subject[p], ledger[subject[p]], seen[p].hash)
  <2> SUFFICES ASSUME ~RoundedIn(subject[p])
               PROVE  Verifies(subject[p], ledger[subject[p]], seen[p].hash)
    OBVIOUS
  <2>1. Chained(subject[p], ledger[subject[p]])
    BY <1>2 DEF TreeInv, LedgerInv
  <2>2. seen[p].hash # NoHash => seen[p].hash = LastHash(ledger[subject[p]])
    BY <1>1, <1>2 DEF TreeInv, LedgerInv, Holds
  <2>3. PICK entries \in Seq(EntryRow) : entries = ledger[subject[p]]
    BY <1>1, <1>2 DEF TreeTypes
  <2>4. ASSUME NEW i \in 1 .. Len(entries)
        PROVE  entries[i].hash = hashEntry(subject[p], entries[i],
                                    IF i = 1 THEN <<>> ELSE entries[i - 1].hash)
    <3>1. PICK previous : previous = IF i = 1 THEN <<>> ELSE entries[i - 1].hash
      OBVIOUS
    <3>2. previous \in Hashes
      <4>1. CASE i = 1
        BY <3>1, <4>1, EmptySeq DEF Hashes
      <4>2. CASE i # 1
        <5>1. i - 1 \in 1 .. Len(entries)
          BY <2>3, <4>2
        <5>2. entries[i - 1] \in EntryRow
          BY <2>3, <5>1
        <5> QED  BY <3>1, <4>2, <5>2 DEF EntryRow
      <4> QED  BY <4>1, <4>2
    <3>3. Linked(subject[p], entries[i], previous)
      BY <2>1, <2>3, <3>1 DEF Chained
    <3>4. ~RoundedAway(subject[p], entries[i])
      BY <2>3 DEF RoundedIn
    <3>5. entries[i] \in EntryRow
      BY <2>3
    <3>6. entries[i].hash = hashEntry(subject[p], entries[i], previous)
      BY <1>2, <3>2, <3>3, <3>4, <3>5, UnroundedIs
    <3> QED  BY <3>1, <3>6, Zenon
  <2> QED  BY <2>2, <2>3, <2>4 DEF Verifies
<1>4. /\ Goto(p, "valid") \/ (Goto(p, "broken") /\ RoundedIn(subject[p]))
      /\ "valid" \in Places /\ "broken" \in Places
      /\ UNCHANGED <<accounts, ledger, outbox, subject, seen, entry, name>>
  <2>1. Goto(p, IF Verifies(subject[p], ledger[subject[p]], seen[p].hash)
                THEN "valid" ELSE "broken")
    BY Zenon DEF VerifyRead
  <2>2. Goto(p, "valid") \/ (Goto(p, "broken") /\ RoundedIn(subject[p]))
    BY <1>3, <2>1, Zenon
  <2>3. UNCHANGED <<accounts, ledger, outbox, subject, seen, entry, name>>
    BY DEF VerifyRead
  <2> QED  BY <2>2, <2>3 DEF Places
<1>5. /\ pc' \in [Requests -> Places]
      /\ pc'[p] = "valid" \/ (pc'[p] = "broken" /\ RoundedIn(subject[p]))
      /\ \A q \in Requests \ {p} : pc'[q] = pc[q]
  BY <1>1, <1>4, GotoIs
<1>6. TreeTypes' /\ Undisturbed(p)
  BY <1>1, <1>4, <1>5 DEF TreeTypes, Undisturbed
<1>7. Exists(subject[p])' /\ (RoundedIn(subject[p]) => RoundedIn(subject[p])')
  BY <1>2, <1>4 DEF Exists, RoundedIn, RoundedAway
<1>8. Holds(p)'
  BY <1>2, <1>4, <1>5, <1>7 DEF Holds, InReset, Sealing
<1> QED  BY <1>4, <1>5, <1>6, <1>8, QuietStep

\* The transactions that commit: what they may do to a row, and to what others hold.
Commits(p) ==
    \A a \in Accounts : Exists(a) =>
        \/ accounts'[a] = accounts[a] /\ ledger'[a] = ledger[a]
        \/ /\ pc[p] = "create" /\ subject[p] = a
           /\ accounts[a].status = "active" /\ accounts'[a].status = "reset"
           /\ accounts'[a].root = accounts[a].root /\ accounts'[a].index = accounts[a].index
           /\ accounts'[a].version = accounts[a].version + 1
           /\ ledger'[a] = Append(ledger[a], entry[p]) /\ entry[p] \in EntryRow

\* What was rounded away stays so when an entry is appended.
LEMMA RoundingStays ==
    ASSUME TreeTypes, NEW a \in Accounts, RoundedIn(a),
           \/ ledger'[a] = ledger[a]
           \/ \E e \in EntryRow : ledger'[a] = Append(ledger[a], e)
    PROVE  RoundedIn(a)'
<1>1. PICK i \in 1 .. Len(ledger[a]) : RoundedAway(a, ledger[a][i])
  BY DEF RoundedIn
<1>2. ledger[a] \in Seq(EntryRow)
  BY DEF TreeTypes
<1>3. i \in 1 .. Len(ledger'[a]) /\ ledger'[a][i] = ledger[a][i]
  BY <1>1, <1>2
<1> QED  BY <1>1, <1>3 DEF RoundedIn, RoundedAway

LEMMA CommitHolds ==
    ASSUME TreeInv, NEW p \in Requests, Commits(p), Done(p)
    PROVE  RequestInv'
<1>1. TreeTypes /\ RequestInv
  BY DEF TreeInv
<1>2. pc'[p] = "idle" /\ Undisturbed(p)
  BY <1>1, DoneIs
<1>3. Holds(p)'
  BY <1>2 DEF Holds, InReset, Sealing
<1>4. ASSUME NEW q \in Requests \ {p}
      PROVE  Holds(q)'
  <2>1. Holds(q) /\ pc'[q] = pc[q] /\ subject'[q] = subject[q]
        /\ seen'[q] = seen[q] /\ entry'[q] = entry[q]
    BY <1>1, <1>2 DEF RequestInv, Undisturbed
  <2>2. pc[q] = "create" /\ pc[p] = "create" => subject[q] # subject[p]
    BY <1>1 DEF RequestInv
  <2>3. CASE pc[q] \in InReset
    <3>1. subject[q] \in Accounts /\ Exists(subject[q])
      BY <2>1, <2>3 DEF Holds
    <3>2. \/ accounts'[subject[q]] = accounts[subject[q]] /\ ledger'[subject[q]] = ledger[subject[q]]
          \/ pc[p] = "create" /\ subject[p] = subject[q] /\ accounts'[subject[q]].status = "reset"
             /\ accounts'[subject[q]].root = accounts[subject[q]].root
             /\ accounts'[subject[q]].index = accounts[subject[q]].index
      BY <3>1 DEF Commits
    <3> QED  BY <2>1, <2>2, <2>3, <3>1, <3>2 DEF Holds, Exists, InReset
  <2>4. CASE pc[q] = "verify"
    <3>1. subject[q] \in Accounts /\ Exists(subject[q])
      BY <2>1, <2>4 DEF Holds
    <3>2. \/ accounts'[subject[q]] = accounts[subject[q]]
          \/ accounts[subject[q]].status = "active" /\ accounts'[subject[q]].status = "reset"
      BY <3>1 DEF Commits
    <3> QED  BY <2>1, <2>4, <3>1, <3>2 DEF Holds, Exists, InReset, Sealing
  <2>5. CASE pc[q] = "broken"
    <3>1. subject[q] \in Accounts /\ Exists(subject[q]) /\ RoundedIn(subject[q])
      BY <2>1, <2>5 DEF Holds
    <3>2. \/ /\ accounts'[subject[q]] = accounts[subject[q]]
             /\ ledger'[subject[q]] = ledger[subject[q]]
          \/ /\ accounts'[subject[q]].status = "reset"
             /\ \E e \in EntryRow : ledger'[subject[q]] = Append(ledger[subject[q]], e)
      BY <3>1 DEF Commits
    <3>3. Exists(subject[q])'
      BY <2>1, <3>1, <3>2 DEF Exists
    <3>4. PICK a \in Accounts : a = subject[q]
      BY <3>1
    <3>5. RoundedIn(a)'
      BY <1>1, <3>1, <3>2, <3>4, RoundingStays
    <3> QED  BY <2>1, <2>5, <3>1, <3>3, <3>4, <3>5 DEF Holds, InReset, Sealing, RoundedIn, RoundedAway
  <2>6. CASE pc[q] \notin InReset \cup {"verify", "broken"}
    BY <2>1, <2>6 DEF Holds, InReset, Sealing
  <2> QED  BY <2>3, <2>4, <2>5, <2>6
<1>5. \A q, o \in Requests :
        pc'[q] = "create" /\ pc'[o] = "create" /\ subject'[q] = subject'[o] => q = o
  BY <1>1, <1>2 DEF RequestInv, Undisturbed
<1> QED  BY <1>3, <1>4, <1>5 DEF RequestInv

LEMMA EventAdded ==
    ASSUME NEW S, NEW T, NEW k, NEW c, T = S \cup {<<k, c>>}
    PROVE  {o[2] : o \in T} = {o[2] : o \in S} \cup {c}
<1>1. \A x : x \in {o[2] : o \in T} <=> x \in {o[2] : o \in S} \/ x = c
  <2>1. <<k, c>>[2] = c
    OBVIOUS
  <2> QED  BY <2>1
<1> QED  BY <1>1

LEMMA OpenStep ==
    ASSUME TreeInv, NEW p \in Requests, Open(p)
    PROVE  TreeInv' /\ Commits(p)
<1>1. PICK a \in Accounts, amount \in Amounts :
        /\ ~Exists(a)
        /\ accounts' = [accounts EXCEPT ![a] = Root(a, name[p])]
        /\ ledger' = [ledger EXCEPT ![a] = <<NextEntry(a, <<>>, "open", p, amount)>>]
        /\ outbox' = outbox \cup {<<"opened", a>>}
        /\ Done(p)
  BY DEF Open
<1>2. PICK row : row = Root(a, name[p])
  OBVIOUS
<1>3. PICK first : first = <<NextEntry(a, <<>>, "open", p, amount)>>
  OBVIOUS
<1>4. TreeTypes /\ LedgerInv /\ LineInv /\ EventWithChange
  BY DEF TreeInv
<1>5. /\ row \in Row /\ row.status = "active" /\ row.root = a /\ row.index = 1
      /\ row.hash = NoHash
  BY <1>2, <1>4 DEF Root, Row, TreeTypes
<1>6. first \in Seq(EntryRow) /\ Chained(a, first) /\ Seals(first) = {}
  BY <1>3, FirstEntry
<1>7. /\ accounts' \in [Accounts -> Row] /\ ledger' \in [Accounts -> Seq(EntryRow)]
      /\ accounts'[a] = row /\ ledger'[a] = first
      /\ \A b \in Accounts \ {a} : accounts'[b] = accounts[b] /\ ledger'[b] = ledger[b]
  BY <1>1, <1>2, <1>3, <1>4, <1>5, <1>6 DEF TreeTypes
<1>8. TreeTypes'
  BY <1>1, <1>4, <1>7, DoneIs DEF TreeTypes
<1>9. Exists(a)' /\ \A b \in Accounts \ {a} : Exists(b)' <=> Exists(b)
  BY <1>5, <1>7 DEF Exists
<1>10. LineInv'
  BY <1>1, <1>2, <1>4, <1>5, OpenLine
<1>11. LedgerInv'
  <2> SUFFICES ASSUME NEW b \in Accounts, Exists(b)'
               PROVE  /\ Chained(b, ledger'[b])
                      /\ accounts'[b].status = "active" =>
                            Seals(ledger'[b]) = {} /\ accounts'[b].hash = NoHash
                      /\ accounts'[b].status = "reset" =>
                            Seals(ledger'[b]) = {Len(ledger'[b])}
                            /\ accounts'[b].hash = LastHash(ledger'[b])
    BY DEF LedgerInv
  <2>1. CASE b = a
    BY <1>5, <1>6, <1>7, <2>1
  <2>2. CASE b # a
    BY <1>4, <1>7, <1>9, <2>2 DEF LedgerInv
  <2> QED  BY <2>1, <2>2
<1>12. EventWithChange'
  <2>1. {o[2] : o \in outbox'} = {o[2] : o \in outbox} \cup {a}
    BY <1>1, EventAdded
  <2>2. {b \in Accounts : Exists(b)'} = {b \in Accounts : Exists(b)} \cup {a}
    BY <1>9
  <2> QED  BY <1>4, <2>1, <2>2 DEF EventWithChange
<1>13. Commits(p)
  BY <1>1, <1>7 DEF Commits
<1>14. RequestInv'
  BY <1>1, <1>13, CommitHolds
<1> QED  BY <1>8, <1>10, <1>11, <1>12, <1>13, <1>14 DEF TreeInv

\* The seal's entry still follows the last one, for the row was active all the while.
LEMMA ResetCommitStep ==
    ASSUME TreeInv, NEW p \in Requests, ResetCommit(p)
    PROVE  TreeInv' /\ Commits(p)
<1>1. CASE Rollback(p)
  BY <1>1, RollbackInv DEF Commits, Rollback
<1>2. CASE ~Rollback(p)
  <2>0. pc[p] = "create"
    BY DEF ResetCommit
  <2>1. PICK c \in Accounts, amount \in Amounts :
          /\ ~Exists(c)
          /\ accounts' = [accounts EXCEPT ![subject[p]] = Sealed(@, entry[p].hash),
                                          ![c] = Child(p)]
          /\ ledger' = [ledger EXCEPT ![subject[p]] = Append(@, entry[p]),
                                      ![c] = <<NextEntry(c, <<>>, "open", p, amount)>>]
          /\ outbox' = outbox \cup {<<"reset", c>>}
          /\ Done(p)
    BY <1>2 DEF ResetCommit
  <2>2. TreeTypes /\ LedgerInv /\ LineInv /\ EventWithChange /\ Holds(p)
    BY DEF TreeInv, RequestInv
  <2>3. PICK a : a = subject[p]
    OBVIOUS
  <2>4. /\ a \in Accounts /\ Exists(a) /\ accounts[a].status = "active"
        /\ seen[p].root = accounts[a].root /\ seen[p].index = accounts[a].index
        /\ entry[p] = NextEntry(a, ledger[a], "seal", p, "plain")
    BY <2>0, <2>2, <2>3 DEF Holds, InReset, Sealing
  <2>5. /\ entry[p] \in EntryRow /\ entry[p].kind = "seal"
        /\ Linked(a, entry[p], LastHash(ledger[a]))
    BY <2>2, <2>4, NextEntryIs DEF TreeTypes, Kinds, Amounts
  <2>6. Chained(a, ledger[a]) /\ Seals(ledger[a]) = {} /\ ledger[a] \in Seq(EntryRow)
    BY <2>2, <2>4 DEF LedgerInv, TreeTypes
  <2>7. PICK more : more = Append(ledger[a], entry[p])
    OBVIOUS
  <2>8. /\ more \in Seq(EntryRow) /\ Chained(a, more) /\ LastHash(more) = entry[p].hash
        /\ Seals(more) = {Len(more)}
    <3>1. LET new == Append(ledger[a], entry[p]) IN
          /\ new \in Seq(EntryRow) /\ Chained(a, new) /\ LastHash(new) = entry[p].hash
          /\ Seals(new) = Seals(ledger[a]) \cup IF entry[p].kind = "seal" THEN {Len(new)} ELSE {}
      BY <2>4, <2>5, <2>6, ChainGrows
    <3> QED  BY <2>5, <2>6, <2>7, <3>1
  <2>9. PICK sealed : sealed = Sealed(accounts[a], entry[p].hash)
    OBVIOUS
  <2>10. /\ sealed \in Row /\ sealed.status = "reset" /\ sealed.hash = entry[p].hash
         /\ sealed.root = accounts[a].root /\ sealed.index = accounts[a].index
         /\ sealed.parent = accounts[a].parent /\ sealed.version = accounts[a].version + 1
    <3>1. accounts[a] \in Row /\ entry[p].hash \in Hashes
      BY <2>2, <2>4, <2>5 DEF TreeTypes, EntryRow
    <3> QED  BY <2>9, <3>1, SealedIs
  <2>11. PICK child : child = Child(p)
    OBVIOUS
  <2>12. /\ child \in Row /\ child.status = "active" /\ child.hash = NoHash
         /\ child.root = accounts[a].root /\ child.index = accounts[a].index + 1
         /\ child.parent = a
    <3>1. seen[p] \in Row /\ name[p] \in Names \cup {NoAccount}
      BY <2>2 DEF TreeTypes
    <3> QED  BY <2>3, <2>4, <2>11, <3>1 DEF Child, Row
  <2>13. PICK first : first = <<NextEntry(c, <<>>, "open", p, amount)>>
    OBVIOUS
  <2>14. first \in Seq(EntryRow) /\ Chained(c, first) /\ Seals(first) = {}
    BY <2>13, FirstEntry
  <2>15. a # c
    BY <2>1, <2>4
  <2>16. /\ accounts' = [accounts EXCEPT ![a] = sealed, ![c] = child]
         /\ accounts' \in [Accounts -> Row] /\ accounts'[a] = sealed /\ accounts'[c] = child
         /\ \A b \in Accounts \ {a, c} : accounts'[b] = accounts[b]
    BY <2>1, <2>2, <2>3, <2>4, <2>9, <2>10, <2>11, <2>12, <2>15 DEF TreeTypes
  <2>17. /\ ledger' \in [Accounts -> Seq(EntryRow)] /\ ledger'[a] = more /\ ledger'[c] = first
         /\ \A b \in Accounts \ {a, c} : ledger'[b] = ledger[b]
    BY <2>1, <2>2, <2>3, <2>4, <2>7, <2>8, <2>13, <2>14, <2>15 DEF TreeTypes
  <2>18. TreeTypes'
    BY <2>1, <2>2, <2>16, <2>17, DoneIs DEF TreeTypes
  <2>19. Exists(a)' /\ Exists(c)' /\ \A b \in Accounts \ {c} : Exists(b)' <=> Exists(b)
    BY <2>4, <2>10, <2>12, <2>16 DEF Exists
  <2>20. LineInv'
    <3>1. ~Exists(c)
      BY <2>1
    <3>2. accounts' = [accounts EXCEPT ![a] = sealed, ![c] = child]
      BY <2>16
    <3> QED  BY <2>2, <2>4, <2>10, <2>12, <3>1, <3>2, ForkLine
  <2>21. LedgerInv'
    <3> SUFFICES ASSUME NEW b \in Accounts, Exists(b)'
                 PROVE  /\ Chained(b, ledger'[b])
                        /\ accounts'[b].status = "active" =>
                              Seals(ledger'[b]) = {} /\ accounts'[b].hash = NoHash
                        /\ accounts'[b].status = "reset" =>
                              Seals(ledger'[b]) = {Len(ledger'[b])}
                              /\ accounts'[b].hash = LastHash(ledger'[b])
      BY DEF LedgerInv
    <3>1. CASE b = a
      BY <2>8, <2>10, <2>16, <2>17, <3>1
    <3>2. CASE b = c
      BY <2>12, <2>14, <2>16, <2>17, <3>2
    <3>3. CASE b \notin {a, c}
      BY <2>2, <2>16, <2>17, <2>19, <3>3 DEF LedgerInv
    <3> QED  BY <3>1, <3>2, <3>3
  <2>22. EventWithChange'
    <3>1. {o[2] : o \in outbox'} = {o[2] : o \in outbox} \cup {c}
      BY <2>1, EventAdded
    <3>2. {b \in Accounts : Exists(b)'} = {b \in Accounts : Exists(b)} \cup {c}
      BY <2>19
    <3> QED  BY <2>2, <3>1, <3>2 DEF EventWithChange
  <2>23. Commits(p)
    BY <2>0, <2>1, <2>3, <2>4, <2>5, <2>7, <2>10, <2>16, <2>17 DEF Commits
  <2>24. RequestInv'
    BY <2>1, <2>23, CommitHolds
  <2> QED  BY <2>18, <2>20, <2>21, <2>22, <2>23, <2>24 DEF TreeInv
<1> QED  BY <1>1, <1>2

----------------------------------------------------------------------------
(* The account tree. *)

LEMMA TreeInit == Init => TreeInv
<1> SUFFICES ASSUME Init  PROVE TreeInv
  OBVIOUS
<1>1. \A a \in Accounts : ~Exists(a)
  BY AbsentIs DEF Init, Exists
<1>2. TreeTypes
  BY AbsentIs DEF Init, TreeTypes, Places
<1>3. \A p \in Requests : pc[p] = "idle"
  BY DEF Init
<1>4. RequestInv
  BY <1>3 DEF RequestInv, Holds, InReset, Sealing
<1>5. LedgerInv /\ Rooted
  BY <1>1 DEF LedgerInv, Rooted
<1>6. ASSUME NEW r \in Accounts
      PROVE  Line(r)
  <2>1. Tree(r) = {}
    BY <1>1 DEF Tree
  <2>2. IsFiniteSet({}) /\ Cardinality({}) = 0
    BY FS_EmptySet
  <2>3. IsLine(accounts, {}, 0)
    BY DEF IsLine
  <2> QED  BY <2>1, <2>2, <2>3 DEF Line
<1>7. EventWithChange
  BY <1>1 DEF Init, EventWithChange
<1> QED  BY <1>2, <1>4, <1>5, <1>6, <1>7 DEF TreeInv, LineInv

LEMMA RequestStep ==
    ASSUME TreeInv, NEW p \in Requests, Request(p)
    PROVE  TreeInv' /\ Commits(p)
<1>1. CASE OpenAccount(p)
  <2>1. CASE \E n \in Names : OpenCheck(p, n)
    BY <2>1, OpenCheckInv DEF OpenCheck, Commits
  <2> QED  BY <1>1, <2>1, OpenStep DEF OpenAccount
<1>2. CASE ResetAccount(p)
  <2>1. CASE \E a \in Accounts, n \in Names : ResetLoad(p, a, n)
    BY <2>1, ResetLoadInv DEF ResetLoad, Commits
  <2>2. CASE ResetLast(p)
    BY <2>2, ResetLastInv DEF ResetLast, Commits
  <2>3. CASE ResetAppend(p)
    BY <2>3, ResetAppendInv DEF ResetAppend, Rollback, Commits
  <2>4. CASE ResetSeal(p)
    BY <2>4, ResetSealInv DEF ResetSeal, Rollback, Commits
  <2> QED  BY <1>2, <2>1, <2>2, <2>3, <2>4, ResetCommitStep DEF ResetAccount
<1>3. CASE Verify(p)
  <2>1. CASE \E a \in Accounts : VerifyLoad(p, a)
    BY <2>1, VerifyLoadInv DEF VerifyLoad, Commits
  <2>2. CASE VerifyRead(p)
    BY <2>2, VerifyReadInv DEF VerifyRead, Commits
  <2> QED  BY <1>3, <2>1, <2>2 DEF Verify
<1>4. CASE Abort(p)
  BY <1>4, RollbackInv DEF Abort, Rollback, Commits
<1> QED  BY <1>1, <1>2, <1>3, <1>4 DEF Request

LEMMA TreeStep ==
    ASSUME TreeInv, [Next]_vars
    PROVE  TreeInv'
<1>1. CASE Next
  BY <1>1, RequestStep DEF Next
<1>2. CASE UNCHANGED vars
  <2>1. UNCHANGED <<accounts, ledger, outbox, pc, subject, seen, entry, name>>
    BY <1>2 DEF vars
  <2>2. TreeTypes' /\ LineInv' /\ EventWithChange'
    BY <2>1, LineIsKept DEF TreeInv, TreeTypes, EventWithChange, Exists
  <2>3. LedgerInv'
    BY <2>1 DEF TreeInv, LedgerInv, Exists, Chained, Seals
  <2>4. RequestInv'
    BY <2>1 DEF TreeInv, RequestInv, Holds, Exists, RoundedIn, RoundedAway
  <2> QED  BY <2>2, <2>3, <2>4 DEF TreeInv
<1> QED  BY <1>1, <1>2

LEMMA TreeInvariant == Spec => []TreeInv
<1>1. TreeInv /\ [Next]_vars => TreeInv'
  BY TreeStep
<1> QED  BY <1>1, TreeInit, PTL DEF Spec

\* Every variable of the account desk keeps its type.
THEOREM TreeTypesKept == Spec => []TreeTypes
<1>1. TreeInv => TreeTypes
  BY DEF TreeInv
<1> QED  BY <1>1, TreeInvariant, PTL

\* However many requests reset one iteration at once, a tree is one line of iterations
\* of which only the last is active.
THEOREM ResetTreesAreLines == Spec => []TreeIsALine
<1>1. TreeInv => TreeIsALine
  <2> SUFFICES ASSUME TreeInv, NEW a \in Accounts, Exists(a)
               PROVE  LET tree == Tree(accounts[a].root)
                          n == Cardinality(tree) IN
                      /\ {accounts[b].index : b \in tree} = 1 .. n
                      /\ \A b \in tree : (accounts[b].status = "active") <=> (accounts[b].index = n)
                      /\ \A b \in tree : accounts[b].index > 1 =>
                            /\ accounts[b].parent \in tree
                            /\ accounts[accounts[b].parent].index = accounts[b].index - 1
    BY DEF TreeIsALine
  <2>1. Line(accounts[a].root)
    BY DEF TreeInv, LineInv, Rooted
  <2> QED  BY <2>1, Zenon DEF Line, IsLine
<1> QED  BY <1>1, TreeInvariant, PTL

\* A seal is the last entry of its ledger and its hash the one the row attests, and
\* an active iteration has none, whoever appends or rolls back meanwhile.
THEOREM SealsAttest == Spec => []SealAttestsLedger
<1>1. TreeInv => SealAttestsLedger
  <2> SUFFICES ASSUME TreeInv, NEW a \in Accounts, Exists(a)
               PROVE  IF accounts[a].status = "reset"
                      THEN Seals(ledger[a]) = {Len(ledger[a])} /\ accounts[a].hash = LastHash(ledger[a])
                      ELSE Seals(ledger[a]) = {} /\ accounts[a].hash = NoHash
    BY DEF SealAttestsLedger, Seals
  <2>1. accounts[a].status \in {"active", "reset"}
    BY DEF TreeInv, TreeTypes, Row, Exists
  <2> QED  BY <2>1 DEF TreeInv, LedgerInv
<1> QED  BY <1>1, TreeInvariant, PTL

\* A verification, even one that reads the row before a reset commits and the entries
\* after it, reports a broken ledger only where the columns rounded an amount that had
\* been hashed: neither a racing reset nor a rolled back one ever looks like tampering.
THEOREM NoFalseAlarm == Spec => []AlarmsOnlyOnRounding
<1>1. TreeInv => AlarmsOnlyOnRounding
  BY DEF TreeInv, RequestInv, Holds, RoundedIn, AlarmsOnlyOnRounding
<1> QED  BY <1>1, TreeInvariant, PTL

\* The outbox tells of exactly the accounts that exist: a transaction commits both or
\* neither.
THEOREM EventsMatchAccounts == Spec => []EventWithChange
<1>1. TreeInv => EventWithChange
  BY DEF TreeInv
<1> QED  BY <1>1, TreeInvariant, PTL

\* No step of any request changes a sealed iteration or its ledger (BR-07).
THEOREM SealedStaysSealed == Spec => SealedIsReadOnly
<1>1. TreeInv /\ [Next]_vars =>
        [\A a \in Accounts : accounts[a].status = "reset" =>
            accounts'[a] = accounts[a] /\ ledger'[a] = ledger[a]]_vars
  <2> SUFFICES ASSUME TreeInv, [Next]_vars, NEW a \in Accounts, accounts[a].status = "reset"
               PROVE  accounts'[a] = accounts[a] /\ ledger'[a] = ledger[a]
    OBVIOUS
  <2>1. CASE UNCHANGED vars
    BY <2>1 DEF vars
  <2>2. CASE Next
    <3>1. PICK p \in Requests : Request(p)
      BY <2>2 DEF Next
    <3>2. Commits(p)
      BY <3>1, RequestStep
    <3> QED  BY <3>2 DEF Commits, Exists
  <2> QED  BY <2>1, <2>2
<1> QED  BY <1>1, TreeInvariant, PTL DEF Spec, SealedIsReadOnly

----------------------------------------------------------------------------
(* Sessions beside the tree. *)

USE OpeningAssumption

TradeEvents == {"started", "closed", "abandoned"} \X Sessions
SessionRow == [status : {"none", "open", "paused", "closed", "abandoned"},
               account : Accounts \cup {NoAccount}, read : Nat]
StartRow == [at : {"idle", "live", "feed", "create"},
             account : Accounts \cup {NoAccount}, read : Nat]

OpeningTypes ==
    /\ session \in [Sessions -> SessionRow]
    /\ start \in [Starters -> StartRow]
    /\ selected \subseteq Sessions
    /\ hand \in [Actors -> SUBSET TradeEvents]
    /\ told \subseteq TradeEvents /\ lost \subseteq TradeEvents

\* An account was read, and was active then: by now it may only have been sealed.
ReadActive(a, version) ==
    /\ a \in Accounts /\ Exists(a)
    /\ version <= accounts[a].version
    /\ accounts[a].status = "active" \/ version < accounts[a].version

Born(s) == session[s].status # "none"

\* Whoever is about to put an event in its hand has none there.
HandsFree ==
    /\ \A q \in Starters : start[q].at # "idle" => hand[q] = {}
    /\ selected # {} => hand[Sweeper] = {}

SessionInv ==
    /\ \A s \in Sessions :
        /\ ~Born(s) => session[s] = Unborn
        /\ Born(s) => ReadActive(session[s].account, session[s].read)
        /\ s \in selected => Born(s)
    /\ \A s, t \in Sessions :
          Live(s) /\ Live(t) /\ session[s].account = session[t].account => s = t
    /\ \A q \in Starters : start[q].at # "idle" => ReadActive(start[q].account, start[q].read)

ToldInv ==
    /\ \A s \in Sessions :
        /\ Born(s) => Told(<<"started", s>>)
        /\ \A end \in {"closed", "abandoned"} : session[s].status = end => Told(<<end, s>>)
    /\ \A e \in TradeEvents : Told(e) => Born(e[2])

OpeningInv == OpeningTypes /\ HandsFree /\ SessionInv /\ ToldInv

\* A step of the desk can only seal what was read active, and then the version tells.
LEMMA DeskStep ==
    ASSUME TreeInv, OpeningInv, Next, UNCHANGED openingVars
    PROVE  OpeningInv'
<1>1. PICK p \in Requests : Request(p)
  BY DEF Next
<1>2. Commits(p) /\ TreeTypes
  BY <1>1, RequestStep DEF TreeInv
<1>3. UNCHANGED <<session, start, selected, hand, told, lost>>
  BY DEF openingVars
<1>4. ASSUME NEW a, NEW v \in Nat, ReadActive(a, v)
      PROVE  ReadActive(a, v)'
  <2>1. a \in Accounts /\ Exists(a) /\ accounts[a].version \in Nat
    BY <1>2, <1>4 DEF ReadActive, TreeTypes, Row
  <2>2. \/ accounts'[a] = accounts[a]
        \/ accounts'[a].status = "reset" /\ accounts'[a].version = accounts[a].version + 1
    BY <1>2, <2>1 DEF Commits
  <2> QED  BY <1>4, <2>1, <2>2 DEF ReadActive, Exists
<1>5. OpeningTypes' /\ HandsFree' /\ ToldInv'
  BY <1>3 DEF OpeningInv, OpeningTypes, HandsFree, ToldInv, Told, Born
<1>6. SessionInv'
  <2>1. \A s \in Sessions : session[s].read \in Nat
    BY DEF OpeningInv, OpeningTypes, SessionRow
  <2>2. \A q \in Starters : start[q].read \in Nat
    BY DEF OpeningInv, OpeningTypes, StartRow
  <2> QED  BY <1>3, <1>4, <2>1, <2>2 DEF OpeningInv, SessionInv, Born, Live
<1> QED  BY <1>5, <1>6 DEF OpeningInv

\* The events known of, when an actor that had none in hand takes some up.
LEMMA TakesUp ==
    ASSUME OpeningTypes, NEW p \in Actors, hand[p] = {}, NEW new,
           hand' = [hand EXCEPT ![p] = new], UNCHANGED <<told, lost>>
    PROVE  /\ hand'[p] = new /\ \A o \in Actors : o # p => hand'[o] = hand[o]
           /\ \A e : Told(e)' <=> Told(e) \/ e \in new
<1>1. hand'[p] = new /\ \A o \in Actors : o # p => hand'[o] = hand[o]
  BY DEF OpeningTypes
<1> QED  BY <1>1 DEF Told

\* What a request knows of its account, while only sessions and events change.
LEMMA SameReading ==
    ASSUME UNCHANGED vars
    PROVE  \A a, v : ReadActive(a, v)' <=> ReadActive(a, v)
BY DEF vars, ReadActive, Exists

\* The steps of Start before its insert.
LEMMA StartMoves ==
    ASSUME OpeningInv, UNCHANGED vars, NEW q \in Starters, NEW row \in StartRow,
           hand[q] = {}, row.at # "idle" => ReadActive(row.account, row.read),
           start' = [start EXCEPT ![q] = row],
           UNCHANGED <<session, selected, hand, told, lost>>
    PROVE  OpeningInv'
<1>1. OpeningTypes /\ HandsFree /\ SessionInv /\ ToldInv
  BY DEF OpeningInv
<1>2. start'[q] = row /\ \A o \in Starters : o # q => start'[o] = start[o]
  BY <1>1 DEF OpeningTypes
<1>3. OpeningTypes'
  BY <1>1 DEF OpeningTypes
<1>4. HandsFree'
  BY <1>1, <1>2 DEF HandsFree
<1>5. SessionInv'
  BY <1>1, <1>2, SameReading DEF SessionInv, Born, Live
<1>6. ToldInv'
  BY <1>1 DEF ToldInv, Told, Born
<1> QED  BY <1>3, <1>4, <1>5, <1>6 DEF OpeningInv

LEMMA NoStartIs == NoStart \in StartRow /\ NoStart.at = "idle"
BY DEF NoStart, StartRow

LEMMA StartCheckAccountInv ==
    ASSUME TreeInv, OpeningInv, UNCHANGED vars, NEW q \in Starters, NEW a \in Accounts,
           StartCheckAccount(q, a)
    PROVE  OpeningInv'
<1> DEFINE row == [at |-> "live", account |-> a, read |-> accounts[a].version]
<1>1. accounts[a].version \in Nat /\ accounts[a].status = "active"
  BY DEF TreeInv, TreeTypes, Row, StartCheckAccount
<1>2. row \in StartRow /\ ReadActive(row.account, row.read)
  BY <1>1 DEF StartRow, ReadActive, Exists
<1>3. /\ hand[q] = {} /\ start' = [start EXCEPT ![q] = row]
      /\ UNCHANGED <<session, selected, hand, told, lost>>
  BY DEF StartCheckAccount
<1> HIDE DEF row
<1> QED  BY <1>2, <1>3, StartMoves

\* Both reads that follow keep what was read first, or give the start up.
LEMMA StartReadsInv ==
    ASSUME OpeningInv, UNCHANGED vars, NEW q \in Starters, StartCheckLive(q) \/ StartGetFeed(q)
    PROVE  OpeningInv'
<1>1. /\ start[q].at # "idle" /\ UNCHANGED <<session, selected, hand, told, lost>>
      /\ \/ start' = [start EXCEPT ![q] = NoStart]
         \/ \E at \in {"feed", "create"} : start' = [start EXCEPT ![q].at = at]
  BY DEF StartCheckLive, StartGetFeed, Refuse
<1>2. hand[q] = {} /\ start[q] \in StartRow /\ ReadActive(start[q].account, start[q].read)
  BY <1>1 DEF OpeningInv, OpeningTypes, HandsFree, SessionInv
<1>3. CASE start' = [start EXCEPT ![q] = NoStart]
  BY <1>1, <1>2, <1>3, NoStartIs, StartMoves
<1>4. ASSUME NEW at \in {"feed", "create"}, start' = [start EXCEPT ![q].at = at]
      PROVE  OpeningInv'
  <2>1. PICK row : row = [start[q] EXCEPT !.at = at]
    OBVIOUS
  <2>2. row \in StartRow /\ row.account = start[q].account /\ row.read = start[q].read
    BY <1>2, <2>1 DEF StartRow
  <2>3. start' = [start EXCEPT ![q] = row]
    BY <1>4, <2>1
  <2> QED  BY <1>1, <1>2, <2>2, <2>3, StartMoves
<1> QED  BY <1>1, <1>3, <1>4

\* The insert: the index lets it in only where no other session is live.
LEMMA StartCreateInv ==
    ASSUME OpeningInv, UNCHANGED vars, NEW q \in Starters, StartCreate(q)
    PROVE  OpeningInv'
<1>1. /\ OpeningTypes /\ HandsFree /\ SessionInv /\ ToldInv
      /\ start[q].at # "idle" /\ hand[q] = {} /\ q \in Actors
      /\ start' = [start EXCEPT ![q] = NoStart] /\ UNCHANGED <<selected, told, lost>>
  BY DEF OpeningInv, HandsFree, StartCreate, Refuse, Actors
<1>2. CASE UNCHANGED <<session, hand>>
  BY <1>1, <1>2, NoStartIs, StartMoves
<1>3. CASE ~UNCHANGED <<session, hand>>
  <2>1. PICK account, version : account = start[q].account /\ version = start[q].read
    OBVIOUS
  <2>2. PICK s \in Sessions :
          /\ LiveOn(account) = {} /\ session[s] = Unborn
          /\ session' = [session EXCEPT ![s] =
                [status |-> "open", account |-> account, read |-> version]]
          /\ hand' = [hand EXCEPT ![q] = {<<"started", s>>}]
    BY <1>3, <2>1 DEF StartCreate, Indexed
  <2>3. ReadActive(account, version) /\ account \in Accounts /\ version \in Nat
    BY <1>1, <2>1 DEF SessionInv, ReadActive, OpeningTypes, StartRow
  <2>4. PICK row : row = [status |-> "open", account |-> account, read |-> version]
    OBVIOUS
  <2>5. row \in SessionRow /\ row.status = "open" /\ row.account = account /\ row.read = version
    BY <2>3, <2>4 DEF SessionRow
  <2>6. /\ session' \in [Sessions -> SessionRow] /\ session'[s] = row
        /\ \A t \in Sessions : t # s => session'[t] = session[t]
    BY <1>1, <2>2, <2>4, <2>5 DEF OpeningTypes
  <2>7. /\ start' \in [Starters -> StartRow]
        /\ start'[q].at = "idle" /\ \A o \in Starters : o # q => start'[o] = start[o]
    BY <1>1, NoStartIs DEF OpeningTypes
  <2>8. /\ \A o \in Actors : o # q => hand'[o] = hand[o]
        /\ hand'[q] = {<<"started", s>>}
        /\ \A e : Told(e)' <=> Told(e) \/ e \in {<<"started", s>>}
    BY <1>1, <2>2, TakesUp
  <2>9. OpeningTypes'
    BY <1>1, <2>2, <2>6, <2>7 DEF OpeningTypes, TradeEvents
  <2>10. HandsFree'
    BY <1>1, <2>7, <2>8 DEF HandsFree, Actors
  <2>11. \A t \in Sessions : Live(t) => session[t].account # account
    BY <2>2 DEF LiveOn
  <2>12. SessionInv'
    BY <1>1, <2>3, <2>5, <2>6, <2>7, <2>11, SameReading DEF SessionInv, Born, Live
  <2>13. ToldInv'
    <3>1. <<"started", s>>[2] = s
      OBVIOUS
    <3>2. \A t \in Sessions : /\ Born(t)' <=> Born(t) \/ t = s
                              /\ t # s => session'[t].status = session[t].status
      BY <2>5, <2>6 DEF Born
    <3>3. session'[s].status = "open"
      BY <2>5, <2>6
    <3>4. \A e \in TradeEvents : e[2] \in Sessions
      BY DEF TradeEvents
    <3> QED  BY <1>1, <2>8, <3>1, <3>2, <3>3, <3>4 DEF ToldInv
  <2> QED  BY <2>9, <2>10, <2>12, <2>13 DEF OpeningInv
<1> QED  BY <1>2, <1>3

\* A session's row moves on from live to another status.
LEMMA StatusMoves ==
    ASSUME OpeningTypes, NEW s \in Sessions, NEW st \in {"open", "paused", "closed"},
           session' = [session EXCEPT ![s].status = st]
    PROVE  /\ session' \in [Sessions -> SessionRow]
           /\ session'[s].status = st /\ session'[s].account = session[s].account
           /\ session'[s].read = session[s].read
           /\ \A t \in Sessions : t # s => session'[t] = session[t]
<1>1. PICK row : row = [session[s] EXCEPT !.status = st]
  OBVIOUS
<1>2. session[s] \in SessionRow
  BY DEF OpeningTypes
<1>3. /\ row \in SessionRow /\ row.status = st
      /\ row.account = session[s].account /\ row.read = session[s].read
  BY <1>1, <1>2 DEF SessionRow
<1>4. session' = [session EXCEPT ![s] = row]
  BY <1>1
<1> QED  BY <1>3, <1>4 DEF OpeningTypes

LEMMA PauseResumeInv ==
    ASSUME OpeningInv, UNCHANGED vars, NEW s \in Sessions, Pause(s) \/ Resume(s)
    PROVE  OpeningInv'
<1>1. PICK st \in {"open", "paused"} :
        /\ session' = [session EXCEPT ![s].status = st]
        /\ session[s].status \in {"open", "paused"}
        /\ UNCHANGED <<start, selected, hand, told, lost>>
  BY DEF Pause, Resume
<1>2. OpeningTypes /\ HandsFree /\ SessionInv /\ ToldInv
  BY DEF OpeningInv
<1>3. /\ session' \in [Sessions -> SessionRow]
      /\ session'[s].status = st /\ session'[s].account = session[s].account
      /\ session'[s].read = session[s].read
      /\ \A t \in Sessions : t # s => session'[t] = session[t]
  BY <1>1, <1>2, StatusMoves
<1>4. OpeningTypes' /\ HandsFree'
  BY <1>1, <1>2, <1>3 DEF OpeningTypes, HandsFree
<1>5. SessionInv'
  BY <1>1, <1>2, <1>3, SameReading DEF SessionInv, Born, Live
<1>6. \A e : Told(e)' <=> Told(e)
  BY <1>1 DEF Told
<1>7. \A t \in Sessions : Born(t)' <=> Born(t)
  BY <1>1, <1>3 DEF Born
<1>8. ToldInv'
  <2>1. \A e \in TradeEvents : e[2] \in Sessions
    BY DEF TradeEvents
  <2> QED  BY <1>1, <1>2, <1>3, <1>6, <1>7, <2>1 DEF ToldInv
<1> QED  BY <1>4, <1>5, <1>8 DEF OpeningInv

LEMMA CloseInv ==
    ASSUME OpeningInv, UNCHANGED vars, NEW s \in Sessions, Close(s)
    PROVE  OpeningInv'
<1>1. /\ session' = [session EXCEPT ![s].status = "closed"]
      /\ session[s].status \in {"open", "paused"} /\ hand[Closer] = {} /\ Closer \in Actors
      /\ hand' = [hand EXCEPT ![Closer] = {<<"closed", s>>}]
      /\ UNCHANGED <<start, selected, told, lost>>
  BY DEF Close, Live, Actors
<1>2. OpeningTypes /\ HandsFree /\ SessionInv /\ ToldInv
  BY DEF OpeningInv
<1>3. /\ session' \in [Sessions -> SessionRow]
      /\ session'[s].status = "closed" /\ session'[s].account = session[s].account
      /\ session'[s].read = session[s].read
      /\ \A t \in Sessions : t # s => session'[t] = session[t]
  BY <1>1, <1>2, StatusMoves
<1>4. /\ \A o \in Actors : o # Closer => hand'[o] = hand[o]
      /\ \A e : Told(e)' <=> Told(e) \/ e \in {<<"closed", s>>}
  BY <1>1, <1>2, TakesUp
<1>5. OpeningTypes'
  BY <1>1, <1>2, <1>3 DEF OpeningTypes, TradeEvents
<1>6. HandsFree'
  BY <1>1, <1>2, <1>4 DEF HandsFree, Actors
<1>7. SessionInv'
  BY <1>1, <1>2, <1>3, SameReading DEF SessionInv, Born, Live
<1>8. ToldInv'
  <2>1. \A e \in TradeEvents : e[2] \in Sessions
    BY DEF TradeEvents
  <2>2. \A t \in Sessions : Born(t)' <=> Born(t)
    BY <1>1, <1>3 DEF Born
  <2>3. <<"closed", s>>[2] = s /\ Born(s)
    BY <1>1 DEF Born
  <2> QED  BY <1>2, <1>3, <1>4, <2>1, <2>2, <2>3 DEF ToldInv
<1> QED  BY <1>5, <1>6, <1>7, <1>8 DEF OpeningInv

LEMMA SweepSelectInv ==
    ASSUME OpeningInv, UNCHANGED vars, SweepSelect
    PROVE  OpeningInv'
<1>1. PICK idle \in SUBSET {s \in Sessions : Live(s)} : selected' = idle
  BY DEF SweepSelect
<1>2. hand[Sweeper] = {} /\ UNCHANGED <<session, start, hand, told, lost>>
  BY DEF SweepSelect
<1>3. OpeningTypes /\ HandsFree /\ SessionInv /\ ToldInv
  BY DEF OpeningInv
<1>4. \A s \in selected' : s \in Sessions /\ Born(s)
  BY <1>1 DEF Live, Born
<1>5. OpeningTypes' /\ HandsFree'
  BY <1>2, <1>3, <1>4 DEF OpeningTypes, HandsFree
<1>6. SessionInv'
  BY <1>2, <1>3, <1>4, SameReading DEF SessionInv, Born, Live
<1>7. ToldInv'
  BY <1>2, <1>3 DEF ToldInv, Told, Born
<1> QED  BY <1>5, <1>6, <1>7 DEF OpeningInv

\* The update ends whatever was selected, even what has ended meanwhile.
LEMMA SweepFlipInv ==
    ASSUME OpeningInv, UNCHANGED vars, SweepFlip
    PROVE  OpeningInv'
<1> DEFINE over == {<<"abandoned", s>> : s \in selected}
<1>1. /\ session' = [s \in Sessions |-> IF s \in selected
                        THEN [session[s] EXCEPT !.status = "abandoned"] ELSE session[s]]
      /\ hand' = [hand EXCEPT ![Sweeper] = over]
      /\ selected # {} /\ selected' = {} /\ UNCHANGED <<start, told, lost>>
  BY DEF SweepFlip
<1>2. OpeningTypes /\ HandsFree /\ SessionInv /\ ToldInv
  BY DEF OpeningInv
<1>3. Sweeper \in Actors /\ hand[Sweeper] = {}
  BY <1>1, <1>2 DEF Actors, HandsFree
<1>4. over \subseteq TradeEvents
  BY <1>2 DEF OpeningTypes, TradeEvents
<1>5. ASSUME NEW s \in Sessions
      PROVE  /\ session'[s] \in SessionRow
             /\ session'[s].account = session[s].account /\ session'[s].read = session[s].read
             /\ session'[s].status = IF s \in selected THEN "abandoned" ELSE session[s].status
             /\ s \notin selected => session'[s] = session[s]
  <2>1. session[s] \in SessionRow
    BY <1>2 DEF OpeningTypes
  <2>2. PICK row : row = [session[s] EXCEPT !.status = "abandoned"]
    OBVIOUS
  <2>3. row \in SessionRow /\ row.status = "abandoned" /\ row.account = session[s].account
        /\ row.read = session[s].read
    BY <2>1, <2>2 DEF SessionRow
  <2>4. session'[s] = IF s \in selected THEN row ELSE session[s]
    BY <1>1, <2>2
  <2> QED  BY <2>1, <2>3, <2>4
<1>6. session' \in [Sessions -> SessionRow]
  BY <1>1, <1>5
<1>7. /\ \A o \in Actors : o # Sweeper => hand'[o] = hand[o]
      /\ hand'[Sweeper] = over
      /\ \A e : Told(e)' <=> Told(e) \/ e \in over
  BY <1>1, <1>2, <1>3, TakesUp
<1>8. OpeningTypes'
  BY <1>1, <1>2, <1>4, <1>6 DEF OpeningTypes
<1>9. HandsFree'
  BY <1>1, <1>2, <1>7 DEF HandsFree, Actors
<1>10. \A s \in Sessions : /\ Born(s)' <=> Born(s)
                           /\ Live(s)' => Live(s)
  BY <1>2, <1>5 DEF Born, Live, SessionInv
<1>11. SessionInv'
  BY <1>1, <1>2, <1>5, <1>10, SameReading DEF SessionInv, Born
<1>12. ToldInv'
  <2>1. \A e \in TradeEvents : e[2] \in Sessions
    BY DEF TradeEvents
  <2>2. \A e \in over : e[2] \in Sessions /\ Born(e[2])
    BY <1>2 DEF SessionInv, OpeningTypes
  <2>3. ASSUME NEW s \in Sessions, NEW end \in {"closed", "abandoned"}, session'[s].status = end
        PROVE  Told(<<end, s>>)'
    <3>1. CASE s \in selected
      <4>1. end = "abandoned" /\ <<end, s>> \in over
        BY <1>5, <2>3, <3>1
      <4> QED  BY <1>7, <4>1
    <3>2. CASE s \notin selected
      <4>1. Told(<<end, s>>)
        BY <1>2, <1>5, <2>3, <3>2 DEF ToldInv
      <4> QED  BY <1>7, <4>1
    <3> QED  BY <3>1, <3>2
  <2> HIDE DEF over
  <2> QED  BY <1>2, <1>7, <1>10, <2>1, <2>2, <2>3 DEF ToldInv
<1> QED  BY <1>8, <1>9, <1>11, <1>12 DEF OpeningInv

\* Events are written or lost, but none is forgotten and none invented.
LEMMA EventsInv ==
    ASSUME OpeningInv, UNCHANGED vars, NEW p \in Actors,
           \/ \E e \in hand[p] : Emit(p, e) \/ EmitFails(p, e)
           \/ Die(p)
    PROVE  OpeningInv'
<1>1. OpeningTypes /\ HandsFree /\ SessionInv /\ ToldInv
  BY DEF OpeningInv
<1>2. PICK left \in SUBSET hand[p] :
        /\ hand' = [hand EXCEPT ![p] = left]
        /\ told' \cup lost' = told \cup lost \cup (hand[p] \ left)
        /\ told' \subseteq told \cup hand[p] /\ lost' \subseteq lost \cup hand[p]
  <2>1. ASSUME NEW e \in hand[p], Emit(p, e) \/ EmitFails(p, e)
        PROVE  LET left == hand[p] \ {e} IN
               /\ hand' = [hand EXCEPT ![p] = left]
               /\ told' \cup lost' = told \cup lost \cup (hand[p] \ left)
               /\ told' \subseteq told \cup hand[p] /\ lost' \subseteq lost \cup hand[p]
    BY <2>1 DEF Emit, EmitFails
  <2>2. CASE Die(p)
    <3>1. /\ hand' = [hand EXCEPT ![p] = {}]
          /\ told' \cup lost' = told \cup lost \cup (hand[p] \ {})
          /\ told' \subseteq told \cup hand[p] /\ lost' \subseteq lost \cup hand[p]
      BY <2>2 DEF Die
    <3> QED  BY <3>1
  <2> QED  BY <2>1, <2>2
<1>3. UNCHANGED <<session, start, selected>>
  BY DEF Emit, EmitFails, Die
<1>4. hand'[p] = left /\ \A o \in Actors : o # p => hand'[o] = hand[o]
  BY <1>1, <1>2 DEF OpeningTypes
<1>5. hand[p] \subseteq TradeEvents
  BY <1>1 DEF OpeningTypes
<1>6. OpeningTypes'
  BY <1>1, <1>2, <1>3, <1>5 DEF OpeningTypes
<1>7. HandsFree'
  <2>1. \A o \in Actors : hand[o] = {} => hand'[o] = {}
    BY <1>4
  <2> QED  BY <1>1, <1>3, <2>1 DEF HandsFree, Actors
<1>8. SessionInv'
  BY <1>1, <1>3, SameReading DEF SessionInv, Born, Live
<1>9. ASSUME NEW e
      PROVE  Told(e)' <=> Told(e)
  <2>1. e \in told' \cup lost' <=> e \in told \cup lost \/ e \in hand[p] \ left
    BY <1>2
  <2> QED  BY <1>4, <2>1 DEF Told
<1>10. ToldInv'
  BY <1>1, <1>3, <1>9 DEF ToldInv, Born
<1> QED  BY <1>6, <1>7, <1>8, <1>10 DEF OpeningInv

----------------------------------------------------------------------------
(* The desk and the sessions together. *)

LEMMA OpeningStarts == OpeningInit => OpeningInv
<1> SUFFICES ASSUME OpeningInit  PROVE OpeningInv
  OBVIOUS
<1>1. Unborn \in SessionRow /\ Unborn.status = "none"
  BY DEF Unborn, SessionRow
<1>2. OpeningTypes
  BY <1>1, NoStartIs DEF OpeningInit, OpeningTypes
<1>3. /\ \A s \in Sessions : session[s] = Unborn /\ ~Born(s) /\ ~Live(s)
      /\ \A q \in Starters : start[q].at = "idle"
      /\ \A p \in Actors : hand[p] = {}
      /\ selected = {} /\ told = {} /\ lost = {}
  BY <1>1, NoStartIs DEF OpeningInit, Born, Live
<1>4. HandsFree /\ SessionInv
  BY <1>3 DEF HandsFree, SessionInv
<1>5. ToldInv
  BY <1>3 DEF ToldInv, Told, Born
<1> QED  BY <1>2, <1>4, <1>5 DEF OpeningInv

LEMMA OpeningStep ==
    ASSUME TreeInv, OpeningInv, OpeningNext, UNCHANGED vars
    PROVE  OpeningInv'
<1>1. ASSUME NEW q \in Starters,
             \/ \E a \in Accounts : StartCheckAccount(q, a)
             \/ StartCheckLive(q) \/ StartGetFeed(q) \/ StartCreate(q)
      PROVE  OpeningInv'
  BY <1>1, StartCheckAccountInv, StartReadsInv, StartCreateInv
<1>2. ASSUME NEW s \in Sessions, Pause(s) \/ Resume(s) \/ Close(s)
      PROVE  OpeningInv'
  BY <1>2, PauseResumeInv, CloseInv
<1>3. CASE SweepSelect \/ SweepFlip
  BY <1>3, SweepSelectInv, SweepFlipInv
<1>4. ASSUME NEW p \in Actors,
             \/ \E e \in hand[p] : Emit(p, e) \/ EmitFails(p, e)
             \/ Die(p)
      PROVE  OpeningInv'
  BY <1>4, EventsInv
<1> QED  BY <1>1, <1>2, <1>3, <1>4 DEF OpeningNext

\* The sessions only read the account desk: beside them it behaves as it does alone, so
\* every theorem about Spec holds of the two together.
THEOREM DeskIsUntouched == TradeSpec => Spec
<1>1. [TradeNext]_<<vars, openingVars>> => [Next]_vars
  BY DEF TradeNext
<1>2. TradeInit => Init
  BY DEF TradeInit
<1> QED  BY <1>1, <1>2, PTL DEF TradeSpec, Spec

LEMMA OpeningInvariant == TradeSpec => []OpeningInv
<1>1. TradeInit => OpeningInv
  BY OpeningStarts DEF TradeInit
<1>2. TreeInv /\ OpeningInv /\ [TradeNext]_<<vars, openingVars>> => OpeningInv'
  <2> SUFFICES ASSUME TreeInv, OpeningInv, [TradeNext]_<<vars, openingVars>>
               PROVE  OpeningInv'
    OBVIOUS
  <2>1. CASE Next /\ UNCHANGED openingVars
    BY <2>1, DeskStep
  <2>2. CASE OpeningNext /\ UNCHANGED vars
    BY <2>2, OpeningStep
  <2>3. CASE UNCHANGED <<vars, openingVars>>
    <3>1. UNCHANGED vars /\ UNCHANGED <<session, start, selected, hand, told, lost>>
      BY <2>3 DEF openingVars
    <3>2. OpeningTypes' /\ HandsFree' /\ ToldInv'
      BY <3>1 DEF OpeningInv, OpeningTypes, HandsFree, ToldInv, Told, Born
    <3>3. SessionInv'
      BY <3>1, SameReading DEF OpeningInv, SessionInv, Born, Live
    <3> QED  BY <3>2, <3>3 DEF OpeningInv
  <2> QED  BY <2>1, <2>2, <2>3 DEF TradeNext
<1> QED  BY <1>1, <1>2, DeskIsUntouched, TreeInvariant, PTL DEF TradeSpec

\* Of all the requests that pass Start's own check for one account, at most one opens a
\* session before the live one has ended: the partial unique index decides.
THEOREM OneLiveSession == TradeSpec => []OneLivePerAccount
<1>1. OpeningInv => OneLivePerAccount
  <2> SUFFICES ASSUME OpeningInv, NEW a \in Accounts
               PROVE  Cardinality(LiveOn(a)) <= 1
    BY DEF OneLivePerAccount
  <2>1. \A s, t \in LiveOn(a) : s = t
    BY DEF OpeningInv, SessionInv, LiveOn
  <2>2. CASE LiveOn(a) = {}
    BY <2>2, FS_EmptySet
  <2>3. CASE LiveOn(a) # {}
    <3>1. PICK s : LiveOn(a) = {s}
      BY <2>1, <2>3
    <3>2. Cardinality({s}) = 1
      BY FS_Singleton
    <3> QED  BY <3>1, <3>2
  <2> QED  BY <2>2, <2>3
<1> QED  BY <1>1, OpeningInvariant, PTL

\* A session is on a sealed iteration only if that iteration was active when Start read
\* it: BR-09 can be missed by a race, never by a check.
THEOREM SealedOnlyByRace == TradeSpec => []SealedStartsOnlyByRace
<1>1. OpeningInv => SealedStartsOnlyByRace
  <2> SUFFICES ASSUME OpeningInv, NEW s \in Sessions, session[s] # Unborn
               PROVE  \/ accounts[session[s].account].status = "active"
                      \/ session[s].read < accounts[session[s].account].version
    BY DEF SealedStartsOnlyByRace
  <2> QED  BY DEF OpeningInv, SessionInv, ReadActive
<1> QED  BY <1>1, OpeningInvariant, PTL

\* The events of sessions account for every start and end, but for those a failed write
\* or a crash took: none is dropped by the code, none is made up.
THEOREM EventsAccountForSessions == TradeSpec => []EventsLostOnlyByFault
<1>1. OpeningInv => EventsLostOnlyByFault
  <2> SUFFICES ASSUME OpeningInv  PROVE EventsLostOnlyByFault
    OBVIOUS
  <2>1. OpeningTypes /\ SessionInv /\ ToldInv
    BY DEF OpeningInv
  <2>2. \A s \in Sessions : session[s] # Unborn <=> Born(s)
    BY <2>1 DEF SessionInv, Born, Unborn
  <2>3. ASSUME NEW s \in Sessions
        PROVE  session[s] # Unborn <=> Told(<<"started", s>>)
    <3>1. <<"started", s>> \in TradeEvents /\ <<"started", s>>[2] = s
      BY DEF TradeEvents
    <3> QED  BY <2>1, <2>2, <3>1 DEF ToldInv
  <2>4. \A s \in Sessions :
          session[s].status \in {"closed", "abandoned"} => Told(<<session[s].status, s>>)
    BY <2>1 DEF ToldInv
  <2>5. \A e \in told : session[e[2]].status # "none"
    <3>1. \A e \in told : e \in TradeEvents /\ Told(e)
      BY <2>1 DEF OpeningTypes, Told
    <3> QED  BY <2>1, <3>1 DEF ToldInv, Born
  <2> QED  BY <2>3, <2>4, <2>5 DEF EventsLostOnlyByFault
<1> QED  BY <1>1, OpeningInvariant, PTL
=============================================================================
