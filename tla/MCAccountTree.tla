--------------------------- MODULE MCAccountTree ---------------------------
(***************************************************************************)
(* Two instances in one run: every request resetting and verifying, and    *)
(* one clerk's resets beside the sessions that start and end.              *)
(***************************************************************************)
EXTENDS SessionOpening, TLC

CONSTANTS p1, p2, p3, a1, a2, a3, n1, q1, q2, s1, s2

VARIABLE trading

DeskInit == TradeInit /\ trading \in BOOLEAN

\* Accounts opened with a balance finer than its column; one, a root, is enough to
\* alarm, and a session's start looks at no ledger.
Fine == {a \in Accounts : \E i \in 1 .. Len(ledger[a]) : RoundedAway(a, ledger[a][i])}

FewFine ==
    IF trading THEN Fine = {}
    ELSE Cardinality(Fine) <= 1 /\ \A a \in Fine : accounts[a].index = 1

\* A tree of two iterations is all that a session on a sealed account takes, and a
\* verification changes nothing a session could see.
Clerk(p) ==
    /\ Request(p)
    /\ Cardinality({a \in Accounts : accounts'[a].status # "absent"}) <= 2
    /\ pc'[p] # "verify"

DeskNext ==
    /\ \/ ~trading /\ Next /\ UNCHANGED openingVars
       \/ trading /\ Clerk(p1) /\ UNCHANGED openingVars
       \/ trading /\ OpeningNext /\ UNCHANGED vars
    /\ UNCHANGED trading
    /\ FewFine'

deskVars == <<vars, openingVars, trading>>

DeskSpec == DeskInit /\ [][DeskNext]_deskVars

\* (p1 is the clerk, so the requests are not interchangeable.)
DeskSymmetry ==
    Permutations(Accounts) \cup Permutations(Starters) \cup Permutations(Sessions)
    \cup Permutations({p2, p3})
=============================================================================
