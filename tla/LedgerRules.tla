----------------------------- MODULE LedgerRules -----------------------------
(***************************************************************************)
(* The deterministic double-entry rules of src/ab_ledger/core.py: what a   *)
(* transaction moves, to whom, and when it is allowed to move it.  A       *)
(* transaction is a record                                                 *)
(*   [key, postings, maker, checker, payee, business]                      *)
(* where postings is a sequence of [account, amount] with signed integer   *)
(* minor units (+ debit, - credit) and NoOne stands for Python's None.     *)
(* An account name is a record [kind, owner]: External(p) is the string    *)
(* "external:<p>", Cash(b) is "<b>:cash".                                  *)
(***************************************************************************)
EXTENDS Integers, FiniteSets, FiniteSetsExt

CONSTANTS
    ApprovedPayees,   \* APPROVED_PAYEES, the allow-list
    NoOne             \* None: no checker, no explicit payee, no business

External(party) == [kind |-> "external", owner |-> party]
Cash(business) == [kind |-> "cash", owner |-> business]

\* Sum of the amounts of the postings at the positions in S.
SumAt(postings, S) == MapThenSumSet(LAMBDA i : postings[i].amount, S)

\* Positions of the debits, and of the debits of an external account.
Debits(txn) == {i \in DOMAIN txn.postings : txn.postings[i].amount > 0}
ExternalDebits(txn) ==
    {i \in Debits(txn) : txn.postings[i].account.kind = "external"}

\* The money moved.
Magnitude(txn) == SumAt(txn.postings, Debits(txn))

\* Who the money leaves to: derived from the postings, plus an explicit payee.
Payees(txn) ==
    {txn.postings[i].account.owner : i \in ExternalDebits(txn)}
        \cup ({txn.payee} \ {NoOne})

IsBalanced(txn) ==
    /\ DOMAIN txn.postings # {}
    /\ SumAt(txn.postings, DOMAIN txn.postings) = 0

RequiresApproval(txn, cap) ==
    \/ Magnitude(txn) > cap
    \/ ~ (Payees(txn) \subseteq ApprovedPayees)

\* Maker-checker with separation of duties.
IndependentlyChecked(txn) ==
    /\ txn.checker # NoOne
    /\ txn.checker # txn.maker

\* validate() returns instead of raising a LedgerError.
Valid(txn, cap) ==
    /\ IsBalanced(txn)
    /\ RequiresApproval(txn, cap) => IndependentlyChecked(txn)
==============================================================================
