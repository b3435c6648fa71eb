---------------------------- MODULE MCLedgerStore ----------------------------
(***************************************************************************)
(* A small instance of LedgerStore: transactions that collide on a key,    *)
(* exceed the cap, pay an unlisted party openly or under a listed name,    *)
(* are unbalanced or check themselves, submitted by three attempts in any  *)
(* combination.                                                            *)
(***************************************************************************)
EXTENDS LedgerStore

CONSTANTS a1, a2, a3

MCAttempts == {a1, a2, a3}
MCApprovedPayees == {"vendor"}

Payment(key, amount, paid, party, payee, checker) ==
    [key |-> key,
     postings |-> <<[account |-> External(party), amount |-> amount],
                    [account |-> Cash("acme"), amount |-> -paid]>>,
     maker |-> "agent", checker |-> checker, payee |-> payee,
     business |-> "acme"]

MCTxns ==
    {Payment("k1", 1, 1, "vendor", NoOne, NoOne),               \* plain
     Payment("k1", 2, 2, "vendor", "vendor", "controller"),     \* over the cap
     Payment("k2", 1, 1, "stranger", "stranger", NoOne),        \* unlisted
     Payment("k2", 1, 1, "stranger", "vendor", NoOne),          \* two payees
     Payment("k2", 2, 2, "stranger", "stranger", "agent"),      \* checks itself
     Payment("k2", 2, 1, "vendor", "vendor", NoOne)}            \* unbalanced
==============================================================================
