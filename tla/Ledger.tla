-------------------------------- MODULE Ledger -------------------------------
(***************************************************************************)
(* What the ledger promises its callers, stated without a database.  Each  *)
(* attempt carries one transaction.  The transaction is posted whole or    *)
(* not at all, at most once per idempotency key, and only if the rules     *)
(* permit it; the answer "applied" goes only to the attempt that posted,   *)
(* "replayed" only to one whose key another attempt had posted, and a      *)
(* refusal means that nothing of the attempt is in the journal.  An        *)
(* attempt may also be lost (its caller never learns), with or without     *)
(* its posting.                                                            *)
(***************************************************************************)
CONSTANTS
    Attempts,         \* calls of post()
    Txns,             \* the transactions callers submit
    NoTxn,            \* an attempt that has not been made
    Permitted(_)      \* the ledger rules: Permitted(txn)

VARIABLES
    request,          \* request[a]: the transaction of attempt a
    journal,          \* the attempts whose transaction is posted
    answer            \* answer[a]: what the caller of a was told
vars == <<request, journal, answer>>

Answers == {"none", "applied", "replayed", "refused", "lost"}

\* The attempts that posted under the idempotency key of t.
PostedUnder(t) == {a \in journal : request[a].key = t.key}

Init ==
    /\ request = [a \in Attempts |-> NoTxn]
    /\ journal = {}
    /\ answer = [a \in Attempts |-> "none"]

Submit(a) ==
    /\ request[a] = NoTxn
    /\ \E t \in Txns : request' = [request EXCEPT ![a] = t]
    /\ UNCHANGED <<journal, answer>>

Open(a) == request[a] # NoTxn /\ answer[a] = "none"

Post(a) ==
    /\ Open(a)
    /\ Permitted(request[a])
    /\ PostedUnder(request[a]) = {}
    /\ journal' = journal \cup {a}
    /\ UNCHANGED <<request, answer>>

Reply(a, said) ==
    /\ Open(a)
    /\ answer' = [answer EXCEPT ![a] = said]
    /\ UNCHANGED <<request, journal>>

SayApplied(a) == a \in journal /\ Reply(a, "applied")

SayReplayed(a) ==
    /\ Open(a)
    /\ a \notin journal
    /\ PostedUnder(request[a]) # {}
    /\ Reply(a, "replayed")

SayRefused(a) == a \notin journal /\ Reply(a, "refused")

Lose(a) == Reply(a, "lost")

Next ==
    \E a \in Attempts :
        \/ Submit(a) \/ Post(a)
        \/ SayApplied(a) \/ SayReplayed(a) \/ SayRefused(a) \/ Lose(a)

Spec == Init /\ [][Next]_vars
==============================================================================
