----------------------------- MODULE LedgerStore -----------------------------
(***************************************************************************)
(* src/ab_ledger/store.py: post() against PostgreSQL, one action per       *)
(* statement, run by concurrent callers that may die at any of them.  The  *)
(* header INSERT takes the UNIQUE idempotency_key: while another open      *)
(* database transaction holds the key the INSERT waits, and once that one  *)
(* has committed it lands no row (ON CONFLICT DO NOTHING) and the call     *)
(* rolls back.  Rows of an open transaction are seen by nobody else.       *)
(***************************************************************************)
EXTENDS LedgerRules

CONSTANTS Attempts, Txns, NoTxn, Cap

ASSUME NoTxnAssumption == NoTxn \notin Txns

\* A transaction is a list of postings in integer minor units.
ASSUME TxnsAssumption ==
    \A t \in Txns : /\ IsFiniteSet(DOMAIN t.postings)
                    /\ \A i \in DOMAIN t.postings : t.postings[i].amount \in Int

VARIABLES
    request,          \* request[a]: the Transaction given to post()
    pc,               \* pc[a]: the statement attempt a executes next
    staged,           \* staged[a]: positions of the entries it has inserted
    headers,          \* committed rows of ledger_txns, by attempt (txn_id)
    entries,          \* committed rows of ledger_entries: <<attempt, position>>
    answer            \* what post() returned or raised
vars == <<request, pc, staged, headers, entries, answer>>

Steps == {"idle", "validate", "header", "entries", "return", "done"}
Answers == {"none", "applied", "replayed", "refused", "lost"}

Postings(a) == DOMAIN request[a].postings
SameKey(a, b) == request[a].key = request[b].key

\* The attempts with an uncommitted header: they hold their key's index entry.
InFlight == {a \in Attempts : pc[a] = "entries"}

Init ==
    /\ request = [a \in Attempts |-> NoTxn]
    /\ pc = [a \in Attempts |-> "idle"]
    /\ staged = [a \in Attempts |-> {}]
    /\ headers = {}
    /\ entries = {}
    /\ answer = [a \in Attempts |-> "none"]

Goto(a, step) == pc' = [pc EXCEPT ![a] = step]

Finish(a, said) ==
    /\ Goto(a, "done")
    /\ answer' = [answer EXCEPT ![a] = said]

Submit(a) ==
    /\ pc[a] = "idle"
    /\ \E t \in Txns : request' = [request EXCEPT ![a] = t]
    /\ Goto(a, "validate")
    /\ UNCHANGED <<staged, headers, entries, answer>>

\* validate(txn, cap) runs before any write, and before the duplicate check.
Validate(a) ==
    /\ pc[a] = "validate"
    /\ \/ /\ Valid(request[a], Cap)
          /\ Goto(a, "header")
          /\ UNCHANGED answer
       \/ /\ ~ Valid(request[a], Cap)
          /\ Finish(a, "refused")
    /\ UNCHANGED <<request, staged, headers, entries>>

\* The header INSERT lands a row: no open or committed row has the key.
InsertHeader(a) ==
    /\ pc[a] = "header"
    /\ \A b \in InFlight \cup headers : ~ SameKey(a, b)
    /\ Goto(a, "entries")
    /\ UNCHANGED <<request, staged, headers, entries, answer>>

\* Mutant: a replay answers True.
Duplicate_SaysApplied(a) ==
    /\ pc[a] = "header"
    /\ \E b \in headers : SameKey(a, b)
    /\ Finish(a, "applied")
    /\ UNCHANGED <<request, staged, headers, entries>>

\* Mutant: the loser of the race is answered, the late replay never is.
Duplicate_OnlyWhileOpen(a) ==
    /\ pc[a] = "header"
    /\ \E b \in InFlight : SameKey(a, b)
    /\ Finish(a, "replayed")
    /\ UNCHANGED <<request, staged, headers, entries>>

\* The header INSERT lands no row: rollback, return False.
Duplicate(a) ==
    /\ pc[a] = "header"
    /\ \E b \in headers : SameKey(a, b)
    /\ Finish(a, "replayed")
    /\ UNCHANGED <<request, staged, headers, entries>>

InsertEntry(a) ==
    /\ pc[a] = "entries"
    /\ \E i \in Postings(a) \ staged[a] :
          /\ \A j \in Postings(a) \ staged[a] : i <= j
          /\ staged' = [staged EXCEPT ![a] = @ \cup {i}]
    /\ UNCHANGED <<request, pc, headers, entries, answer>>

\* Mutant: the commit does not wait for the last entry.
Commit_Early(a) ==
    /\ pc[a] = "entries"
    /\ staged[a] # {}
    /\ headers' = headers \cup {a}
    /\ entries' = entries \cup ({a} \X staged[a])
    /\ Goto(a, "return")
    /\ UNCHANGED <<request, staged, answer>>

Commit(a) ==
    /\ pc[a] = "entries"
    /\ staged[a] = Postings(a)
    /\ headers' = headers \cup {a}
    /\ entries' = entries \cup ({a} \X staged[a])
    /\ Goto(a, "return")
    /\ UNCHANGED <<request, staged, answer>>

Return(a) ==
    /\ pc[a] = "return"
    /\ Finish(a, "applied")
    /\ UNCHANGED <<request, staged, headers, entries>>

\* The caller's process or connection dies: an open transaction is rolled
\* back by the server, a committed one stands, and nobody is answered.
Die(a) ==
    /\ pc[a] \notin {"idle", "done"}
    /\ staged' = [staged EXCEPT ![a] = IF pc[a] = "return" THEN @ ELSE {}]
    /\ Finish(a, "lost")
    /\ UNCHANGED <<request, headers, entries>>

Step(a) ==
    \/ Validate(a) \/ InsertHeader(a) \/ Duplicate(a)
    \/ InsertEntry(a) \/ Commit(a) \/ Return(a)

Next == \E a \in Attempts : Submit(a) \/ Step(a) \/ Die(a)

Spec == Init /\ [][Next]_vars

\* A caller that is not killed keeps executing, and the server grants a
\* waiting INSERT once the conflicting transaction has ended.
FairSpec == Spec /\ \A a \in Attempts : WF_vars(Step(a))
------------------------------------------------------------------------------
\* trial_balance(): the sum of the committed entries.
Amount(e) == request[e[1]].postings[e[2]].amount
TrialBalance == MapThenSumSet(Amount, entries)

TypeOK ==
    /\ request \in [Attempts -> Txns \cup {NoTxn}]
    /\ pc \in [Attempts -> Steps]
    /\ \A a \in Attempts : pc[a] = "idle" <=> request[a] = NoTxn
    /\ \A a \in Attempts : staged[a] \subseteq
                              IF request[a] = NoTxn THEN {} ELSE Postings(a)
    /\ DOMAIN staged = Attempts
    /\ headers \subseteq Attempts
    /\ answer \in [Attempts -> Answers]
    /\ \A a \in Attempts : answer[a] = "none" <=> pc[a] # "done"

\* "The whole ledger therefore always sums to zero" (core.py), at every
\* moment another connection can read it, whoever died in mid-transaction.
TrialBalanceZero == TrialBalance = 0

\* A header and its entries appear together: every committed header has all
\* of its entries and no entry is without its header (store.py's one commit).
PostedWhole == entries = UNION {{a} \X Postings(a) : a \in headers}

\* Double payment is prevented (store.py's UNIQUE idempotency_key): no two
\* posted transactions share a key, however their inserts interleave.
OneTxnPerKey == \A a, b \in headers : SameKey(a, b) => a = b

\* Money above the cap or to a payee off the list is posted only with an
\* independent checker (core.py's maker-checker), and only balanced.
PostedValid == \A a \in headers : Valid(request[a], Cap)

\* A caller told that nothing happened, or that another did it, is right, and
\* so is the one told that it did (the Boolean post() returns).
AnswersTrue ==
    \A a \in Attempts :
        /\ answer[a] = "applied" => a \in headers
        /\ answer[a] \in {"replayed", "refused"} => a \notin headers
        /\ answer[a] = "replayed" => \E b \in headers : SameKey(a, b)

\* The journal is append-only: no step removes or rewrites a posted row.
AppendOnly ==
    [][/\ headers \subseteq headers'
       /\ entries \subseteq entries'
       /\ \A a \in headers : request'[a] = request[a]]_vars

\* A submitted transaction is answered or its caller dies: a duplicate that
\* waits for the key's holder is released whichever way the holder ends.
EveryPostReturns == \A a \in Attempts : pc[a] = "validate" ~> pc[a] = "done"

\* What may be posted, said without validate(): the entries cancel out, and
\* unless somebody else has checked it, no more than the cap is moved and every
\* party that receives any of it, or is named as its payee, is on the list.
Postable(txn) ==
    /\ DOMAIN txn.postings # {}
    /\ SumAt(txn.postings, DOMAIN txn.postings) = 0
    /\ \/ txn.checker \notin {NoOne, txn.maker}
       \/ /\ ~ (Magnitude(txn) > Cap)
          /\ txn.payee \in ApprovedPayees \cup {NoOne}
          /\ \A i \in DOMAIN txn.postings :
                LET p == txn.postings[i]
                IN  p.account.kind = "external" /\ p.amount > 0
                        => p.account.owner \in ApprovedPayees

\* The statements implement the atomic promise of module Ledger.
Promise == INSTANCE Ledger WITH journal <- headers, Permitted <- Postable
ImplementsLedger == Promise!Spec
==============================================================================
