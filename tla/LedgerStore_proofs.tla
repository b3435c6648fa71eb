------------------------- MODULE LedgerStore_proofs --------------------------
(***************************************************************************)
(* Proofs about LedgerStore for every set of attempts and transactions and *)
(* every cap and allow-list.  Only BooksBalance looks into the rules, for   *)
(* what a balanced transaction is: the rest holds whatever Valid() is.      *)
(***************************************************************************)
EXTENDS LedgerStore, Sums, TLAPS

\* The rows of an attempt exist exactly when its commit has been executed.
CommittedLate ==
    \A a \in Attempts :
        /\ pc[a] \in {"idle", "validate", "header", "entries"} => a \notin headers
        /\ pc[a] = "return" => a \in headers

\* Only a validated transaction goes past the validation.
ValidatedFirst ==
    \A a \in Attempts :
        pc[a] \in {"header", "entries", "return"} => Valid(request[a], Cap)

\* An idempotency key has one holder, open or committed.  This is what makes
\* OneTxnPerKey inductive: the uniqueness must cover the rows that another
\* connection cannot see yet.
OneHolderPerKey ==
    \A a, b \in InFlight \cup headers : SameKey(a, b) => a = b

IInv ==
    /\ TypeOK
    /\ CommittedLate
    /\ ValidatedFirst
    /\ OneHolderPerKey
    /\ PostedWhole
    /\ PostedValid
    /\ AnswersTrue

\* The initial state satisfies the inductive invariant.
LEMMA InitIInv == Init => IInv
  BY DEF Init, IInv, TypeOK, Steps, Answers, CommittedLate, ValidatedFirst,
         OneHolderPerKey, InFlight, PostedWhole, PostedValid, AnswersTrue

\* Every statement of every attempt keeps the types.
LEMMA NextTypeOK == TypeOK /\ [Next]_vars => TypeOK'
<1> SUFFICES ASSUME TypeOK, [Next]_vars PROVE TypeOK'
  OBVIOUS
<1> USE NoTxnAssumption DEF TypeOK, Steps, Answers
<1>1. CASE UNCHANGED vars
  BY <1>1 DEF vars, Postings
<1>2. ASSUME NEW a \in Attempts, Submit(a) PROVE TypeOK'
  BY <1>2 DEF Submit, Goto, Postings
<1>3. ASSUME NEW a \in Attempts, Validate(a) PROVE TypeOK'
  BY <1>3 DEF Validate, Goto, Finish, Postings
<1>4. ASSUME NEW a \in Attempts, InsertHeader(a) PROVE TypeOK'
  BY <1>4 DEF InsertHeader, Goto, Postings
<1>5. ASSUME NEW a \in Attempts, Duplicate(a) PROVE TypeOK'
  BY <1>5 DEF Duplicate, Goto, Finish, Postings
<1>6. ASSUME NEW a \in Attempts, InsertEntry(a) PROVE TypeOK'
  BY <1>6 DEF InsertEntry, Postings
<1>7. ASSUME NEW a \in Attempts, Commit(a) PROVE TypeOK'
  BY <1>7 DEF Commit, Goto, Postings
<1>8. ASSUME NEW a \in Attempts, Return(a) PROVE TypeOK'
  BY <1>8 DEF Return, Goto, Finish, Postings
<1>9. ASSUME NEW a \in Attempts, Die(a) PROVE TypeOK'
  BY <1>9 DEF Die, Goto, Finish, Postings
<1> QED
  BY <1>1, <1>2, <1>3, <1>4, <1>5, <1>6, <1>7, <1>8, <1>9 DEF Next, Step

\* Every statement of every attempt keeps the inductive invariant.
LEMMA NextIInv == IInv /\ [Next]_vars => IInv'
<1> SUFFICES ASSUME IInv, [Next]_vars PROVE IInv'
  OBVIOUS
<1>t. TypeOK'
  BY NextTypeOK DEF IInv
<1> USE DEF IInv, CommittedLate, ValidatedFirst, OneHolderPerKey, PostedWhole,
            PostedValid, AnswersTrue, InFlight, SameKey, Postings
<1>1. CASE UNCHANGED vars
  BY <1>1, <1>t DEF vars
<1>2. ASSUME NEW a \in Attempts, Submit(a) PROVE IInv'
  BY <1>2, <1>t DEF Submit, Goto, TypeOK, Steps, Answers
<1>3. ASSUME NEW a \in Attempts, Validate(a) PROVE IInv'
  BY <1>3, <1>t DEF Validate, Goto, Finish, TypeOK, Steps, Answers
<1>4. ASSUME NEW a \in Attempts, InsertHeader(a) PROVE IInv'
  <2> USE <1>4 DEF InsertHeader, Goto, TypeOK, Steps, Answers
  <2>1. OneHolderPerKey'       \* the guard excludes every other holder
    OBVIOUS
  <2> QED
    BY <1>t, <2>1
<1>5. ASSUME NEW a \in Attempts, Duplicate(a) PROVE IInv'
  BY <1>5, <1>t DEF Duplicate, Goto, Finish, TypeOK, Steps, Answers
<1>6. ASSUME NEW a \in Attempts, InsertEntry(a) PROVE IInv'
  BY <1>6, <1>t DEF InsertEntry, TypeOK, Steps, Answers
<1>7. ASSUME NEW a \in Attempts, Commit(a) PROVE IInv'
  <2> USE <1>7 DEF Commit, Goto, TypeOK, Steps, Answers
  <2>1. OneHolderPerKey'       \* a was in flight and is committed now
    OBVIOUS
  <2>2. PostedWhole'           \* everything is staged, and it lands together
    OBVIOUS
  <2>3. PostedValid'           \* past the validation since "header"
    OBVIOUS
  <2> QED
    BY <1>t, <2>1, <2>2, <2>3
<1>8. ASSUME NEW a \in Attempts, Return(a) PROVE IInv'
  BY <1>8, <1>t DEF Return, Goto, Finish, TypeOK, Steps, Answers
<1>9. ASSUME NEW a \in Attempts, Die(a) PROVE IInv'
  BY <1>9, <1>t DEF Die, Goto, Finish, TypeOK, Steps, Answers
<1> QED
  BY <1>1, <1>2, <1>3, <1>4, <1>5, <1>6, <1>7, <1>8, <1>9 DEF Next, Step

\* The inductive invariant holds in every reachable state.
THEOREM Invariance == Spec => []IInv
  BY InitIInv, NextIInv, PTL DEF Spec

\* Type correctness of the ledger tables and of post()'s callers.
THEOREM TypeCorrect == Spec => []TypeOK
  BY Invariance, PTL DEF IInv

\* A header is committed with all of its entries or not at all, whoever dies
\* in the middle of post().
THEOREM WholePostings == Spec => []PostedWhole
  BY Invariance, PTL DEF IInv

\* No interleaving of the inserts of two calls posts one key twice.
LEMMA OneHolderSuffices == IInv => OneTxnPerKey
  BY DEF IInv, OneHolderPerKey, OneTxnPerKey

(* post() is idempotent: no key ever has two transactions. *)
THEOREM NoDoublePosting == Spec => []OneTxnPerKey
  BY Invariance, OneHolderSuffices, PTL

\* Whatever is in the journal passed validate(): balanced, and independently
\* checked when it is above the cap or pays somebody off the allow-list.
THEOREM OnlyValidPosted == Spec => []PostedValid
  BY Invariance, PTL DEF IInv

\* What post() returns or raises is true of the journal.
THEOREM TrueAnswers == Spec => []AnswersTrue
  BY Invariance, PTL DEF IInv

\* No step removes or rewrites a row of the journal.
LEMMA StepAppends ==
    IInv /\ [Next]_vars => [/\ headers \subseteq headers'
                            /\ entries \subseteq entries'
                            /\ \A a \in headers : request'[a] = request[a]]_vars
<1> SUFFICES ASSUME IInv, Next
             PROVE  /\ headers \subseteq headers'
                    /\ entries \subseteq entries'
                    /\ \A a \in headers : request'[a] = request[a]
  OBVIOUS
<1> USE DEF IInv, TypeOK, CommittedLate, Steps
<1>1. ASSUME NEW a \in Attempts, Submit(a)
      PROVE  \A b \in headers : request'[b] = request[b]
  BY <1>1 DEF Submit
<1>2. ASSUME NEW a \in Attempts, Step(a) \/ Die(a)
      PROVE  request' = request
  BY <1>2 DEF Step, Validate, InsertHeader, Duplicate, InsertEntry, Commit,
              Return, Die
<1>3. headers \subseteq headers' /\ entries \subseteq entries'
  BY DEF Next, Submit, Step, Validate, InsertHeader, Duplicate, InsertEntry,
         Commit, Return, Die
<1> QED
  BY <1>1, <1>2, <1>3 DEF Next

(* No step removes or changes what has been posted. *)
THEOREM Appending == Spec => AppendOnly
  BY Invariance, StepAppends, PTL DEF Spec, AppendOnly

------------------------------------------------------------------------------
\* The empty tables are the initial state of the promise.
LEMMA InitPromise == Init => Promise!Init
  BY DEF Init, Promise!Init

\* What validate() lets through may be posted.
LEMMA ValidIsPostable == ASSUME NEW t, Valid(t, Cap) PROVE Postable(t)
  BY DEF Valid, Postable, IsBalanced, RequiresApproval, IndependentlyChecked,
         Payees, ExternalDebits, Debits

\* Every statement of post() is a step of the promise or changes nothing of
\* it: only the commit posts, and only the last step answers.
LEMMA StepPromise == IInv /\ [Next]_vars => [Promise!Next]_(Promise!vars)
<1> SUFFICES ASSUME IInv, [Next]_vars
             PROVE  Promise!Next \/ UNCHANGED Promise!vars
  BY DEF Promise!vars
<1> USE NoTxnAssumption
    DEF IInv, TypeOK, CommittedLate, SameKey, Promise!vars, Promise!Next,
        Promise!Open, Promise!Reply, Promise!PostedUnder
<1>1. CASE UNCHANGED vars
  BY <1>1 DEF vars
<1>2. ASSUME NEW a \in Attempts, Submit(a) PROVE Promise!Submit(a)
  BY <1>2 DEF Submit, Promise!Submit
<1>3. ASSUME NEW a \in Attempts, Validate(a)
      PROVE  Promise!SayRefused(a) \/ UNCHANGED Promise!vars
  BY <1>3 DEF Validate, Finish, Promise!SayRefused
<1>4. ASSUME NEW a \in Attempts, InsertHeader(a) \/ InsertEntry(a)
      PROVE  UNCHANGED Promise!vars
  BY <1>4 DEF InsertHeader, InsertEntry
<1>5. ASSUME NEW a \in Attempts, Duplicate(a) PROVE Promise!SayReplayed(a)
  BY <1>5 DEF Duplicate, Finish, Promise!SayReplayed
<1>6. ASSUME NEW a \in Attempts, Commit(a) PROVE Promise!Post(a)
  <2>1. Promise!Open(a)
    BY <1>6 DEF Commit
  <2>2. Valid(request[a], Cap)
    BY <1>6 DEF Commit, ValidatedFirst
  <2>3. Promise!PostedUnder(request[a]) = {}
    BY <1>6 DEF Commit, OneHolderPerKey, InFlight
  <2> QED
    BY <1>6, <2>1, <2>2, <2>3, ValidIsPostable DEF Commit, Promise!Post
<1>7. ASSUME NEW a \in Attempts, Return(a) PROVE Promise!SayApplied(a)
  BY <1>7 DEF Return, Finish, Promise!SayApplied
<1>8. ASSUME NEW a \in Attempts, Die(a) PROVE Promise!Lose(a)
  BY <1>8 DEF Die, Finish, Promise!Lose
<1> QED
  BY <1>1, <1>2, <1>3, <1>4, <1>5, <1>6, <1>7, <1>8 DEF Next, Step

\* The statements of store.py implement the atomic promise of module Ledger.
THEOREM Implements == Spec => ImplementsLedger
  BY Invariance, InitPromise, StepPromise, PTL
     DEF Spec, ImplementsLedger, Promise!Spec

------------------------------------------------------------------------------
\* The trial balance is the total of the amounts of the entries (module Sums).
LEMMA TrialBalanceIsTotal ==
  ASSUME IsFiniteSet(entries)
  PROVE  TrialBalance = Total([x \in entries |-> Amount(x)], entries)
<1> DEFINE e == [x \in entries |-> Amount(x)]
           Sums(g) == g = [s \in SUBSET entries |->
                             IF s = {} THEN 0
                             ELSE Amount(CHOOSE x \in s : TRUE)
                                    + g[s \ {CHOOSE x \in s : TRUE}]]
<1>1. TrialBalance = (CHOOSE g : Sums(g))[entries]
  BY DEF TrialBalance, MapThenSumSet, MapThenFoldSet
<1>2. ASSUME NEW s \in SUBSET entries, s # {}
      PROVE  e[Pick(s)] = Amount(CHOOSE x \in s : TRUE)
  BY <1>2, PickIsIn DEF Pick
<1>3. \A g : Adds(g, e, entries) <=> Sums(g)
  <2> HIDE DEF e
  <2> QED
    BY <1>2 DEF Adds, Pick
<1> HIDE DEF e, Sums
<1>4. \E g : Sums(g)
  BY <1>3, SumExists
<1>5. Adds(CHOOSE g : Sums(g), e, entries)
  BY <1>3, <1>4
<1>6. Total(e, entries) = (CHOOSE g : Sums(g))[entries]
  BY <1>5, TotalOf
<1> QED
  BY <1>1, <1>6 DEF e

\* The entries of a posted transaction cancel out.
LEMMA PostingsCancel ==
  ASSUME IInv, NEW a \in headers, NEW e, \A i \in Postings(a) : e[<<a, i>>] = Amount(<<a, i>>)
  PROVE  /\ IsFiniteSet({a} \X Postings(a))
         /\ \A x \in {a} \X Postings(a) : e[x] \in Int
         /\ Total(e, {a} \X Postings(a)) = 0
<1>1. /\ request[a] \in Txns /\ Valid(request[a], Cap)
  BY DEF IInv, TypeOK, PostedValid, CommittedLate
<1> DEFINE P == Postings(a)
           f == [i \in P |-> request[a].postings[i].amount]
           m == [i \in P |-> <<a, i>>]
<1>2. IsFiniteSet(P) /\ \A i \in P : f[i] \in Int /\ e[m[i]] = f[i]
  BY <1>1, TxnsAssumption DEF Postings, Amount
<1>3. {a} \X P = {m[i] : i \in P}
  OBVIOUS
<1>4. \A i, j \in P : m[i] = m[j] => i = j
  OBVIOUS
<1>5. Total(f, P) = 0
  BY <1>1, <1>2, AmountsAreTotal DEF Valid, IsBalanced, Postings, SumAt, Amounts
<1>6. IsFiniteSet({a} \X P)
  BY <1>2, FS_Singleton, FS_Product
<1> HIDE DEF P, f, m
<1>7. Total(e, {m[i] : i \in P}) = 0
  BY <1>2, <1>4, <1>5, TotalImage
<1>8. \A x \in {m[i] : i \in P} : e[x] \in Int
  BY <1>2
<1> QED
  BY <1>3, <1>6, <1>7, <1>8 DEF P

\* Each database transaction commits one header, so they are finitely many.
HeadersAreFinite == IsFiniteSet(headers)

LEMMA FiniteHeaders == Spec => []HeadersAreFinite
<1>1. Init => HeadersAreFinite
  BY FS_EmptySet DEF Init, HeadersAreFinite
<1>2. HeadersAreFinite /\ [Next]_vars => HeadersAreFinite'
  <2> SUFFICES ASSUME HeadersAreFinite, [Next]_vars PROVE HeadersAreFinite'
    OBVIOUS
  <2>1. headers' = headers \/ \E a \in Attempts : headers' = headers \cup {a}
    BY DEF vars, Next, Submit, Step, Validate, InsertHeader, Duplicate, InsertEntry,
           Commit, Return, Die
  <2> QED
    BY <2>1, FS_AddElement DEF HeadersAreFinite
<1> QED
  BY <1>1, <1>2, PTL DEF Spec

\* Balanced transactions, posted whole, leave the ledger balanced: by induction
\* over the posted headers.
LEMMA WholeAndBalanced == IInv /\ HeadersAreFinite => TrialBalanceZero
<1> SUFFICES ASSUME IInv, HeadersAreFinite PROVE TrialBalanceZero
  OBVIOUS
<1> DEFINE Of(H) == UNION {{a} \X Postings(a) : a \in H}
           e == [x \in entries |-> Amount(x)]
           F == {H \in SUBSET headers :
                   ~ /\ IsFiniteSet(Of(H)) /\ Total(e, Of(H)) = 0
                     /\ \A x \in Of(H) : e[x] \in Int}
<1>1. F = {}
  <2> SUFFICES ASSUME F # {} PROVE FALSE
    OBVIOUS
  <2>1. PICK H \in F : \A G \in F : G \subseteq H => G = H
    <3>1. F \in SUBSET SUBSET headers
      OBVIOUS
    <3> HIDE DEF F
    <3> QED
      BY <3>1, Smallest DEF HeadersAreFinite
  <2>2. H # {}
    <3>1. Of({}) = {}
      OBVIOUS
    <3> HIDE DEF Of, e
    <3>2. {} \notin F
      BY <3>1, TotalEmpty, FS_EmptySet
    <3> QED
      BY <3>2
  <2>3. PICK a \in H : TRUE
    BY <2>2
  <2> DEFINE G == H \ {a}
  <2>4. /\ IsFiniteSet(Of(G)) /\ Total(e, Of(G)) = 0 /\ \A x \in Of(G) : e[x] \in Int
    <3>1. G \in SUBSET headers /\ G \subseteq H /\ G # H
      BY <2>3
    <3> HIDE DEF Of, e
    <3> QED
      BY <2>1, <3>1
  <2>5. Of(H) = Of(G) \cup ({a} \X Postings(a)) /\ Of(G) \cap ({a} \X Postings(a)) = {}
    BY <2>3
  <2>6. /\ IsFiniteSet({a} \X Postings(a))
        /\ \A x \in {a} \X Postings(a) : e[x] \in Int
        /\ Total(e, {a} \X Postings(a)) = 0
    <3>1. a \in headers /\ \A i \in Postings(a) : e[<<a, i>>] = Amount(<<a, i>>)
      BY <2>1, <2>3 DEF IInv, PostedWhole
    <3> HIDE DEF e
    <3> QED
      BY <3>1, PostingsCancel
  <2> DEFINE X == Of(G)
             Y == {a} \X Postings(a)
  <2>7. /\ Of(H) = X \cup Y /\ X \cap Y = {} /\ IsFiniteSet(X) /\ IsFiniteSet(Y)
        /\ \A x \in X \cup Y : e[x] \in Int
        /\ Total(e, X) = 0 /\ Total(e, Y) = 0
    <3> HIDE DEF e
    <3> QED
      BY <2>4, <2>5, <2>6
  <2>8. IsFiniteSet(Of(H)) /\ Total(e, Of(H)) = 0 /\ \A x \in Of(H) : e[x] \in Int
    <3> HIDE DEF Of, e, X, Y, F
    <3>1. IsFiniteSet(X \cup Y)
      BY <2>7, FS_Union
    <3>2. Total(e, X \cup Y) = Total(e, X) + Total(e, Y)
      BY <2>7, TotalUnion
    <3> QED
      BY <2>7, <3>1, <3>2
  <2> QED
    BY <2>1, <2>8
<1>2. Of(headers) = entries
  BY DEF IInv, PostedWhole
<1>3. IsFiniteSet(entries) /\ Total(e, entries) = 0
  <2> HIDE DEF Of, e
  <2> QED
    BY <1>1, <1>2
<1> QED
  BY <1>3, TrialBalanceIsTotal DEF TrialBalanceZero

\* The whole ledger sums to zero at every moment at which it can be read,
\* however many calls of post() are in flight or were cut off (core.py; store.py,
\* trial_balance()).
THEOREM BooksBalance == Spec => []TrialBalanceZero
BY Invariance, FiniteHeaders, WholeAndBalanced, PTL
==============================================================================
