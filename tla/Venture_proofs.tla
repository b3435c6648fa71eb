---------------------------- MODULE Venture_proofs ----------------------------
(***************************************************************************)
(* Proofs about the life of a business in the books, for any number of     *)
(* businesses and of processes that provision them, call models, pay,      *)
(* collect charges and advertise, dying wherever they may.  The invariant  *)
(* says where every transaction of the journal comes from, and what the    *)
(* position of a process says about what it has already written.           *)
(***************************************************************************)
EXTENDS Venture, Sums, TLAPS

Founding == {"allocate", "readiness", "activate", "announce"}
LaunchSteps == {"idle", "insert", "over"} \cup Founding
CallSteps == {"idle", "infer", "meter", "answered", "denied", "dead"}

TypeOK ==
    /\ row \in [Businesses -> [status : {"absent", "draft", "active"}, capital : Int]]
    /\ launch \in [Launches -> [step : LaunchSteps, offer : Offers \cup {NoOffer}]]
    /\ call \in [Calls -> [step : CallSteps, prompt : Prompts \cup {NoPrompt}, spent : Int]]
    /\ rail \in [at : Nat, runs : Nat]
    /\ ads \in [at : 0..Len(Campaigns), ran : BOOLEAN, runs : Nat]
    /\ inferred \subseteq Calls /\ live \subseteq Offers

\* The draft of b, or the business it has become, in the ledger.
Grant(b, k) == CapitalTxn([business |-> b, capital |-> k])
Funding(b) == Grant(b, row[b].capital)

\* Every transaction was posted by one of five calls, and says what it says.
Origins ==
    \A t \in journal :
        \/ \E b \in Businesses : row[b].status # "absent" /\ t = Funding(b)
        \/ \E c \in Calls : call[c].step = "answered" /\ t = InferenceTxn(c, call[c].prompt)
        \/ \E i \in DOMAIN Settled : t = ChargeTxn(Settled[i])
        \/ \E i \in DOMAIN Campaigns : t = AdTxn(Campaigns[i])
        \/ \E x \in Payments : t = PaymentTxn(x)

\* provision() past its first check; its draft is nobody else's.
Founders ==
    /\ \A p \in Launches : launch[p].step \in {"insert"} \cup Founding =>
          /\ launch[p].offer \in Offers
          /\ launch[p].offer.capital >= Budget[launch[p].offer.business]
    /\ \A p \in Launches : launch[p].step \in Founding =>
          /\ row[launch[p].offer.business].capital = launch[p].offer.capital
          /\ row[launch[p].offer.business].status =
                IF launch[p].step = "announce" THEN "active" ELSE "draft"
    /\ \A p, q \in Launches :
          /\ launch[p].step \in Founding /\ launch[q].step \in Founding
          /\ launch[p].offer.business = launch[q].offer.business
          => p = q

\* When the capital is in the ledger, and when not.
Capitalised ==
    /\ \A p \in Launches :
          /\ launch[p].step = "allocate" =>
                Funding(launch[p].offer.business) \notin journal
          /\ launch[p].step \in {"readiness", "activate", "announce"} =>
                Funding(launch[p].offer.business) \in journal
    /\ \A b \in Businesses :
          /\ row[b].status # "absent" => row[b].capital >= Budget[b]
          /\ row[b].status = "active" => Funding(b) \in journal
    /\ \A e \in live : row[e.business] = [status |-> "active", capital |-> e.capital]

\* A model call's position, its inference and its posting.
Metered ==
    \A c \in Calls :
        /\ call[c].step \in {"infer", "meter"} =>
              call[c].prompt \in Prompts /\ Gate(call[c].prompt, call[c].spent)
        /\ call[c].step \in {"idle", "infer"} => c \notin inferred
        /\ call[c].step = "answered" =>
              \/ call[c].prompt.cost = 0
              \/ InferenceTxn(c, call[c].prompt) \in journal

\* What the rail and the advertising agent have passed is in the ledger.
Passed ==
    /\ \A i \in DOMAIN Settled : i < rail.at => ChargeTxn(Settled[i]) \in journal
    /\ \A ch \in reported : ChargeTxn(ch) \in journal
    /\ ads.ran => ads.at # 0
    /\ \A i \in DOMAIN Campaigns :
          Campaigns[i].ref \in placed =>
              \/ AdTxn(Campaigns[i]) \in journal
              \/ ads.at = i /\ ads.ran
              \/ Campaigns[i].ref \in lost

IInv == /\ TypeOK /\ IsFiniteSet(journal) /\ Origins
        /\ Founders /\ Capitalised /\ Metered /\ Passed

----------------------------------------------------------------------------
(* What settles, whatever the leads are.                                   *)

\* A set of numbers has a least one.
LEMMA Least ==
  ASSUME NEW T \in SUBSET Nat, T # {}
  PROVE  \E n \in T : \A m \in T : n <= m
<1>1. PICK n \in T : \A m \in T : <<m, n>> \notin OpToRel(<, Nat)
  BY WFMin, NatLessThanWellFounded
<1>2. \A m \in T : ~ (m < n)
  BY <1>1 DEF OpToRel
<1> QED
  BY <1>2

\* FlattenSeq() is defined by recursion over the positions of its argument.
LEMMA Flattened ==
  ASSUME NEW X, NEW n \in Nat, NEW ss \in [1..n -> Seq(X)]
  PROVE  FlattenSeq(ss) \in Seq(X)
<1> DEFINE Flat(f, m) == f = [i \in 1..m |-> IF i = 1 THEN ss[i] ELSE f[i - 1] \o ss[i]]
<1> HIDE DEF Flat
<1>1. ASSUME NEW m \in 1..n PROVE \E f : Flat(f, m)
  <2> DEFINE F == {k \in 1..n : ~ \E f : Flat(f, k)}
  <2> SUFFICES ASSUME F # {} PROVE FALSE
    OBVIOUS
  <2>1. PICK k \in F : \A j \in F : k <= j
    <3>1. F \in SUBSET Nat
      OBVIOUS
    <3> HIDE DEF F
    <3> QED
      BY <3>1, Least
  <2>2. CASE k = 1
    <3>1. Flat([i \in 1..1 |-> ss[1]], 1)
      BY DEF Flat
    <3> QED
      BY <2>1, <2>2, <3>1
  <2>3. CASE k # 1
    <3>1. k \in 1..n
      BY <2>1
    <3>2. k - 1 \in 1..n /\ k - 1 \notin F
      <4> HIDE DEF F
      <4> QED
        BY <2>1, <2>3, <3>1
    <3>3. PICK f : Flat(f, k - 1)
      BY <3>2
    <3> DEFINE g == [i \in 1..k |-> IF i < k THEN f[i] ELSE f[k - 1] \o ss[k]]
    <3>4. f = [i \in 1..(k - 1) |-> IF i = 1 THEN ss[i] ELSE f[i - 1] \o ss[i]]
      BY <3>3 DEF Flat
    <3>5. ASSUME NEW i \in 1..k
          PROVE  g[i] = IF i = 1 THEN ss[i] ELSE g[i - 1] \o ss[i]
      <4> HIDE DEF F
      <4>1. CASE i = 1
        BY <2>3, <3>1, <3>4, <4>1
      <4>2. CASE i # 1 /\ i < k
        <5>1. i \in 1..(k - 1) /\ i - 1 \in 1..k /\ i - 1 < k
          BY <3>1, <4>2
        <5>2. g[i] = f[i] /\ g[i - 1] = f[i - 1]
          BY <4>2, <5>1
        <5>3. f[i] = f[i - 1] \o ss[i]
          BY <3>4, <4>2, <5>1
        <5> QED
          BY <4>2, <5>2, <5>3
      <4>3. CASE i # 1 /\ i = k
        <5>1. k - 1 \in 1..k /\ k - 1 < k
          BY <3>1, <4>3
        <5>2. g[k] = f[k - 1] \o ss[k] /\ g[k - 1] = f[k - 1]
          BY <3>1, <5>1
        <5> QED
          BY <4>3, <5>2
      <4> QED
        BY <3>1, <4>1, <4>2, <4>3
    <3>6. Flat(g, k)
      <4>1. g = [i \in 1..k |-> IF i = 1 THEN ss[i] ELSE g[i - 1] \o ss[i]]
        BY <3>5
      <4> HIDE DEF g
      <4> QED
        BY <4>1 DEF Flat
    <3> HIDE DEF g
    <3> QED
      BY <2>1, <3>6
  <2> QED
    BY <2>2, <2>3
<1>2. CASE n = 0
  <2>1. Len(ss) = 0 /\ ss = <<>>
    BY <1>2
  <2> QED
    BY <2>1 DEF FlattenSeq
<1>3. CASE n # 0
  <2>1. Len(ss) = n
    OBVIOUS
  <2> DEFINE f == CHOOSE f : Flat(f, n)
  <2>2. Flat(f, n)
    <3>1. \E g : Flat(g, n)
      BY <1>1, <1>3
    <3> QED
      BY <3>1
  <2>3. FlattenSeq(ss) = f[n]
    BY <1>3, <2>1 DEF FlattenSeq, Flat
  <2> HIDE DEF f
  <2> DEFINE F == {i \in 1..n : f[i] \notin Seq(X)}
  <2>4. F = {}
    <3> SUFFICES ASSUME F # {} PROVE FALSE
      OBVIOUS
    <3>1. PICK i \in F : \A j \in F : i <= j
      <4>1. F \in SUBSET Nat
        OBVIOUS
      <4> HIDE DEF F
      <4> QED
        BY <4>1, Least
    <3>2. CASE i = 1
      BY <2>2, <3>1, <3>2 DEF Flat
    <3>3. CASE i # 1
      <4>1. i - 1 \in 1..n /\ f[i - 1] \in Seq(X) /\ ss[i] \in Seq(X)
        BY <3>1, <3>3
      <4>2. f[i] = f[i - 1] \o ss[i]
        BY <2>2, <3>1, <3>3 DEF Flat
      <4>3. f[i - 1] \o ss[i] \in Seq(X)
        <5> DEFINE u == f[i - 1]
                   v == ss[i]
        <5>1. u \in Seq(X) /\ v \in Seq(X)
          BY <4>1
        <5> HIDE DEF u, v
        <5> QED
          BY <5>1 DEF u, v
      <4> QED
        BY <3>1, <4>2, <4>3
    <3> QED
      BY <3>2, <3>3
  <2> QED
    BY <1>3, <2>3, <2>4
<1> QED
  BY <1>2, <1>3

\* The charges a lead can give rise to.
Bill(l) ==
    {Charge(l, "sale", l.amount)}
      \cup (IF l.uplift > 0 THEN {Charge(l, "expand", l.uplift)} ELSE {})
Bills == UNION {Bill(Leads[k]) : k \in DOMAIN Leads}

LEMMA SettledBills == Settled \in Seq(Bills)
<1>1. Leads \in Seq(ToSet(Leads))
  BY AmountsAssumption
<1> DEFINE n == Len(Leads)
           ss == [i \in DOMAIN Leads |-> ChargesOf(Leads[i])]
<1>2. n \in Nat /\ DOMAIN Leads = 1..n
  BY <1>1
<1>3. ASSUME NEW i \in DOMAIN Leads PROVE ChargesOf(Leads[i]) \in Seq(Bills)
  <2>1. /\ Charge(Leads[i], "sale", Leads[i].amount) \in Bills
        /\ Leads[i].uplift > 0 => Charge(Leads[i], "expand", Leads[i].uplift) \in Bills
    BY DEF Bills, Bill
  <2> QED
    BY <2>1 DEF ChargesOf
<1>4. ss \in [1..n -> Seq(Bills)]
  BY <1>2, <1>3
<1> HIDE DEF n, ss
<1>5. FlattenSeq(ss) \in Seq(Bills)
  BY <1>2, <1>4, Flattened
<1> QED
  BY <1>5 DEF Settled, ss

\* A reference is the reference of one charge.
LEMMA OneChargePerRef ==
  ASSUME NEW i \in DOMAIN Settled, NEW j \in DOMAIN Settled
  PROVE  /\ Settled[i].amount \in Nat
         /\ Settled[i].ref = Settled[j].ref => Settled[i] = Settled[j]
<1>1. Settled[i] \in Bills /\ Settled[j] \in Bills
  BY SettledBills
<1>2. PICK k \in DOMAIN Leads : Settled[i] \in Bill(Leads[k])
  BY <1>1 DEF Bills
<1>3. PICK m \in DOMAIN Leads : Settled[j] \in Bill(Leads[m])
  BY <1>1 DEF Bills
<1>4. Leads[k] \in ToSet(Leads)
  BY DEF ToSet
<1>5. Settled[i].amount \in Nat
  BY <1>2, <1>4, AmountsAssumption DEF Bill, Charge
<1>6. Settled[i].ref = Settled[j].ref => k = m /\ Settled[i] = Settled[j]
  BY <1>2, <1>3, ReferencesAssumption DEF Bill, Charge
<1> QED
  BY <1>5, <1>6

----------------------------------------------------------------------------
(* Balances.                                                               *)

\* Every transaction moves one amount between two accounts.
LEMMA TxnsMove ==
  ASSUME TypeOK, Origins, NEW t \in journal
  PROVE  \E a \in Int : \E d, k : t.postings = Move(a, d, k)
<1>1. CASE \E b \in Businesses : t = Funding(b)
  <2>1. PICK b \in Businesses : t = Funding(b)
    BY <1>1
  <2>2. row[b].capital \in Int
    BY DEF TypeOK
  <2> QED
    BY <2>1, <2>2 DEF Funding, Grant, CapitalTxn, Txn
<1>2. CASE \E c \in Calls : t = InferenceTxn(c, call[c].prompt)
  <2>1. PICK c \in Calls : t = InferenceTxn(c, call[c].prompt)
    BY <1>2
  <2>2. call[c].prompt.cost \in Int
    BY AmountsAssumption DEF TypeOK, NoPrompt
  <2> QED
    BY <2>1, <2>2 DEF InferenceTxn, Txn
<1>3. CASE \E i \in DOMAIN Settled : t = ChargeTxn(Settled[i])
  BY <1>3, OneChargePerRef DEF ChargeTxn, Txn
<1>4. CASE \E i \in DOMAIN Campaigns : t = AdTxn(Campaigns[i])
  <2>1. PICK i \in DOMAIN Campaigns : t = AdTxn(Campaigns[i])
    BY <1>4
  <2>2. Campaigns[i].spend \in Int
    BY AmountsAssumption DEF ToSet
  <2> QED
    BY <2>1, <2>2 DEF AdTxn, Txn
<1>5. CASE \E x \in Payments : t = PaymentTxn(x)
  BY <1>5, AmountsAssumption DEF PaymentTxn, Txn
<1> QED
  BY <1>1, <1>2, <1>3, <1>4, <1>5 DEF Origins

\* What a transaction does to an account.
Change(t, account) ==
    SumAt(t.postings, {i \in DOMAIN t.postings : t.postings[i].account = account})

LEMMA ChangeOfMove ==
  ASSUME NEW t, NEW account, NEW a \in Int, NEW d, NEW k, t.postings = Move(a, d, k)
  PROVE  Change(t, account) = (IF d = account THEN a ELSE 0) - (IF k = account THEN a ELSE 0)
<1> DEFINE p == t.postings
           S == {i \in DOMAIN p : p[i].account = account}
<1>1. /\ DOMAIN p = {1, 2} /\ p[1].amount = a /\ p[2].amount = -a
      /\ p[1].account = d /\ p[2].account = k
  BY DEF Move
<1>2. S \in SUBSET {1, 2} /\ (1 \in S <=> d = account) /\ (2 \in S <=> k = account)
  BY <1>1
<1>3. {p[1].amount, p[2].amount} \subseteq Int
  BY <1>1
<1>4. Change(t, account) = Amounts(p, S)
  BY DEF Change, SumAt, Amounts
<1> HIDE DEF p, S
<1>5. Amounts(p, S) = (IF 1 \in S THEN p[1].amount ELSE 0) + (IF 2 \in S THEN p[2].amount ELSE 0)
  BY <1>1, <1>2, <1>3, SumOfTwo
<1> QED
  BY <1>1, <1>2, <1>4, <1>5

\* The balance of an account in a set of transactions.
Held(J, account) == MapThenSumSet(LAMBDA t : Change(t, account), J)

LEMMA BalanceIsHeld == \A account : Balance(account) = Held(journal, account)
BY DEF Balance, Held, Change

LEMMA HeldIsTotal ==
  ASSUME NEW J, IsFiniteSet(J), NEW account
  PROVE  Held(J, account) = Total([t \in J |-> Change(t, account)], J)
<1> DEFINE e == [t \in J |-> Change(t, account)]
           Sums(g) == g = [s \in SUBSET J |->
                             IF s = {} THEN 0
                             ELSE Change(CHOOSE t \in s : TRUE, account)
                                    + g[s \ {CHOOSE t \in s : TRUE}]]
<1>1. Held(J, account) = (CHOOSE g : Sums(g))[J]
  BY DEF Held, MapThenSumSet, MapThenFoldSet
<1>2. ASSUME NEW s \in SUBSET J, s # {}
      PROVE  e[Pick(s)] = Change(CHOOSE t \in s : TRUE, account)
  BY <1>2, PickIsIn DEF Pick
<1>3. \A g : Adds(g, e, J) <=> Sums(g)
  <2> HIDE DEF e
  <2> QED
    BY <1>2 DEF Adds, Pick
<1> HIDE DEF e, Sums
<1>4. \E g : Sums(g)
  BY <1>3, SumExists
<1>5. Adds(CHOOSE g : Sums(g), e, J)
  BY <1>3, <1>4
<1>6. Total(e, J) = (CHOOSE g : Sums(g))[J]
  BY <1>5, TotalOf
<1> QED
  BY <1>1, <1>6 DEF e

\* A new transaction adds what it does to the account.
LEMMA HeldGrows ==
  ASSUME NEW J, IsFiniteSet(J), NEW account, NEW u, u \notin J,
         \A t \in J \cup {u} : Change(t, account) \in Int
  PROVE  Held(J \cup {u}, account) = Held(J, account) + Change(u, account)
<1> DEFINE K == J \cup {u}
           e == [t \in J |-> Change(t, account)]
           f == [t \in K |-> Change(t, account)]
<1>1. IsFiniteSet(K)
  BY FS_AddElement
<1>2. (\A t \in J : e[t] = f[t]) /\ (\A t \in K : f[t] \in Int) /\ f[u] = Change(u, account)
  OBVIOUS
<1>3. Held(J, account) = Total(e, J) /\ Held(K, account) = Total(f, K)
  <2> HIDE DEF K
  <2> QED
    BY <1>1, HeldIsTotal
<1> HIDE DEF e, f
<1>4. Total(f, K) = Total(f, J) + f[u]
  BY <1>2, TotalAdd
<1>5. Total(e, J) = Total(f, J)
  BY <1>2, TotalSame
<1> QED
  BY <1>2, <1>3, <1>4, <1>5

LEMMA ChangeIsInt ==
  ASSUME TypeOK, Origins, NEW t \in journal, NEW account
  PROVE  Change(t, account) \in Int
<1>1. PICK a \in Int : \E d, k : t.postings = Move(a, d, k)
  BY TxnsMove
<1>2. PICK d, k : t.postings = Move(a, d, k)
  BY <1>1
<1> QED
  BY <1>2, ChangeOfMove

LEMMA BalanceIsInt ==
  ASSUME TypeOK, Origins, IsFiniteSet(journal), NEW account
  PROVE  Balance(account) \in Int
<1> DEFINE e == [t \in journal |-> Change(t, account)]
<1>1. \A t \in journal : e[t] \in Int
  BY ChangeIsInt
<1> HIDE DEF e
<1>2. Total(e, journal) \in Int
  BY <1>1, TotalIsInt
<1> QED
  BY <1>2, BalanceIsHeld, HeldIsTotal DEF e

----------------------------------------------------------------------------
(* The invariant.                                                          *)

LEMMA InitIInv == Init => IInv
<1> SUFFICES ASSUME Init PROVE IInv
  OBVIOUS
<1> USE DEF Init
<1>1. TypeOK
  <2>1. Len(Campaigns) \in Nat
    BY AmountsAssumption
  <2> QED
    BY <2>1 DEF TypeOK, LaunchSteps, CallSteps, NoOffer
<1>2. IsFiniteSet(journal) /\ Origins
  BY FS_EmptySet DEF Origins
<1>3. Founders /\ Capitalised
  BY DEF Founders, Capitalised, Founding
<1>4. Metered /\ Passed
  <2>1. DOMAIN Settled \subseteq Nat
    BY SettledBills
  <2>2. \A i \in DOMAIN Settled : ~(i < 0)
    BY SettledBills
  <2> QED
    BY <2>1, <2>2 DEF Metered, Passed
<1> QED
  BY <1>1, <1>2, <1>3, <1>4 DEF IInv

\* The parts of the invariant survive a step of somebody else.
LEMMA MeteredKept == Metered /\ journal \subseteq journal' /\ UNCHANGED calling => Metered'
BY DEF Metered, calling

LEMMA PassedKept ==
    Passed /\ journal \subseteq journal' /\ UNCHANGED <<selling, advertising>> => Passed'
BY DEF Passed, selling, advertising

\* Nobody else posts the capital of a business.
LEMMA FoundedKept ==
  ASSUME Founders, Capitalised, UNCHANGED <<row, launching>>, journal \subseteq journal',
         \A t \in journal' \ journal : t.key[1] # "capital"
  PROVE  Founders' /\ Capitalised'
<1>1. \A b : Funding(b)' = Funding(b) /\ Funding(b).key[1] = "capital"
  BY DEF Funding, Grant, CapitalTxn, Txn
<1>2. Founders'
  BY DEF Founders, launching
<1>3. Capitalised'
  BY <1>1 DEF Capitalised, launching
<1> QED
  BY <1>2, <1>3

\* The journal grows by at most one transaction at a time.
LEMMA BookGrows ==
  ASSUME NEW t, Book(t), IsFiniteSet(journal)
  PROVE  /\ IsFiniteSet(journal') /\ journal \subseteq journal'
         /\ journal' \ journal \subseteq {t}
         /\ Posted(t.key) = {} => t \in journal'
<1>1. journal' = journal \/ journal' = journal \cup {t}
  BY DEF Book
<1> QED
  BY <1>1, FS_AddElement DEF Book

\* What the books hold under the keys of a business, a call and a charge.
LEMMA CapitalKey ==
  ASSUME Origins, NEW b \in Businesses, NEW t \in Posted(<<"capital", b>>)
  PROVE  row[b].status # "absent" /\ t = Funding(b)
<1>1. t \in journal /\ t.key = <<"capital", b>>
  BY DEF Posted
<1> QED
  BY <1>1 DEF Origins, Funding, Grant, CapitalTxn, InferenceTxn, ChargeTxn, AdTxn, PaymentTxn, Txn

LEMMA InferenceKey ==
  ASSUME Origins, NEW c \in Calls, call[c].step # "answered"
  PROVE  Posted(<<"llm", c>>) = {}
BY DEF Posted, Origins, Funding, Grant, CapitalTxn, InferenceTxn, ChargeTxn, AdTxn, PaymentTxn, Txn

LEMMA ChargeKey ==
  ASSUME Origins, NEW i \in DOMAIN Settled, NEW t \in Posted(<<"rev", Settled[i].ref>>)
  PROVE  t = ChargeTxn(Settled[i])
<1>1. t \in journal /\ t.key = <<"rev", Settled[i].ref>>
  BY DEF Posted
<1>2. PICK j \in DOMAIN Settled : t = ChargeTxn(Settled[j])
  BY <1>1 DEF Origins, Funding, Grant, CapitalTxn, InferenceTxn, ChargeTxn, AdTxn, PaymentTxn, Txn
<1>3. Settled[i].ref = Settled[j].ref
  BY <1>1, <1>2 DEF ChargeTxn, Txn
<1> QED
  BY <1>2, <1>3, OneChargePerRef

LEMMA CampaignKey ==
  ASSUME Origins, NEW i \in DOMAIN Campaigns, NEW t \in Posted(<<"ad", Campaigns[i].ref>>)
  PROVE  t = AdTxn(Campaigns[i])
<1>1. t \in journal /\ t.key = <<"ad", Campaigns[i].ref>>
  BY DEF Posted
<1>2. PICK j \in DOMAIN Campaigns : t = AdTxn(Campaigns[j])
  BY <1>1 DEF Origins, Funding, Grant, CapitalTxn, InferenceTxn, ChargeTxn, AdTxn, PaymentTxn, Txn
<1>3. Campaigns[i].ref = Campaigns[j].ref
  BY <1>1, <1>2 DEF AdTxn, Txn
<1> QED
  BY <1>2, <1>3, ReferencesAssumption

----------------------------------------------------------------------------
(* The steps of provision().                                               *)

Placing(p, s) ==
    launch' = [q \in Launches |->
                 IF q = p THEN [step |-> s, offer |-> launch[p].offer] ELSE launch[q]]
Leaving(p) == launch' = [q \in Launches |-> IF q = p THEN Over ELSE launch[q]]
Rowing(b, s, k) ==
    row' = [d \in Businesses |-> IF d = b THEN [status |-> s, capital |-> k] ELSE row[d]]

\* What each step does, point by point.
LEMMA LaunchTyped ==
  ASSUME IInv, NEW p \in Launches
  PROVE  /\ \A s : Step(p, s) => Placing(p, s)
         /\ Finish(p) => Leaving(p)
         /\ launch[p].step \in {"insert"} \cup Founding =>
              /\ launch[p].offer \in Offers /\ launch[p].offer.business \in Businesses
              /\ launch[p].offer.capital \in Int
              /\ launch[p].offer.capital >= Budget[launch[p].offer.business]
<1>1. launch \in [Launches -> [step : LaunchSteps, offer : Offers \cup {NoOffer}]]
  BY DEF IInv, TypeOK
<1>2. ASSUME NEW s, Step(p, s) PROVE Placing(p, s)
  <2> DEFINE l == launch[p]
  <2>1. [l EXCEPT !.step = s] = [step |-> s, offer |-> l.offer]
    <3>1. l \in [step : LaunchSteps, offer : Offers \cup {NoOffer}]
      BY <1>1
    <3> HIDE DEF l
    <3> QED
      BY <3>1
  <2>2. launch' = [launch EXCEPT ![p] = [l EXCEPT !.step = s]]
    BY <1>2 DEF Step
  <2>3. launch' = [launch EXCEPT ![p] = [step |-> s, offer |-> l.offer]]
    BY <2>1, <2>2
  <2> QED
    BY <1>1, <2>3 DEF Placing
<1>3. Finish(p) => Leaving(p)
  BY <1>1 DEF Finish, Leaving
<1>4. launch[p].step \in {"insert"} \cup Founding =>
        /\ launch[p].offer \in Offers /\ launch[p].offer.business \in Businesses
        /\ launch[p].offer.capital \in Int
        /\ launch[p].offer.capital >= Budget[launch[p].offer.business]
  BY AmountsAssumption DEF IInv, Founders
<1> QED
  BY <1>2, <1>3, <1>4

LEMMA RequestEffect ==
  ASSUME IInv, NEW p \in Launches, Request(p)
  PROVE  /\ journal' = journal /\ row' = row /\ live' = live
         /\ launch[p].step = "idle"
         /\ \/ Leaving(p)
            \/ \E f \in Offers :
                  /\ f.capital >= Budget[f.business]
                  /\ launch' = [q \in Launches |->
                        IF q = p THEN [step |-> "insert", offer |-> f] ELSE launch[q]]
<1>1. launch \in [Launches -> [step : LaunchSteps, offer : Offers \cup {NoOffer}]]
  BY DEF IInv, TypeOK
<1>2. PICK f \in Offers :
         launch' = [launch EXCEPT ![p] =
            IF f.capital < Budget[f.business] THEN Over
            ELSE [step |-> "insert", offer |-> f]]
  BY DEF Request
<1>3. CASE f.capital < Budget[f.business]
  <2>1. Leaving(p)
    BY <1>1, <1>2, <1>3 DEF Leaving
  <2> QED
    BY <2>1 DEF Request
<1>4. CASE ~ (f.capital < Budget[f.business])
  <2>1. f.capital >= Budget[f.business]
    BY <1>4, AmountsAssumption
  <2>2. launch' = [q \in Launches |->
              IF q = p THEN [step |-> "insert", offer |-> f] ELSE launch[q]]
    BY <1>1, <1>2, <1>4
  <2> QED
    BY <2>1, <2>2 DEF Request
<1> QED
  BY <1>3, <1>4

LEMMA DraftEffect ==
  ASSUME IInv, NEW p \in Launches, NEW o, o = launch[p].offer, InsertDraft(p)
  PROVE  /\ journal' = journal /\ live' = live /\ launch[p].step = "insert"
         /\ o \in Offers /\ o.business \in Businesses /\ o.capital \in Int
         /\ o.capital >= Budget[o.business]
         /\ \/ /\ row[o.business].status = "absent"
               /\ Rowing(o.business, "draft", o.capital) /\ Placing(p, "allocate")
            \/ row' = row /\ Leaving(p)
<1>1. row \in [Businesses -> [status : {"absent", "draft", "active"}, capital : Int]]
  BY DEF IInv, TypeOK
<1>2. row' = [row EXCEPT ![o.business] = [status |-> "draft", capital |-> o.capital]]
        => Rowing(o.business, "draft", o.capital)
  BY <1>1 DEF Rowing
<1> QED
  BY <1>2, LaunchTyped DEF InsertDraft

LEMMA AllocateEffect ==
  ASSUME IInv, NEW p \in Launches, NEW o, o = launch[p].offer, Allocate(p)
  PROVE  /\ row' = row /\ live' = live /\ launch[p].step = "allocate"
         /\ o \in Offers /\ o.business \in Businesses
         /\ row[o.business].capital = o.capital /\ row[o.business].status = "draft"
         /\ Book(CapitalTxn(o)) /\ Placing(p, "readiness")
<1>1. launch[p].step = "allocate" /\ launch[p].step \in Founding
  BY DEF Allocate, Founding
<1>2. o.business \in Businesses /\ o \in Offers
  BY <1>1, LaunchTyped
<1>3. row[o.business].capital = o.capital /\ row[o.business].status = "draft"
  BY <1>1 DEF IInv, Founders
<1> QED
  BY <1>1, <1>2, <1>3, LaunchTyped DEF Allocate

LEMMA ReadinessEffect ==
  ASSUME IInv, NEW p \in Launches, CheckReadiness(p)
  PROVE  /\ journal' = journal /\ row' = row /\ live' = live
         /\ launch[p].step = "readiness"
         /\ Placing(p, "activate") \/ Leaving(p)
BY LaunchTyped DEF CheckReadiness

LEMMA ActivateEffect ==
  ASSUME IInv, NEW p \in Launches, NEW o, o = launch[p].offer, Activate(p)
  PROVE  /\ journal' = journal /\ live' = live /\ launch[p].step = "activate"
         /\ o \in Offers /\ o.business \in Businesses /\ o.capital \in Int
         /\ o.capital >= Budget[o.business]
         /\ row[o.business].capital = o.capital /\ row[o.business].status = "draft"
         /\ Rowing(o.business, "active", o.capital) /\ Placing(p, "announce")
<1>1. launch[p].step = "activate" /\ launch[p].step \in Founding
  BY DEF Activate, Founding
<1>2. /\ o \in Offers /\ o.business \in Businesses /\ o.capital \in Int
      /\ o.capital >= Budget[o.business]
  BY <1>1, LaunchTyped
<1>3. row[o.business].capital = o.capital /\ row[o.business].status = "draft"
  BY <1>1 DEF IInv, Founders
<1>4. Rowing(o.business, "active", o.capital)
  <2> DEFINE r == row[o.business]
  <2>1. row \in [Businesses -> [status : {"absent", "draft", "active"}, capital : Int]]
    BY DEF IInv, TypeOK
  <2>2. [r EXCEPT !.status = "active"] = [status |-> "active", capital |-> r.capital]
    <3>1. r \in [status : {"absent", "draft", "active"}, capital : Int]
      BY <1>2, <2>1
    <3> HIDE DEF r
    <3> QED
      BY <3>1
  <2>3. row' = [row EXCEPT ![o.business] = [r EXCEPT !.status = "active"]]
    BY DEF Activate
  <2>4. row' = [row EXCEPT ![o.business] = [status |-> "active", capital |-> o.capital]]
    BY <1>3, <2>2, <2>3
  <2> QED
    BY <2>1, <2>4 DEF Rowing
<1> QED
  BY <1>1, <1>2, <1>3, <1>4, LaunchTyped DEF Activate

LEMMA LastEffect ==
  ASSUME IInv, NEW p \in Launches, Announce(p) \/ DieLaunching(p)
  PROVE  /\ journal' = journal /\ row' = row /\ Leaving(p)
         /\ \/ live' = live
            \/ /\ live' = live \cup {launch[p].offer}
               /\ launch[p].offer \in Offers
               /\ row[launch[p].offer.business].status = "active"
               /\ row[launch[p].offer.business].capital = launch[p].offer.capital
<1>1. Leaving(p)
  BY LaunchTyped DEF Announce, DieLaunching
<1>2. launch[p].step = "announce" =>
        /\ launch[p].offer \in Offers
        /\ row[launch[p].offer.business].status = "active"
        /\ row[launch[p].offer.business].capital = launch[p].offer.capital
  BY DEF IInv, Founders, Founding
<1> QED
  BY <1>1, <1>2 DEF Announce, DieLaunching

LaunchStep(p) ==
    \/ Request(p) \/ InsertDraft(p) \/ Allocate(p) \/ CheckReadiness(p)
    \/ Activate(p) \/ Announce(p) \/ DieLaunching(p)

LEMMA LaunchKeepsTypes ==
  ASSUME IInv, NEW p \in Launches, LaunchStep(p)
  PROVE  TypeOK'
<1>1. UNCHANGED <<calling, selling, advertising>>
  BY DEF LaunchStep, Request, InsertDraft, Allocate, CheckReadiness, Activate, Announce,
         DieLaunching, calling, selling, advertising
<1>2. launch \in [Launches -> [step : LaunchSteps, offer : Offers \cup {NoOffer}]]
  BY DEF IInv, TypeOK
<1>3. launch' \in [Launches -> [step : LaunchSteps, offer : Offers \cup {NoOffer}]]
  BY <1>2, RequestEffect, DraftEffect, AllocateEffect, ReadinessEffect, ActivateEffect, LastEffect
     DEF LaunchStep, Placing, Leaving, Over, LaunchSteps, Founding
<1>4. row' \in [Businesses -> [status : {"absent", "draft", "active"}, capital : Int]]
  <2>1. CASE row' = row
    BY <2>1 DEF IInv, TypeOK
  <2>2. CASE \E b \in Businesses : \E k \in Int : Rowing(b, "draft", k) \/ Rowing(b, "active", k)
    BY <2>2 DEF Rowing, IInv, TypeOK
  <2> QED
    BY <2>1, <2>2, RequestEffect, DraftEffect, AllocateEffect, ReadinessEffect, ActivateEffect,
       LastEffect DEF LaunchStep
<1>5. live' \subseteq Offers
  BY RequestEffect, DraftEffect, AllocateEffect, ReadinessEffect, ActivateEffect, LastEffect
     DEF LaunchStep, IInv, TypeOK
<1> QED
  BY <1>1, <1>3, <1>4, <1>5 DEF IInv, TypeOK, calling, selling, advertising

LEMMA LaunchKeepsFounders ==
  ASSUME IInv, NEW p \in Launches, LaunchStep(p)
  PROVE  Founders'
<1> DEFINE o == launch[p].offer
<1>1. /\ Founders /\ \A q \in Launches : launch[q].step \in {"insert"} \cup Founding =>
            launch[q].offer.business \in Businesses
      /\ LaunchStep(p)
  BY AmountsAssumption DEF IInv, Founders
<1>2. CASE Request(p)
  BY <1>1, <1>2, RequestEffect DEF Founders, Founding, Leaving, Over
<1>3. CASE InsertDraft(p)
  <2>1. CASE row[o.business].status = "absent" /\ Rowing(o.business, "draft", o.capital)
                /\ Placing(p, "allocate")
    <3>1. \A q \in Launches : launch[q].step \in Founding => launch[q].offer.business # o.business
      BY <1>1, <2>1 DEF Founders
    <3>2. o \in Offers /\ o.capital >= Budget[o.business] /\ o.business \in Businesses
      BY <1>3, DraftEffect
    <3>3. \A q \in Launches : q # p => launch'[q] = launch[q]
      BY <2>1 DEF Placing
    <3>4. launch'[p] = [step |-> "allocate", offer |-> o]
      BY <2>1 DEF Placing
    <3>5. row'[o.business] = [status |-> "draft", capital |-> o.capital]
      BY <2>1, <3>2 DEF Rowing
    <3>6. \A b \in Businesses : b # o.business => row'[b] = row[b]
      BY <2>1 DEF Rowing
    <3> HIDE DEF o
    <3>7. \A q \in Launches : launch'[q].step \in {"insert"} \cup Founding =>
            /\ launch'[q].offer \in Offers
            /\ launch'[q].offer.capital >= Budget[launch'[q].offer.business]
      BY <1>1, <3>2, <3>3, <3>4 DEF Founders
    <3>8. \A q \in Launches : launch'[q].step \in Founding =>
            /\ row'[launch'[q].offer.business].capital = launch'[q].offer.capital
            /\ row'[launch'[q].offer.business].status =
                  IF launch'[q].step = "announce" THEN "active" ELSE "draft"
      <4> TAKE q \in Launches
      <4>1. CASE q = p
        BY <3>4, <3>5, <4>1
      <4>2. CASE q # p
        BY <1>1, <3>1, <3>3, <3>6, <4>2 DEF Founders
      <4> QED
        BY <4>1, <4>2
    <3>9. \A q, r \in Launches :
            /\ launch'[q].step \in Founding /\ launch'[r].step \in Founding
            /\ launch'[q].offer.business = launch'[r].offer.business
            => q = r
      BY <1>1, <3>1, <3>3, <3>4 DEF Founders
    <3> QED
      BY <3>7, <3>8, <3>9 DEF Founders
  <2>2. CASE row' = row /\ Leaving(p)
    BY <1>1, <2>2 DEF Founders, Founding, Leaving, Over
  <2> QED
    BY <1>3, <2>1, <2>2, DraftEffect
<1>4. CASE Allocate(p)
  BY <1>1, <1>4, AllocateEffect DEF Founders, Founding, Placing
<1>5. CASE CheckReadiness(p)
  BY <1>1, <1>5, ReadinessEffect DEF Founders, Founding, Placing, Leaving, Over
<1>6. CASE Activate(p)
  <2>1. /\ Rowing(o.business, "active", o.capital) /\ Placing(p, "announce")
        /\ launch[p].step = "activate"
    BY <1>6, ActivateEffect
  <2>2. \A q \in Launches : q # p => launch'[q] = launch[q]
    BY <2>1 DEF Placing
  <2>3. launch'[p] = [step |-> "announce", offer |-> o]
    BY <2>1 DEF Placing
  <2>4. p \in Launches /\ launch[p].step \in Founding /\ o.business \in Businesses
    BY <1>1, <2>1 DEF Founding
  <2>5. row'[o.business] = [status |-> "active", capital |-> o.capital]
    BY <2>1, <2>4 DEF Rowing
  <2>6. \A b \in Businesses : b # o.business => row'[b] = row[b]
    BY <2>1 DEF Rowing
  <2>7. \A q \in Launches : q # p /\ launch[q].step \in Founding =>
           launch[q].offer.business # o.business
    BY <1>1, <2>4 DEF Founders
  <2>8. o \in Offers /\ o.capital >= Budget[o.business]
    BY <1>1, <2>4 DEF Founders
  <2> HIDE DEF o
  <2>9. \A q \in Launches : launch'[q].step \in {"insert"} \cup Founding =>
          /\ launch'[q].offer \in Offers
          /\ launch'[q].offer.capital >= Budget[launch'[q].offer.business]
    BY <1>1, <2>2, <2>3, <2>8 DEF Founders
  <2>10. \A q \in Launches : launch'[q].step \in Founding =>
          /\ row'[launch'[q].offer.business].capital = launch'[q].offer.capital
          /\ row'[launch'[q].offer.business].status =
                IF launch'[q].step = "announce" THEN "active" ELSE "draft"
    <3> TAKE q \in Launches
    <3>1. CASE q = p
      BY <2>3, <2>5, <3>1
    <3>2. CASE q # p
      BY <1>1, <2>2, <2>6, <2>7, <3>2 DEF Founders
    <3> QED
      BY <3>1, <3>2
  <2>11. \A q, r \in Launches :
          /\ launch'[q].step \in Founding /\ launch'[r].step \in Founding
          /\ launch'[q].offer.business = launch'[r].offer.business
          => q = r
    BY <1>1, <2>2, <2>3, <2>7 DEF Founders
  <2> QED
    BY <2>9, <2>10, <2>11 DEF Founders
<1>7. CASE Announce(p) \/ DieLaunching(p)
  BY <1>1, <1>7, LastEffect DEF Founders, Founding, Leaving, Over
<1> QED
  BY <1>2, <1>3, <1>4, <1>5, <1>6, <1>7 DEF LaunchStep

LEMMA LaunchKeepsCapital ==
  ASSUME IInv, NEW p \in Launches, LaunchStep(p)
  PROVE  Capitalised'
<1> PICK o : o = launch[p].offer
  OBVIOUS
<1>1. Capitalised /\ \A e \in live : e.business \in Businesses /\ row[e.business].status = "active"
  <2>1. Capitalised /\ live \subseteq Offers
    BY DEF IInv, TypeOK
  <2>2. ASSUME NEW e \in live PROVE row[e.business] = [status |-> "active", capital |-> e.capital]
    BY <2>1 DEF Capitalised
  <2>3. ASSUME NEW e \in live PROVE row[e.business].status = "active"
    <3>1. row[e.business] = [status |-> "active", capital |-> e.capital]
      BY <2>2
    <3> QED
      BY <3>1
  <2>4. \A e \in live : e.business \in Businesses
    BY <2>1, AmountsAssumption
  <2> QED
    BY <2>1, <2>3, <2>4
<1>2. CASE Request(p)
  BY <1>1, <1>2, RequestEffect DEF Capitalised, Funding, Leaving, Over
<1>3. CASE InsertDraft(p)
  <2>1. CASE row[o.business].status = "absent" /\ Rowing(o.business, "draft", o.capital)
                /\ Placing(p, "allocate")
    <3>1. journal' = journal /\ live' = live /\ o.business \in Businesses
      BY <1>3, DraftEffect
    <3>2. \A b \in Businesses : b # o.business => row'[b] = row[b]
      BY <2>1 DEF Rowing
    <3>3. row'[o.business] = [status |-> "draft", capital |-> o.capital]
      BY <2>1, <3>1 DEF Rowing
    <3>4. \A b \in Businesses : b # o.business => Funding(b)' = Funding(b)
      BY <3>2 DEF Funding
    <3>5. Posted(<<"capital", o.business>>) = {}
      BY <2>1, <3>1, CapitalKey DEF IInv
    <3>6. \A k : Grant(o.business, k) \notin journal
      BY <3>5 DEF Posted, Funding, Grant, CapitalTxn, Txn
    <3>7. \A q \in Launches : launch[q].step \in Founding =>
             launch[q].offer.business \in Businesses \ {o.business}
      BY <2>1, LaunchTyped DEF IInv, Founders
    <3>8. \A q \in Launches : q # p => launch'[q] = launch[q]
      BY <2>1 DEF Placing
    <3>9. launch'[p] = [step |-> "allocate", offer |-> o]
      BY <2>1 DEF Placing
    <3>10. \A e \in live : e.business \in Businesses \ {o.business}
      BY <1>1, <2>1
    <3>11. \A q \in Launches :
             /\ launch'[q].step = "allocate" =>
                   Grant(launch'[q].offer.business, row'[launch'[q].offer.business].capital)
                     \notin journal
             /\ launch'[q].step \in {"readiness", "activate", "announce"} =>
                   Grant(launch'[q].offer.business, row'[launch'[q].offer.business].capital)
                     \in journal
      <4> TAKE q \in Launches
      <4>1. CASE q = p
        BY <3>6, <3>9, <4>1
      <4>2. CASE q # p
        <5>1. launch[q].step \in {"allocate", "readiness", "activate", "announce"} =>
                row'[launch[q].offer.business] = row[launch[q].offer.business]
          BY <3>2, <3>7 DEF Founding
        <5> QED
          BY <1>1, <3>8, <4>2, <5>1 DEF Capitalised, Funding
      <4> QED
        BY <4>1, <4>2
    <3>12. \A b \in Businesses :
             /\ row'[b].status # "absent" => row'[b].capital >= Budget[b]
             /\ row'[b].status = "active" => Funding(b)' \in journal
      BY <1>1, <1>3, <3>2, <3>3, <3>4, DraftEffect DEF Capitalised
    <3>13. \A e \in live : row'[e.business] = [status |-> "active", capital |-> e.capital]
      BY <1>1, <3>2, <3>10 DEF Capitalised
    <3> QED
      BY <3>1, <3>11, <3>12, <3>13 DEF Capitalised, Funding
  <2>2. CASE row' = row /\ Leaving(p)
    BY <1>1, <1>3, <2>2, DraftEffect DEF Capitalised, Funding, Leaving, Over
  <2> QED
    BY <1>3, <2>1, <2>2, DraftEffect
<1>4. CASE Allocate(p)
  <2>1. /\ row' = row /\ live' = live /\ launch[p].step = "allocate"
        /\ o.business \in Businesses /\ CapitalTxn(o) = Funding(o.business)
        /\ Book(CapitalTxn(o)) /\ Placing(p, "readiness")
    BY <1>4, AllocateEffect DEF Funding, Grant, CapitalTxn, Txn
  <2>2. \A b : Funding(b)' = Funding(b)
    BY <2>1 DEF Funding
  <2>3. Posted(CapitalTxn(o).key) = {}
    <3>1. Funding(o.business) \notin journal
      BY <1>1, <2>1 DEF Capitalised
    <3> QED
      BY <2>1, <3>1, CapitalKey DEF IInv, Posted, CapitalTxn, Txn
  <2>4. journal' = journal \cup {Funding(o.business)}
    BY <2>1, <2>3 DEF Book
  <2>5. \A q \in Launches : q # p => launch'[q] = launch[q]
    BY <2>1 DEF Placing
  <2>6. launch'[p] = [step |-> "readiness", offer |-> o]
    BY <2>1 DEF Placing
  <2>7. \A q \in Launches : q # p /\ launch[q].step = "allocate" =>
          Funding(launch[q].offer.business) # Funding(o.business)
    <3>1. \A q \in Launches : q # p /\ launch[q].step = "allocate" =>
            launch[q].offer.business # o.business
      BY <2>1 DEF IInv, Founders, Founding
    <3> QED
      BY <3>1 DEF Funding, Grant, CapitalTxn, Txn
  <2> QED
    BY <1>1, <2>1, <2>2, <2>4, <2>5, <2>6, <2>7 DEF Capitalised
<1>5. CASE CheckReadiness(p)
  BY <1>1, <1>5, ReadinessEffect DEF Capitalised, Funding, Placing, Leaving, Over
<1>6. CASE Activate(p)
  <2>1. /\ journal' = journal /\ live' = live /\ launch[p].step = "activate"
        /\ o.business \in Businesses /\ o.capital >= Budget[o.business]
        /\ row[o.business].capital = o.capital /\ row[o.business].status = "draft"
        /\ Rowing(o.business, "active", o.capital) /\ Placing(p, "announce")
    BY <1>6, ActivateEffect
  <2>2. \A b \in Businesses : b # o.business => row'[b] = row[b]
    BY <2>1 DEF Rowing
  <2>3. row'[o.business] = [status |-> "active", capital |-> o.capital]
    BY <2>1 DEF Rowing
  <2>4. \A b \in Businesses : Funding(b)' = Funding(b)
    BY <2>1, <2>2, <2>3 DEF Funding
  <2>5. \A q \in Launches : q # p => launch'[q] = launch[q]
    BY <2>1 DEF Placing
  <2>6. launch'[p] = [step |-> "announce", offer |-> o]
    BY <2>1 DEF Placing
  <2>7. \A q \in Launches : launch[q].step \in Founding => launch[q].offer.business \in Businesses
    BY LaunchTyped
  <2>8. \A e \in live : e.business \in Businesses \ {o.business}
    BY <1>1, <2>1
  <2>9. Funding(o.business) \in journal
    BY <1>1, <2>1 DEF Capitalised
  <2> QED
    BY <1>1, <2>1, <2>2, <2>3, <2>4, <2>5, <2>6, <2>7, <2>8, <2>9 DEF Capitalised, Founding
<1>7. CASE Announce(p) \/ DieLaunching(p)
  <2>1. \A e \in live' : row[e.business] = [status |-> "active", capital |-> e.capital]
    <3>1. ASSUME NEW e \in Offers, row[e.business].status = "active",
                 row[e.business].capital = e.capital
          PROVE  row[e.business] = [status |-> "active", capital |-> e.capital]
      <4>1. row[e.business] \in [status : {"absent", "draft", "active"}, capital : Int]
        BY AmountsAssumption DEF IInv, TypeOK
      <4> QED
        BY <3>1, <4>1
    <3> QED
      <4>1. \A e \in live : row[e.business] = [status |-> "active", capital |-> e.capital]
        BY <1>1 DEF Capitalised
      <4>2. CASE live' = live
        BY <4>1, <4>2
      <4>3. CASE live' = live \cup {o} /\ o \in Offers /\ row[o.business].status = "active"
                   /\ row[o.business].capital = o.capital
        BY <3>1, <4>1, <4>3
      <4> QED
        BY <1>7, <4>2, <4>3, LastEffect
  <2> QED
    BY <1>1, <1>7, <2>1, LastEffect DEF Capitalised, Funding, Leaving, Over
<1> QED
  BY <1>2, <1>3, <1>4, <1>5, <1>6, <1>7 DEF LaunchStep

LEMMA LaunchKeepsOrigins ==
  ASSUME IInv, NEW p \in Launches, LaunchStep(p)
  PROVE  Origins'
<1>1. call' = call
  BY DEF LaunchStep, Request, InsertDraft, Allocate, CheckReadiness, Activate, Announce,
         DieLaunching, calling
<1>2. \A b \in Businesses : row[b].status # "absent" =>
        row'[b].status # "absent" /\ row'[b].capital = row[b].capital
  BY RequestEffect, DraftEffect, AllocateEffect, ReadinessEffect, ActivateEffect, LastEffect
     DEF LaunchStep, Rowing
<1>3. \A b \in Businesses : row[b].status # "absent" => Funding(b)' = Funding(b)
  BY <1>2 DEF Funding
<1>4. CASE journal' = journal
  BY <1>1, <1>2, <1>3, <1>4 DEF IInv, Origins
<1>5. CASE Allocate(p)
  <2> DEFINE b == launch[p].offer.business
  <2>1. /\ b \in Businesses /\ row[b].status = "draft"
        /\ Book(CapitalTxn(launch[p].offer)) /\ CapitalTxn(launch[p].offer) = Funding(b)
    BY <1>5, AllocateEffect DEF Funding, Grant, CapitalTxn, Txn
  <2>2. journal' \ journal \subseteq {Funding(b)}
    BY <2>1, BookGrows DEF IInv
  <2> HIDE DEF b
  <2>3. \A t \in journal : t \in journal => Origins
    BY DEF IInv
  <2> QED
    BY <1>1, <1>2, <1>3, <2>1, <2>2 DEF IInv, Origins
<1> QED
  BY <1>4, <1>5, RequestEffect, DraftEffect, ReadinessEffect, ActivateEffect, LastEffect
     DEF LaunchStep

LEMMA LaunchKeeps ==
  ASSUME IInv, NEW p \in Launches, LaunchStep(p)
  PROVE  IInv'
<1>1. UNCHANGED <<calling, selling, advertising>>
  BY DEF LaunchStep, Request, InsertDraft, Allocate, CheckReadiness, Activate, Announce,
         DieLaunching, calling, selling, advertising
<1>2. IsFiniteSet(journal') /\ journal \subseteq journal'
  BY BookGrows, RequestEffect, DraftEffect, AllocateEffect, ReadinessEffect, ActivateEffect,
     LastEffect DEF IInv, LaunchStep
<1>3. Metered' /\ Passed'
  BY <1>1, <1>2, MeteredKept, PassedKept DEF IInv
<1> QED
  BY <1>2, <1>3, LaunchKeepsTypes, LaunchKeepsOrigins, LaunchKeepsFounders, LaunchKeepsCapital
     DEF IInv

----------------------------------------------------------------------------
(* The steps of a model call.                                              *)

CallStep(c) == Ask(c) \/ Infer(c) \/ Meter(c) \/ DieCalling(c)

CallAt(c, s, p, k) ==
    call' = [d \in Calls |-> IF d = c THEN [step |-> s, prompt |-> p, spent |-> k] ELSE call[d]]

LEMMA CallTyped ==
  ASSUME IInv, NEW c \in Calls
  PROVE  /\ \A s : To(c, s) => CallAt(c, s, call[c].prompt, call[c].spent)
         /\ \A s : End(c, s) => CallAt(c, s, call[c].prompt, 0)
<1>1. call \in [Calls -> [step : CallSteps, prompt : Prompts \cup {NoPrompt}, spent : Int]]
  BY DEF IInv, TypeOK
<1> PICK l : l = call[c]
  OBVIOUS
<1>2. l \in [step : CallSteps, prompt : Prompts \cup {NoPrompt}, spent : Int]
  BY <1>1
<1>3. \A s : [l EXCEPT !.step = s] = [step |-> s, prompt |-> l.prompt, spent |-> l.spent]
  BY <1>2
<1>4. ASSUME NEW s, To(c, s) PROVE CallAt(c, s, l.prompt, l.spent)
  <2>1. call' = [call EXCEPT ![c] = [l EXCEPT !.step = s]]
    BY <1>4 DEF To
  <2>2. call' = [call EXCEPT ![c] = [step |-> s, prompt |-> l.prompt, spent |-> l.spent]]
    BY <1>3, <2>1
  <2> QED
    BY <1>1, <2>2 DEF CallAt
<1>5. \A s : End(c, s) => CallAt(c, s, l.prompt, 0)
  BY <1>1 DEF End, CallAt
<1> QED
  BY <1>4, <1>5

LEMMA CallFrame ==
  ASSUME NEW c \in Calls, CallStep(c)
  PROVE  UNCHANGED <<row, launching, selling, advertising>>
BY DEF CallStep, Ask, Infer, Meter, DieCalling, launching, selling, advertising

LEMMA AskEffect ==
  ASSUME IInv, NEW c \in Calls, Ask(c)
  PROVE  /\ journal' = journal /\ inferred' = inferred /\ call[c].step = "idle"
         /\ \/ \E p \in Prompts, k \in Int :
                  CallAt(c, "infer", p, k) /\ Gate(p, k)
            \/ CallAt(c, "denied", NoPrompt, 0)
<1>1. call \in [Calls -> [step : CallSteps, prompt : Prompts \cup {NoPrompt}, spent : Int]]
  BY DEF IInv, TypeOK
<1>2. PICK p, k :
        /\ p \in Prompts /\ k = Balance(Llm(p.business))
        /\ call' = [call EXCEPT ![c] =
              IF row[p.business].status # "absent" /\ Gate(p, k)
              THEN [step |-> "infer", prompt |-> p, spent |-> k]
              ELSE [step |-> "denied", prompt |-> NoPrompt, spent |-> 0]]
  BY DEF Ask
<1>3. p \in Prompts /\ k \in Int
  BY <1>2, BalanceIsInt DEF IInv
<1>4. \/ CallAt(c, "infer", p, k) /\ Gate(p, k)
      \/ CallAt(c, "denied", NoPrompt, 0)
  BY <1>1, <1>2 DEF CallAt
<1> QED
  BY <1>3, <1>4 DEF Ask

LEMMA InferEffect ==
  ASSUME IInv, NEW c \in Calls, Infer(c)
  PROVE  /\ journal' = journal /\ call[c].step = "infer" /\ call[c].prompt \in Prompts
         /\ \/ /\ inferred' = inferred \cup {c} /\ call[c].prompt.cost > 0
               /\ CallAt(c, "meter", call[c].prompt, call[c].spent)
            \/ /\ inferred' = inferred \cup {c} /\ call[c].prompt.cost = 0
               /\ CallAt(c, "answered", call[c].prompt, 0)
            \/ inferred' = inferred /\ CallAt(c, "dead", call[c].prompt, 0)
<1>1. call[c].step = "infer" /\ call[c].prompt \in Prompts
  BY DEF Infer, IInv, Metered
<1>2. call[c].prompt.cost > 0 \/ call[c].prompt.cost = 0
  BY <1>1, AmountsAssumption
<1>3. call[c].prompt.cost = 0 => ~ (call[c].prompt.cost > 0)
  OBVIOUS
<1> QED
  BY <1>1, <1>2, <1>3, CallTyped DEF Infer

LEMMA MeterEffect ==
  ASSUME IInv, NEW c \in Calls, Meter(c)
  PROVE  /\ inferred' = inferred /\ call[c].step = "meter" /\ call[c].prompt \in Prompts
         /\ \/ /\ CallAt(c, "answered", call[c].prompt, 0)
               /\ journal' = journal \cup {InferenceTxn(c, call[c].prompt)}
               /\ InferenceTxn(c, call[c].prompt) \notin journal
            \/ journal' = journal /\ CallAt(c, "denied", call[c].prompt, 0)
<1> PICK t : t = InferenceTxn(c, call[c].prompt)
  OBVIOUS
<1>1. call[c].step = "meter" /\ call[c].prompt \in Prompts
  BY DEF Meter, IInv, Metered
<1>2. Posted(t.key) = {}
  BY <1>1, InferenceKey DEF IInv, InferenceTxn, Txn
<1>3. Book(t) => journal' = journal \cup {t} /\ t \notin journal
  BY <1>2 DEF Book, Posted
<1> QED
  BY <1>1, <1>3, CallTyped DEF Meter

LEMMA DieCallingEffect ==
  ASSUME IInv, NEW c \in Calls, DieCalling(c)
  PROVE  /\ journal' = journal /\ inferred' = inferred
         /\ call[c].step \in {"infer", "meter"}
         /\ CallAt(c, "dead", call[c].prompt, 0)
BY CallTyped DEF DieCalling

LEMMA CallKeeps ==
  ASSUME IInv, NEW c \in Calls, CallStep(c)
  PROVE  IInv'
<1> USE AskEffect, InferEffect, MeterEffect, DieCallingEffect DEF CallStep
<1> PICK t : t = InferenceTxn(c, call[c].prompt)
  OBVIOUS
<1>1. /\ journal' = journal \/ journal' = journal \cup {t}
      /\ journal' # journal => CallAt(c, "answered", call[c].prompt, 0)
      /\ call[c].step # "answered"
  OBVIOUS
<1>2. IsFiniteSet(journal') /\ journal \subseteq journal'
  BY <1>1, FS_AddElement DEF IInv
<1>3. call' \in [Calls -> [step : CallSteps, prompt : Prompts \cup {NoPrompt}, spent : Int]]
  BY DEF IInv, TypeOK, CallAt, CallSteps
<1>4. TypeOK'
  <2>1. inferred' \subseteq Calls
    BY DEF IInv, TypeOK
  <2> QED
    BY <1>3, <2>1, CallFrame DEF IInv, TypeOK, launching, selling, advertising
<1>5. Passed'
  BY <1>2, CallFrame, PassedKept DEF IInv
<1>6. Founders' /\ Capitalised'
  <2>1. \A u \in journal' \ journal : u.key[1] # "capital"
    BY <1>1 DEF InferenceTxn, Txn
  <2> QED
    BY <1>2, <2>1, CallFrame, FoundedKept DEF IInv
<1>7. \A d \in Calls : d # c => call'[d] = call[d]
  BY DEF CallAt
<1>8. Origins'
  <2>1. \A b : Funding(b)' = Funding(b)
    BY CallFrame DEF Funding
  <2>2. \A d \in Calls : call[d].step = "answered" => call'[d] = call[d]
    BY <1>1, <1>7
  <2>3. row' = row
    BY CallFrame
  <2>4. \A u \in journal :
          \/ \E b \in Businesses : row'[b].status # "absent" /\ u = Funding(b)'
          \/ \E d \in Calls : call'[d].step = "answered" /\ u = InferenceTxn(d, call'[d].prompt)
          \/ \E i \in DOMAIN Settled : u = ChargeTxn(Settled[i])
          \/ \E i \in DOMAIN Campaigns : u = AdTxn(Campaigns[i])
          \/ \E x \in Payments : u = PaymentTxn(x)
    BY <2>1, <2>2, <2>3 DEF IInv, Origins
  <2>5. CASE journal' = journal
    BY <2>4, <2>5 DEF Origins
  <2>6. CASE journal' # journal
    <3>1. call'[c].step = "answered" /\ t = InferenceTxn(c, call'[c].prompt)
      BY <1>1, <2>6 DEF CallAt
    <3> QED
      BY <1>1, <2>4, <3>1 DEF Origins
  <2> QED
    BY <2>5, <2>6
<1>9. Metered'
  <2> SUFFICES ASSUME NEW d \in Calls
               PROVE  /\ call'[d].step \in {"infer", "meter"} =>
                            call'[d].prompt \in Prompts /\ Gate(call'[d].prompt, call'[d].spent)
                      /\ call'[d].step \in {"idle", "infer"} => d \notin inferred'
                      /\ call'[d].step = "answered" =>
                            \/ call'[d].prompt.cost = 0
                            \/ InferenceTxn(d, call'[d].prompt) \in journal'
    BY DEF Metered, Gate, Econ!GatePasses, Econ!WithinLlmBudget
  <2>1. CASE d # c
    BY <1>2, <1>7, <2>1 DEF IInv, Metered
  <2>2. CASE d = c
    <3>1. CASE Ask(c)
      BY <2>2, <3>1 DEF CallAt, IInv, Metered
    <3>2. CASE Infer(c)
      <4>1. Gate(call[c].prompt, call[c].spent)
        BY <3>2 DEF IInv, Metered
      <4> QED
        BY <2>2, <3>2, <4>1 DEF CallAt, IInv, Metered
    <3>3. CASE Meter(c)
      BY <2>2, <3>3 DEF CallAt, IInv, Metered
    <3>4. CASE DieCalling(c)
      BY <2>2, <3>4 DEF CallAt, IInv, Metered
    <3> QED
      BY <3>1, <3>2, <3>3, <3>4
  <2> QED
    BY <2>1, <2>2
<1> QED
  BY <1>2, <1>4, <1>5, <1>6, <1>8, <1>9 DEF IInv

----------------------------------------------------------------------------
(* The revenue rail, the advertising agent, and those who only look.       *)

\* A step that neither launches nor calls a model keeps their parts.
LEMMA OthersKept ==
  ASSUME IInv, UNCHANGED <<row, launching, calling>>,
         journal' = journal \/ \E t : Book(t) /\ t.key[1] # "capital"
               /\ \/ \E i \in DOMAIN Settled : t = ChargeTxn(Settled[i])
                  \/ \E i \in DOMAIN Campaigns : t = AdTxn(Campaigns[i])
                  \/ \E x \in Payments : t = PaymentTxn(x)
  PROVE  /\ IsFiniteSet(journal') /\ journal \subseteq journal'
         /\ Origins' /\ Founders' /\ Capitalised' /\ Metered'
<1>1. /\ IsFiniteSet(journal') /\ journal \subseteq journal'
      /\ \A t \in journal' \ journal :
            /\ t.key[1] # "capital"
            /\ \/ \E i \in DOMAIN Settled : t = ChargeTxn(Settled[i])
               \/ \E i \in DOMAIN Campaigns : t = AdTxn(Campaigns[i])
               \/ \E x \in Payments : t = PaymentTxn(x)
  <2>1. CASE journal' = journal
    BY <2>1 DEF IInv
  <2>2. CASE journal' # journal
    <3>1. PICK t : /\ Book(t) /\ t.key[1] # "capital"
                   /\ \/ \E i \in DOMAIN Settled : t = ChargeTxn(Settled[i])
                      \/ \E i \in DOMAIN Campaigns : t = AdTxn(Campaigns[i])
                      \/ \E x \in Payments : t = PaymentTxn(x)
      BY <2>2
    <3> QED
      BY <3>1, BookGrows DEF IInv
  <2> QED
    BY <2>1, <2>2
<1>2. \A b : Funding(b)' = Funding(b)
  BY DEF Funding
<1>3. Origins'
  BY <1>1, <1>2 DEF IInv, Origins, calling
<1>4. Founders' /\ Capitalised'
  BY <1>1, FoundedKept DEF IInv
<1>5. Metered'
  BY <1>1, MeteredKept DEF IInv
<1> QED
  BY <1>1, <1>3, <1>4, <1>5

RailStep == PullCharges \/ BookCharge \/ ReturnCharges \/ DieSelling
AdStep == StartCampaigns \/ RunCampaign \/ BookCampaign \/ DieAdvertising
PayStep == \E x \in Payments : Admit(x) \/ Pay(x) \/ DropPayment(x)
IdleStep == (\E b \in Businesses : Kill(b)) \/ Look \/ Read \/ UNCHANGED vars

\* A charge the rail passes is in the ledger: its own, or the first under its
\* reference, which is the same charge.
LEMMA RailKeeps == ASSUME IInv, RailStep PROVE IInv'
<1>1. UNCHANGED <<row, launching, calling, advertising>>
  BY DEF RailStep, PullCharges, BookCharge, ReturnCharges, DieSelling, launching, calling,
         advertising
<1>2. Settled \in Seq(Bills) /\ Len(Settled) \in Nat /\ DOMAIN Settled = 1..Len(Settled)
  BY SettledBills
<1>3. rail \in [at : Nat, runs : Nat]
  BY DEF IInv, TypeOK
<1>4. journal' = journal
        \/ \E i \in DOMAIN Settled : Book(ChargeTxn(Settled[i]))
  BY DEF RailStep, PullCharges, BookCharge, ReturnCharges, DieSelling
<1>5. \A i : ChargeTxn(Settled[i]).key[1] # "capital"
  BY DEF ChargeTxn, Txn
<1>6. /\ IsFiniteSet(journal') /\ journal \subseteq journal'
      /\ Origins' /\ Founders' /\ Capitalised' /\ Metered'
  BY <1>1, <1>4, <1>5, OthersKept
<1>7. rail' \in [at : Nat, runs : Nat]
  BY <1>2, <1>3 DEF RailStep, PullCharges, BookCharge, ReturnCharges, DieSelling
<1>8. TypeOK'
  BY <1>1, <1>7 DEF IInv, TypeOK, launching, calling, advertising
<1>9. Passed'
  <2>1. \A i \in DOMAIN Settled : i < rail'.at => ChargeTxn(Settled[i]) \in journal'
    <3>1. CASE PullCharges
      <4>1. rail'.at = 1
        BY <3>1 DEF PullCharges
      <4> QED
        BY <1>2, <4>1
    <3>2. CASE BookCharge
      <4> PICK k : k = rail.at
        OBVIOUS
      <4>1. k \in DOMAIN Settled /\ rail'.at = k + 1 /\ Book(ChargeTxn(Settled[k]))
        BY <1>3, <3>2 DEF BookCharge
      <4>2. ChargeTxn(Settled[k]) \in journal'
        <5>1. CASE Posted(ChargeTxn(Settled[k]).key) = {}
          BY <4>1, <5>1 DEF Book
        <5>2. CASE Posted(ChargeTxn(Settled[k]).key) # {}
          <6>1. ChargeTxn(Settled[k]).key = <<"rev", Settled[k].ref>>
            BY DEF ChargeTxn, Txn
          <6>2. PICK t \in Posted(<<"rev", Settled[k].ref>>) : TRUE
            BY <5>2, <6>1
          <6>3. t = ChargeTxn(Settled[k])
            BY <4>1, ChargeKey DEF IInv
          <6> QED
            BY <1>6, <6>2, <6>3 DEF Posted
        <5> QED
          BY <5>1, <5>2
      <4>3. \A i \in DOMAIN Settled : i < k + 1 => i < k \/ i = k
        BY <1>2, <4>1
      <4> QED
        BY <1>6, <4>1, <4>2, <4>3 DEF IInv, Passed
    <3>3. CASE ReturnCharges \/ DieSelling
      <4>1. rail'.at = 0
        BY <1>3, <3>3 DEF ReturnCharges, DieSelling
      <4> QED
        BY <1>2, <4>1
    <3> QED
      BY <3>1, <3>2, <3>3 DEF RailStep
  <2>2. \A ch \in reported' : ChargeTxn(ch) \in journal'
    <3>1. CASE ReturnCharges
      <4>1. \A i \in DOMAIN Settled : i < rail.at
        BY <1>2, <1>3, <3>1 DEF ReturnCharges
      <4>2. reported' = reported \cup {Settled[i] : i \in DOMAIN Settled}
        BY <3>1 DEF ReturnCharges, ToSet
      <4> QED
        BY <1>6, <4>1, <4>2 DEF IInv, Passed
    <3>2. CASE reported' = reported
      BY <1>6, <3>2 DEF IInv, Passed
    <3> QED
      BY <3>1, <3>2 DEF RailStep, PullCharges, BookCharge, DieSelling
  <2> QED
    BY <1>1, <1>6, <2>1, <2>2 DEF IInv, Passed, advertising
<1> QED
  BY <1>6, <1>8, <1>9 DEF IInv

\* A campaign stays accounted for: it is being booked, booked or lost.
LEMMA AdsKeep == ASSUME IInv, AdStep PROVE IInv'
<1>1. UNCHANGED <<row, launching, calling, selling>>
  BY DEF AdStep, StartCampaigns, RunCampaign, BookCampaign, DieAdvertising, launching, calling,
         selling
<1>2. Len(Campaigns) \in Nat /\ DOMAIN Campaigns = 1..Len(Campaigns)
  BY AmountsAssumption
<1>3. ads \in [at : 0..Len(Campaigns), ran : BOOLEAN, runs : Nat] /\ (ads.ran => ads.at # 0)
  BY DEF IInv, TypeOK, Passed
<1>4. journal' = journal
        \/ \E i \in DOMAIN Campaigns : Book(AdTxn(Campaigns[i]))
  BY <1>2 DEF AdStep, StartCampaigns, RunCampaign, BookCampaign, DieAdvertising
<1>5. \A i : AdTxn(Campaigns[i]).key[1] # "capital"
  BY DEF AdTxn, Txn
<1>6. /\ IsFiniteSet(journal') /\ journal \subseteq journal'
      /\ Origins' /\ Founders' /\ Capitalised' /\ Metered'
  BY <1>1, <1>4, <1>5, OthersKept
<1> PICK k, r, n : k = ads.at /\ r = ads.ran /\ n = ads.runs
  OBVIOUS
<1>7. /\ k \in 0..Len(Campaigns) /\ r \in BOOLEAN /\ n \in Nat /\ (r => k # 0)
      /\ ads = [at |-> k, ran |-> r, runs |-> n]
  BY <1>3
<1>8. ASSUME NEW i \in DOMAIN Campaigns, Campaigns[i].ref \in placed
      PROVE  AdTxn(Campaigns[i]) \in journal \/ (k = i /\ r) \/ Campaigns[i].ref \in lost
  BY <1>8 DEF IInv, Passed
<1>9. /\ \A i \in DOMAIN Settled : i < rail'.at => ChargeTxn(Settled[i]) \in journal'
      /\ \A ch \in reported' : ChargeTxn(ch) \in journal'
  BY <1>1, <1>6 DEF IInv, Passed, selling
<1>10. CASE StartCampaigns
  <2>1. /\ ads' = [at |-> 1, ran |-> FALSE, runs |-> n + 1]
        /\ placed' = placed /\ lost' = lost /\ k = 0 /\ Campaigns # <<>>
    BY <1>10 DEF StartCampaigns
  <2>2. ads' \in [at : 0..Len(Campaigns), ran : BOOLEAN, runs : Nat]
    <3>1. Campaigns \in Seq(ToSet(Campaigns))
      BY AmountsAssumption
    <3>2. 1 \in 0..Len(Campaigns)
      BY <1>2, <2>1, <3>1
    <3> QED
      BY <1>7, <2>1, <3>2
  <2>3. \A i \in DOMAIN Campaigns : Campaigns[i].ref \in placed' =>
          AdTxn(Campaigns[i]) \in journal' \/ (ads'.at = i /\ ads'.ran) \/ Campaigns[i].ref \in lost'
    BY <1>2, <1>6, <1>7, <1>8, <2>1
  <2> QED
    BY <1>1, <1>6, <1>9, <2>1, <2>2, <2>3 DEF IInv, TypeOK, Passed, launching, calling, selling
<1>11. CASE RunCampaign
  <2>1. /\ ads' = [at |-> k, ran |-> TRUE, runs |-> n] /\ k \in DOMAIN Campaigns /\ ~ r
        /\ placed' = placed \cup {Campaigns[k].ref} /\ lost' = lost
    BY <1>2, <1>7, <1>11 DEF RunCampaign
  <2>2. ads' \in [at : 0..Len(Campaigns), ran : BOOLEAN, runs : Nat] /\ k # 0
    BY <1>2, <1>7, <2>1
  <2>3. \A i \in DOMAIN Campaigns : Campaigns[i].ref \in placed' =>
          AdTxn(Campaigns[i]) \in journal' \/ (ads'.at = i /\ ads'.ran) \/ Campaigns[i].ref \in lost'
    BY <1>6, <1>8, <2>1, ReferencesAssumption
  <2> QED
    BY <1>1, <1>6, <1>9, <2>1, <2>2, <2>3 DEF IInv, TypeOK, Passed, launching, calling, selling
<1>12. CASE BookCampaign
  <2>1. /\ ads' = [at |-> IF k = Len(Campaigns) THEN 0 ELSE k + 1, ran |-> FALSE, runs |-> n]
        /\ k \in DOMAIN Campaigns /\ Book(AdTxn(Campaigns[k]))
        /\ placed' = placed /\ lost' = lost
    BY <1>2, <1>7, <1>12 DEF BookCampaign
  <2>2. ads' \in [at : 0..Len(Campaigns), ran : BOOLEAN, runs : Nat]
    BY <1>2, <1>7, <2>1
  <2>3. AdTxn(Campaigns[k]) \in journal'
    <3>1. CASE Posted(AdTxn(Campaigns[k]).key) = {}
      BY <2>1, <3>1 DEF Book
    <3>2. CASE Posted(AdTxn(Campaigns[k]).key) # {}
      <4>1. AdTxn(Campaigns[k]).key = <<"ad", Campaigns[k].ref>>
        BY DEF AdTxn, Txn
      <4>2. PICK t \in Posted(<<"ad", Campaigns[k].ref>>) : TRUE
        BY <3>2, <4>1
      <4>3. t = AdTxn(Campaigns[k])
        BY <2>1, CampaignKey DEF IInv
      <4> QED
        BY <1>6, <4>2, <4>3 DEF Posted
    <3> QED
      BY <3>1, <3>2
  <2>4. \A i \in DOMAIN Campaigns : Campaigns[i].ref \in placed' =>
          AdTxn(Campaigns[i]) \in journal' \/ (ads'.at = i /\ ads'.ran) \/ Campaigns[i].ref \in lost'
    BY <1>6, <1>8, <2>1, <2>3
  <2> QED
    BY <1>1, <1>6, <1>9, <2>1, <2>2, <2>4 DEF IInv, TypeOK, Passed, launching, calling, selling
<1>13. CASE DieAdvertising
  <2>1. /\ ads' = [at |-> 0, ran |-> FALSE, runs |-> n] /\ placed' = placed /\ lost \subseteq lost'
        /\ r => Campaigns[k].ref \in lost'
    BY <1>7, <1>13 DEF DieAdvertising
  <2>2. ads' \in [at : 0..Len(Campaigns), ran : BOOLEAN, runs : Nat]
    BY <1>2, <1>7, <2>1
  <2>3. \A i \in DOMAIN Campaigns : Campaigns[i].ref \in placed' =>
          AdTxn(Campaigns[i]) \in journal' \/ (ads'.at = i /\ ads'.ran) \/ Campaigns[i].ref \in lost'
    BY <1>6, <1>8, <2>1
  <2> QED
    BY <1>1, <1>6, <1>9, <2>1, <2>2, <2>3 DEF IInv, TypeOK, Passed, launching, calling, selling
<1> QED
  BY <1>10, <1>11, <1>12, <1>13 DEF AdStep

LEMMA PayKeeps == ASSUME IInv, PayStep PROVE IInv'
<1>1. UNCHANGED <<row, launching, calling, selling, advertising>>
  BY DEF PayStep, Admit, Pay, DropPayment, launching, calling, selling, advertising
<1>2. journal' = journal \/ \E x \in Payments : Book(PaymentTxn(x))
  BY DEF PayStep, Admit, Pay, DropPayment
<1>3. \A x : PaymentTxn(x).key[1] # "capital"
  BY DEF PaymentTxn, Txn
<1>4. /\ IsFiniteSet(journal') /\ journal \subseteq journal'
      /\ Origins' /\ Founders' /\ Capitalised' /\ Metered'
  BY <1>1, <1>2, <1>3, OthersKept
<1>5. TypeOK'
  BY <1>1 DEF IInv, TypeOK, launching, calling, selling, advertising
<1>6. Passed'
  BY <1>1, <1>4, PassedKept DEF IInv
<1> QED
  BY <1>4, <1>5, <1>6 DEF IInv

LEMMA IdleKeeps == ASSUME IInv, IdleStep PROVE IInv'
<1>1. UNCHANGED <<row, journal, launching, calling, selling, advertising>>
  BY DEF IdleStep, Kill, Look, Read, vars, launching, calling, selling, advertising, watching
<1>2. TypeOK'
  BY <1>1 DEF IInv, TypeOK, launching, calling, selling, advertising
<1>3. Origins' /\ Founders' /\ Capitalised' /\ Metered'
  BY <1>1, OthersKept
<1>4. Passed'
  BY <1>1, PassedKept DEF IInv
<1> QED
  BY <1>1, <1>2, <1>3, <1>4 DEF IInv

LEMMA NextIInv == IInv /\ [Next]_vars => IInv'
<1> SUFFICES ASSUME IInv, [Next]_vars PROVE IInv'
  OBVIOUS
<1>1. \/ \E p \in Launches : LaunchStep(p)
      \/ \E c \in Calls : CallStep(c)
      \/ PayStep \/ RailStep \/ AdStep \/ IdleStep
  BY DEF Next, LaunchStep, CallStep, PayStep, RailStep, AdStep, IdleStep
<1> QED
  BY <1>1, LaunchKeeps, CallKeeps, PayKeeps, RailKeeps, AdsKeep, IdleKeeps

(* The inductive invariant holds in every reachable state. *)
THEOREM Invariance == Spec => []IInv
BY InitIInv, NextIInv, PTL DEF Spec

----------------------------------------------------------------------------
(* What it shows.                                                          *)

LEMMA FundedActivation == IInv => ActivationIsFunded
<1> SUFFICES ASSUME IInv PROVE ActivationIsFunded
  OBVIOUS
<1>1. ASSUME NEW b \in Businesses, row[b].status = "active"
      PROVE  /\ row[b].capital >= Budget[b]
             /\ {t.postings : t \in Posted(<<"capital", b>>)}
                   = {Move(row[b].capital, Cash(b), Treasury)}
  <2>1. row[b].capital >= Budget[b] /\ Funding(b) \in journal
    BY <1>1 DEF IInv, Capitalised
  <2>2. /\ Funding(b).key = <<"capital", b>>
        /\ Funding(b).postings = Move(row[b].capital, Cash(b), Treasury)
    BY DEF Funding, Grant, CapitalTxn, Txn
  <2>3. Posted(<<"capital", b>>) = {Funding(b)}
    BY <2>1, <2>2, CapitalKey DEF Posted, IInv
  <2> QED
    BY <2>1, <2>2, <2>3
<1> QED
  BY <1>1 DEF ActivationIsFunded, IInv, Capitalised

\* An active business holds, once, the capital its row says, however calls of
\* provision() race for it and wherever they die.
THEOREM ActivationFunded == Spec => []ActivationIsFunded
BY Invariance, FundedActivation, PTL

\* Nothing that happened outside is missing from the books, but for a process
\* between the effect and its posting, or dead there.
LEMMA BookedEffects == IInv => NothingUnbooked
<1> SUFFICES ASSUME IInv PROVE NothingUnbooked
  OBVIOUS
<1>1. ASSUME NEW c \in inferred
      PROVE  \/ InferenceTxn(c, call[c].prompt) \in journal
             \/ call[c].prompt.cost = 0
             \/ call[c].step \in {"meter", "dead", "denied"}
  <2>1. c \in Calls /\ call[c].step \in CallSteps
    BY <1>1 DEF IInv, TypeOK
  <2> QED
    BY <1>1, <2>1 DEF IInv, Metered, CallSteps
<1> QED
  BY <1>1 DEF NothingUnbooked, IInv, Passed

(* Every charge that was reported is in the books; so is every campaign that *)
(* was placed, but for the one being posted and those a death lost, and     *)
(* every inference that cost something, but for a call that has not posted  *)
(* yet, died first, or was denied.                                          *)
THEOREM EffectsAreBooked == Spec => []NothingUnbooked
BY Invariance, BookedEffects, PTL

----------------------------------------------------------------------------
(* An overrun of the LLM budget.                                           *)

LEMMA MeterWithinBudget ==
  ASSUME IInv, [Next]_vars, NEW c \in Calls, call[c].step = "meter", call'[c].step = "answered",
         NEW b, b = call[c].prompt.business
  PROVE  /\ call'[c].prompt = call[c].prompt
         /\ Held(journal', Llm(b)) <= LlmBudget[b] + (Balance(Llm(b)) - call[c].spent)
<1>1. Meter(c)
  <2>1. CASE UNCHANGED call
    BY <2>1
  <2>2. ~ \E p \in Launches : LaunchStep(p)
    <3>1. (\E p \in Launches : LaunchStep(p)) => UNCHANGED call
      BY DEF LaunchStep, Request, InsertDraft, Allocate, CheckReadiness, Activate, Announce,
             DieLaunching, calling
    <3> QED
      BY <2>1, <3>1
  <2>3. ~ (PayStep \/ RailStep \/ AdStep \/ IdleStep)
    <3>1. (PayStep \/ RailStep \/ AdStep \/ IdleStep) => UNCHANGED call
      BY DEF PayStep, Admit, Pay, DropPayment, RailStep, PullCharges, BookCharge, ReturnCharges, DieSelling, AdStep,
             StartCampaigns, RunCampaign, BookCampaign, DieAdvertising, IdleStep, Kill, Look,
             Read, vars, calling
    <3> QED
      BY <2>1, <3>1
  <2>4. \E d \in Calls : CallStep(d)
    BY <2>2, <2>3 DEF Next, LaunchStep, CallStep, PayStep, RailStep, AdStep, IdleStep
  <2>5. PICK d \in Calls : CallStep(d)
    BY <2>4
  <2>6. d = c
    BY <2>5, AskEffect, InferEffect, MeterEffect, DieCallingEffect DEF CallStep, CallAt
  <2> QED
    BY <2>5, <2>6, AskEffect, InferEffect, DieCallingEffect DEF CallStep, CallAt
<1> PICK t, p : t = InferenceTxn(c, p) /\ p = call[c].prompt
  OBVIOUS
<1>2. p \in Prompts /\ b \in Businesses /\ p.cost \in Nat /\ p.business = b
  BY <1>1, MeterEffect, AmountsAssumption
<1>3. journal' = journal \cup {t} /\ t \notin journal /\ call'[c].prompt = p
  BY <1>1, MeterEffect DEF CallAt
<1>4. Change(t, Llm(b)) = p.cost
  <2>1. t.postings = Move(p.cost, Llm(b), Cash(b)) /\ Llm(b) # Cash(b)
    BY <1>2 DEF InferenceTxn, Txn, Llm, Cash
  <2> QED
    BY <1>2, <2>1, ChangeOfMove
<1>5. \A u \in journal \cup {t} : Change(u, Llm(b)) \in Int
  BY <1>2, <1>4, ChangeIsInt DEF IInv
<1>6. Held(journal', Llm(b)) = Balance(Llm(b)) + p.cost
  BY <1>3, <1>4, <1>5, HeldGrows, BalanceIsHeld DEF IInv
<1>7. call[c].spent + p.cost <= LlmBudget[b] /\ call[c].spent \in Int /\ LlmBudget[b] \in Int
  <2>1. Gate(p, call[c].spent)
    BY DEF IInv, Metered
  <2>2. call[c].spent \in Int /\ LlmBudget[b] \in Int
    BY <1>2, AmountsAssumption DEF IInv, TypeOK
  <2> QED
    BY <1>2, <2>1, <2>2 DEF Gate, Econ!GatePasses, Econ!WithinLlmBudget
<1>8. Balance(Llm(b)) \in Int
  BY BalanceIsInt DEF IInv
<1> QED
  BY <1>2, <1>3, <1>6, <1>7, <1>8

LEMMA StepWithinBudget ==
    IInv /\ [Next]_vars =>
       [\A c \in Calls :
         call[c].step = "meter" /\ call'[c].step = "answered" =>
             LET b == call[c].prompt.business IN
             Balance(Llm(b))' <= LlmBudget[b] + (Balance(Llm(b)) - call[c].spent)]_vars
<1> SUFFICES ASSUME IInv, [Next]_vars, NEW c \in Calls,
                    call[c].step = "meter", call'[c].step = "answered"
             PROVE  Balance(Llm(call[c].prompt.business))'
                      <= LlmBudget[call[c].prompt.business]
                         + (Balance(Llm(call[c].prompt.business)) - call[c].spent)
  OBVIOUS
<1>1. Balance(Llm(call[c].prompt.business))' = Held(journal', Llm(call'[c].prompt.business))
  BY DEF Balance, Held, Change, MapThenSumSet, MapThenFoldSet
<1> QED
  BY <1>1, MeterWithinBudget

\* A metered call overruns the budget by no more than what other calls spent
\* while it ran, for any prices, budgets and number of concurrent calls.
THEOREM OverrunsAreOverlaps == Spec => OverrunIsOverlap
BY Invariance, StepWithinBudget, PTL DEF Spec, OverrunIsOverlap

----------------------------------------------------------------------------
(* The books tie out.                                                      *)

\* What a transaction pays outsiders, and the capital it brings.
Paid(t) == SumAt(t.postings, ExternalDebits(t))

LEMMA SpendIsTotal ==
  ASSUME NEW J, IsFiniteSet(J)
  PROVE  MapThenSumSet(LAMBDA t : SumAt(t.postings, ExternalDebits(t)), J)
           = Total([t \in J |-> Paid(t)], J)
<1> DEFINE e == [t \in J |-> Paid(t)]
           Sums(g) == g = [s \in SUBSET J |->
                             IF s = {} THEN 0
                             ELSE Paid(CHOOSE t \in s : TRUE) + g[s \ {CHOOSE t \in s : TRUE}]]
<1>1. MapThenSumSet(LAMBDA t : SumAt(t.postings, ExternalDebits(t)), J) = (CHOOSE g : Sums(g))[J]
  BY DEF MapThenSumSet, MapThenFoldSet, Paid
<1>2. ASSUME NEW s \in SUBSET J, s # {} PROVE e[Pick(s)] = Paid(CHOOSE t \in s : TRUE)
  BY <1>2, PickIsIn DEF Pick
<1>3. \A g : Adds(g, e, J) <=> Sums(g)
  <2> HIDE DEF e
  <2> QED
    BY <1>2 DEF Adds, Pick
<1> HIDE DEF e, Sums
<1>4. \E g : Sums(g)
  BY <1>3, SumExists
<1>5. Adds(CHOOSE g : Sums(g), e, J)
  BY <1>3, <1>4
<1>6. Total(e, J) = (CHOOSE g : Sums(g))[J]
  BY <1>5, TotalOf
<1> QED
  BY <1>1, <1>6 DEF e

LEMMA CapitalIsTotal ==
  ASSUME NEW J, IsFiniteSet(J)
  PROVE  MapThenSumSet(Magnitude, J) = Total([t \in J |-> Magnitude(t)], J)
<1> DEFINE e == [t \in J |-> Magnitude(t)]
           Sums(g) == g = [s \in SUBSET J |->
                             IF s = {} THEN 0
                             ELSE Magnitude(CHOOSE t \in s : TRUE)
                                    + g[s \ {CHOOSE t \in s : TRUE}]]
<1>1. MapThenSumSet(Magnitude, J) = (CHOOSE g : Sums(g))[J]
  BY DEF MapThenSumSet, MapThenFoldSet
<1>2. ASSUME NEW s \in SUBSET J, s # {} PROVE e[Pick(s)] = Magnitude(CHOOSE t \in s : TRUE)
  BY <1>2, PickIsIn DEF Pick
<1>3. \A g : Adds(g, e, J) <=> Sums(g)
  <2> HIDE DEF e
  <2> QED
    BY <1>2 DEF Adds, Pick
<1> HIDE DEF e, Sums
<1>4. \E g : Sums(g)
  BY <1>3, SumExists
<1>5. Adds(CHOOSE g : Sums(g), e, J)
  BY <1>3, <1>4
<1>6. Total(e, J) = (CHOOSE g : Sums(g))[J]
  BY <1>5, TotalOf
<1> QED
  BY <1>1, <1>6 DEF e

\* The debits of a transfer.
LEMMA DebitOfMove ==
  ASSUME NEW t, NEW a \in Int, NEW d, NEW k, t.postings = Move(a, d, k)
  PROVE  /\ a >= 0 => Magnitude(t) = a
         /\ k.kind # "external" =>
              Paid(t) = IF d.kind = "external" /\ a > 0 THEN a ELSE 0
<1> DEFINE p == t.postings
<1>1. /\ DOMAIN p = {1, 2} /\ p[1].amount = a /\ p[2].amount = -a
      /\ p[1].account = d /\ p[2].account = k
  BY DEF Move
<1>2. {p[1].amount, p[2].amount} \subseteq Int
  BY <1>1
<1> DEFINE D == Debits(t)
           X == ExternalDebits(t)
<1>3. D \in SUBSET {1, 2} /\ (1 \in D <=> a > 0) /\ (2 \in D <=> -a > 0)
  BY <1>1 DEF Debits
<1>4. /\ X \in SUBSET {1, 2} /\ (1 \in X <=> a > 0 /\ d.kind = "external")
      /\ (2 \in X <=> -a > 0 /\ k.kind = "external")
  BY <1>1 DEF ExternalDebits, Debits
<1>5. Magnitude(t) = Amounts(p, D) /\ Paid(t) = Amounts(p, X)
  BY DEF Magnitude, Paid, SumAt, Amounts
<1> HIDE DEF p, D, X
<1>6. Amounts(p, D) = (IF 1 \in D THEN p[1].amount ELSE 0) + (IF 2 \in D THEN p[2].amount ELSE 0)
  BY <1>1, <1>2, <1>3, SumOfTwo
<1>7. Amounts(p, X) = (IF 1 \in X THEN p[1].amount ELSE 0) + (IF 2 \in X THEN p[2].amount ELSE 0)
  BY <1>1, <1>2, <1>4, SumOfTwo
<1> QED
  BY <1>1, <1>3, <1>4, <1>5, <1>6, <1>7

\* What a transaction does to the cash of b is the capital it brings less what
\* it does to the two accounts of b and what it pays outsiders, in the name of
\* b or from its accounts in nobody's.  Only a payment from the cost account of
\* b can make its costs shrink.
Brought(t, b) == IF t.key = <<"capital", b>> THEN Magnitude(t) ELSE 0
Spent(t, b) == IF t.business = b THEN Paid(t) ELSE 0
Unnamed(t, b) ==
    IF /\ t.key[1] = "pay" /\ t.business = NoOne
       /\ \E i \in DOMAIN t.postings : t.postings[i].account \in {Cash(b), Income(b), Llm(b)}
    THEN Magnitude(t) ELSE 0

LEMMA TxnTiesOut ==
  ASSUME IInv, NEW b \in Businesses, NEW t \in journal
  PROVE  /\ {Change(t, Cash(b)), Change(t, Income(b)), Change(t, Llm(b)),
             Brought(t, b), Spent(t, b), Unnamed(t, b)} \subseteq Int
         /\ {-Change(t, Income(b)), Spent(t, b)} \subseteq Nat
         /\ Change(t, Llm(b)) \in Nat \/ \E x \in Payments : x.source = Llm(b)
         /\ Brought(t, b) = Change(t, Cash(b)) + Change(t, Income(b)) + Change(t, Llm(b))
                              + Spent(t, b) + Unnamed(t, b)
<1>1. CASE \E d \in Businesses : row[d].status # "absent" /\ t = Funding(d)
  <2>1. PICK d, k : /\ d \in Businesses /\ row[d].status # "absent"
                    /\ t = Grant(d, k) /\ k = row[d].capital
    BY <1>1 DEF Funding
  <2>2. k \in Nat
    BY <2>1, AmountsAssumption DEF IInv, TypeOK, Capitalised
  <2>3. t.postings = Move(k, Cash(d), Treasury) /\ t.key = <<"capital", d>>
    BY <2>1 DEF Grant, CapitalTxn, Txn
  <2>4. t.key[1] # "pay"
    BY <2>3
  <2>5. /\ Change(t, Cash(b)) = (IF d = b THEN k ELSE 0)
        /\ Change(t, Income(b)) = 0 /\ Change(t, Llm(b)) = 0
    <3>1. /\ Cash(d) = Cash(b) <=> d = b
          /\ Treasury # Cash(b) /\ Treasury # Income(b) /\ Treasury # Llm(b)
          /\ Cash(d) # Income(b) /\ Cash(d) # Llm(b)
      BY DEF Cash, Treasury, Income, Llm
    <3> QED
      BY <2>2, <2>3, <3>1, ChangeOfMove
  <2>6. Magnitude(t) = k /\ Paid(t) = 0
    <3>1. Treasury.kind # "external" /\ Cash(d).kind # "external"
      BY DEF Treasury, Cash
    <3> QED
      BY <2>2, <2>3, <3>1, DebitOfMove
  <2> QED
    BY <2>2, <2>3, <2>4, <2>5, <2>6 DEF Brought, Spent, Unnamed
<1>2. CASE \E c \in Calls : t = InferenceTxn(c, call[c].prompt)
  <2>1. PICK c, p : c \in Calls /\ t = InferenceTxn(c, p) /\ p = call[c].prompt
    BY <1>2
  <2> PICK k, d : k = p.cost /\ d = p.business
    OBVIOUS
  <2>2. k \in Nat
    BY <2>1, AmountsAssumption DEF IInv, TypeOK, NoPrompt
  <2>3. t.postings = Move(k, Llm(d), Cash(d)) /\ t.key = <<"llm", c>>
    BY <2>1 DEF InferenceTxn, Txn
  <2>4. t.key[1] # "pay"
    BY <2>3
  <2>5. /\ Change(t, Cash(b)) = (IF d = b THEN -k ELSE 0)
        /\ Change(t, Income(b)) = 0 /\ Change(t, Llm(b)) = (IF d = b THEN k ELSE 0)
    <3>1. /\ Cash(d) = Cash(b) <=> d = b
          /\ Llm(d) = Llm(b) <=> d = b
          /\ Llm(d) # Cash(b) /\ Llm(d) # Income(b)
          /\ Cash(d) # Income(b) /\ Cash(d) # Llm(b)
      BY DEF Cash, Income, Llm
    <3> QED
      BY <2>2, <2>3, <3>1, ChangeOfMove
  <2>6. Paid(t) = 0 /\ t.key # <<"capital", b>>
    <3>1. Llm(d).kind # "external" /\ Cash(d).kind # "external"
      BY DEF Llm, Cash
    <3> QED
      BY <2>2, <2>3, <3>1, DebitOfMove
  <2> QED
    BY <2>2, <2>3, <2>4, <2>5, <2>6 DEF Brought, Spent, Unnamed
<1>3. CASE \E i \in DOMAIN Settled : t = ChargeTxn(Settled[i])
  <2>1. PICK i \in DOMAIN Settled : t = ChargeTxn(Settled[i])
    BY <1>3
  <2> PICK k, d : k = Settled[i].amount /\ d = Settled[i].business
    OBVIOUS
  <2>2. k \in Nat
    BY OneChargePerRef
  <2>3. t.postings = Move(k, Cash(d), Income(d)) /\ t.key = <<"rev", Settled[i].ref>>
    BY <2>1 DEF ChargeTxn, Txn
  <2>4. t.key[1] # "pay"
    BY <2>3
  <2>5. /\ Change(t, Cash(b)) = (IF d = b THEN k ELSE 0)
        /\ Change(t, Income(b)) = (IF d = b THEN -k ELSE 0) /\ Change(t, Llm(b)) = 0
    <3>1. /\ Cash(d) = Cash(b) <=> d = b
          /\ Income(d) = Income(b) <=> d = b
          /\ Income(d) # Cash(b) /\ Income(d) # Llm(b)
          /\ Cash(d) # Income(b) /\ Cash(d) # Llm(b)
      BY DEF Cash, Income, Llm
    <3> QED
      BY <2>2, <2>3, <3>1, ChangeOfMove
  <2>6. Paid(t) = 0 /\ t.key # <<"capital", b>>
    <3>1. Income(d).kind # "external" /\ Cash(d).kind # "external"
      BY DEF Income, Cash
    <3> QED
      BY <2>2, <2>3, <3>1, DebitOfMove
  <2> QED
    BY <2>2, <2>3, <2>4, <2>5, <2>6 DEF Brought, Spent, Unnamed
<1>4. CASE \E i \in DOMAIN Campaigns : t = AdTxn(Campaigns[i])
  <2>1. PICK i \in DOMAIN Campaigns : t = AdTxn(Campaigns[i])
    BY <1>4
  <2> PICK k, d, x : k = Campaigns[i].spend /\ d = Campaigns[i].business /\ x = Campaigns[i].channel
    OBVIOUS
  <2>2. k \in Nat
    BY AmountsAssumption DEF ToSet
  <2>3. /\ t.postings = Move(k, External(x), Cash(d)) /\ t.key = <<"ad", Campaigns[i].ref>>
        /\ t.business = d
    BY <2>1 DEF AdTxn, Txn
  <2>4. t.key[1] # "pay"
    BY <2>3
  <2>5. /\ Change(t, Cash(b)) = (IF d = b THEN -k ELSE 0)
        /\ Change(t, Income(b)) = 0 /\ Change(t, Llm(b)) = 0
    <3>1. /\ Cash(d) = Cash(b) <=> d = b
          /\ External(x) # Cash(b) /\ External(x) # Income(b) /\ External(x) # Llm(b)
          /\ Cash(d) # Income(b) /\ Cash(d) # Llm(b)
      BY DEF Cash, Income, Llm, External
    <3> QED
      BY <2>2, <2>3, <3>1, ChangeOfMove
  <2>6. Paid(t) = k /\ t.key # <<"capital", b>>
    <3>1. External(x).kind = "external" /\ Cash(d).kind # "external"
      BY DEF External, Cash
    <3> QED
      BY <2>2, <2>3, <3>1, DebitOfMove
  <2> QED
    BY <2>2, <2>3, <2>4, <2>5, <2>6 DEF Brought, Spent, Unnamed
<1>5. CASE \E x \in Payments : t = PaymentTxn(x)
  <2>1. PICK x \in Payments : t = PaymentTxn(x)
    BY <1>5
  <2> PICK k, s, e : /\ k = x.amount /\ e = External(x.payee)
                     /\ s = IF x.business = NoOne THEN x.source ELSE Cash(x.business)
    OBVIOUS
  <2>2. k \in Nat /\ x.business \in Businesses \cup {NoOne} /\ b # NoOne
    BY AmountsAssumption, FiguresAssumption
  <2>3. /\ t.postings = Move(k, e, s) /\ t.key[1] = "pay" /\ t.key # <<"capital", b>>
        /\ t.business = x.business
    BY <2>1 DEF PaymentTxn, Txn
  <2>4. /\ e # Cash(b) /\ e # Income(b) /\ e # Llm(b)
        /\ Cash(b) # Income(b) /\ Cash(b) # Llm(b) /\ Income(b) # Llm(b)
        /\ e.kind = "external"
        /\ x.business # NoOne => s.kind # "external" /\ (s = Cash(b) <=> x.business = b)
                                 /\ s # Income(b) /\ s # Llm(b)
    BY DEF Cash, Income, Llm, External
  <2>5. /\ Change(t, Cash(b)) = (IF s = Cash(b) THEN -k ELSE 0)
        /\ Change(t, Income(b)) = (IF s = Income(b) THEN -k ELSE 0)
        /\ Change(t, Llm(b)) = (IF s = Llm(b) THEN -k ELSE 0)
    BY <2>2, <2>3, <2>4, ChangeOfMove
  <2>6. Magnitude(t) = k /\ (x.business # NoOne => Paid(t) = k)
    BY <2>2, <2>3, <2>4, DebitOfMove
  <2>7. (\E i \in DOMAIN t.postings : t.postings[i].account \in {Cash(b), Income(b), Llm(b)})
          <=> s \in {Cash(b), Income(b), Llm(b)}
    <3>1. /\ DOMAIN t.postings = {1, 2}
          /\ t.postings[1].account = e /\ t.postings[2].account = s
      BY <2>3 DEF Move
    <3> QED
      BY <2>4, <3>1
  <2>8. CASE x.business = NoOne
    <3>1. Spent(t, b) = 0 /\ Brought(t, b) = 0
      BY <2>2, <2>3, <2>8 DEF Spent, Brought
    <3>2. Unnamed(t, b) = IF s \in {Cash(b), Income(b), Llm(b)} THEN k ELSE 0
      BY <2>3, <2>6, <2>7, <2>8 DEF Unnamed
    <3>3. s = x.source
      BY <2>8
    <3> QED
      BY <2>2, <2>4, <2>5, <3>1, <3>2, <3>3
  <2>9. CASE x.business # NoOne
    <3>1. Spent(t, b) = (IF x.business = b THEN k ELSE 0) /\ Brought(t, b) = 0
      BY <2>3, <2>6, <2>9 DEF Spent, Brought
    <3>2. Unnamed(t, b) = 0
      BY <2>3, <2>9 DEF Unnamed
    <3> QED
      BY <2>2, <2>4, <2>5, <2>9, <3>1, <3>2
  <2> QED
    BY <2>8, <2>9
<1> QED
  BY <1>1, <1>2, <1>3, <1>4, <1>5 DEF IInv, Origins

\* The same for the journal: the two sides are sums over its transactions.
LEMMA JournalTiesOut == IInv => BooksTieOut
<1> SUFFICES ASSUME IInv, NEW b \in Businesses
             PROVE  Balance(Cash(b)) =
                       MapThenSumSet(Magnitude, Posted(<<"capital", b>>))
                         + Revenue(b) - Balance(Llm(b)) - ExternalSpend(b)
                         - MapThenSumSet(Magnitude, Unattributed(b))
  BY DEF BooksTieOut
<1>1. IsFiniteSet(journal)
  BY DEF IInv
<1> DEFINE cash == [t \in journal |-> Change(t, Cash(b))]
           income == [t \in journal |-> Change(t, Income(b))]
           llm == [t \in journal |-> Change(t, Llm(b))]
           spend == [t \in journal |-> Spent(t, b)]
           capital == [t \in journal |-> Brought(t, b)]
           own == [t \in journal |-> cash[t] + income[t]]
           inside == [t \in journal |-> own[t] + llm[t]]
           unnamed == [t \in journal |-> Unnamed(t, b)]
           named == [t \in journal |-> inside[t] + spend[t]]
           U == Unattributed(b)
           away == [t \in U |-> Magnitude(t)]
           P == Posted(<<"capital", b>>)
           Q == {t \in journal : t.business = b}
           brought == [t \in P |-> Magnitude(t)]
           paid == [t \in Q |-> Paid(t)]
<1>2. \A t \in journal :
        /\ {cash[t], income[t], llm[t], spend[t], capital[t]} \subseteq Int
        /\ own[t] = cash[t] + income[t] /\ inside[t] = own[t] + llm[t]
        /\ named[t] = inside[t] + spend[t]
        /\ {own[t], inside[t], named[t], unnamed[t]} \subseteq Int
        /\ capital[t] = named[t] + unnamed[t]
  BY TxnTiesOut
<1>3. /\ P \subseteq journal /\ Q \subseteq journal /\ U \subseteq journal
      /\ \A t \in journal : unnamed[t] = (IF t \in U THEN away[t] ELSE 0)
      /\ \A t \in journal : capital[t] = (IF t \in P THEN brought[t] ELSE 0)
      /\ \A t \in journal : spend[t] = (IF t \in Q THEN paid[t] ELSE 0)
  BY DEF Brought, Spent, Unnamed, Unattributed, Posted
<1>4. IsFiniteSet(P) /\ IsFiniteSet(Q) /\ IsFiniteSet(U)
  BY <1>1, <1>3, FS_Subset
<1>5. /\ Balance(Cash(b)) = Total(cash, journal)
      /\ Revenue(b) = -Total(income, journal)
      /\ Balance(Llm(b)) = Total(llm, journal)
  BY <1>1, BalanceIsHeld, HeldIsTotal DEF Revenue
<1>6. /\ MapThenSumSet(Magnitude, Posted(<<"capital", b>>)) = Total(brought, P)
      /\ MapThenSumSet(Magnitude, Unattributed(b)) = Total(away, U)
  BY <1>4, CapitalIsTotal
<1>7. ExternalSpend(b) = Total(paid, Q)
  BY <1>4, SpendIsTotal DEF ExternalSpend
<1> HIDE DEF cash, income, llm, spend, capital, own, inside, P, Q, brought, paid, unnamed, named, U,
           away
<1>8. /\ Total(brought, P) = Total(capital, journal) /\ Total(paid, Q) = Total(spend, journal)
      /\ Total(away, U) = Total(unnamed, journal)
  BY <1>1, <1>2, <1>3, TotalFilter
<1>9. Total(own, journal) = Total(cash, journal) + Total(income, journal)
  BY <1>1, <1>2, TotalPlus
<1>10. Total(inside, journal) = Total(own, journal) + Total(llm, journal)
  BY <1>1, <1>2, TotalPlus
<1>11. Total(named, journal) = Total(inside, journal) + Total(spend, journal)
  BY <1>1, <1>2, TotalPlus
<1>12. Total(capital, journal) = Total(named, journal) + Total(unnamed, journal)
  BY <1>1, <1>2, TotalPlus
<1>13. {Total(cash, journal), Total(income, journal), Total(llm, journal), Total(spend, journal),
        Total(unnamed, journal)} \subseteq Int
  BY <1>1, <1>2, TotalIsInt
<1> QED
  BY <1>5, <1>6, <1>7, <1>8, <1>9, <1>10, <1>11, <1>12, <1>13

\* Cash is capital plus revenue less the spend the books attribute and the
\* payments that left the accounts of a business without naming it, for every
\* business at every moment, whatever was interleaved, refused or cut off.
THEOREM CashIsExplained == Spec => []BooksTieOut
BY Invariance, JournalTiesOut, PTL

----------------------------------------------------------------------------
(* What the dashboard shows.                                               *)

\* The figures of a business as sums over the journal: none of them shrinks.
RevenueIn(J, b) == Total([t \in J |-> -Change(t, Income(b))], J)
LlmIn(J, b) == Total([t \in J |-> Change(t, Llm(b))], J)
SpendIn(J, b) == Total([t \in J |-> Spent(t, b)], J)

Accounted ==
    /\ IsFiniteSet(journal)
    /\ \A b \in Businesses :
          /\ Revenue(b) = RevenueIn(journal, b)
          /\ Balance(Llm(b)) = LlmIn(journal, b)
          /\ ExternalSpend(b) = SpendIn(journal, b)
          /\ \A t \in journal :
                {-Change(t, Income(b)), Change(t, Llm(b)), Spent(t, b)} \subseteq Nat

LEMMA FiguresAreSums == IInv => Accounted
<1> SUFFICES ASSUME IInv, NEW b \in Businesses
             PROVE  /\ Revenue(b) = RevenueIn(journal, b)
                    /\ Balance(Llm(b)) = LlmIn(journal, b)
                    /\ ExternalSpend(b) = SpendIn(journal, b)
                    /\ \A t \in journal :
                          {-Change(t, Income(b)), Change(t, Llm(b)), Spent(t, b)} \subseteq Nat
  BY DEF Accounted, IInv
<1>1. IsFiniteSet(journal)
  BY DEF IInv
<1>2. \A t \in journal :
         /\ {-Change(t, Income(b)), Change(t, Llm(b)), Spent(t, b)} \subseteq Nat
         /\ Change(t, Income(b)) \in Int
  <2>1. \A x \in Payments : x.source # Llm(b)
    BY SourcesAssumption DEF Llm
  <2> QED
    BY <2>1, TxnTiesOut
<1> DEFINE income == [t \in journal |-> Change(t, Income(b))]
           earned == [t \in journal |-> -Change(t, Income(b))]
           zero == [t \in journal |-> 0]
           spend == [t \in journal |-> Spent(t, b)]
           Q == {t \in journal : t.business = b}
           paid == [t \in Q |-> Paid(t)]
<1>3. \A t \in journal : /\ income[t] \in Int /\ earned[t] \in Int /\ spend[t] \in Int
                         /\ zero[t] = income[t] + earned[t] /\ zero[t] = 0
  BY <1>2
<1>4. Q \subseteq journal /\ \A t \in journal : spend[t] = (IF t \in Q THEN paid[t] ELSE 0)
  BY DEF Spent
<1>5. IsFiniteSet(Q)
  BY <1>1, <1>4, FS_Subset
<1>6. ExternalSpend(b) = Total(paid, Q)
  BY <1>5, SpendIsTotal DEF ExternalSpend
<1>7. Balance(Llm(b)) = LlmIn(journal, b) /\ Revenue(b) = -Total(income, journal)
  BY <1>1, BalanceIsHeld, HeldIsTotal DEF Revenue, LlmIn
<1>8. RevenueIn(journal, b) = Total(earned, journal) /\ SpendIn(journal, b) = Total(spend, journal)
  BY DEF RevenueIn, SpendIn
<1> HIDE DEF income, earned, zero, spend, Q, paid
<1>9. Total(paid, Q) = Total(spend, journal)
  BY <1>1, <1>3, <1>4, TotalFilter
<1>10. Total(zero, journal) = Total(income, journal) + Total(earned, journal)
  BY <1>1, <1>3, TotalPlus
<1>11. Total(zero, journal) = 0
  BY <1>1, <1>3, TotalZero
<1>12. Total(income, journal) \in Int /\ Total(earned, journal) \in Int
  BY <1>1, <1>3, TotalIsInt
<1> QED
  BY <1>2, <1>6, <1>7, <1>8, <1>9, <1>10, <1>11, <1>12

\* Nothing is ever taken out of the journal.
LEMMA JournalGrows == [Next]_vars => journal \subseteq journal'
<1>1. ASSUME NEW t, Book(t) PROVE journal \subseteq journal'
  BY <1>1 DEF Book
<1>2. ASSUME NEW p \in Launches, LaunchStep(p) PROVE journal \subseteq journal'
  BY <1>1, <1>2 DEF LaunchStep, Request, InsertDraft, Allocate, CheckReadiness, Activate,
         Announce, DieLaunching
<1>3. ASSUME NEW c \in Calls, CallStep(c) PROVE journal \subseteq journal'
  BY <1>1, <1>3 DEF CallStep, Ask, Infer, Meter, DieCalling
<1>4. RailStep => journal \subseteq journal'
  BY <1>1 DEF RailStep, PullCharges, BookCharge, ReturnCharges, DieSelling
<1>5. AdStep => journal \subseteq journal'
  BY <1>1 DEF AdStep, StartCampaigns, RunCampaign, BookCampaign, DieAdvertising
<1>6. IdleStep => journal \subseteq journal'
  BY DEF IdleStep, Kill, Look, Read, vars
<1>7. PayStep => journal \subseteq journal'
  BY <1>1 DEF PayStep, Admit, Pay, DropPayment
<1> QED
  BY <1>2, <1>3, <1>4, <1>5, <1>6, <1>7
     DEF Next, LaunchStep, CallStep, PayStep, RailStep, AdStep, IdleStep

\* What the ledger shows of costs only grows.
LEMMA FiguresGrow ==
  ASSUME IInv, [Next]_vars, NEW b \in Businesses
  PROVE  /\ {ExternalSpend(b), Balance(Llm(b))} \subseteq Nat /\ Revenue(b) \in Nat
         /\ {ExternalSpend(b)', Balance(Llm(b))'} \subseteq Nat
         /\ ExternalSpend(b) <= ExternalSpend(b)'
         /\ Balance(Llm(b)) <= Balance(Llm(b))'
<1>1. IInv'
  BY NextIInv
<1>2. Accounted
  BY FiguresAreSums
<1>3. Accounted'
  BY <1>1, FiguresAreSums, PTL
<1>4. /\ IsFiniteSet(journal) /\ IsFiniteSet(journal') /\ journal \subseteq journal'
  BY <1>2, <1>3, JournalGrows DEF Accounted
<1>5. /\ Revenue(b) = RevenueIn(journal, b) /\ Balance(Llm(b)) = LlmIn(journal, b)
      /\ ExternalSpend(b) = SpendIn(journal, b)
      /\ Balance(Llm(b))' = LlmIn(journal', b) /\ ExternalSpend(b)' = SpendIn(journal', b)
  BY <1>2, <1>3 DEF Accounted, LlmIn, SpendIn
<1> DEFINE l == [t \in journal |-> Change(t, Llm(b))]
           m == [t \in journal' |-> Change(t, Llm(b))]
           s == [t \in journal |-> Spent(t, b)]
           r == [t \in journal' |-> Spent(t, b)]
           e == [t \in journal |-> -Change(t, Income(b))]
<1>6. /\ \A t \in journal' : m[t] \in Nat /\ r[t] \in Nat
      /\ \A t \in journal : l[t] = m[t] /\ s[t] = r[t] /\ l[t] \in Nat /\ s[t] \in Nat
      /\ \A t \in journal : e[t] \in Nat
  <2>1. \A t \in journal' : {Change(t, Llm(b)), Spent(t, b)} \subseteq Nat
    BY <1>3 DEF Accounted, Change, Spent, Paid
  <2>2. \A t \in journal : -Change(t, Income(b)) \in Nat
    BY <1>2 DEF Accounted
  <2> QED
    BY <1>4, <2>1, <2>2
<1>7. /\ LlmIn(journal, b) = Total(l, journal) /\ LlmIn(journal', b) = Total(m, journal')
      /\ SpendIn(journal, b) = Total(s, journal) /\ SpendIn(journal', b) = Total(r, journal')
      /\ RevenueIn(journal, b) = Total(e, journal)
  BY DEF LlmIn, SpendIn, RevenueIn
<1> HIDE DEF l, m, s, r, e
<1>8. Total(l, journal) <= Total(m, journal') /\ Total(s, journal) <= Total(r, journal')
  BY <1>4, <1>6, TotalGrows
<1>9. {Total(l, journal), Total(s, journal), Total(e, journal)} \subseteq Nat
  BY <1>4, <1>6, TotalIsNat
<1>10. {Total(m, journal'), Total(r, journal')} \subseteq Nat
  BY <1>4, <1>6, TotalIsNat
<1> QED
  BY <1>5, <1>7, <1>8, <1>9, <1>10

\* The dashboard is at some figure of some business, and the costs it has read
\* of that business are not above what the ledger now shows.
WatchInv ==
    /\ watch.todo \in Seq(Businesses) /\ watch.next \in 1..4
    /\ watch = [todo |-> watch.todo, next |-> watch.next, looks |-> watch.looks]
    /\ seen \in [Businesses -> [revenue : Int, cogs : {0}, ads : Int, llm : Int,
                                customers : {0}, shown : Int]]
    /\ \A b \in Businesses :
          watch.todo # <<>> /\ Head(watch.todo) = b =>
             /\ watch.next > 1 => seen[b].ads <= ExternalSpend(b)
             /\ watch.next > 2 => seen[b].llm <= Balance(Llm(b))

LEMMA InitWatch == Init => WatchInv
<1> SUFFICES ASSUME Init PROVE WatchInv
  OBVIOUS
<1>1. watch = [todo |-> <<>>, next |-> 1, looks |-> 0]
  BY DEF Init
<1>2. seen = [b \in Businesses |-> Nothing]
  BY DEF Init, NothingSeen
<1> QED
  BY <1>1, <1>2 DEF WatchInv, Nothing

\* The businesses to read form a sequence, as there are finitely many.
LEMMA Listed == ASSUME NEW S \in SUBSET Businesses PROVE SetToSeq(S) \in Seq(Businesses)
<1>1. IsFiniteSet(S) /\ Cardinality(S) \in Nat
  BY FS_Subset, FS_CardinalityType, FiguresAssumption
<1>2. PICK n \in Nat : ExistsBijection(1..n, S)
  BY <1>1, FS_NatBijection
<1>3. n = Cardinality(S)
  BY <1>2, FS_CountingElements
<1>4. \E f \in [1..Cardinality(S) -> S] : IsInjective(f)
  BY <1>2, <1>3 DEF ExistsBijection, Bijection, Injection
<1>5. SetToSeq(S) \in [1..Cardinality(S) -> S]
  BY <1>4 DEF SetToSeq
<1> QED
  BY <1>1, <1>5

\* One figure is read.
LEMMA ReadEffect ==
  ASSUME IInv, WatchInv, Read
  PROVE  LET b == Head(watch.todo) IN
         /\ b \in Businesses /\ watch.todo # <<>> /\ journal' = journal
         /\ {Revenue(b), ExternalSpend(b), Balance(Llm(b))} \subseteq Int
         /\ watch.next < 4 =>
               watch' = [todo |-> watch.todo, next |-> watch.next + 1, looks |-> watch.looks]
         /\ watch.next = 1 => seen' = [seen EXCEPT ![b] = [seen[b] EXCEPT !.ads = ExternalSpend(b)]]
         /\ watch.next = 2 => seen' = [seen EXCEPT ![b] = [seen[b] EXCEPT !.llm = Balance(Llm(b))]]
         /\ watch.next = 3 => seen' = [seen EXCEPT ![b] = [seen[b] EXCEPT !.revenue = Revenue(b)]]
         /\ watch.next = 4 =>
               /\ watch' = [todo |-> Tail(watch.todo), next |-> 1, looks |-> watch.looks]
               /\ \/ seen' = NothingSeen
                  \/ seen' = [seen EXCEPT ![b] = [seen[b] EXCEPT !.shown = Revenue(b)]]
<1> DEFINE b == Head(watch.todo)
           n == watch.next
<1>1. b \in Businesses /\ watch.todo # <<>> /\ n \in 1..4
  BY DEF Read, WatchInv
<1>2. {Revenue(b), ExternalSpend(b), Balance(Llm(b))} \subseteq Int
  <2>1. Read => [Next]_vars
    BY DEF Next
  <2> QED
    BY <1>1, <2>1, FiguresGrow
<1>3. /\ Reading[1] = "ads" /\ Reading[2] = "llm" /\ Reading[3] = "revenue"
      /\ Reading[4] = "shown" /\ Len(Reading) = 4
  BY DEF Reading
<1>4. /\ Truth(b)["ads"] = ExternalSpend(b) /\ Truth(b)["llm"] = Balance(Llm(b))
      /\ Truth(b)["revenue"] = Revenue(b) /\ Truth(b)["shown"] = Revenue(b)
  BY DEF Truth, Nothing
<1>5. /\ n # 4 => watch' = [watch EXCEPT !.next = n + 1, !.todo = watch.todo]
      /\ n = 4 => watch' = [watch EXCEPT !.next = 1, !.todo = Tail(watch.todo)]
  BY <1>3 DEF Read
<1>6. /\ n < 4 => watch' = [todo |-> watch.todo, next |-> n + 1, looks |-> watch.looks]
      /\ n = 4 => watch' = [todo |-> Tail(watch.todo), next |-> 1, looks |-> watch.looks]
  <2>1. watch = [todo |-> watch.todo, next |-> watch.next, looks |-> watch.looks]
    BY DEF WatchInv
  <2>2. n < 4 => n # 4
    BY <1>1
  <2> QED
    BY <1>5, <2>1, <2>2
<1>7. \/ seen' = NothingSeen /\ n = 4
      \/ seen' = [seen EXCEPT ![b] = [seen[b] EXCEPT ![Reading[n]] = Truth(b)[Reading[n]]]]
  BY <1>3 DEF Read
<1>8. /\ n = 1 => seen' = [seen EXCEPT ![b] = [seen[b] EXCEPT !["ads"] = ExternalSpend(b)]]
      /\ n = 2 => seen' = [seen EXCEPT ![b] = [seen[b] EXCEPT !["llm"] = Balance(Llm(b))]]
      /\ n = 3 => seen' = [seen EXCEPT ![b] = [seen[b] EXCEPT !["revenue"] = Revenue(b)]]
      /\ n = 4 => \/ seen' = NothingSeen
                  \/ seen' = [seen EXCEPT ![b] = [seen[b] EXCEPT !["shown"] = Revenue(b)]]
  <2> HIDE DEF b, n
  <2> QED
    BY <1>3, <1>4, <1>7
<1>9. journal' = journal
  BY DEF Read
<1> QED
  BY <1>1, <1>2, <1>6, <1>8, <1>9

\* The other processes leave the dashboard alone.
LEMMA WhoWatches == [Next]_vars => Look \/ Read \/ UNCHANGED <<watch, seen>>
<1>1. (\E p \in Launches : LaunchStep(p)) => UNCHANGED watching
  BY DEF LaunchStep, Request, InsertDraft, Allocate, CheckReadiness, Activate,
         Announce, DieLaunching
<1>2. (\E c \in Calls : CallStep(c)) => UNCHANGED watching
  BY DEF CallStep, Ask, Infer, Meter, DieCalling
<1>3. PayStep \/ RailStep \/ AdStep => UNCHANGED watching
  BY DEF PayStep, Admit, Pay, DropPayment, RailStep, PullCharges, BookCharge, ReturnCharges, DieSelling, AdStep, StartCampaigns,
         RunCampaign, BookCampaign, DieAdvertising
<1>4. IdleStep => Look \/ Read \/ UNCHANGED watching
  BY DEF IdleStep, Kill, vars, watching
<1> QED
  BY <1>1, <1>2, <1>3, <1>4
     DEF Next, LaunchStep, CallStep, PayStep, RailStep, AdStep, IdleStep, watching

\* Every figure read is not above the ledger's, and stays so.
LEMMA NextWatch == ASSUME IInv, WatchInv, [Next]_vars PROVE WatchInv'
<1> DEFINE Views == [revenue : Int, cogs : {0}, ads : Int, llm : Int,
                     customers : {0}, shown : Int]
<1>1. \A b \in Businesses :
         /\ {ExternalSpend(b), Balance(Llm(b)), ExternalSpend(b)', Balance(Llm(b))'} \subseteq Nat
         /\ ExternalSpend(b) <= ExternalSpend(b)' /\ Balance(Llm(b)) <= Balance(Llm(b))'
  BY FiguresGrow
<1>2. NothingSeen \in [Businesses -> Views]
  BY DEF NothingSeen, Nothing
<1>3. CASE UNCHANGED <<watch, seen>>
  <2>1. ASSUME NEW b \in Businesses, watch.todo # <<>>, Head(watch.todo) = b
        PROVE  /\ watch.next > 1 => seen[b].ads <= ExternalSpend(b)'
               /\ watch.next > 2 => seen[b].llm <= Balance(Llm(b))'
    <3>1. seen[b].ads \in Int /\ seen[b].llm \in Int
      BY DEF WatchInv
    <3>2. /\ watch.next > 1 => seen[b].ads <= ExternalSpend(b)
          /\ watch.next > 2 => seen[b].llm <= Balance(Llm(b))
      BY <2>1 DEF WatchInv
    <3>3. /\ {ExternalSpend(b), Balance(Llm(b)), ExternalSpend(b)', Balance(Llm(b))'} \subseteq Nat
          /\ ExternalSpend(b) <= ExternalSpend(b)' /\ Balance(Llm(b)) <= Balance(Llm(b))'
      BY <1>1
    <3> QED
      BY <3>1, <3>2, <3>3
  <2> QED
    BY <1>3, <2>1 DEF WatchInv
<1>4. CASE Look
  <2>1. watch' = [todo  |-> SetToSeq({b \in Businesses : row[b].status = "active"}),
                  next  |-> 1,
                  looks |-> watch.looks + 1]
        /\ seen' = seen
    BY <1>4 DEF Look
  <2>2. SetToSeq({b \in Businesses : row[b].status = "active"}) \in Seq(Businesses)
    BY Listed
  <2> QED
    BY <2>1, <2>2 DEF WatchInv
<1>5. CASE Read
  <2> PICK b : b = Head(watch.todo)
    OBVIOUS
  <2>1. /\ b \in Businesses /\ watch.todo # <<>> /\ watch.next \in 1..4
        /\ {Revenue(b), ExternalSpend(b), Balance(Llm(b))} \subseteq Int
        /\ watch.todo \in Seq(Businesses) /\ Tail(watch.todo) \in Seq(Businesses)
        /\ seen \in [Businesses -> Views]
    BY <1>5, ReadEffect DEF WatchInv
  <2>2. watch.next = 4 => WatchInv'
    <3> SUFFICES ASSUME watch.next = 4 PROVE WatchInv'
      OBVIOUS
    <3>1. /\ watch' = [todo |-> Tail(watch.todo), next |-> 1, looks |-> watch.looks]
          /\ \/ seen' = NothingSeen
             \/ seen' = [seen EXCEPT ![b] = [seen[b] EXCEPT !.shown = Revenue(b)]]
      BY <1>5, ReadEffect
    <3>2. [seen[b] EXCEPT !.shown = Revenue(b)] \in Views /\ seen[b] \in Views
      BY <2>1
    <3>3. seen' \in [Businesses -> Views]
      <4> HIDE DEF Views
      <4> QED
        BY <1>2, <2>1, <3>1, <3>2
    <3>4. watch'.todo \in Seq(Businesses) /\ watch'.next = 1
          /\ watch' = [todo |-> watch'.todo, next |-> watch'.next, looks |-> watch'.looks]
      BY <2>1, <3>1
    <3> QED
      BY <3>3, <3>4 DEF WatchInv
  <2>3. watch.next # 4 => WatchInv'
    <3> SUFFICES ASSUME watch.next # 4 PROVE WatchInv'
      OBVIOUS
    <3>1. /\ watch' = [todo |-> watch.todo, next |-> watch.next + 1, looks |-> watch.looks]
          /\ watch.next = 1 =>
                seen' = [seen EXCEPT ![b] = [seen[b] EXCEPT !.ads = ExternalSpend(b)]]
          /\ watch.next = 2 =>
                seen' = [seen EXCEPT ![b] = [seen[b] EXCEPT !.llm = Balance(Llm(b))]]
          /\ watch.next = 3 =>
                seen' = [seen EXCEPT ![b] = [seen[b] EXCEPT !.revenue = Revenue(b)]]
      <4>1. watch.next < 4
        BY <2>1, SMTT(20)
      <4> QED
        BY <1>5, <4>1, ReadEffect
    <3>2. seen' \in [Businesses -> Views]
      <4>1. /\ [seen[b] EXCEPT !.ads = ExternalSpend(b)] \in Views
            /\ [seen[b] EXCEPT !.llm = Balance(Llm(b))] \in Views
            /\ [seen[b] EXCEPT !.revenue = Revenue(b)] \in Views
        <5>1. seen[b] \in Views
          BY <2>1
        <5> QED
          BY <2>1, <5>1
      <4>2. watch.next = 1 \/ watch.next = 2 \/ watch.next = 3
        BY <2>1
      <4> HIDE DEF Views
      <4> QED
        BY <2>1, <3>1, <4>1, <4>2
    <3>3. /\ seen'[b].ads <= ExternalSpend(b)'
          /\ watch.next > 1 => seen'[b].llm <= Balance(Llm(b))'
      <4>1. seen[b].ads \in Int /\ seen[b].llm \in Int
        BY <2>1
      <4>2. /\ watch.next > 1 => seen[b].ads <= ExternalSpend(b)
            /\ watch.next > 2 => seen[b].llm <= Balance(Llm(b))
        BY <2>1 DEF WatchInv
      <4>3. /\ watch.next = 1 => seen'[b].ads = ExternalSpend(b)
            /\ watch.next = 2 => seen'[b].ads = seen[b].ads /\ seen'[b].llm = Balance(Llm(b))
            /\ watch.next = 3 => seen'[b].ads = seen[b].ads /\ seen'[b].llm = seen[b].llm
        <5> DEFINE r == seen[b]
        <5>1. r \in Views
          BY <2>1
        <5>2. \A v : /\ [r EXCEPT !.ads = v].ads = v
                     /\ [r EXCEPT !.llm = v].ads = r.ads /\ [r EXCEPT !.llm = v].llm = v
                     /\ [r EXCEPT !.revenue = v].ads = r.ads
                     /\ [r EXCEPT !.revenue = v].llm = r.llm
          <6> HIDE DEF r
          <6> QED
            BY <5>1
        <5>3. \A v : [seen EXCEPT ![b] = v][b] = v
          BY <2>1
        <5>4. /\ watch.next = 1 => seen'[b] = [r EXCEPT !.ads = ExternalSpend(b)]
              /\ watch.next = 2 => seen'[b] = [r EXCEPT !.llm = Balance(Llm(b))]
              /\ watch.next = 3 => seen'[b] = [r EXCEPT !.revenue = Revenue(b)]
          BY <3>1, <5>3
        <5>5. r = seen[b]
          OBVIOUS
        <5> HIDE DEF r
        <5> DEFINE x == [r EXCEPT !.llm = Balance(Llm(b))]
                   y == [r EXCEPT !.revenue = Revenue(b)]
        <5>6. x.ads = r.ads /\ x.llm = Balance(Llm(b)) /\ y.ads = r.ads /\ y.llm = r.llm
          BY <5>2
        <5>7. (watch.next = 2 => seen'[b] = x) /\ (watch.next = 3 => seen'[b] = y)
          BY <5>4
        <5> HIDE DEF x, y
        <5>8. watch.next = 1 => seen'[b].ads = ExternalSpend(b)
          BY <5>2, <5>4
        <5>9. watch.next = 2 => seen'[b].ads = r.ads /\ seen'[b].llm = Balance(Llm(b))
          BY <5>6, <5>7
        <5>10. watch.next = 3 => seen'[b].ads = r.ads /\ seen'[b].llm = r.llm
          BY <5>6, <5>7
        <5> QED
          BY <5>5, <5>8, <5>9, <5>10
      <4>4. /\ {ExternalSpend(b), Balance(Llm(b)), ExternalSpend(b)', Balance(Llm(b))'} \subseteq Nat
            /\ ExternalSpend(b) <= ExternalSpend(b)' /\ Balance(Llm(b)) <= Balance(Llm(b))'
        BY <1>1, <2>1
      <4>5. watch.next = 1 \/ watch.next = 2 \/ watch.next = 3
        BY <2>1
      <4> HIDE DEF Views
      <4> QED
        BY <4>1, <4>2, <4>3, <4>4, <4>5
    <3>4. watch'.todo = watch.todo /\ watch'.next = watch.next + 1 /\ watch'.next \in 1..4
          /\ watch' = [todo |-> watch'.todo, next |-> watch'.next, looks |-> watch'.looks]
      <4>1. watch.next + 1 \in 1..4
        BY <2>1, SMTT(20)
      <4> QED
        BY <3>1, <4>1
    <3>5. watch'.next > 2 => watch.next > 1
      <4>1. watch.next \in Int
        BY <2>1, SMTT(20)
      <4> QED
        BY <3>4, <4>1
    <3> QED
      BY <2>1, <3>2, <3>3, <3>4, <3>5 DEF WatchInv
  <2> QED
    BY <2>2, <2>3
<1>6. Look \/ Read \/ UNCHANGED <<watch, seen>>
  BY WhoWatches
<1> QED
  BY <1>3, <1>4, <1>5, <1>6

\* Rounding down keeps the order.
LEMMA FloorGrows ==
  ASSUME NEW a \in Int, NEW c \in Int, NEW n \in Nat \ {0}, a <= c
  PROVE  a \div n \in Int /\ c \div n \in Int /\ a \div n <= c \div n
OBVIOUS

LEMMA WatchHolds == Spec => []WatchInv
BY Invariance, InitWatch, NextWatch, PTL DEF Spec

\* Economics counts as this module does.
LEMMA SameCardinality == \A S : Econ!Cardinality(S) = Cardinality(S)
<1>1. \A S : Econ!IsFiniteSet(S) <=> IsFiniteSet(S)
  BY DEF Econ!IsFiniteSet, IsFiniteSet
<1> QED
  BY <1>1, Zenon DEF Econ!Cardinality, Cardinality

\* Costs read too low make a business look better, never worse.
LEMMA LowerCosts ==
  ASSUME NEW u, NEW v, u.revenue = v.revenue, v.revenue \in Nat, u.cogs = 0, v.cogs = 0,
         {u.ads, u.llm, v.ads, v.llm} \subseteq Int, u.ads <= v.ads, u.llm <= v.llm
  PROVE  /\ Econ!Profit(v) <= Econ!Profit(u) /\ {Econ!Profit(u), Econ!Profit(v)} \subseteq Int
         /\ Econ!Anomalies(u, MaxLlmRatio, LossFloor)
              \subseteq Econ!Anomalies(v, MaxLlmRatio, LossFloor)
<1>1. Econ!Profit(v) <= Econ!Profit(u) /\ {Econ!Profit(u), Econ!Profit(v)} \subseteq Int
  BY DEF Econ!Profit
<1>2. Econ!LlmRatio(u) # None /\ Econ!LlmRatio(u) > MaxLlmRatio
        => Econ!LlmRatio(v) # None /\ Econ!LlmRatio(v) > MaxLlmRatio
  <2>1. CASE v.revenue = 0
    BY <2>1 DEF Econ!LlmRatio, Econ!Ratio
  <2>2. CASE v.revenue # 0
    <3>1. /\ (u.llm * 10000) \div v.revenue \in Int /\ (v.llm * 10000) \div v.revenue \in Int
          /\ (u.llm * 10000) \div v.revenue <= (v.llm * 10000) \div v.revenue
      <4>1. u.llm * 10000 \in Int /\ v.llm * 10000 \in Int /\ u.llm * 10000 <= v.llm * 10000
        OBVIOUS
      <4>2. v.revenue \in Nat \ {0}
        BY <2>2
      <4> QED
        BY <4>1, <4>2, FloorGrows
    <3>2. /\ Econ!LlmRatio(u) = (u.llm * 10000) \div v.revenue
          /\ Econ!LlmRatio(v) = (v.llm * 10000) \div v.revenue
      BY <2>2 DEF Econ!LlmRatio, Econ!Ratio
    <3> QED
      BY <3>1, <3>2, FiguresAssumption
  <2> QED
    BY <2>1, <2>2
<1>3. Econ!Profit(u) < LossFloor => Econ!Profit(v) < LossFloor
  BY <1>1, FiguresAssumption
<1> QED
  BY <1>1, <1>2, <1>3 DEF Econ!Anomalies

LEMMA NoStepFakesAlarm ==
    IInv /\ WatchInv /\ [Next]_vars =>
      [watch.next = 3 /\ watch'.next = 4 =>
         LET b == Head(watch.todo)
             found(u) == Econ!Anomalies(u, MaxLlmRatio, LossFloor)
         IN  /\ found(seen'[b]) \subseteq found(Truth(b))
             /\ Econ!Health(found(seen'[b])) = "CRITICAL"
                  => Econ!Health(found(Truth(b))) = "CRITICAL"
             /\ Econ!LiveHealth(seen'[b]) = "CRITICAL"
                  => Econ!Verdict(Truth(b)) = "unprofitable"
             /\ Econ!FleetTotals({b}, seen').alerts
                  <= Econ!FleetTotals({b}, [x \in {b} |-> Truth(x)]).unprofitable]_vars
<1> SUFFICES ASSUME IInv, WatchInv, [Next]_vars, watch.next = 3, watch'.next = 4,
                    NEW b, b = Head(watch.todo)
             PROVE  /\ Econ!Anomalies(seen'[b], MaxLlmRatio, LossFloor)
                         \subseteq Econ!Anomalies(Truth(b), MaxLlmRatio, LossFloor)
                    /\ Econ!Health(Econ!Anomalies(seen'[b], MaxLlmRatio, LossFloor)) = "CRITICAL"
                         => Econ!Health(Econ!Anomalies(Truth(b), MaxLlmRatio, LossFloor)) = "CRITICAL"
                    /\ Econ!LiveHealth(seen'[b]) = "CRITICAL"
                         => Econ!Verdict(Truth(b)) = "unprofitable"
                    /\ Econ!FleetTotals({b}, seen').alerts
                         <= Econ!FleetTotals({b}, [x \in {b} |-> Truth(x)]).unprofitable
  OBVIOUS
<1>1. Read
  <2>1. ~ UNCHANGED <<watch, seen>>
    OBVIOUS
  <2>2. ~ Look
    BY DEF Look
  <2> QED
    BY <2>1, <2>2, WhoWatches
<1> DEFINE u == seen'[b]
           v == Truth(b)
<1>2. /\ b \in Businesses
      /\ seen' = [seen EXCEPT ![b] = [seen[b] EXCEPT !.revenue = Revenue(b)]]
      /\ {Revenue(b), ExternalSpend(b), Balance(Llm(b))} \subseteq Nat
      /\ watch.todo # <<>>
  BY <1>1, ReadEffect, FiguresGrow
<1>3. /\ seen[b] \in [revenue : Int, cogs : {0}, ads : Int, llm : Int,
                      customers : {0}, shown : Int]
      /\ seen[b].ads <= ExternalSpend(b) /\ seen[b].llm <= Balance(Llm(b))
  <2>1. seen \in [Businesses -> [revenue : Int, cogs : {0}, ads : Int, llm : Int,
                                customers : {0}, shown : Int]]
    BY DEF WatchInv
  <2>2. /\ watch.next > 1 => seen[b].ads <= ExternalSpend(b)
        /\ watch.next > 2 => seen[b].llm <= Balance(Llm(b))
    BY <1>2 DEF WatchInv
  <2>3. watch.next > 1 /\ watch.next > 2
    OBVIOUS
  <2> QED
    BY <1>2, <2>1, <2>2, <2>3
<1>4. /\ u.revenue = Revenue(b) /\ u.cogs = 0 /\ u.ads = seen[b].ads /\ u.llm = seen[b].llm
      /\ u.ads \in Int /\ u.llm \in Int
  <2>1. u = [seen[b] EXCEPT !.revenue = Revenue(b)]
    BY <1>2 DEF WatchInv
  <2> HIDE DEF u
  <2> QED
    BY <1>3, <2>1
<1>5. /\ v.revenue = Revenue(b) /\ v.cogs = 0 /\ v.ads = ExternalSpend(b)
      /\ v.llm = Balance(Llm(b))
  BY DEF Truth, Nothing
<1> HIDE DEF u, v
<1>6. /\ Econ!Profit(v) <= Econ!Profit(u) /\ {Econ!Profit(u), Econ!Profit(v)} \subseteq Int
      /\ Econ!Anomalies(u, MaxLlmRatio, LossFloor)
           \subseteq Econ!Anomalies(v, MaxLlmRatio, LossFloor)
  <2>1. u.revenue = v.revenue /\ v.revenue \in Nat /\ u.cogs = 0 /\ v.cogs = 0
    BY <1>2, <1>4, <1>5
  <2>2. {u.ads, u.llm, v.ads, v.llm} \subseteq Int /\ u.ads <= v.ads /\ u.llm <= v.llm
    BY <1>2, <1>3, <1>4, <1>5
  <2> QED
    BY <2>1, <2>2, LowerCosts
<1>7. Econ!LiveHealth(u) = "CRITICAL" => Econ!Verdict(v) = "unprofitable"
  BY <1>6 DEF Econ!LiveHealth, Econ!Verdict
<1>8. Econ!Health(Econ!Anomalies(u, MaxLlmRatio, LossFloor)) = "CRITICAL"
        => Econ!Health(Econ!Anomalies(v, MaxLlmRatio, LossFloor)) = "CRITICAL"
  <2>1. \A F : "operating_loss" \in F => Econ!Health(F) = "CRITICAL"
    BY DEF Econ!Health
  <2>2. \A F : F = {"llm_cost_high"} => Econ!Health(F) # "CRITICAL"
    BY DEF Econ!Health
  <2>3. \A F : F = {} => Econ!Health(F) # "CRITICAL"
    BY DEF Econ!Health
  <2>4. Econ!Anomalies(u, MaxLlmRatio, LossFloor) \subseteq {"llm_cost_high", "operating_loss"}
    BY DEF Econ!Anomalies
  <2> QED
    BY <1>6, <2>1, <2>2, <2>3, <2>4
<1>9. Econ!FleetTotals({b}, seen').alerts
        <= Econ!FleetTotals({b}, [x \in {b} |-> Truth(x)]).unprofitable
  <2> DEFINE A == {x \in {b} : Econ!LiveHealth(seen'[x]) = "CRITICAL"}
             N == {x \in {b} : Econ!Verdict([y \in {b} |-> Truth(y)][x]) = "unprofitable"}
  <2>1. Econ!FleetTotals({b}, seen').alerts = Cardinality(A)
    <3>1. Econ!FleetTotals({b}, seen').alerts = Econ!Cardinality(A)
      BY Zenon DEF Econ!FleetTotals
    <3> HIDE DEF A
    <3> QED
      BY <3>1, SameCardinality
  <2>2. Econ!FleetTotals({b}, [x \in {b} |-> Truth(x)]).unprofitable = Cardinality(N)
    <3>1. Econ!FleetTotals({b}, [x \in {b} |-> Truth(x)]).unprofitable = Econ!Cardinality(N)
      BY Zenon DEF Econ!FleetTotals, Econ!Unprofitable
    <3> HIDE DEF N
    <3> QED
      BY <3>1, SameCardinality
  <2>3. A \subseteq N
    BY <1>7 DEF u, v
  <2>4. IsFiniteSet(N)
    BY FS_Singleton, FS_Subset
  <2> HIDE DEF A, N
  <2> QED
    BY <2>1, <2>2, <2>3, <2>4, FS_Subset
<1> QED
  BY <1>6, <1>7, <1>8, <1>9 DEF u, v

\* No alarm of the dashboard is made up, however much is posted between the
\* reads of its figures, for any number of businesses and any thresholds.
THEOREM AlarmsAreTrue == Spec => NoFalseAlarm
BY Invariance, WatchHolds, NoStepFakesAlarm, PTL DEF Spec, NoFalseAlarm
=============================================================================
