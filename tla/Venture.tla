------------------------------- MODULE Venture -------------------------------
(***************************************************************************)
(* The life of a business in the books: it is provisioned (ab_factory),    *)
(* calls models within its budget and pays (ab_gateway.tools), advertises  *)
(* (ab_ads), closes sales that become charges (ab_sales, ab_revenue), and  *)
(* is watched from the ledger (ab_obs, ab_econ, the console's live reads). *)
(*                                                                         *)
(* Every statement that reads or writes shared state is a step of its own; *)
(* ledger.post() is one step here (module LedgerStore shows that its       *)
(* statements amount to one).  A process may die before any of its steps.  *)
(***************************************************************************)
EXTENDS LedgerRules, SequencesExt

CONSTANTS
    None,             \* a ratio without a denominator
    Businesses,
    Budget,           \* Budget[b]: the blueprint's experiment_budget_minor
    LlmBudget,        \* LlmBudget[b]: the blueprint's llm_budget_minor
    ComplianceClear,  \* ropa.check() found nothing
    Cap,              \* PAYMENT_CAP_MINOR
    Offers,           \* what provision() is called with: [business, capital]
    Launches,         \* calls of provision()
    Calls,            \* calls of complete_for_business()
    Prompts,          \* their contents: [business, cost, maker]
    Leads,            \* sequence of [business, opportunity, fit, budget, amount, uplift]
    MinFit, MinBudget,
    RailRuns,         \* bound on the calls of record_charges()
    Campaigns,        \* sequence of [business, channel, spend, ref]
    AdRuns,           \* bound on the calls of run_campaigns()
    Payments,         \* what payments.transfer is called with: [key, amount,
                      \* payee, source, maker, checker, business]
    MaxLlmRatio, LossFloor,  \* thresholds of detect_anomalies()
    Width,            \* bound on the processes at work at the same time
    Looks             \* bound on the requests for the fleet dashboard

Econ == INSTANCE Economics

\* Amounts are integer minor units; a budget is positive, a price is not negative.
ASSUME AmountsAssumption ==
    /\ Budget \in [Businesses -> Nat \ {0}] /\ LlmBudget \in [Businesses -> Nat]
    /\ \A o \in Offers : o.business \in Businesses /\ o.capital \in Int
    /\ \A p \in Prompts : p.business \in Businesses /\ p.cost \in Nat
    /\ Leads \in Seq(ToSet(Leads)) /\ Campaigns \in Seq(ToSet(Campaigns))
    /\ \A l \in ToSet(Leads) : l.amount \in Nat /\ l.uplift \in Int
    /\ \A ad \in ToSet(Campaigns) : ad.spend \in Nat
    /\ \A x \in Payments :
          x.amount \in Nat \ {0} /\ x.business \in Businesses \cup {NoOne}

\* References are taken to be unique, as the idempotency keys made of them are,
\* and no payment to carry a key that another module makes: nothing in the code
\* checks it.
ASSUME ReferencesAssumption ==
    /\ \A i, j \in DOMAIN Leads : Leads[i].opportunity = Leads[j].opportunity => i = j
    /\ \A i, j \in DOMAIN Campaigns : Campaigns[i].ref = Campaigns[j].ref => i = j

\* There are finitely many businesses, thresholds are numbers, and a missing
\* ratio is none.
ASSUME FiguresAssumption ==
    /\ IsFiniteSet(Businesses) /\ NoOne \notin Businesses
    /\ MaxLlmRatio \in Int /\ LossFloor \in Int /\ None \notin Int

\* No payment names the cost account of a business as its source: nothing in
\* the code checks it either.  Only NoFalseAlarm rests on it.
ASSUME SourcesAssumption ==
    \A x \in Payments, b \in Businesses : x.source # [kind |-> "llm_spend", owner |-> b]

VARIABLES
    row,              \* table businesses: row[b] = [status, capital]
    journal,          \* the transactions posted to the ledger
    killed,           \* businesses with an active kill-switch row
    launch,           \* launch[p] = [step, offer]
    live,             \* BusinessActivated events on the bus: [business, capital]
    call,             \* call[c] = [step, prompt, spent]
    inferred,         \* calls whose inference ran
    paying,           \* payments on a business's account, past their gate
    rail,             \* [at, runs] of the loop in record_charges()
    reported,         \* charges whose RevenueReceived was returned
    ads,              \* [at, ran, runs] of the loop in run_campaigns()
    lost,             \* campaigns placed by a run that died before booking them
    placed,           \* campaigns the platform has run
    watch,            \* [todo, next, looks]: the businesses still to read
    seen              \* seen[b]: the figures read for the dashboard
vars == <<row, journal, killed, launch, live, call, inferred, paying, rail, reported,
          ads, placed, lost, watch, seen>>
launching == <<launch, live>>
calling == <<call, inferred>>
selling == <<rail, reported>>
advertising == <<ads, placed, lost>>
watching == <<watch, seen>>

----------------------------------------------------------------------------
(* The ledger: accounts, balances and transactions.                        *)

Llm(b) == [kind |-> "llm_spend", owner |-> b]
Income(b) == [kind |-> "revenue", owner |-> b]
Treasury == [kind |-> "treasury", owner |-> NoOne]

Balance(account) ==
    MapThenSumSet(
        LAMBDA t : SumAt(t.postings,
                         {i \in DOMAIN t.postings : t.postings[i].account = account}),
        journal)

\* Money received, and money paid to outsiders on the business's transactions.
Revenue(b) == -Balance(Income(b))
ExternalSpend(b) ==
    MapThenSumSet(LAMBDA t : SumAt(t.postings, ExternalDebits(t)),
                  {t \in journal : t.business = b})

\* Debit one account and credit another.
Move(amount, debit, credit) ==
    <<[account |-> debit, amount |-> amount], [account |-> credit, amount |-> -amount]>>

Txn(key, postings, maker, checker, payee, business) ==
    [key |-> key, postings |-> postings, maker |-> maker, checker |-> checker,
     payee |-> payee, business |-> business]

Posted(key) == {t \in journal : t.key = key}
Book(t) == journal' = IF Posted(t.key) = {} THEN journal \cup {t} ELSE journal

CapitalTxn(o) ==
    Txn(<<"capital", o.business>>, Move(o.capital, Cash(o.business), Treasury),
        "portfolio_agent", "treasury_control", NoOne, NoOne)
InferenceTxn(c, p) ==
    Txn(<<"llm", c>>, Move(p.cost, Llm(p.business), Cash(p.business)),
        p.maker, NoOne, NoOne, p.business)
ChargeTxn(ch) ==
    Txn(<<"rev", ch.ref>>, Move(ch.amount, Cash(ch.business), Income(ch.business)),
        "revenue_rail", NoOne, NoOne, ch.business)
\* Mutant: the header does not carry the business.
AdTxn_Unattributed(ad) ==
    Txn(<<"ad", ad.ref>>, Move(ad.spend, External(ad.channel), Cash(ad.business)),
        "ad_agent", "treasury_control", ad.channel, NoOne)
AdTxn(ad) ==
    Txn(<<"ad", ad.ref>>, Move(ad.spend, External(ad.channel), Cash(ad.business)),
        "ad_agent", "treasury_control", ad.channel, ad.business)

\* There is room for one more process.
Room ==
    Cardinality({p \in Launches : launch[p].step \notin {"idle", "over"}})
      + Cardinality({c \in Calls : call[c].step \in {"infer", "meter"}})
      + Cardinality(paying)
      + Cardinality({x \in {"rail"} : rail.at > 0})
      + Cardinality({x \in {"ads"} : ads.at > 0})
      + Cardinality({x \in {"watch"} : watch.todo # <<>>}) < Width

----------------------------------------------------------------------------
(* Provisioning.                                                           *)

NoOffer == [business |-> NoOne, capital |-> 0]
Over == [step |-> "over", offer |-> NoOffer]     \* returned, raised or dead
Step(p, s) == launch' = [launch EXCEPT ![p].step = s]
Finish(p) == launch' = [launch EXCEPT ![p] = Over]

\* core.provision(): an underfunded request is refused, nothing is written.
Request(p) ==
    /\ launch[p].step = "idle" /\ Room
    /\ \E o \in Offers :
          launch' = [launch EXCEPT ![p] =
              IF o.capital < Budget[o.business] THEN Over
              ELSE [step |-> "insert", offer |-> o]]
    /\ UNCHANGED <<row, journal, killed, paying, live, calling, selling, advertising, watching>>

\* Mutant: the row of an existing business is overwritten.
InsertDraft_Upserts(p) ==
    LET o == launch[p].offer IN
    /\ launch[p].step = "insert"
    /\ row' = [row EXCEPT ![o.business] = [status |-> "draft", capital |-> o.capital]]
    /\ Step(p, "allocate")
    /\ UNCHANGED <<journal, killed, paying, live, calling, selling, advertising, watching>>

\* ON CONFLICT DO NOTHING: somebody else's draft makes this AlreadyProvisioned.
InsertDraft(p) ==
    LET o == launch[p].offer IN
    /\ launch[p].step = "insert"
    /\ \/ /\ row[o.business].status = "absent"
          /\ row' = [row EXCEPT ![o.business] = [status |-> "draft", capital |-> o.capital]]
          /\ Step(p, "allocate")
       \/ /\ row[o.business].status # "absent"
          /\ Finish(p)
          /\ UNCHANGED row
    /\ UNCHANGED <<journal, killed, paying, live, calling, selling, advertising, watching>>

Allocate(p) ==
    /\ launch[p].step = "allocate"
    /\ Book(CapitalTxn(launch[p].offer))
    /\ Step(p, "readiness")
    /\ UNCHANGED <<row, killed, paying, live, calling, selling, advertising, watching>>

Ready(b) ==
    /\ Balance(Cash(b)) >= Budget[b]
    /\ b \notin killed
    /\ ComplianceClear

\* A business that is not ready stays a draft; the call still returns.
CheckReadiness(p) ==
    /\ launch[p].step = "readiness"
    /\ IF Ready(launch[p].offer.business) THEN Step(p, "activate") ELSE Finish(p)
    /\ UNCHANGED <<row, journal, killed, paying, live, calling, selling, advertising, watching>>

Activate(p) ==
    /\ launch[p].step = "activate"
    /\ row' = [row EXCEPT ![launch[p].offer.business].status = "active"]
    /\ Step(p, "announce")
    /\ UNCHANGED <<journal, killed, paying, live, calling, selling, advertising, watching>>

\* The producer reports nothing: the event arrives or is lost.
Announce(p) ==
    /\ launch[p].step = "announce"
    /\ \/ live' = live \cup {launch[p].offer}
       \/ UNCHANGED live
    /\ Finish(p)
    /\ UNCHANGED <<row, journal, killed, paying, calling, selling, advertising, watching>>

DieLaunching(p) ==
    /\ launch[p].step \notin {"idle", "over"}
    /\ Finish(p)
    /\ UNCHANGED <<row, journal, killed, paying, live, calling, selling, advertising, watching>>

\* Only readiness() reads the flag, so kills of an active business are left out.
Kill(b) ==
    /\ row[b].status # "active" /\ b \notin killed
    /\ killed' = killed \cup {b}
    /\ UNCHANGED <<row, journal, paying, launching, calling, selling, advertising, watching>>

----------------------------------------------------------------------------
(* Model calls.                                                            *)

NoPrompt == [business |-> NoOne, cost |-> 0, maker |-> NoOne]
To(c, s) == call' = [call EXCEPT ![c].step = s]
End(c, s) == call' = [call EXCEPT ![c] = [step |-> s, prompt |-> @.prompt, spent |-> 0]]

\* Mutant: the cost of this call is not projected.
Gate_SpentOnly(p, spent) == Econ!GatePasses(0, spent, LlmBudget[p.business])
Gate(p, spent) == Econ!GatePasses(p.cost, spent, LlmBudget[p.business])

\* An unknown business is refused; else the spend so far decides.
Ask(c) ==
    /\ call[c].step = "idle" /\ Room
    /\ \E p \in Prompts :
          LET known == row[p.business].status # "absent"
              spent == Balance(Llm(p.business))
          IN  call' = [call EXCEPT ![c] =
                  IF known /\ Gate(p, spent)
                  THEN [step |-> "infer", prompt |-> p, spent |-> spent]
                  ELSE [step |-> "denied", prompt |-> NoPrompt, spent |-> 0]]
    /\ UNCHANGED <<row, journal, killed, paying, launching, inferred, selling, advertising, watching>>

\* model_gateway.complete() answers or raises.
Infer(c) ==
    /\ call[c].step = "infer"
    /\ \/ /\ inferred' = inferred \cup {c}
          /\ IF call[c].prompt.cost > 0 THEN To(c, "meter") ELSE End(c, "answered")
       \/ End(c, "dead") /\ UNCHANGED inferred
    /\ UNCHANGED <<row, journal, killed, paying, launching, selling, advertising, watching>>

\* Mutant: a refused posting is swallowed and the answer returned.
Meter_Swallows(c) ==
    LET t == InferenceTxn(c, call[c].prompt) IN
    /\ call[c].step = "meter"
    /\ IF Valid(t, Cap) THEN Book(t) ELSE UNCHANGED journal
    /\ End(c, "answered")
    /\ UNCHANGED <<row, killed, paying, launching, inferred, selling, advertising, watching>>

\* The posting has no checker: over the cap it is a LedgerError, hence a deny.
Meter(c) ==
    LET t == InferenceTxn(c, call[c].prompt) IN
    /\ call[c].step = "meter"
    /\ \/ Valid(t, Cap) /\ Book(t) /\ End(c, "answered")
       \/ ~ Valid(t, Cap) /\ End(c, "denied") /\ UNCHANGED journal
    /\ UNCHANGED <<row, killed, paying, launching, inferred, selling, advertising, watching>>

DieCalling(c) ==
    /\ call[c].step \in {"infer", "meter"}
    /\ End(c, "dead")
    /\ UNCHANGED <<row, journal, killed, paying, launching, inferred, selling, advertising, watching>>

----------------------------------------------------------------------------
(* Payments through the gateway (module Gateway has the rest of the call).  *)

\* One that names a business leaves by its cash; any other by the account it
\* names, which may be the cash of a business all the same.
PaymentTxn(x) ==
    LET source == IF x.business = NoOne THEN x.source ELSE Cash(x.business)
    IN  Txn(<<"pay", x.key>>, Move(x.amount, External(x.payee), source),
            x.maker, x.checker, x.payee, x.business)

\* _gate_business_spend(): an active business that is ready and can afford it,
\* in one step here.
Admit(x) ==
    /\ x.business # NoOne /\ x \notin paying /\ Room
    /\ row[x.business].status = "active" /\ Ready(x.business)
    /\ x.amount <= Balance(Cash(x.business))
    /\ paying' = paying \cup {x}
    /\ UNCHANGED <<row, journal, killed, launching, calling, selling, advertising, watching>>

\* transfer_payment(): no gate, no balance for a payment that names no business.
Pay(x) ==
    /\ x.business = NoOne \/ x \in paying
    /\ Valid(PaymentTxn(x), Cap) /\ Book(PaymentTxn(x))
    /\ paying' = paying \ {x}
    /\ UNCHANGED <<row, killed, launching, calling, selling, advertising, watching>>

\* The ledger refuses it, or the process dies.
DropPayment(x) ==
    /\ x \in paying
    /\ paying' = paying \ {x}
    /\ UNCHANGED <<row, journal, killed, launching, calling, selling, advertising, watching>>

----------------------------------------------------------------------------
(* Sales and the revenue rail.                                             *)

Won(l) ==
    /\ l.fit >= MinFit
    /\ l.budget >= MinBudget
    /\ l.amount <= l.budget

Charge(l, kind, amount) ==
    [business |-> l.business, amount |-> amount, ref |-> <<kind, l.opportunity>>]

\* A won deal is charged, and its expansion when there is an uplift.
ChargesOf(l) ==
    IF ~ Won(l) THEN <<>>
    ELSE <<Charge(l, "sale", l.amount)>>
           \o (IF l.uplift > 0 THEN <<Charge(l, "expand", l.uplift)>> ELSE <<>>)

Settled == FlattenSeq([i \in DOMAIN Leads |-> ChargesOf(Leads[i])])

\* The processor returns all that has settled, earlier charges included.
PullCharges ==
    /\ rail.at = 0 /\ rail.runs < RailRuns /\ Room
    /\ rail' = [at |-> 1, runs |-> rail.runs + 1]
    /\ UNCHANGED <<row, journal, killed, paying, launching, calling, reported, advertising, watching>>

\* Inbound money is exempt from the payment cap.
BookCharge ==
    /\ rail.at \in DOMAIN Settled
    /\ LET ch == Settled[rail.at] IN
          /\ Valid(ChargeTxn(ch), Max({Cap, ch.amount}))
          /\ Book(ChargeTxn(ch))
    /\ rail' = [rail EXCEPT !.at = @ + 1]
    /\ UNCHANGED <<row, killed, paying, launching, calling, reported, advertising, watching>>

\* The events of all the charges pulled, replays included.
ReturnCharges ==
    /\ rail.at > Len(Settled)
    /\ reported' = reported \cup ToSet(Settled)
    /\ rail' = [rail EXCEPT !.at = 0]
    /\ UNCHANGED <<row, journal, killed, paying, launching, calling, advertising, watching>>

DieSelling ==
    /\ rail.at > 0
    /\ rail' = [rail EXCEPT !.at = 0]
    /\ UNCHANGED <<row, journal, killed, paying, launching, calling, reported, advertising, watching>>

----------------------------------------------------------------------------
(* Advertising.                                                            *)

\* A run of no campaigns does nothing.
StartCampaigns ==
    /\ ads.at = 0 /\ ads.runs < AdRuns /\ Room /\ Campaigns # <<>>
    /\ ads' = [at |-> 1, ran |-> FALSE, runs |-> ads.runs + 1]
    /\ UNCHANGED <<row, journal, killed, paying, launching, calling, selling, placed, lost, watching>>

RunCampaign ==
    /\ ads.at \in 1..Len(Campaigns) /\ ~ ads.ran
    /\ placed' = placed \cup {Campaigns[ads.at].ref}
    /\ ads' = [ads EXCEPT !.ran = TRUE]
    /\ UNCHANGED <<row, journal, killed, paying, launching, calling, selling, lost, watching>>

BookCampaign ==
    /\ ads.at \in 1..Len(Campaigns) /\ ads.ran
    /\ Valid(AdTxn(Campaigns[ads.at]), Cap)
    /\ Book(AdTxn(Campaigns[ads.at]))
    /\ ads' = [ads EXCEPT !.ran = FALSE,
                          !.at = IF @ = Len(Campaigns) THEN 0 ELSE @ + 1]
    /\ UNCHANGED <<row, killed, paying, launching, calling, selling, placed, lost, watching>>

DieAdvertising ==
    /\ ads.at > 0
    /\ ads' = [ads EXCEPT !.at = 0, !.ran = FALSE]
    /\ lost' = lost \cup {Campaigns[i].ref : i \in {j \in {ads.at} : ads.ran}}
    /\ UNCHANGED <<row, journal, killed, paying, launching, calling, selling, placed, watching>>

----------------------------------------------------------------------------
(* The fleet dashboard reads the ledger in separate transactions.          *)

Nothing ==
    [revenue |-> 0, cogs |-> 0, ads |-> 0, llm |-> 0, customers |-> 0, shown |-> 0]
NothingSeen == [b \in Businesses |-> Nothing]
Truth(b) ==
    [Nothing EXCEPT !.revenue = Revenue(b), !.ads = ExternalSpend(b),
                    !.llm = Balance(Llm(b)), !.shown = Revenue(b)]

\* list_active()
Look ==
    /\ watch.todo = <<>> /\ watch.looks < Looks /\ Room
    /\ watch' = [todo  |-> SetToSeq({b \in Businesses : row[b].status = "active"}),
                 next  |-> 1,
                 looks |-> watch.looks + 1]
    /\ UNCHANGED <<row, journal, killed, paying, launching, calling, selling, advertising, seen>>

\* snapshot(): business_spend(), which reads the external payments and then
\* the cost account, then business_revenue() for the profit, then
\* business_revenue() again for the figure shown.  The view is then rendered.
Reading_RevenueFirst == <<"revenue", "ads", "llm", "shown">>
Reading == <<"ads", "llm", "revenue", "shown">>

Read ==
    LET b == Head(watch.todo)
        figure == Reading[watch.next]
        last == watch.next = Len(Reading)
    IN
    /\ watch.todo # <<>>
    /\ seen' = IF last /\ Len(watch.todo) = 1 THEN NothingSeen
               ELSE [seen EXCEPT ![b][figure] = Truth(b)[figure]]
    /\ watch' = [watch EXCEPT !.next = IF last THEN 1 ELSE @ + 1,
                              !.todo = IF last THEN Tail(@) ELSE @]
    /\ UNCHANGED <<row, journal, killed, paying, launching, calling, selling, advertising>>

----------------------------------------------------------------------------
Init ==
    /\ row = [b \in Businesses |-> [status |-> "absent", capital |-> 0]]
    /\ journal = {} /\ killed = {} /\ live = {} /\ inferred = {}
    /\ reported = {} /\ placed = {} /\ lost = {} /\ paying = {}
    /\ launch = [p \in Launches |-> [step |-> "idle", offer |-> NoOffer]]
    /\ call = [c \in Calls |-> [step |-> "idle", prompt |-> NoPrompt, spent |-> 0]]
    /\ rail = [at |-> 0, runs |-> 0]
    /\ ads = [at |-> 0, ran |-> FALSE, runs |-> 0]
    /\ watch = [todo |-> <<>>, next |-> 1, looks |-> 0]
    /\ seen = NothingSeen

Next ==
    \/ \E p \in Launches :
          \/ Request(p) \/ InsertDraft(p) \/ Allocate(p) \/ CheckReadiness(p)
          \/ Activate(p) \/ Announce(p) \/ DieLaunching(p)
    \/ \E b \in Businesses : Kill(b)
    \/ \E c \in Calls : Ask(c) \/ Infer(c) \/ Meter(c) \/ DieCalling(c)
    \/ \E x \in Payments : Admit(x) \/ Pay(x) \/ DropPayment(x)
    \/ PullCharges \/ BookCharge \/ ReturnCharges \/ DieSelling
    \/ StartCampaigns \/ RunCampaign \/ BookCampaign \/ DieAdvertising
    \/ Look \/ Read

Spec == Init /\ [][Next]_vars

----------------------------------------------------------------------------
(* Properties.                                                             *)

\* An active or announced business holds the capital its row says, allocated
\* once and enough for its budget: provision() (store.py) writes row, ledger,
\* status and event separately, and two calls may provision one business.
ActivationIsFunded ==
    /\ \A b \in Businesses : row[b].status = "active" =>
          /\ row[b].capital >= Budget[b]
          /\ {t.postings : t \in Posted(<<"capital", b>>)}
                = {Move(row[b].capital, Cash(b), Treasury)}
    /\ \A e \in live : row[e.business] = [status |-> "active", capital |-> e.capital]

\* Payments from the accounts of b that do not name it.
Unattributed(b) ==
    {t \in journal :
        /\ t.key[1] = "pay" /\ t.business = NoOne
        /\ \E i \in DOMAIN t.postings :
              t.postings[i].account \in {Cash(b), Income(b), Llm(b)}}

\* What a business holds is its capital and what it earned less what the
\* books attribute to it and less the payments from its accounts that name no
\* business: nothing else escapes the figures of a business.  Cash follows the
\* accounts, external spend the business_id of the header (business_spend() in
\* ab_ledger/store.py), and transfer_payment() asks for none.
BooksTieOut ==
    \A b \in Businesses :
        Balance(Cash(b)) =
            MapThenSumSet(Magnitude, Posted(<<"capital", b>>))
              + Revenue(b) - Balance(Llm(b)) - ExternalSpend(b)
              - MapThenSumSet(Magnitude, Unattributed(b))

\* Whatever happened outside is on the books, unless the process is between
\* the effect and its posting or died there, or (a model call over the cap)
\* was denied: record_charges(), run_campaigns(), complete_for_business().
NothingUnbooked ==
    /\ \A ch \in reported : ChargeTxn(ch) \in journal
    /\ \A i \in DOMAIN Campaigns :
          Campaigns[i].ref \in placed =>
              \/ AdTxn(Campaigns[i]) \in journal
              \/ ads.at = i /\ ads.ran
              \/ Campaigns[i].ref \in lost
    /\ \A c \in inferred :
          \/ InferenceTxn(c, call[c].prompt) \in journal
          \/ call[c].prompt.cost = 0
          \/ call[c].step \in {"meter", "dead", "denied"}

\* A metered call leaves the business over its LLM budget by no more than
\* what other calls spent while it ran: the spend is read before a slow
\* inference and posted after it (tools.py, complete_for_business()).
OverrunIsOverlap ==
    [][\A c \in Calls :
         call[c].step = "meter" /\ call'[c].step = "answered" =>
             LET b == call[c].prompt.business IN
             Balance(Llm(b))' <= LlmBudget[b] + (Balance(Llm(b)) - call[c].spent)]_vars

\* An alarm on the dashboard is never a fabrication: the figures come from
\* separate reads, and still a loss or an LLM ratio that they show held in
\* the ledger when the last of the three was read (ab_obs snapshot()).
NoFalseAlarm ==
    [][watch.next = 3 /\ watch'.next = 4 =>
         LET b == Head(watch.todo)
             found(u) == Econ!Anomalies(u, MaxLlmRatio, LossFloor)
         IN  /\ found(seen'[b]) \subseteq found(Truth(b))
             /\ Econ!Health(found(seen'[b])) = "CRITICAL"
                  => Econ!Health(found(Truth(b))) = "CRITICAL"
             /\ Econ!LiveHealth(seen'[b]) = "CRITICAL"
                  => Econ!Verdict(Truth(b)) = "unprofitable"
             /\ Econ!FleetTotals({b}, seen').alerts
                  <= Econ!FleetTotals({b}, [x \in {b} |-> Truth(x)]).unprofitable]_vars

\* "Denial => no inference, no spend" (docs/adr/0035, of model calls).
DenialMeansNoInference ==
    \A c \in Calls : call[c].step = "denied" => c \notin inferred
==============================================================================
