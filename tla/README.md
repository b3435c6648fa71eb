# A formal verification of the autonomous-business skeleton

TLA+ models of the repository (`src/` below is the repository's root, its code
is under `src/src/ab_*`), TLC configurations that check them on small instances,
and TLAPS proofs of every safety property the runs check, for every value of the constants.

The repository is a Python control plane for agents that run businesses: agents
call tools through one gateway, which checks revocation, kill switch, policy,
tenant, input trust and egress before it dispatches; money moves in a
double-entry ledger; everything is recorded in a hash-chained audit log and
announced on a Kafka bus; a growth loop turns model output into experiments and
experiments into capital; a console lets people watch and stop it. Services share
nothing but PostgreSQL tables and bus topics. Every statement that needs a table
opens a connection and commits on its own, so nearly every handler is a sequence
of separate transactions: what can go wrong is what happens *between* them.

## 1. Inventory

`PROJECT.json` lists every component with its status and, for those left out, the
reason. The components with control of their own:

| component | state | operations | hard behaviour | what makes it correct |
|---|---|---|---|---|
| `ab_gateway`: tool calls | `decisions`, `outbox`, per-call locals | `POST /tool-call` with five tools | calls run concurrently; flags are read one after the other and go stale; a handler may die after its effect; clients retry | one effect per id; only governed calls have effects; log and bus say nothing false; the halted are powerless; every call is answered |
| `ab_gateway`: LLM budget | spend in the ledger | read spent, gate, infer, post | budget read long before the cost is posted | overrun only by calls that overlap |
| `ab_gateway` registry, `ab_evals` | `model_promotions`, registry of a process | evaluate, promote, hydrate, select | registry filled at start-up, environments differ by process | a registry names only evaluated models |
| `ab_ledger` | `ledger_txns`, `ledger_entries` | `validate`, `post`, balances | racing and repeated `post()` of one key; death between header and entries | double entry, idempotency, approval, whole postings |
| `ab_killswitch`, `ab_identity` | `kill_switch`, `revoked_principals` | `activate`, `is_killed`, `revoke` | four separate writes, death between any two | evidence never precedes control; halts are permanent |
| `ab_audit` | `audit_log`, consumer offset | `append`, `verify_chain`, consumer | concurrent appends, automatic commits, redelivery, crashes | chain verifies; losses and repetitions per failure |
| `ab_factory`, `ab_sales`, `ab_revenue`, `ab_ads`, `ab_obs`, `ab_econ` | `businesses`, the ledger | provision, charge, spend, snapshot | death between commits; a dashboard that reads figure by figure | active means funded; the books tie out; no alarm is made up |
| `ab_growth`: ideation runner | in-memory registry, queues, threads | `start`, `stream`, timeout, eviction | event loop with threads that outlive their run | one run per business, one outcome, bounded spending after a halt |
| `ab_growth`: experiments, `ab_portfolio` | `experiments`, outcome topic | gate, create, run, conclude, roll up, allocate | garbled model output; retries over HTTP; two runners; lost and repeated events | ideation proposes only gated ideas; decided once; capital follows evidence |
| `ab_social` | posts, pillar weights | plan, write, authorize, publish, reweight | several pipelines count the posts before any publishes | the first posts are reviewed; plans are proportional |
| `ab_data` | offsets, bronze, silver, gold | consume, land, build, serve | offsets committed before landing; failed builds | each announcement counted once; losses per failure |
| `ab_product` | `product_initiatives`, charters | advance, approve, save, extend, conform | saves computed from stale reads | no gate skipped; charters only grow |
| `ab_ops`, `ab_monitor` | in-memory | deploy, incident, rollback, freeze | partial failure of a rollback | bad versions stay away |
| `ab_console` | a request, the services behind ports | halt, decide, propose, seed, approve, ideate | a service goes on after the console timed out | only the entitled act; pages are true |
| `ab_compliance`, `ab_org`, `ab_playbook` | none | `check`, `erasure_plan`, `route`, `extract_playbook` | rules over documents: corner cases | see the theorems of `Platform_proofs` |

They interact through the ledger (gateway, factory, revenue, ads), the kill flag and
the revocation list (written by `ab_killswitch`, read by gateway, growth, console),
the audit log (everybody appends) and the bus (decisions go to audit and data
service, outcomes to the portfolio).

## 2. Modules

```
LedgerRules          rules of one transaction (ab_ledger/core.py)
  |- Ledger          what the ledger promises: atomic posting
  |- LedgerStore     post() statement by statement            -- implements Ledger
  |- Gateway         POST /tool-call, with KillSwitch inside  -- implements Ledger
  |- Venture         provisioning, inference, sales, ads, dashboards; uses Economics
KillSwitch           activate(), is_killed(), revoke(), is_revoked()
  |- Gateway, Console (INSTANCE)
AuditLog             append() statement by statement, verify_chain()
  |- AuditReceipts   the consumer of decisions                -- implements AuditLog
IdeationRunner       runs, worker threads and streams
GrowthRules          gate, evidence, KPIs, roll-up, allocation: pure rules
  |- Experiments     from model output to capital
  |- Content         planning, governing and optimizing posts
Warehouse            ab_data             Serving    ab_evals and the model registry
Releases             ab_ops, burn check  ProductLine  pipeline of initiatives
Console              POST handlers       Charter    charters, conformance, promotion
Economics            unit economics      Policies   compliance, escalation, playbooks
Sums                 lemmas about sums over finite sets, used by four proof modules
LedgerStore_proofs   posting, trial balance, refinement of Ledger
Gateway_proofs       tool calls, the kill switch, fresh reads, refinement of Ledger
Audit_proofs         the chain, its refinement, the receipts
IdeationRunner_proofs
Venture_proofs       activation, books, budgets, the dashboard
Growth_proofs        Experiments, GrowthRules and Content
Platform_proofs      Releases, ProductLine, Serving, Warehouse, Console, Charter, Policies
MC*                  instances for TLC (MCGrowth: Experiments and Content; MCPlatform: the
                     five services; MCPolicies: reference definitions)
```

**LedgerRules, Ledger, LedgerStore.** `LedgerRules` translates `validate()`. `Ledger`
is the promise: a transaction that obeys the rules is posted in one step, whole, at
most once per idempotency key, and callers are told the truth. `LedgerStore` is
`post()` as PostgreSQL executes it: validation, the header `INSERT ... ON CONFLICT DO
NOTHING` (which waits for an open transaction with the same key and is decided by
how that ends), one `INSERT` per entry, commit, return; a caller may die before any
of them, which rolls back. Headers and entries are two variables so that a
half-written transaction *could* be seen.

**KillSwitch.** An activation is a signed request followed by four writes: flag,
revocation, audit record, event. `flagged`, `revoked`, `recorded` and `announced` are
the four stores. Nothing in the code clears a flag, so no action does.

**Gateway.** One action per step of `tool_call()`, in its order: revocation, kill flag,
the admission tests (functions of the request, hence one step), dispatch, and for
each tool its reads, gates, insert, publication, then the audit record and the
decision event. The kill switch is an `INSTANCE` whose steps interleave with those
of the calls. A publication may be lost: `bus.publish()` raises nothing when a delivery
fails. An audit append is one step here; `AuditLog` shows that the statements behind
it are as good as one.

**AuditLog, AuditReceipts.** `append()` by statement: advisory lock, tail, insert,
commit, return, with `audit_log.seq` drawn from a sequence that never rolls back. The
keyed hash is a free constructor over the previous hash and the record. The consumer's
client stores an offset when `poll()` returns a message and commits stored offsets in
the background and in `close()`; the loop of `app.py` opens session after session.

**IdeationRunner.** A run is a task of the event loop (`task`: where it is suspended)
and a pipeline in a worker thread (`worker`: what it does next). The task is suspended
only at its awaits, so everything between two of them is one action. `wait_for` gives
up on a run without stopping its thread. The three generators run side by side; what
matters of them is that they begin together and finish one by one.

**Venture, Economics.** One ledger (`journal`), and the processes that use it, each a
sequence of its statements: two calls of `provision()` (`launch`), model calls (`call`),
payments through the gateway (`paying`: past the gate of their business; one that names no
business passes no gate and takes any account), the charge run (`rail`), the campaign run
(`ads`), and a dashboard (`watch`) that reads
revenue, campaign spend, inference spend and revenue again and then judges what it
has. `ledger.post()` is one step, by `LedgerStore`'s refinement. `live` is what was announced,
`reported`, `inferred` and `lost` are histories of what happened outside the books.

**GrowthRules, Experiments.** The rules are operators: `ideation_gate()`, parsing, dedup
and merging of generator output, `decide()` with its significance test, `rollup()`,
`allocate()`. A rate is a pair of integers; `p < alpha` is stated on the square of the
z statistic against a constant (`ZSquared`), which is monotone, so no error function is
needed. The stable sort of `allocate()` is stated by rank: the k-th of `Ranking` is the winner
that k-1 winners are `Better` than. `Experiments` runs them: a session generates, judges and proposes over a
connection that may break after the service has created the row; measurements come
in; runners read a record, decide on measurements that have moved since, conclude by a
guarded `UPDATE` and publish; the portfolio's reader may be rewound. Experiments come from
ideation (the loop and the cards of the workspace, `Click`) or from what a person types in the form or an
agent sends (`Fill`), which no verdict is asked for; a history, `idea`, tells the rows apart.

**Content.** Pipelines plan, write, ask for authority (`route()` up the reporting line),
wait for a person if they must, check and publish; a post earns; the pillars' weights
move by the verdict of `decide()`. The code multiplies floating-point weights by 1.5 and 0.5;
here a weight is an integer number of parts of which `unit` make one, and every optimization
doubles `unit`, so both factors are exact and no weight reaches zero. The rounding of floats is not modelled.

**Warehouse, Serving, Releases, ProductLine, Console.** Five services that share no
state, composed in `MCPlatform` in such a way that one of them moves in each behaviour
(`part`). `Warehouse` is the rebuild loop with its Kafka client
over a topic on which one decision may be announced again (a message is an event and carries its decision), `Serving` the table of
promotions against the registry of one process after another, `Releases` deployments,
incidents and the freeze (the errors are an argument of each incident), `ProductLine` operators who hold a `PipelineState` in memory and
save it over whatever the row has become. `Console` is each POST handler with its
guards in the order the handler has them, the port with its timeout, the service
behind it (`KillSwitch` for halts), and what the page finally says.

**Charter, Policies.** Pure rules: extension and conformance of charters and the checks of
`promote_initiative()`; the record of processing, erasure plans, escalation and playbooks.

## 3. What the runs check

| run | properties | states | instance |
|---|---|---|---|
| `ledger_store` | `TrialBalanceZero`, `ImplementsLedger`, `EveryPostReturns` | 21,295 | three attempts, six transactions: two keys, the cap, an unlisted payee, two payees, self-checking, imbalance |
| `gateway_races` | `KilledBusinessSpendsNothing`, `LateCallsPowerless`, `EvidenceFollowsControl`, `FreshReadNeverOverdraws` | 1,714,559 | two calls out of twelve money requests against one activation (of an agent, of a business, global, of an unknown scope, or unauthorized) and one revocation |
| `gateway_calls` | `AuditTellsTheTruth`, `EffectsWereGoverned`, `EveryCallConcludes`, `PaymentsImplementLedger` | 26,402 | two calls out of eighteen requests, one per admission test |
| `audit_receipts` | `ChainVerifies`, `ReceiptsPerFailure`, `EveryAppendReturns` | 539,863 | topic of two messages, three sessions, three appends of the gateway |
| `ideation_runner` | `OneRunPerBusiness`, `OneOutcome`, `HaltBoundsSpending`, `EveryRunEnds` | 1,031,642 | two runs of one or two businesses, registry of one, two threads |
| `venture` | `ActivationIsFunded`, `BooksTieOut`, `NothingUnbooked`, `OverrunIsOverlap`, `NoFalseAlarm` | 561,524 | one business offered two capitals by two calls, two model calls, three leads, a campaign and a payment; or one of each, payments that name the business and that take its cash or its revenue without, and a dashboard |
| `growth` | `IdeationProposesGatedIdeas`, `ToldOnceAsDecided`, `ProjectionsAgree`, `CapitalFollowsEvidence`, `SpentOutIsDecided`; `FirstPostsReviewed`, `PlanIsProportional`, `WinnersGain` | 517,948 | two businesses, two experiments, two forms filled in by hand, two runners, one rewind; or two pipelines, two posts, two reweightings, a cyclic reporting line |
| `platform` | `CountedPerAnnouncement`, `LossPerFailure`, `ReadyMissesOnlyRecent`; `RegistryWasEvaluated`; `BadNeverReturns`; `GatesWerePassed`, `SettledUnlessStale`; `OnlyEntitledAct`, `PagesTellTheTruth` | 860,562 | the five services above |

Four runs show where the code does not do what the repository says. Each is a finding
of `PROJECT.json` with the sentence it contradicts:

- `gateway_overdraft`: two payments read one balance, both pass `can_spend()`, both post;
  cash ends below zero. `FreshReadNeverOverdraws` says what does hold.
- `ideation_streams`: two streams of one run share one queue with one end sentinel; the
  second never ends.
- `venture_denial`: ADR 0035 has a denial mean that no inference ran; a call whose cost
  exceeds the payment cap is denied by the ledger after the inference, and its cost is
  not booked. `NothingUnbooked` says that this, and a death, are the only ways.
- `warehouse_retries`: a repeated `write_decision` stores nothing, and is announced with a fresh
  event id; silver deduplicates event ids, and the total of decisions counts it twice.
  `CountedPerAnnouncement` says by how many the total is off.

### Properties worth a word

- `LateCallsPowerless` holds although flag and revocation are read in two statements and
  written in two: an activation writes the flag first and nothing is ever cleared, so a
  call that comes after either write meets it.
- `AuditTellsTheTruth`: the audit record is written after the effect, so an effect without
  a record is possible (a handler may die in between); a false record is not.
- `ReceiptsPerFailure` is what remains of "records an entry per consumed decision": offsets
  are committed before receipts, so a crash or a failed append loses the receipt in
  flight, and never more than that one.
- `HaltBoundsSpending`: a run started after the kill switch makes no model call; a running
  one begins at most one more (check and call are two steps).
- `ActivationIsFunded` holds although `provision()` commits row, capital, status and event
  separately and two calls may provision one business with different capital: the
  draft's insert decides who goes on, and only that one activates.
- `NoFalseAlarm` holds although the dashboard's figures are never of one moment: an alarm
  may come late, but a loss or a ratio that is shown held in the ledger when the last of the
  three was read: costs never shrink, and the revenue that must cover them is read
  after them. It rests on `SourcesAssumption` (section 4).
- `BooksTieOut` says exactly how far the cash of a business and its attributed figures may part:
  by the payments from its accounts that name no business (`Unattributed`), which
  `transfer_payment()` lets through, and by nothing else.
- `KilledBusinessSpendsNothing` is about calls that name the business: a payment that names none is not
  asked for any business's kill switch, whosever account it takes.
- `IdeationProposesGatedIdeas` is a guarantee of ideation, not of the table: `create_experiment()`
  checks no verdict, and what is typed or sent by hand is exempt.
- `FirstPostsReviewed` is about callers that count the published posts: the count is an argument of
  `authorize_publish()`.
- `RegistryWasEvaluated` is about the registry, which decides between answering and abstaining;
  `complete()` answers by the model its process runs, whatever version the registry names.
- `OverrunIsOverlap` bounds what a budget read before a slow inference may miss by
  what *other* calls spent meanwhile, and by nothing of the call's own.
- `CapitalFollowsEvidence` is about `allocate()` after `rollup()` on whatever was read, so a
  redelivered outcome, which is counted twice, is a part of it.
- `ToldOnceAsDecided`: two runners may reach different verdicts from different
  measurements; `conclude()` is a guarded update, so the first wins and the loser's verdict
  is never published.
- `LossPerFailure` and `ReadyMissesOnlyRecent` are what the data service guarantees while
  it commits offsets before landing and never repeats a failed build by itself.
- `SettledUnlessStale` is the weakest thing said of a halted or launched initiative: it
  moves only by a `save()` of a state read before. That this does happen is in section 5.
- `PagesTellTheTruth` includes the late service: a page that reports a 4xx never has an
  effect later, while a timed-out halt (an error page) may still come into force.

### Algorithms against reference definitions

TLC evaluates these assumptions when a run starts, over all small inputs.
`MCPolicies` (a part of `platform`): `EscalationFindsTheNearest` compares the loop of `route()`
with the least closed set of superiors, for every reporting line of three agents;
`PlansOfSoundRecords` and `MisclassifiedIsForgotten` examine every record of two entries;
`RecommendedIsWidelyUsed` and `MedianIsInTheMiddle` cover up to four winners. `MCVenture`:
`LossesOnTop` examines the order of businesses on the fleet page.

### Bounds, and why they are enough

- Two concurrent gateway calls suffice for their interleavings, since calls meet only in
  the tables (one row each under one key) and in the balance; the third attempt of
  `ledger_store` is there for a duplicate that waits for a duplicate.
- Requests, forms and prompts are the smallest sets with both sides of every test.
- `MaxCalls`, `MaxMessages`, `MaxSessions` (`AuditReceipts`): redelivery within and across
  sessions, a loss and a repetition.
- `Starts`, `MaxRuns`, `Threads`, `Generators` (`IdeationRunner`): a registry of one forces an
  eviction at the second start; of two threads one may be held by a run that outlives
  its task.
- `Venture`: the LLM budget admits the two calls one by one and not together; one offer is
  short of the blueprint's budget; the cap lies between the two prompts' costs;
  `Launches`, `Calls`, `RailRuns`, `AdRuns`, `Looks` bound repetitions, `Width` how many processes are
  between two steps at a time (any two may overlap, never three). `MCVenture` has two scenes, since
  everything at once is too many states: two launches and two calls race each other, the sales
  and the campaign in one; the dashboard and the unnamed payments meet one of each in the other.
- `MCGrowth` and `MCPlatform` compose components that share no state: one of them moves in each
  behaviour, so nothing is lost.
- `Experiments`: arms of four impressions (`MaxSeen`) are the fewest at which a difference is
  significant; `MaxRows`, `MaxRewinds` allow two experiments and one redelivery.
- `Content`: `MaxPosts`, `MaxReweights`: two posts reach past `ReviewFirstN = 1`.
- `Warehouse`: four messages, any of which may announce a decision again, are two batches, two failures a failed build and a crash, ticks
  reach beyond the SLA. `Serving`: `MaxPromotions` allows a model for each of two profiles.
  `Releases`: three versions, errors from none to one more than the budget. `ProductLine`: `MaxChanges`
  writes of one row by two operators. `Console`: two requests at a time.
- Symmetry is used for interchangeable calls, pipelines, runners, operators and requests,
  and only in runs without a liveness property.
- Deadlock checking is off because every instance stops: all calls answered, all bounded
  counters spent.

### Fairness

- `ledger_store`, `gateway_calls`, `audit_receipts`: weak fairness of the statements of one
  caller, since a process that is not killed goes on. `Die` and `Fail` are never fair. A
  waiting `INSERT` or lock is granted once its holder ends; PostgreSQL queues waiters in
  order, and here each caller's demand is finite.
- `ideation_runner`: weak fairness of the event loop's steps and of the timeout
  (`AB_IDEATION_TIMEOUT_S`, set in `ab_console/app.py`), *none* of the worker threads, whose
  model calls may hang. `EveryRunEnds` has the premise that a thread is free again and
  again: events are published through the same executor, and hanging calls that take
  every thread keep runs from ending.
- The other runs state no liveness: experiments, posts, initiatives and requests wait for
  people, schedulers and measurements, for which the code promises nothing.

## 4. What is proved

The theorems hold for every number of callers, businesses, runs, messages and so on, for
every amount, bound and threshold. A property is proved by an inductive invariant of the
proof module: initial states satisfy it, each action keeps it (one lemma or step per action),
it implies the property. Every invariant, action property and refinement that the passing runs
check is a theorem; what is left to TLC is liveness and the reference definitions.

### Assumptions

They are the `ASSUME`s of the component modules, which TLC evaluates in the runs.

- Markers (`NoOne`, `NoId`, `None`, an empty request) are no members of the sets they mark.
- `TxnsAssumption`, `MoneyAssumption`, `AmountsAssumption`: amounts are integers, prices, quotes and
  campaign spends not negative (`Field(ge=0)` in the argument models), an experiment's
  budget positive.
- `ReferencesAssumption`: a lead's opportunity and a campaign's reference are unique, and no payment
  carries a key that another module makes. The code makes
  idempotency keys of them and checks nothing; without it the second charge of one reference
  is taken for a replay.
- `SourcesAssumption`: no payment names the cost account of a business (`<b>:llm_spend`) as its source.
  Nothing in the code checks that either; such a payment lowers what inference seems to have cost.
  Only `NoFalseAlarm` rests on it.
- `FiguresAssumption`: finitely many businesses, thresholds that are numbers.
- `ThresholdsAssumption`: the portfolio's thresholds and its increment are whole numbers (they are
  read by `int()`, and any sign is accepted).
- `ContentAssumption`: the weights a profile starts with are positive (`Field(gt=0)` in
  `ab_social/profile.py`); a profile may have no pillars.
- `SuitesAssumption`, `WarehouseAssumption`, `FormsAssumption`, `ExperimentsAssumption`: the types of
  suites, batches, forms, experiments and capital.

### Induction without an operator

Sums (balances, trial balance, spend, capital) and folds cannot be reasoned about by the library's
induction theorems, which the provers cannot instantiate. `Sums` and `Growth_proofs` prove what is
needed by a smallest counterexample instead: the sets on which a claim fails form a family of
subsets of a finite set, which has a minimal member (`Smallest`), and removing one element from it
gives a contradiction.

- `Sums`: `TotalIsInt`, `TotalAdd`, `TotalUnion`, `TotalFilter`, `TotalTimes`, `TotalAtMost` and so on say what
  a sum does; `FoldIsTotal` and `AmountsAreTotal` that the community modules' folds are that sum.
- `Least`: of the numbers up to a bound at which a claim fails there is a least one. Loops, read
  as folds, are proved with it position by position.
- `FoldExists`, `FoldsAgree`: the recursion behind `FoldLeft()` has a solution within the type of its
  accumulator, and only one. `ProceedKeeps` (the gate), `RollupIsComplete` and `FundedFits` (the
  portfolio) rest on them; `FlattenIsBlocks` does the same for `FlattenSeq()` (the plan).
- `RanksAre`: in a total order on a finite set, the numbers of those ahead of each element are 0,
  1, 2 and so on, each once. It stands for both sorts of the code: the remainders of
  the plan and the winners of the portfolio.

### Ledger, gateway, audit

- **LedgerStore_proofs**: type correctness, `PostedWhole`, `OneTxnPerKey`, `PostedValid`,
  `AnswersTrue`, `AppendOnly`, `Spec => ImplementsLedger`, and `TrialBalanceZero`. What the
  promise permits (`Postable` of `Ledger`) is worded apart from what `post()` checks (`Valid` of `LedgerRules`), and
  `ValidIsPostable` relates them. The strengthening
  says who holds a key (at most one attempt, in flight or posted), that entries are
  committed together with their header, and that only validated transactions get that far.
  The trial balance then follows in two sums: a valid transaction's postings add up to zero,
  and the header's rows are exactly its postings.
- **Gateway_proofs**: type correctness, `AuditTellsTheTruth`,
  `AnnouncedMeansDone`, `LateCallsPowerless`, `KilledBusinessSpendsNothing`,
  `EffectsWereGoverned`, the refinement of `Ledger` (`PaymentsImplementLedger`). The strengthening says, per call,
  what its position establishes (`Established`), which effects it can have had
  (`EffectsInOrder`), that flags stand (`FlagsStand`), and where a call that was late can be
  at most (`LateStops`, `LateForStops`). `FreshReadNeverOverdraws`: `RunwayInv` keeps what a payment read
  of the balance until it inserts, and cash is a sum over the payments made.
  `EvidenceFollowsControl` and `HaltsForGood` of the kill switch inside it: `WrittenBy` ties the
  position of an activation to what it has written.
- **Audit_proofs**: type correctness, `ChainVerifies`, `ReturnedHashStands`, `GrowsAtItsEnd`, the
  composed system implements `LogSpec`, and `ReceiptsPerFailure`. For the chain, what the
  lock's holder knows: nobody else is between reading and commit (`HolderIsAlone`),
  what it read is still the tail (`TailIsFresh`), its uncommitted row fits the committed ones
  (`StagedFits`). For the receipts, `LossInv` counts what is missing below the committed
  offset against the failures, and `RepeatInv` what was written twice, the receipt in flight
  included, against sessions and rewinds.

### Growth and the life of a business

- **IdeationRunner_proofs**: type correctness, `OneRunPerBusiness`, `OneOutcome`, `HaltBoundsSpending`. The
  invariant is local to a run (`ByItself`: what its task and its thread, taken together, say about
  status, frames, result and late calls) except for `PlacesAreHeld`: whoever is in flight has
  its place in the registry and in `active`.
- **Venture_proofs**: `ActivationIsFunded`, `NothingUnbooked`, `OverrunIsOverlap`, `BooksTieOut`,
  `NoFalseAlarm`. The invariant says where every transaction of the journal comes from
  (`Origins`), that at most one call of `provision()` is past the draft of a business
  (`Founders`), and what the position of a process says about what it has booked (`Capitalised`,
  `Metered`, `Passed`). `BooksTieOut` follows transaction by transaction (`TxnTiesOut`), for the journal of any payments. `NoFalseAlarm`
  needs that costs never shrink, which makes what was read of them a lower bound
  (`WatchInv`), and that rounding down keeps the order of two ratios.
- **Growth_proofs**: `IdeationProposesGatedIdeas`, `ToldOnceAsDecided`, `SpentOutIsDecided`, `ProjectionsAgree`,
  `CapitalFollowsEvidence`, `FirstPostsReviewed`, `PlanIsProportional`, `WinnersGain`.
  - `ExperimentsInv` says that every row that ideation made, and every idea waiting in
    a session, passed the gate (the fold of `Proceed`), that an outcome is on the topic, lost, or
    in the hands of exactly one runner, and that what the reader has read is a prefix of the
    topic with the repetitions counted in between.
  - Capital, for any outcomes, budget and loss-makers. `RollupIsComplete`: one row per business heard
    of, with every outcome counted, so no capital is counted twice. `Granted` is the invariant of
    the funding loop: what is left is the headroom less an increment for each winner funded, it is
    not negative once one is, it is below an increment once a winner that earns was passed
    over, and nobody is funded after that. `CapitalAddsUp` then sums
    advice and capital over the businesses; sunsets cancel out.
  - `PerformanceIsBacked` relates the two folds of the loop over a whole history: what `rollup()`
    makes of the events exceeds `experiment_kpis()` of the table by outcomes read again and by
    nothing else.
  - Plans, by largest remainder. The remainders add up to `Spare` times the sum of the weights
    (`SpareIsFew`), so at least `Spare` pillars have a remainder; by `RanksAre`
    exactly `Spare` of them get an extra post (`FirstFew`), so shares add up to the posts asked for (`SharesAddUp`)
    and each is within one of the exact share (`SharesAreFair`). `PlanIsOfShares` counts the posts of the
    flattened plan.
  - `ReviewInv` keeps what a pipeline knew when it counted the posts: there are never fewer later.
    `WeightsInv` keeps weights positive, on which the division of the plan rests.

### Services and rules

- **Platform_proofs**: `BadNeverReturns` of `Releases`; `GatesWerePassed` and
  `SettledUnlessStale` of `ProductLine`, with the property extended from the row to every state an
  operator holds or has announced, since any of them may be saved at any time;
  `RegistryWasEvaluated` of `Serving`; `CountedPerAnnouncement`, `LossPerFailure`, `ReadyMissesOnlyRecent` of
  `Warehouse` (what is committed has landed, is in hand or is lost, at most a batch per failure, and
  silver is what the covered parts say);
  `OnlyEntitledAct` and `PagesTellTheTruth` of `Console` (what a request's position says about the
  port's answer and the service's effect).
- Rules of `Charter`: `extend()` is a consistent extension, consistency is transitive, only an
  added rule can fail a product that conformed, `promote_initiative()` refuses exactly the
  unbound, raises exactly on a malformed business id and announces only scaffolds that conform, and the
  conformance gate accepts any theme's colours under the right name.
- Rules of `Policies`: records without a fault give erasure plans that evidence every
  refusal and never both erase and keep an element; personal events stand on records;
  any two modules a playbook recommends have run together in one winner (the
  pigeonhole behind "majority", under the assumption the code does not check: no
  winner lists a module twice).

### Only model-checked

- Liveness: `EveryPostReturns`, `EveryCallConcludes`, `EveryAppendReturns`, `EveryRunEnds` (out of the
  prover's reach, as is `ENABLED`).
- The reference definitions of section 3, which compare recursive definitions over all inputs.

## 5. Seen while modelling, without a run of its own

Gateway, ledger, audit, kill switch:

- The gateway's docstring (`ab_gateway/app.py:4`) says every outcome is audited; the early
  return for an invalid token (401) records nothing.
- An activation with scope `context`, or scope `agent` without a target, halts nobody and is
  announced as activated (`ab_killswitch/CONTEXT.md:8`).
- A second write under an existing `decision_id` stores nothing and announces its own content
  (`ab_gateway/tools.py:89`).
- `LedgerEntryPosted` is "emitted once per applied transaction" (`ab_schemas/events.py:136`); a death
  or a lost delivery after the commit loses it, and a replay does not emit it.
- A payment that names no business takes any account, the cash of a business included
  (`ab_gateway/tools.py:252`): it passes neither the kill switch nor the readiness nor the runway of that
  business, carries no `business_id`, and is in none of the figures derived from the ledger.
- `promote_initiative()` with a malformed business id raises a pydantic `ValidationError` that nobody
  catches: a 500 without an audit record, which `ab_gateway/tools.py:52` says never happens.
- An agent-scoped kill whose target is a business stops its payments and experiments, not its
  decisions and notifications; `complete_for_business()` does not look at the flag.
- A receipt whose append fails is not retried: `close()` commits its offset.

Business, growth, portfolio:

- A crash after `provision()`'s draft leaves a business no retry can activate (PRD 0002 has
  re-checking readiness activate; the store has no re-check).
- Sale references (`sale_<opportunity_id>`) are not scoped by business.
- The fleet page with monitoring thresholds can list a profitable business above one that
  loses a little (`LossesOnTop`).
- A timeout of `HttpGrowthPort` and a retry create a second experiment; a "Proposal failed" page
  may follow one that was created. Creation compares budgets with cash and reserves nothing.
- A candidate's `business_id` comes from the model; the synthesizer's output is not deduplicated;
  a JSON payload that is not iterable raises `TypeError` in `propose()`.
- The gate of ideation is not the gate of creation: `POST /experiments/propose` and
  `growth.experiment.create` take any well-formed experiment that the business can afford, where
  ADR 0058:131 and `ab_console/viewmodels.py:458` have "the gate decides, not the UI".
- `conclude()` accepts a verdict of "continue"; businesses without a conclusive outcome are
  missing from the roll-up (ADR 0033:27); nothing in the repository consumes `ExperimentConcluded`
  outside the portfolio's function.
- More engagements than impressions make the statistics raise `ValueError`.
- ADR 0063 has the business's kill switch abort an ideation run; the check the console
  passes reads the global one only.

Product, serving, reliability, data, console, rules:

- A stale `save()` overwrites a halted or launched initiative; `create()` of an existing one
  returns the intake state, so advancing and saving it resets the row; `deploy_product` is
  not tied to the launched stage; titles with one slug share product and business id.
- The docstring of `_dark` says "halve", the code divides by 3 (`ab_product/charter.py:157`).
- A model is served if its profile is promoted, whatever model the process runs
  (`ab_gateway/model_gateway.py:3` against `complete()`); a failing evaluation revokes nothing; there
  is no route for `product_spec`.
- A Sev1 on a release that has no version before it raises in `rollback()`, ahead of the lines that freeze
  (`ab_ops/reliability.py:102`): releases stay open, where the docstring has a Sev1 freeze them. Nothing
  unfreezes; a second Sev1 "rolls back" to the version that runs.
- The gateway's registry is read once, at start-up: a running gateway sees no later promotion.
- `clear_dpia()` takes the initiative it is given: nothing ties it to the state whose gate it clears.
  The model gives each its own.
- `is_consistent_extension()` and the conformance gate do not look at the `stack` of a charter.
- The data service commits offsets before landing, an invalid event drops its whole batch, and a
  failed build waits for the next message.
- Kill-switch and approval pages render what was read before the call; with the stub port a decision
  can be approved and rejected; `/growth/ideate` asks for a signed person, not for a mutating role.
- `check()` of the compliance gate compares elements, not classes: a personal element
  recorded as internal is compliant and missing from erasure plans (`MisclassifiedIsForgotten`).
- "L5-restricted actions always reach a person" (`ab_org/core.py:4`), but a charter of level 5
  decides itself. A module one winner lists twice counts twice (`RecommendedIsWidelyUsed`).

## 6. Not modelled

- Tokens (`ab_identity`), providers and routes of `ab_gateway`, rendering of pages, charts, exporters,
  templates (`ab_mvp`, the scaffold's files) and deployment: I/O or library calls without
  control of their own. The routing table enters as the constant `Routed`.
- `ab_agent` is one sequential chain of gateway calls, whose interleavings are those of
  `Gateway`. `ab_memory` and `ab_sandbox` hold a dictionary and a set difference, correct by
  their shape. `ab_failsim` and `ab_examples` are scripts over the other components, whose
  failures the models explore. `abctl` and the configuration are read at start-up.
- The errors of a release window are any number at each incident; the burn warning of `ab_monitor`, a
  comparison of its arguments, is left out.
- The p-value's floating-point function: only its comparison with alpha is modelled.
- A crash in the middle of writing a bronze part, which may leave a truncated file.
- Composition of the growth loop with the gateway: `Experiments` takes the gateway's verdict
  (`Operable`, `Cash`) as constants, so nothing is claimed of the cash behind an experiment.

## 7. Plan

Done: models of ledger, gateway, kill switch, audit, ideation runner, the business life cycle,
the growth loop, content, data service, promotion, reliability, product pipeline, console and
rule sets; proofs of all their safety properties. Open, in this order:

1. `Experiments` over `Gateway`'s experiment tool instead of the constants `Operable` and `Cash`.
2. Ideation over the runner: `Ideate` of `Experiments` as the outcome of a run of `IdeationRunner`.
3. The multi-agent merge (`Ideas`): that what it returns is among what the generators or the
   synthesizer said, and no more than was asked for, as a theorem about its folds.
