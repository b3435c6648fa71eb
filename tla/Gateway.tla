------------------------------- MODULE Gateway -------------------------------
(***************************************************************************)
(* The gateway's POST /tool-call (src/ab_gateway/app.py and tools.py),     *)
(* composed with the kill switch and the revocation list it reads and with *)
(* the ledger it posts to.  Calls are handled concurrently by a thread     *)
(* pool; every database statement, audit append and publication is a step  *)
(* of its own, in a connection of its own, and a call may die (an          *)
(* exception nobody catches, or the process) before any of them.           *)
(*                                                                         *)
(* A table row, an audit record or an event is named by the call that      *)
(* wrote it: its columns are functions of that call's request.             *)
(***************************************************************************)
EXTENDS LedgerRules

CONSTANTS
    Calls,            \* the tool calls made
    Principals, Businesses,
    Requests,         \* what agents send
    NoRequest,
    Ceiling,          \* authz: authority ceiling of each principal
    Serves,           \* authz: businesses each principal acts for
    MayUse,           \* policy.rego: tools allowed to each principal
    Status,           \* businesses.status, "absent" if there is no row
    Budget,           \* blueprint.experiment_budget_minor
    Capital,          \* cash booked to each business when it was provisioned
    ComplianceClear,  \* the RoPA check returns no violation
    Cap,              \* PAYMENT_CAP_MINOR
    Targets, NoTarget, Activations, Orders, Revocable   \* of the kill switch

VARIABLES
    req,              \* req[c]: the request of call c
    pc,               \* pc[c]: the step the handler of c executes next
    seen,             \* seen[c]: cash balance read by the handler of c
    rows,             \* calls whose INSERT landed a row in their tool's table
    events,           \* calls whose domain event is on the bus
    audit,            \* audit log records of tool calls: [call, outcome]
    late,             \* history: calls received from a halted principal
    lateFor,          \* history: calls received for a halted business
    order, step, flagged, revoked, recorded, announced
Control == INSTANCE KillSwitch
callVars == <<req, pc, seen, rows, events, audit, late, lateFor>>
haltVars == <<order, step, flagged, revoked, recorded, announced>>
vars == <<callVars, haltVars>>
------------------------------------------------------------------------------
Write == "decision_registry.write"
Notify == "notify.external"
Pay == "payments.transfer"
Experiment == "growth.experiment.create"
Promote == "product.initiative.promote"
Registry == {Write, Notify, Pay, Experiment, Promote}

Outcomes == {"ok", "denied", "unauthenticated", "failed"}
Steps == {"idle", "revocation", "killswitch", "authorize", "dispatch", "runway",
          "spend", "insert", "publish", "audit", "emit", "deny"} \cup Outcomes
InHandler == Steps \ (Outcomes \cup {"idle"})

Received(c) == req[c] # NoRequest
Tool(c) == req[c].tool
Business(c) == req[c].business
Scoped(c) == Business(c) # NoOne

\* authz.serves_business(), for a call that names no business as well.
ServesIts(r) == r.business = NoOne \/ r.business \in Serves[r.principal]

\* opa.authorize() with config/opa/policy.rego: the capability, and for three
\* of the tools the tenant.
PolicyAllows(r) ==
    /\ r.tool \in MayUse[r.principal]
    /\ r.tool \in {Pay, Experiment, Promote} => ServesIts(r)

\* blocked_by_input_trust(): every registered tool is sensitive.
BlockedByTrust(r) == ~ r.trusted

\* exfiltration_blocked(): only notify.external is an egress tool, and its
\* clearance is INTERNAL, rank 1.
Exfiltrates(r) == r.tool = Notify /\ r.rank > 1

\* Steps 4 to 5b of tool_call: every test between the kill-switch check and
\* the dispatch, all of them functions of the request.
Admitted(r) ==
    /\ PolicyAllows(r)
    /\ ServesIts(r)
    /\ r.tool \in Registry
    /\ ~ BlockedByTrust(r)
    /\ ~ Exfiltrates(r)

\* transfer_payment's Transaction: a business-scoped payment spends the
\* business's own cash, any other the account the request names.
Txn(r) ==
    [key |-> r.id,
     postings |->
        <<[account |-> External(r.payee), amount |-> r.amount],
          [account |-> IF r.business = NoOne THEN r.source ELSE Cash(r.business),
           amount |-> -r.amount]>>,
     maker |-> r.principal, checker |-> r.checker,
     payee |-> r.payee, business |-> r.business]

ASSUME NoRequestAssumption == NoRequest \notin Requests \cup {Txn(r) : r \in Requests}

\* Money is in whole minor units, and a request that names a business names one
\* of the businesses there may be.
ASSUME MoneyAssumption ==
    /\ Capital \in [Businesses -> Int]
    /\ \A r \in Requests : r.amount \in Int /\ r.business \in Businesses \cup {NoOne}

Table(tool) == {c \in rows : Tool(c) = tool}
Journal == Table(Pay)

\* account_balance("<b>:cash"): the capital and the posted payments.
CashMoved(c, b) ==
    SumAt(Txn(req[c]).postings,
          {i \in 1..2 : Txn(req[c]).postings[i].account = Cash(b)})
CashOf(b) == Capital[b] + MapThenSumSet(LAMBDA c : CashMoved(c, b), Journal)

\* Rows that a new row of call c would conflict with: decisions, outbox and
\* ledger_txns have a unique request-given id; an experiment's id is fresh.
Conflicting(c) ==
    {d \in Table(Tool(c)) : Tool(c) # Experiment /\ req[d].id = req[c].id}

\* Mutant: readiness does not look at the kill switch.
Ready_BlindToKills(b, cash) ==
    /\ cash >= Budget[b]
    /\ ComplianceClear

\* Mutant: the amount is not compared with the runway.
CanSpend_AnyAmount(b, amount, cash) ==
    /\ Status[b] = "active"
    /\ amount > 0

\* factory_core.readiness() and can_spend().
Ready(b, cash) ==
    /\ cash >= Budget[b]
    /\ ~ Control!IsKilled(b)
    /\ ComplianceClear
CanSpend(b, amount, cash) ==
    /\ Status[b] = "active"
    /\ amount > 0
    /\ amount <= cash
------------------------------------------------------------------------------
Init ==
    /\ req = [c \in Calls |-> NoRequest]
    /\ pc = [c \in Calls |-> "idle"]
    /\ seen = [c \in Calls |-> 0]
    /\ rows = {}
    /\ events = {}
    /\ audit = {}
    /\ late = {}
    /\ lateFor = {}
    /\ Control!Init

Goto(c, s) == pc' = [pc EXCEPT ![c] = s]
At(c, s) == pc[c] = s
Moves(c, from, to) == At(c, from) /\ Goto(c, to)
Log(c, outcome) == audit' = audit \cup {[call |-> c, outcome |-> outcome]}

Halted(p) == Control!IsKilled(p) \/ Control!IsRevoked(p)

\* Authentication: an invalid token is answered 401 and nothing else happens.
Receive(c) ==
    /\ At(c, "idle")
    /\ \E r \in Requests :
          /\ req' = [req EXCEPT ![c] = r]
          /\ late' = IF r.principal # NoOne /\ Halted(r.principal)
                     THEN late \cup {c} ELSE late
          /\ lateFor' = IF r.business # NoOne /\ Control!IsKilled(r.business)
                        THEN lateFor \cup {c} ELSE lateFor
          /\ \/ r.principal = NoOne /\ Goto(c, "unauthenticated")
             \/ r.principal # NoOne /\ Goto(c, "revocation")
    /\ UNCHANGED <<seen, rows, events, audit>>

CheckRevocation(c) ==
    /\ At(c, "revocation")
    /\ \/ ~ Control!IsRevoked(req[c].principal) /\ Goto(c, "killswitch")
       \/ Control!IsRevoked(req[c].principal) /\ Goto(c, "deny")
    /\ UNCHANGED <<req, seen, rows, events, audit, late, lateFor>>

\* Mutant: a flag that cannot be read counts as none.
CheckKillSwitch_FailsOpen(c) ==
    /\ At(c, "killswitch")
    /\ \/ Goto(c, "authorize")
       \/ Control!IsKilled(req[c].principal) /\ Goto(c, "deny")
    /\ UNCHANGED <<req, seen, rows, events, audit, late, lateFor>>

\* Fail closed: a flag that cannot be read counts as a kill.
CheckKillSwitch(c) ==
    /\ At(c, "killswitch")
    /\ \/ ~ Control!IsKilled(req[c].principal) /\ Goto(c, "authorize")
       \/ Goto(c, "deny")
    /\ UNCHANGED <<req, seen, rows, events, audit, late, lateFor>>

\* Mutant: the trust of the input is not looked at.
Authorize_AnyInput(c) ==
    /\ At(c, "authorize")
    /\ \/ /\ PolicyAllows(req[c]) /\ ServesIts(req[c])
          /\ req[c].tool \in Registry /\ ~ Exfiltrates(req[c])
          /\ Goto(c, "dispatch")
       \/ Goto(c, "deny")
    /\ UNCHANGED <<req, seen, rows, events, audit, late, lateFor>>

\* The policy engine may be unreachable: that is a denial too.
Authorize(c) ==
    /\ At(c, "authorize")
    /\ \/ Admitted(req[c]) /\ Goto(c, "dispatch")
       \/ Goto(c, "deny")
    /\ UNCHANGED <<req, seen, rows, events, audit, late, lateFor>>

\* The argument models: an experiment names its business, amounts are positive;
\* the field wellformed stands for their other constraints.
WellFormed(r) ==
    /\ r.wellformed
    /\ r.tool = Experiment => r.business # NoOne
    /\ r.tool \in {Pay, Experiment} => r.amount > 0

\* The handler up to its first read or write of a store.  Arguments that do
\* not validate are refused by three of the handlers and raise in the others.
Raises(r) == ~ WellFormed(r) /\ r.tool \in {Write, Notify}
Refuses(r) ==
    \/ ~ WellFormed(r) /\ r.tool \notin {Write, Notify}
    \/ WellFormed(r) /\ ~ ServesIts(r)
    \/ WellFormed(r) /\ r.tool = Write /\ r.level > Ceiling[r.principal]
NeedsRunway(r) == r.tool = Experiment \/ (r.tool = Pay /\ r.business # NoOne)
FirstStep(r) ==
    IF NeedsRunway(r) THEN "runway"
    ELSE IF r.tool = Promote THEN "publish" ELSE "insert"

\* Mutant: the "allow" is recorded before the side effect.
Dispatch_AuditsFirst(c) ==
    /\ At(c, "dispatch")
    /\ \/ Raises(req[c]) /\ Goto(c, "failed") /\ UNCHANGED audit
       \/ Refuses(req[c]) /\ Goto(c, "deny") /\ UNCHANGED audit
       \/ /\ ~ Raises(req[c]) /\ ~ Refuses(req[c])
          /\ Goto(c, FirstStep(req[c]))
          /\ Log(c, "allow")
    /\ UNCHANGED <<req, seen, rows, events, late, lateFor>>

Dispatch(c) ==
    /\ At(c, "dispatch")
    /\ \/ Raises(req[c]) /\ Goto(c, "failed")
       \/ Refuses(req[c]) /\ Goto(c, "deny")
       \/ ~ Raises(req[c]) /\ ~ Refuses(req[c]) /\ Goto(c, FirstStep(req[c]))
    /\ UNCHANGED <<req, seen, rows, events, audit, late, lateFor>>

\* _require_ready_business(): the business's row, then its cash balance.
ReadRunway(c) ==
    /\ At(c, "runway")
    /\ \/ /\ Status[Business(c)] # "absent"
          /\ seen' = [seen EXCEPT ![c] = CashOf(Business(c))]
          /\ Goto(c, "spend")
       \/ /\ Status[Business(c)] = "absent"
          /\ Goto(c, "deny")
          /\ UNCHANGED seen
    /\ UNCHANGED <<req, rows, events, audit, late, lateFor>>

\* The live readiness check and can_spend(), on the balance read before.
MaySpend(c) ==
    /\ Ready(Business(c), seen[c])
    /\ CanSpend(Business(c), req[c].amount, seen[c])

\* Mutant: a call over the runway is left unanswered.
GateSpend_Silent(c) ==
    /\ At(c, "spend")
    /\ MaySpend(c) /\ Goto(c, "insert")
    /\ UNCHANGED <<req, seen, rows, events, audit, late, lateFor>>

GateSpend(c) ==
    /\ At(c, "spend")
    /\ \/ MaySpend(c) /\ Goto(c, "insert")
       \/ ~ MaySpend(c) /\ Goto(c, "deny")
    /\ UNCHANGED <<req, seen, rows, events, audit, late, lateFor>>

\* ledger_store.post() validates first; then every tool inserts ON CONFLICT
\* DO NOTHING.  Only the two tools that publish from their handler look at
\* whether a row landed.
BreaksLedgerRule(c) == Tool(c) = Pay /\ ~ Valid(Txn(req[c]), Cap)

\* Mutant: a table without a unique id.
Insert_NoUniqueId(c) ==
    /\ At(c, "insert")
    /\ ~ BreaksLedgerRule(c)
    /\ rows' = rows \cup {c}
    /\ Goto(c, IF Tool(c) \in {Pay, Experiment} THEN "publish" ELSE "audit")
    /\ UNCHANGED <<req, seen, events, audit, late, lateFor>>

Insert(c) ==
    /\ At(c, "insert")
    /\ ~ BreaksLedgerRule(c)
    /\ Conflicting(c) = {}
    /\ rows' = rows \cup {c}
    /\ Goto(c, IF Tool(c) \in {Pay, Experiment} THEN "publish" ELSE "audit")
    /\ UNCHANGED <<req, seen, events, audit, late, lateFor>>

InsertNothing(c) ==
    /\ At(c, "insert")
    /\ \/ BreaksLedgerRule(c) /\ Goto(c, "deny")
       \/ /\ ~ BreaksLedgerRule(c)
          /\ Conflicting(c) # {}
          /\ Goto(c, "audit")
    /\ UNCHANGED <<req, seen, rows, events, audit, late, lateFor>>

\* produce() and flush(): a message that is not delivered raises nothing.
Deliver(c) == events' \in {events, events \cup {c}}

\* LedgerEntryPosted, ExperimentCreated or ProductScaffolded, by the handler.
Publish(c) ==
    /\ Moves(c, "publish", "audit")
    /\ Deliver(c)
    /\ UNCHANGED <<req, seen, rows, audit, late, lateFor>>

AuditAllow(c) ==
    /\ Moves(c, "audit", IF Tool(c) = Write THEN "emit" ELSE "ok")
    /\ Log(c, "allow")
    /\ UNCHANGED <<req, seen, rows, events, late, lateFor>>

\* AgentDecisionMade, built from the request.
EmitDecision(c) ==
    /\ Moves(c, "emit", "ok")
    /\ Deliver(c)
    /\ UNCHANGED <<req, seen, rows, audit, late, lateFor>>

Deny(c) ==
    /\ Moves(c, "deny", "denied")
    /\ Log(c, "deny")
    /\ UNCHANGED <<req, seen, rows, events, late, lateFor>>

\* An uncaught exception (500) or a crash: what is written stays written.
Fail(c) ==
    /\ pc[c] \in InHandler
    /\ Goto(c, "failed")
    /\ UNCHANGED <<req, seen, rows, events, audit, late, lateFor>>

Handle(c) ==
    \/ CheckRevocation(c) \/ CheckKillSwitch(c) \/ Authorize(c) \/ Dispatch(c)
    \/ ReadRunway(c) \/ GateSpend(c) \/ Insert(c) \/ InsertNothing(c)
    \/ Publish(c) \/ AuditAllow(c) \/ EmitDecision(c) \/ Deny(c)

Next ==
    \/ /\ \E c \in Calls : Receive(c) \/ Handle(c) \/ Fail(c)
       /\ UNCHANGED haltVars
    \/ /\ Control!Next
       /\ UNCHANGED callVars

Spec == Init /\ [][Next]_vars

\* A handler that is not killed runs on.
FairSpec ==
    Spec /\ \A c \in Calls : WF_vars(Handle(c) /\ UNCHANGED haltVars)
------------------------------------------------------------------------------
TypeOK ==
    /\ req \in [Calls -> Requests \cup {NoRequest}]
    /\ pc \in [Calls -> Steps]
    /\ DOMAIN seen = Calls
    /\ rows \subseteq Calls
    /\ events \subseteq Calls
    /\ audit \subseteq [call : Calls, outcome : {"allow", "deny"}]
    /\ late \subseteq Calls
    /\ lateFor \subseteq Calls
    /\ \A c \in Calls : Received(c) <=> pc[c] # "idle"

Logged(c, outcome) == [call |-> c, outcome |-> outcome] \in audit

\* The audit log can be believed, at any moment: an "allow" is about something
\* that is in the tool's table (tool_call audits after the side effect), a
\* "deny" is about a call that changed nothing and announced nothing, no call
\* has both, and nobody is answered before their record is written.
AuditTellsTheTruth ==
    \A c \in Calls :
        /\ Logged(c, "allow") =>
              c \in rows \/ Conflicting(c) # {} \/ Tool(c) = Promote
        /\ Logged(c, "deny") => c \notin rows \cup events /\ ~ Logged(c, "allow")
        /\ pc[c] = "ok" => Logged(c, "allow")
        /\ pc[c] = "denied" => Logged(c, "deny")

\* An event on the bus is about something stored: a payment or an experiment
\* of that very call, never of a replay; a decision that is in the registry
\* and whose "allow" is in the log.  Egress announces nothing.
AnnouncedMeansDone ==
    \A c \in events :
        /\ Tool(c) \in {Pay, Experiment} => c \in rows
        /\ Tool(c) = Write => Logged(c, "allow")
        /\ Tool(c) # Notify

\* A call received when its principal was already halted, by the kill switch
\* or by revocation, leaves no row, no event and no "allow": the next call is
\* denied, although the two lists are read one after the other, and written
\* one after the other by an activation that may have died in between.
LateCallsPowerless ==
    \A c \in late : c \notin rows \cup events /\ ~ Logged(c, "allow")

\* A call that names a business whose own kill switch was on when it came in
\* pays nothing and starts no experiment (_require_ready_business reads the
\* flag live, after the admission of the call).  A payment that names an
\* account and no business is not asked, whosever the account is.
KilledBusinessSpendsNothing ==
    \A c \in lateFor : NeedsRunway(req[c]) => c \notin rows \cup events

\* The kill switch, flagging and revoking while calls run, never has evidence
\* running ahead of the control: module KillSwitch says what that means.
EvidenceFollowsControl == Control!EvidenceFollowsControl

\* Every row and every event is the effect of a call that was admitted by the
\* policy, the tenant binding and the trust and egress guards, with valid
\* arguments and an authority level under the ceiling; and every posted
\* payment obeys the ledger's rules.
EffectsWereGoverned ==
    \A c \in rows \cup events :
        /\ Admitted(req[c])
        /\ WellFormed(req[c])
        /\ Tool(c) = Write => ~ (req[c].level > Ceiling[req[c].principal])
        /\ Tool(c) = Pay /\ c \in rows => Valid(Txn(req[c]), Cap)

\* can_spend() protects the runway whenever its balance is still current: a
\* business payment posted on an unchanged balance leaves cash non-negative.
FreshReadNeverOverdraws ==
    [][\A c \in rows' \ rows :
          Tool(c) = Pay /\ Scoped(c) /\ seen[c] = CashOf(Business(c))
              => CashOf(Business(c))' >= 0]_vars

\* Every call that reaches the handler is answered or dies: no admission test,
\* gate or conflicting insert leaves a handler with nothing to do.
EveryCallConcludes ==
    \A c \in Calls : pc[c] = "revocation" ~> pc[c] \in Outcomes

\* The payments made through the gateway keep the promise of module Ledger:
\* posted whole and once, "ok" only when the key is posted, never denied and
\* posted, however the kill switch and the other calls interleave.
IsPayment(c) ==
    Received(c) /\ Tool(c) = Pay /\ WellFormed(req[c]) /\ req[c].principal # NoOne
PaymentOf(c) == IF IsPayment(c) THEN Txn(req[c]) ELSE NoRequest
ToldAbout(c) ==
    IF ~ IsPayment(c) THEN "none"
    ELSE CASE pc[c] = "ok" /\ c \in rows -> "applied"
           [] pc[c] = "ok" /\ c \notin rows -> "replayed"
           [] pc[c] = "denied" -> "refused"
           [] pc[c] = "failed" -> "lost"
           [] OTHER -> "none"
Permitted(txn) == Valid(txn, Cap)
Promise == INSTANCE Ledger WITH
    Attempts <- Calls, Txns <- {Txn(r) : r \in Requests}, NoTxn <- NoRequest,
    request <- [c \in Calls |-> PaymentOf(c)], journal <- Journal,
    answer <- [c \in Calls |-> ToldAbout(c)]
PaymentsImplementLedger == Promise!Spec
------------------------------------------------------------------------------
\* What the documents claim and the code does not do (see README.md).

\* core.py: "A business may spend only if it ... has the runway."
NoOverdraft == \A b \in Businesses : CashOf(b) >= 0
==============================================================================
