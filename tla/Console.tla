------------------------------- MODULE Console -------------------------------
(***************************************************************************)
(* The operator console (ab_console): each POST passes the signed identity *)
(* (auth.py), the origin and the form, then acts through a port.  Halts    *)
(* and proposals go over HTTP with a timeout: the service may go on after  *)
(* the console gave up.  The kill-switch service is module KillSwitch; it  *)
(* can be called without the console as well.  Pages are left out but for  *)
(* what they claim.                                                        *)
(***************************************************************************)
EXTENDS FiniteSets

CONSTANTS
    Requests,         \* POST requests
    Callers,          \* who posts: [role, signed]
    MutatingRoles,    \* MUTATING_ROLES
    Forms,            \* what is posted: [op, subject, act, text, valid]
    Pending,          \* decisions the console lists
    Shops,            \* businesses that may be seeded
    NoTarget,         \* an empty id
    PortRole          \* the role HttpKillSwitchPort signs with

\* A business that can be seeded has a row to seed.
ASSUME FormsAssumption ==
    /\ \A f \in Forms : f \in [op : STRING, subject : {g.subject : g \in Forms},
                                act : STRING, text : BOOLEAN, valid : BOOLEAN]
    /\ \A f \in Forms : f.op = "seed" => f.subject \in Shops \cup {NoTarget}
    /\ \A c \in Callers : c \in [role : {d.role : d \in Callers}, signed : BOOLEAN]

VARIABLES
    request,          \* request[r] = [step, caller, cross, form, page]
    outcome,          \* outcome[r]: what the port returned to the handler
    order, step, flagged, revoked, recorded, announced,    \* KillSwitch
    created,          \* requests with a row in table experiments
    acted,            \* requests in the record of an approval port
    shop,             \* table businesses: shop[b] = [status, by]
    run               \* run[b]: the request whose ideation runs, {} if none
switchVars == <<order, step, flagged, revoked, recorded, announced>>
consoleVars == <<request, outcome, switchVars, created, acted, shop, run>>

NoForm == [op |-> "none", subject |-> NoTarget, act |-> "none", text |-> FALSE, valid |-> FALSE]
NoCaller == [role |-> "none", signed |-> FALSE]
Form(r) == request[r].form
IsOp(r, op) == Form(r).op = op

----------------------------------------------------------------------------
(* Guards.                                                                 *)

\* require_operator(): the proxy signed this id with this role.
Verified(caller) == caller.signed
CanMutate(caller) == caller.role \in MutatingRoles
MayAct(caller) == Verified(caller) /\ CanMutate(caller)

\* Mutant: the role is not asked for, as the service checks it again.
Refusal_NoRole(op, caller, cross, wellFormed) ==
    CASE ~ Verified(caller) -> "401"
      [] Verified(caller) /\ cross -> "403"
      [] Verified(caller) /\ ~ cross /\ ~ wellFormed -> "400"
      [] OTHER -> "none"

\* What a POST is refused with before anything is called: no signature, no
\* mutating role (which growth_ideate() does not ask for), another origin or
\* a form the handler rejects.
Refusal(op, caller, cross, wellFormed) ==
    LET forbidden == cross \/ (op # "ideate" /\ ~ CanMutate(caller))
    IN  CASE ~ Verified(caller) -> "401"
          [] Verified(caller) /\ forbidden -> "403"
          [] Verified(caller) /\ ~ forbidden /\ ~ wellFormed -> "400"
          [] OTHER -> "none"

\* build_proposal(), and the budget's float().
Proposable(f) == f.text /\ f.valid
\* build_blueprint_seed()
Seedable(f) == f.subject # NoTarget /\ f.valid

----------------------------------------------------------------------------
(* Requests and answers.                                                   *)

Awaited(r) == request[r].step = "open"
\* A remote service may act on a request the console has given up.
Sent(r) == request[r].step \in {"open", "dropped"}

ToPage(r, s, page) == request' = [request EXCEPT ![r].step = s, ![r].page = page]

\* A POST comes in and is refused, or goes on to its port.
Handle(r, op, wellFormed) ==
    /\ request[r].step = "idle"
    /\ \E caller \in Callers, cross \in BOOLEAN, f \in Forms :
          LET refusal == Refusal(op, caller, cross, f \in wellFormed) IN
          /\ f.op = op
          /\ request' = [request EXCEPT ![r] =
                [step |-> IF refusal = "none" THEN "open" ELSE "answered",
                 caller |-> caller, cross |-> cross, form |-> f, page |-> refusal]]
    /\ UNCHANGED <<outcome, switchVars, created, acted, shop, run>>

\* text is the reason, valid the typed phrase; scope and target pass as they are.
KillswitchActivate(r) == Handle(r, "halt", {f \in Forms : f.text /\ f.valid})

\* text is the note.
DecisionsAct(r) ==
    Handle(r, "decide", {f \in Forms : /\ f.subject \in Pending
                                       /\ f.act \in {"approve", "reject"}
                                       /\ f.act = "reject" => f.text})

ExperimentsPropose(r) == Handle(r, "propose", {f \in Forms : Proposable(f)})
BusinessesSeed(r) == Handle(r, "seed", {f \in Forms : Seedable(f)})
ProductApprove(r) == Handle(r, "approve", Forms)
GrowthIdeate(r) == Handle(r, "ideate", Forms)

\* POST /activate of the kill-switch service, from the mesh.
PostToService(r) ==
    /\ request[r].step = "idle"
    /\ \E caller \in Callers, f \in Forms :
          /\ f.op = "halt"
          /\ request' = [request EXCEPT ![r] =
                [step |-> "open", caller |-> caller, cross |-> FALSE,
                 form |-> [f EXCEPT !.op = "direct"], page |-> "none"]]
    /\ UNCHANGED <<outcome, switchVars, created, acted, shop, run>>

\* Mutant: an answer of the kill-switch service is a success.
Returned_AnyStatus(r) ==
    IF Form(r).op \notin {"halt", "direct"} THEN outcome[r]
    ELSE IF step[r] \in {"done", "refused", "failed"} THEN "activated" ELSE "none"

\* What the port returns; the kill-switch service's 200 comes after publish.
Returned(r) ==
    IF Form(r).op \notin {"halt", "direct"} THEN outcome[r]
    ELSE CASE step[r] = "done" -> "activated"
           [] step[r] = "refused" -> IF IsOp(r, "direct") THEN "403" ELSE "502"
           [] step[r] = "failed" -> "502"
           [] OTHER -> "none"

Answer(r) ==
    /\ Awaited(r) /\ Returned(r) # "none"
    /\ ToPage(r, "answered", Returned(r))
    /\ UNCHANGED <<outcome, switchVars, created, acted, shop, run>>

\* The timeout of a port, an exception or the end of the console.
Drop(r) ==
    /\ Awaited(r)
    /\ ToPage(r, "dropped", "500")
    /\ UNCHANGED <<outcome, switchVars, created, acted, shop, run>>

----------------------------------------------------------------------------
(* The kill switch.                                                        *)

\* The order the service receives: the console's port signs for the person.
Forwarded(r) ==
    [scope |-> Form(r).act, target |-> Form(r).subject,
     authorized |-> IF IsOp(r, "direct") THEN MayAct(request[r].caller)
                    ELSE PortRole \in MutatingRoles]

KS == INSTANCE KillSwitch WITH
    Revocable <- {}, Targets <- {f.subject : f \in Forms}, Activations <- Requests,
    Orders <- [scope : {f.act : f \in Forms}, target : {f.subject : f \in Forms},
               authorized : BOOLEAN]

Activate(r) ==
    /\ Form(r).op \in {"halt", "direct"} /\ Sent(r)
    /\ \/ KS!Receive(r) /\ order'[r] = Forwarded(r)
       \/ KS!SetFlag(r) \/ KS!Revoke(r) \/ KS!Record(r) \/ KS!Publish(r) \/ KS!Die(r)
    /\ UNCHANGED <<request, outcome, created, acted, shop, run>>

----------------------------------------------------------------------------
(* The other ports.                                                        *)

Return(r, result) == outcome' = [outcome EXCEPT ![r] = result]

\* growth.experiment.create: denied, done, or done without an answer.
CreateExperiment(r) ==
    /\ IsOp(r, "propose") /\ Sent(r) /\ outcome[r] = "none"
    /\ \/ Return(r, "502") /\ UNCHANGED created
       \/ /\ created' = created \cup {r}
          /\ \E result \in {"created", "502"} : Return(r, result)
    /\ UNCHANGED <<request, switchVars, acted, shop, run>>

\* The stub of the two approval ports records what it is told.
RecordApproval(r) ==
    /\ Form(r).op \in {"decide", "approve"} /\ Awaited(r) /\ outcome[r] = "none"
    /\ acted' = acted \cup {r}
    /\ Return(r, "acted")
    /\ UNCHANGED <<request, switchVars, created, shop, run>>

\* provision(): the draft is committed before the funds and the readiness.
Provision(r) ==
    LET b == Form(r).subject IN
    /\ IsOp(r, "seed") /\ Awaited(r) /\ outcome[r] = "none"
    /\ \/ /\ Form(r).act = "underfunded" /\ Return(r, "400")
          /\ UNCHANGED shop
       \/ /\ Form(r).act # "underfunded" /\ shop[b].by \notin {{}, {r}}
          /\ Return(r, "409")
          /\ UNCHANGED shop
       \/ /\ Form(r).act # "underfunded" /\ shop[b].by = {}
          /\ shop' = [shop EXCEPT ![b] = [status |-> "draft", by |-> {r}]]
          /\ UNCHANGED outcome
       \/ /\ shop[b].by = {r}
          /\ \/ Return(r, "draft") /\ UNCHANGED shop
             \/ Return(r, "active") /\ shop' = [shop EXCEPT ![b].status = "active"]
    /\ UNCHANGED <<request, switchVars, created, acted, run>>

\* runner.start(): a run of the business in flight is joined.
Ideate(r) ==
    LET b == Form(r).subject IN
    /\ IsOp(r, "ideate") /\ Awaited(r) /\ outcome[r] = "none"
    /\ run' = [run EXCEPT ![b] = IF @ = {} THEN {r} ELSE @]
    /\ Return(r, "streaming")
    /\ UNCHANGED <<request, switchVars, created, acted, shop>>

EndRun(b) ==
    /\ run[b] # {}
    /\ run' = [run EXCEPT ![b] = {}]
    /\ UNCHANGED <<request, outcome, switchVars, created, acted, shop>>

----------------------------------------------------------------------------
ConsoleInit ==
    /\ request = [r \in Requests |-> [step |-> "idle", caller |-> NoCaller, cross |-> FALSE,
                                      form |-> NoForm, page |-> "none"]]
    /\ outcome = [r \in Requests |-> "none"]
    /\ KS!Init
    /\ created = {} /\ acted = {}
    /\ shop = [b \in Shops |-> [status |-> "absent", by |-> {}]]
    /\ run = [b \in Shops |-> {}]

ConsoleNext ==
    \/ \E r \in Requests :
          \/ KillswitchActivate(r) \/ DecisionsAct(r) \/ ExperimentsPropose(r)
          \/ BusinessesSeed(r) \/ ProductApprove(r) \/ GrowthIdeate(r)
          \/ PostToService(r) \/ Answer(r) \/ Drop(r) \/ Activate(r)
          \/ CreateExperiment(r) \/ RecordApproval(r) \/ Provision(r) \/ Ideate(r)
    \/ \E b \in Shops : EndRun(b)

ConsoleSpec == ConsoleInit /\ [][ConsoleNext]_consoleVars

----------------------------------------------------------------------------
(* Properties.                                                             *)

Effect(r) ==
    r \in flagged \cup created \cup acted \cup UNION {shop[b].by : b \in Shops}

\* What the pages say a person has to give: an audited reason and the phrase,
\* an audited note on a rejection, a hypothesis with sound figures, an id.
Deliberate(f) ==
    CASE f.op = "halt" -> f.text /\ f.valid
      [] f.op = "decide" -> f.act = "approve" \/ (f.act = "reject" /\ f.text)
      [] f.op = "propose" -> f.text /\ f.valid
      [] f.op = "seed" -> f.subject # NoTarget /\ f.act # "underfunded"
      [] OTHER -> TRUE

\* Whatever is halted, created, approved or founded was asked for by a signed
\* person with a mutating role, from the console's own page with its form
\* filled in or straight from the service: the service cannot tell, since the
\* console's port vouches for everybody with one role (auth.py, app.py,
\* killswitch_port.py).  Ideation runs need a signed person only.
OnlyEntitledAct ==
    /\ \A r \in Requests : Effect(r) =>
          /\ MayAct(request[r].caller)
          /\ ~ request[r].cross
          /\ Deliberate(Form(r))
    /\ \A b \in Shops : \A r \in run[b] : Verified(request[r].caller)

\* What a page claims is so, however late a service that timed out acts:
\* "activated" is in force and in the audit log, "created", "acted" and the
\* status of a seeded business are in their stores, "already exists" is
\* somebody else's row, and a 4xx page's request never has an effect.
PagesTellTheTruth ==
    \A r \in Requests :
        LET page == request[r].page
            b == Form(r).subject
        IN  /\ page = "activated" =>
                  /\ r \in flagged \cap recorded
                  /\ KS!ToRevoke(order[r]) \subseteq revoked
            /\ page = "created" => r \in created
            /\ page = "acted" => r \in acted
            /\ page \in {"draft", "active"} => shop[b] = [status |-> page, by |-> {r}]
            /\ page = "409" => shop[b].by \notin {{}, {r}}
            /\ page \in {"400", "401", "403"} => ~ Effect(r)
===============================================================================
