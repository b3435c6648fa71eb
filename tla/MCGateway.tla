------------------------------ MODULE MCGateway ------------------------------
(***************************************************************************)
(* Small instances of Gateway: an active, a draft and a missing business,  *)
(* an agent that serves them all, one that serves the active one only, and *)
(* the requests that meet each test of the handlers on both sides.         *)
(***************************************************************************)
EXTENDS Gateway, TLC

CONSTANTS cmo, growth, acme, draft, ghost, c1, c2, c3, platform

MCPrincipals == {cmo, growth}
MCBusinesses == {acme, draft, ghost}
MCTargets == MCPrincipals \cup MCBusinesses
MCApprovedPayees == {"vendor"}
MCCeiling == [p \in MCPrincipals |-> 1]
MCServes == [p \in MCPrincipals |-> IF p = cmo THEN MCBusinesses ELSE {acme}]
MCMayUse ==
    [p \in MCPrincipals |->
        IF p = cmo THEN {Write, Notify, Pay, Promote} ELSE {Experiment, Write}]
MCStatus == (acme :> "active") @@ (draft :> "draft") @@ (ghost :> "absent")
MCBudget == [b \in MCBusinesses |-> 1]
MCCapital == [b \in MCBusinesses |-> IF b = acme THEN 3 ELSE 0]

Plain == [kind |-> "plain", owner |-> platform]     \* the default from_account

Base ==
    [principal |-> cmo, tool |-> Pay, id |-> "k1", business |-> acme,
     trusted |-> TRUE, rank |-> 1, wellformed |-> TRUE, level |-> 1,
     amount |-> 2, payee |-> "vendor", checker |-> NoOne, source |-> Plain]

\* Races: two keys, replays with another content, an amount over the cap that
\* is checked by somebody else or by the payer, an experiment, decisions, a
\* notification and a promotion, and bad ones.
MoneyRequests ==
    {Base,
     [Base EXCEPT !.id = "k2"],
     [Base EXCEPT !.business = NoOne, !.amount = 3, !.checker = growth],
     [Base EXCEPT !.id = "k2", !.amount = 3, !.checker = cmo],
     [Base EXCEPT !.principal = growth, !.tool = Experiment],
     [Base EXCEPT !.principal = NoOne],
     [Base EXCEPT !.wellformed = FALSE],
     [Base EXCEPT !.principal = growth, !.tool = Write, !.id = "d2"],
     [Base EXCEPT !.tool = Write],
     [Base EXCEPT !.tool = Write, !.level = 0, !.business = NoOne],
     [Base EXCEPT !.tool = Notify, !.business = NoOne],
     [Base EXCEPT !.tool = Promote]}

\* Calls: those that each admission test refuses, and decisions, notifications
\* and product promotions that are admitted, replays with other content too.
CallRequests ==
    {Base,
     [Base EXCEPT !.principal = NoOne],
     [Base EXCEPT !.tool = "shell.exec"],
     [Base EXCEPT !.trusted = FALSE],
     [Base EXCEPT !.wellformed = FALSE],
     [Base EXCEPT !.business = draft],
     [Base EXCEPT !.business = ghost],
     [Base EXCEPT !.payee = "stranger", !.business = NoOne],
     [Base EXCEPT !.principal = growth, !.tool = Experiment, !.business = draft],
     [Base EXCEPT !.principal = growth, !.tool = Write, !.business = draft],
     [Base EXCEPT !.principal = growth, !.tool = Write, !.id = "d2"],
     [Base EXCEPT !.tool = Write],
     [Base EXCEPT !.tool = Write, !.level = 0, !.business = NoOne],
     [Base EXCEPT !.tool = Write, !.level = 2],
     [Base EXCEPT !.tool = Write, !.wellformed = FALSE],
     [Base EXCEPT !.tool = Notify, !.business = NoOne],
     [Base EXCEPT !.tool = Notify, !.rank = 2],
     [Base EXCEPT !.tool = Promote]}

Order(scope, target) ==
    [scope |-> scope, target |-> target, authorized |-> TRUE]
MCOrders ==
    {Order("agent", cmo), Order("agent", acme), Order("global", NoTarget),
     Order("everything", NoTarget),
     [Order("global", NoTarget) EXCEPT !.authorized = FALSE]}

\* Receiving the same requests in the other order is the same to every call.
Symmetry == Permutations(Calls)
==============================================================================
