------------------------------ MODULE MCPlatform ------------------------------
(***************************************************************************)
(* Five components that share no state, checked in one run: the part that  *)
(* moves is picked at the start.  The rule sets of MCPolicies are checked  *)
(* against their reference definitions before.                             *)
(***************************************************************************)
EXTENDS Warehouse, Serving, Releases, ProductLine, Console, MCPolicies, TLC

CONSTANTS twin, acme, d1
VARIABLE part
vars == <<part, warehouseVars, servingVars, releaseVars, productVars, consoleVars>>

Case(dim, critical) == [dim |-> dim, critical |-> critical]
MCSuites ==
    ("ideation" :> [cases |-> ("experiment" :> Case("capability", FALSE) @@
                               "nonempty" :> Case("capability", FALSE) @@
                               "canary" :> Case("safety", TRUE)),
                    min |-> <<3, 4>>, thresholds |-> <<>>, art22 |-> FALSE]) @@
    ("decision" :> [cases |-> ("cite" :> Case("grounding", FALSE) @@
                               "abstain" :> Case("grounding", TRUE) @@
                               "fair" :> Case("bias", TRUE)),
                    min |-> <<3, 4>>,
                    thresholds |-> ("grounding" :> <<1, 1>> @@ "bias" :> <<1, 1>>),
                    art22 |-> TRUE])
MCCallers == [role : {"viewer", "operator"}, signed : {TRUE}]
                \cup {[role |-> "operator", signed |-> FALSE]}
Posted(op, subject, act, text, valid) ==
    [op |-> op, subject |-> subject, act |-> act, text |-> text, valid |-> valid]
MCForms ==
    {Posted("halt", NoTarget, "global", text, valid) : text, valid \in BOOLEAN}
      \cup {Posted("halt", d1, "agent", TRUE, TRUE)}
      \cup {Posted("decide", d1, act, text, FALSE) : act \in {"approve", "reject"}, text \in BOOLEAN}
      \cup {Posted("decide", acme, "approve", TRUE, FALSE)}
      \cup {Posted("propose", acme, "none", TRUE, valid) : valid \in BOOLEAN}
      \cup {Posted("seed", acme, act, TRUE, TRUE) : act \in {"funded", "underfunded"}}
      \cup {Posted("seed", NoTarget, "funded", TRUE, TRUE), Posted("approve", twin, "launch", FALSE, FALSE),
             Posted("ideate", acme, "none", FALSE, FALSE)}

Init ==
    /\ part \in {"warehouse", "serving", "releases", "product", "console"}
    /\ WarehouseInit /\ ServingInit /\ ReleasesInit /\ ProductInit /\ ConsoleInit

Next ==
    /\ UNCHANGED part
    /\ \/ /\ part = "warehouse" /\ WarehouseNext
          /\ UNCHANGED <<servingVars, releaseVars, productVars, consoleVars>>
       \/ /\ part = "serving" /\ ServingNext
          /\ UNCHANGED <<warehouseVars, releaseVars, productVars, consoleVars>>
       \/ /\ part = "releases" /\ ReleasesNext
          /\ UNCHANGED <<warehouseVars, servingVars, productVars, consoleVars>>
       \/ /\ part = "product" /\ ProductNext
          /\ UNCHANGED <<warehouseVars, servingVars, releaseVars, consoleVars>>
       \/ /\ part = "console" /\ ConsoleNext
          /\ UNCHANGED <<warehouseVars, servingVars, releaseVars, productVars>>

Spec == Init /\ [][Next]_vars

\* Either operator, and either request, may play either part.
Symmetry == Permutations(Operators) \cup Permutations(Requests)
===============================================================================
