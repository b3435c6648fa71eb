------------------------------ MODULE MCVenture ------------------------------
(***************************************************************************)
(* One business and two calls of provision() that offer it different       *)
(* capital (one offer is short of the budget), two model calls that fit    *)
(* the LLM budget one by one only, and one over the payment cap, a won and *)
(* a lost deal, the won one with an expansion, one campaign, and payments. *)
(*                                                                         *)
(* A behaviour is of one of two scenes, since both at once are too many    *)
(* states: "life" has all of this but the dashboard and the payments that  *)
(* name no business, "books" has those, one launch, one call and one run   *)
(* of the revenue rail.                                                    *)
(***************************************************************************)
EXTENDS Venture, TLC

CONSTANTS acme
VARIABLE scene

MCBusinesses == {acme}
MCBudget == (acme :> 2)
MCLlmBudget == (acme :> 3)
MCOffers == {[business |-> acme, capital |-> k] : k \in {1, 2}}
MCPrompts == {[business |-> acme, cost |-> k, maker |-> "agent"] : k \in {2, 3}}

Lead(opportunity, fit, amount, uplift) ==
    [business |-> acme, opportunity |-> opportunity, fit |-> fit, budget |-> 3,
     amount |-> amount, uplift |-> uplift]
MCLeads == <<Lead("small", 1, 2, 0), Lead("deal", 2, 3, 1), Lead("dear", 2, 4, 0)>>
MCCampaigns == <<[business |-> acme, channel |-> "search", spend |-> 3, ref |-> "c1"]>>
\* One that names the business, one from its cash and one from its revenue
\* account that do not.
Payment(key, amount, source, business) ==
    [key |-> key, amount |-> amount, payee |-> "vendor", source |-> source,
     maker |-> "agent", checker |-> NoOne, business |-> business]
MCPayments ==
    {Payment("k1", 1, Income(acme), acme), Payment("k2", 2, Cash(acme), NoOne),
     Payment("k3", 1, Income(acme), NoOne)}
MCApprovedPayees == {"vendor"}
MCLossFloor == -1

SceneInit == scene \in {"life", "books"} /\ Init

SceneNext ==
    /\ UNCHANGED scene
    /\ Next
    /\ scene = "life" => UNCHANGED watching /\ Unattributed(acme)' = {}
    /\ scene = "books" =>
          /\ Cardinality({p \in Launches : launch'[p].step # "idle"}) <= 1
          /\ Cardinality({c \in Calls : call'[c].step # "idle"}) <= 1
          /\ rail'.runs <= 1

SceneSpec == SceneInit /\ [][SceneNext]_<<scene, vars>>

Symmetry == Permutations(Launches) \cup Permutations(Calls)

\* A campaign's customers are worth their cost within the expected lifetime
\* exactly when the payback is (economics() over small inputs).
ASSUME PaybackAgreesWithLtv ==
    \A r \in 0..6, a \in 0..4, k \in 1..3, periods \in 1..3 :
        LET u == [revenue |-> r, cogs |-> 1, ads |-> a, llm |-> 1, customers |-> k]
        IN  Econ!Payback(u) # None =>
                (Econ!Payback(u) <= periods <=> Econ!Cac(u) <= Econ!Ltv(u, periods))

\* The live fleet page lists its businesses by profit, the worst loss on top;
\* with the thresholds of monitoring instead, a profitable business that spends
\* too much on inference comes before one that loses a little (viewmodels.py).
ASSUME LossesOnTop ==
    LET B == 1..3
        U == [revenue : {0, 4}, cogs : {0}, ads : {0, 1, 6}, llm : {0, 2}, customers : {0}]
        Live(inputs) == Econ!Rows(B, inputs, [b \in B |-> Econ!LiveHealth(inputs[b])])
        Watched(inputs) ==
            Econ!Rows(B, inputs, [b \in B |-> Econ!Health(Econ!Anomalies(inputs[b], 3000, -1))])
    IN  /\ \A inputs \in [B -> U] :
              /\ {Live(inputs)[i] : i \in B} = B
              /\ \A i \in 1..2 : Econ!Profit(inputs[Live(inputs)[i]])
                                    <= Econ!Profit(inputs[Live(inputs)[i + 1]])
        /\ \E inputs \in [B -> U] :
              /\ Econ!Verdict(inputs[Watched(inputs)[1]]) = "profitable"
              /\ Econ!Verdict(inputs[Watched(inputs)[2]]) = "unprofitable"
==============================================================================
