------------------------------ MODULE Economics ------------------------------
(***************************************************************************)
(* Unit economics of src/ab_econ/core.py and the health signals derived    *)
(* from it by src/ab_obs and src/ab_monitor.  A business's inputs are a    *)
(* record [revenue, cogs, ads, llm, customers] of integer minor units, and  *)
(* a snapshot also holds the revenue shown, which is read once more.         *)
(* Division floors, as Python's // does.                                   *)
(***************************************************************************)
EXTENDS Integers, FiniteSets, FiniteSetsExt, SequencesExt, TLC

CONSTANT None         \* Python's None: a ratio without a denominator

Ratio(n, d) == IF d = 0 THEN None ELSE n \div d

Profit(u) == u.revenue - u.cogs - u.ads - u.llm
Contribution(u) == u.revenue - u.cogs - u.llm
Cac(u) == Ratio(u.ads, u.customers)
Ltv(u, periods) ==
    IF u.customers = 0 THEN None ELSE periods * Ratio(Contribution(u), u.customers)

\* Periods of contribution that recover the acquisition cost, rounded up.
Payback(u) ==
    LET each == Ratio(Contribution(u), u.customers)
    IN  IF u.customers = 0 \/ each <= 0 THEN None ELSE -((-Cac(u)) \div each)

Verdict(u) ==
    CASE Profit(u) > 0 -> "profitable"
      [] Profit(u) = 0 -> "break_even"
      [] OTHER -> "unprofitable"

LlmRatio(u) == Ratio(u.llm * 10000, u.revenue)         \* basis points

Unprofitable(B, inputs) == {b \in B : Verdict(inputs[b]) = "unprofitable"}

WithinLlmBudget(spend, budget) == spend <= budget
\* gate_llm_spend() on the projected spend.
GatePasses(cost, spent, budget) == WithinLlmBudget(spent + cost, budget)

\* detect_anomalies() for one snapshot.
Anomalies(u, maxRatio, floor) ==
    {k \in {"llm_cost_high", "operating_loss"} :
        \/ k = "llm_cost_high" /\ LlmRatio(u) # None /\ LlmRatio(u) > maxRatio
        \/ k = "operating_loss" /\ Profit(u) < floor}

\* business_checks(): the worst anomaly is the business's status.
Health(found) ==
    CASE "operating_loss" \in found -> "CRITICAL"
      [] found = {"llm_cost_high"}  -> "WARNING"
      [] found = {}                 -> "OK"

\* The console's live check of one business.
LiveHealth(u) == IF Profit(u) < 0 THEN "CRITICAL" ELSE "OK"

\* The rows of the fleet page: the worst status first, and the worst loss first
\* among equals; status[b] is the worst of b's checks.
Rows(B, inputs, status) ==
    LET rank == [OK |-> 0, WARNING |-> 1, CRITICAL |-> 2]
    IN  SortSeq(SetToSeq(B),
                LAMBDA a, b : \/ rank[status[a]] > rank[status[b]]
                              \/ /\ status[a] = status[b]
                                 /\ Profit(inputs[a]) < Profit(inputs[b]))

\* fleet_totals() and the alert count of the fleet view.
FleetTotals(B, inputs) ==
    [businesses   |-> Cardinality(B),
     revenue      |-> MapThenSumSet(LAMBDA b : inputs[b].shown, B),
     spend        |-> MapThenSumSet(LAMBDA b : inputs[b].llm + inputs[b].ads, B),
     profit       |-> MapThenSumSet(LAMBDA b : Profit(inputs[b]), B),
     unprofitable |-> Cardinality(Unprofitable(B, inputs)),
     alerts       |-> Cardinality({b \in B : LiveHealth(inputs[b]) = "CRITICAL"})]
==============================================================================
