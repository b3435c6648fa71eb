------------------------------- MODULE Serving -------------------------------
(***************************************************************************)
(* Which models serve which task profiles: the evaluation gate (ab_evals:  *)
(* harness.py, gate.py), the table model_promotions (promotion_store.py)   *)
(* and the registry of a gateway process (ab_gateway/model_gateway.py),    *)
(* filled once, when the process starts.  Every process picks its model    *)
(* from its own environment.  ModelPromoted has no consumer: left out.     *)
(***************************************************************************)
EXTENDS Integers, Sequences, FiniteSets

CONSTANTS
    Suites,          \* Suites[p] = [cases, min, thresholds, art22] of profile p:
                     \* cases[c] = [dim, critical], rates as <<n, d>>
    Stub,            \* the offline model, which passes every suite
    LiveModels,      \* models behind a provider
    Routed,          \* profiles a provider has a route for: ROUTES
    EvalOnBoot,      \* AB_EVAL_ON_BOOT
    NoModel,
    MaxPromotions

VARIABLES
    promotions,      \* table model_promotions: rows [profile, model]
    registry,        \* PROMOTIONS of the gateway process: profile -> model
    served,          \* _SERVED of the gateway process, NoModel if none runs
    cleared          \* history: <<profile, model>> that did well in an evaluation
servingVars == <<promotions, registry, served, cleared>>

Profiles == DOMAIN Suites
Cases(p) == DOMAIN Suites[p].cases
Models == {Stub} \cup LiveModels

\* A suite has finitely many cases, and where it states a bias bar for a
\* significant decision, the full one (suites.py).
ASSUME SuitesAssumption ==
    \A p \in Profiles :
        /\ IsFiniteSet(Cases(p))
        /\ Suites[p].art22 /\ "bias" \in DOMAIN Suites[p].thresholds
              => Suites[p].thresholds["bias"] = <<1, 1>>

----------------------------------------------------------------------------
(* The gate.                                                               *)

AtLeast(part, whole, rate) == part * rate[2] >= rate[1] * whole
CasesOf(p, dim) == {c \in Cases(p) : Suites[p].cases[c].dim = dim}

\* A profile of significance without a bias threshold gets one of 100%.
Thresholds(p) ==
    LET t == Suites[p].thresholds
    IN  IF Suites[p].art22 /\ "bias" \notin DOMAIN t
        THEN [dim \in DOMAIN t \cup {"bias"} |-> IF dim = "bias" THEN <<1, 1>> ELSE t[dim]]
        ELSE t

\* gate(): passed is the set of cases that passed.
Gate(p, passed) ==
    /\ \A c \in Cases(p) \ passed : ~ Suites[p].cases[c].critical
    /\ AtLeast(Cardinality(passed), Cardinality(Cases(p)), Suites[p].min)
    /\ \A dim \in DOMAIN Thresholds(p) :
          /\ CasesOf(p, dim) # {}
          /\ AtLeast(Cardinality(CasesOf(p, dim) \cap passed),
                     Cardinality(CasesOf(p, dim)), Thresholds(p)[dim])
    /\ Suites[p].art22 => CasesOf(p, "bias") # {}

\* evaluate(): a live model may answer anything, and fails every case of a
\* profile without a route, where complete() raises.
Results(m, p) ==
    IF m = Stub THEN {Cases(p)}
    ELSE IF p \in Routed THEN SUBSET Cases(p)
    ELSE {{}}

\* What the documents ask of a served model, whatever the gate computes: all
\* critical cases passed and no dimension below its bar.
DidWell(p, passed) ==
    /\ \A c \in Cases(p) : Suites[p].cases[c].critical => c \in passed
    /\ \A dim \in DOMAIN Suites[p].thresholds :
          AtLeast(Cardinality(CasesOf(p, dim) \cap passed),
                  Cardinality(CasesOf(p, dim)), Suites[p].thresholds[dim])
    /\ Suites[p].art22 => CasesOf(p, "bias") \subseteq passed

----------------------------------------------------------------------------
ServingInit ==
    /\ promotions = <<>> /\ registry = <<>>
    /\ served = NoModel /\ cleared = {}

\* Mutant: the promotion is recorded whatever the gate says.
EvalPromote_Ungated(m, p) ==
    /\ Len(promotions) < MaxPromotions
    /\ \E passed \in Results(m, p) :
          /\ promotions' = Append(promotions, [profile |-> p, model |-> m])
          /\ cleared' = cleared \cup IF DidWell(p, passed) THEN {<<p, m>>} ELSE {}
    /\ UNCHANGED <<registry, served>>

\* python -m ab_evals promote <profile>, in an environment that selects m.
EvalPromote(m, p) ==
    /\ Len(promotions) < MaxPromotions
    /\ \E passed \in Results(m, p) :
          /\ Gate(p, passed)
          /\ promotions' = Append(promotions, [profile |-> p, model |-> m])
          /\ cleared' = cleared \cup IF DidWell(p, passed) THEN {<<p, m>>} ELSE {}
    /\ UNCHANGED <<registry, served>>

\* promoted_versions(): the last row of each profile.
Promoted == {row.profile : row \in {promotions[k] : k \in DOMAIN promotions}}
Latest(p) ==
    LET k == CHOOSE k \in DOMAIN promotions :
                /\ promotions[k].profile = p
                /\ \A l \in DOMAIN promotions : promotions[l].profile = p => l <= k
    IN  promotions[k].model

\* _seed_promotions(): the offline model is evaluated, a live one on request.
Seeds(m, results) ==
    IF m = Stub \/ EvalOnBoot THEN {p \in Profiles : Gate(p, results[p])} ELSE {}

\* A gateway process starts, after another has stopped: seeded, then hydrated.
Boot(m) ==
    \E results \in [Profiles -> UNION {Results(m, p) : p \in Profiles}] :
        /\ \A p \in Profiles : results[p] \in Results(m, p)
        /\ served' = m
        /\ registry' = [p \in Seeds(m, results) \cup Promoted |->
                            IF p \in Promoted THEN Latest(p) ELSE m]
        /\ cleared' = cleared \cup
              {<<p, m>> : p \in {q \in Seeds(m, results) : DidWell(q, results[q])}}
        /\ UNCHANGED promotions

ServingNext ==
    \/ \E m \in Models, p \in Profiles : EvalPromote(m, p)
    \/ \E m \in Models : Boot(m)

ServingSpec == ServingInit /\ [][ServingNext]_servingVars

----------------------------------------------------------------------------
(* Properties.                                                             *)

\* The registry of a gateway, which decides whether a profile is answered or
\* abstained from, names a model for it only if that model did well in an
\* evaluation of that very profile: by an operator, or by some gateway that
\* started, maybe long ago and in another process (promotion_store.py,
\* model_gateway.py).  The answer itself comes from the model the process runs.
RegistryWasEvaluated ==
    \A p \in DOMAIN registry : <<p, registry[p]>> \in cleared
==============================================================================
