----------------------------- MODULE GrowthRules -----------------------------
(***************************************************************************)
(* The pure rules of growth and portfolio: how model output becomes judged *)
(* ideas (ab_growth.ideate, multiagent), how evidence decides an           *)
(* experiment (experiment, stats, runner), and how outcomes become capital *)
(* recommendations (ab_portfolio) and KPIs (ab_growth.kpis).               *)
(*                                                                         *)
(* A rate is a pair of integers and is compared by cross-multiplication;   *)
(* p < alpha is stated on the square of the z statistic.                   *)
(***************************************************************************)
EXTENDS Integers, FiniteSets, SequencesExt

CONSTANTS
    Junk,           \* an item that does not validate
    ZSquared,       \* <<n, d>>: p < alpha exactly when z^2 > n / d
    MinExposure,    \* min_exposure_per_arm
    MinRate,        \* <<n, d>>: min_conversion_rate
    MaxCac,         \* max_cac_minor
    SunsetFloor, MinConclusive, InvestThreshold, Increment

\* The thresholds are read as whole numbers.
ASSUME ThresholdsAssumption ==
    {SunsetFloor, MinConclusive, InvestThreshold, Increment} \subseteq Int

----------------------------------------------------------------------------
(* Ideas.  Raw model output is a sequence of items, empty when the model   *)
(* abstains or its JSON is broken; an item is Junk when it does not        *)
(* validate, else an idea [key, scores, sources, business, budget], key    *)
(* being its id or, without one, its title.                                *)

SumOf(f) == FoldFunction(+, 0, f)

\* overall_score() in tenths: the mean of the five rubric scores.
Overall(scores) == 2 * SumOf(scores)

Strong(i) ==
    /\ Overall(i.scores) >= 35
    /\ i.scores.novelty >= 3
    /\ i.scores.grounding >= 3
VerdictOf(proceeds, i) ==
    IF proceeds THEN "proceed" ELSE IF Overall(i.scores) >= 25 THEN "refine" ELSE "kill"

\* ideation_gate(): an idea that cites no source never proceeds.
\* Mutant: sources are not asked for.
Verdict_Ungrounded(i) == VerdictOf(Strong(i), i)
Verdict(i) == VerdictOf(Strong(i) /\ i.sources # {}, i)

\* judge_candidates() and IdeationResult.proceed.
Proceed(ideas) ==
    FoldLeft(LAMBDA kept, i : IF Verdict(i) = "proceed" THEN Append(kept, i) ELSE kept,
             <<>>, ideas)

\* ideation_workspace(): the cards with a button to propose the idea.
Offered(ideas) == {i \in Range(ideas) : Verdict(i) = "proceed"}

Take(s, n) == [k \in (DOMAIN s) \cap (1..n) |-> s[k]]

\* _parse_candidates(): what does not validate is dropped.
Parse(raw) == SelectSeq(raw, LAMBDA item : item # Junk)

Dedup(ideas) ==
    FoldLeft(LAMBDA kept, i : IF \E k \in Range(kept) : k.key = i.key
                              THEN kept ELSE Append(kept, i),
             <<>>, ideas)

\* MultiAgentIdeationModel.propose(): the synthesis, or the generators' pool.
Ideas(generated, synthesis, count) ==
    LET pool  == FlattenSeq([g \in DOMAIN generated |-> Parse(generated[g])])
        final == Take(Parse(synthesis), count)
    IN  IF pool # <<>> /\ final # <<>> THEN final ELSE Take(Dedup(pool), count)

\* ModelGatewayIdeationModel.propose(): one bad item drops them all.
IdeasOfOne(raw, count) == IF Junk \in Range(raw) THEN <<>> ELSE Take(raw, count)

----------------------------------------------------------------------------
(* Experiments.  An arm is [seen, won, spent]: impressions, conversions    *)
(* and spend.                                                              *)

Exceeds(n1, d1, n2, d2) == n1 * d2 > n2 * d1           \* n1/d1 > n2/d2
HasRate(arm, rate) == arm.seen > 0 /\ arm.won * rate[2] >= rate[1] * arm.seen
Beats(v, c) == Exceeds(v.won, v.seen, c.won, c.seen)   \* both have exposure

\* significant(): the two-proportion z-test on enough exposure.  z^2 is
\* gap^2 * all / (seen * seen * won * lost), with the pooled variance.
Significant(c, v) ==
    LET gap  == v.won * c.seen - c.won * v.seen
        all  == c.seen + v.seen
        won  == c.won + v.won
        area == c.seen * v.seen * won * (all - won)
    IN  /\ c.seen >= MinExposure /\ v.seen >= MinExposure
        /\ area > 0
        /\ Exceeds(gap * gap * all, area, ZSquared[1], ZSquared[2])

CacBreached(v) == v.won > 0 /\ v.spent \div v.won > MaxCac

\* decide(): the guardrail first, then the evidence, then the budget.
Decide(c, v, budget) ==
    IF CacBreached(v) THEN "kill"
    ELSE IF Significant(c, v)
         THEN IF ~ Beats(v, c) THEN "kill"
              ELSE IF HasRate(v, MinRate) THEN "scale" ELSE "pivot"
         ELSE IF c.spent + v.spent >= budget THEN "kill" ELSE "continue"

\* Mutant: the experiment's own cap is ignored.
EffectiveBudget_Blueprint(blueprint, own) == blueprint
\* run(): the experiment's own budget tightens the blueprint's.
EffectiveBudget(blueprint, own) == IF own < blueprint THEN own ELSE blueprint

----------------------------------------------------------------------------
(* Portfolio.  An outcome is [experiment, business, action].               *)

Conclusive == {"scale", "pivot", "kill"}

Count(outcomes, b, actions) ==
    Cardinality({k \in DOMAIN outcomes : outcomes[k].business = b /\ outcomes[k].action \in actions})
\* rollup(): outcomes tallied per business, in the order first seen.
\* Mutant: a pivot counts as a win.
Tally_PivotWins(outcomes, b, action) ==
    Count(outcomes, b, IF action = "scale" THEN {"scale", "pivot"} ELSE {action})
Tally(outcomes, b, action) == Count(outcomes, b, {action})

Rollup(outcomes, capital) ==
    LET order == FoldLeft(LAMBDA kept, o :
                             IF o.action \notin Conclusive \/ o.business \in Range(kept)
                             THEN kept ELSE Append(kept, o.business),
                          <<>>, outcomes)
    IN  [i \in DOMAIN order |->
            [business |-> order[i], capital |-> capital[order[i]],
             scale |-> Tally(outcomes, order[i], "scale"),
             pivot |-> Tally(outcomes, order[i], "pivot"),
             kill  |-> Tally(outcomes, order[i], "kill")]]

Score(p) == p.scale - p.kill
Trials(p) == p.scale + p.pivot + p.kill
Sunset(p) == Score(p) <= SunsetFloor /\ Trials(p) >= MinConclusive
Winner(p) == ~ Sunset(p) /\ Score(p) >= InvestThreshold
CapitalOf(perfs, I) == FoldFunctionOnSet(+, 0, [i \in DOMAIN perfs |-> perfs[i].capital], I)

\* Capital free for reinvestment once the sunsets are reclaimed.
Headroom(perfs, budget) ==
    budget - CapitalOf(perfs, {i \in DOMAIN perfs : ~ Sunset(perfs[i])})

\* The winners by score, ties in input order, funded while the room lasts.
Winners(perfs) == {i \in DOMAIN perfs : Winner(perfs[i])}
Better(perfs, i) ==
    {j \in Winners(perfs) : \/ Score(perfs[j]) > Score(perfs[i])
                            \/ Score(perfs[j]) = Score(perfs[i]) /\ j < i}
Ranking(perfs) ==
    [k \in 1..Cardinality(Winners(perfs)) |->
        CHOOSE i \in Winners(perfs) : Cardinality(Better(perfs, i)) = k - 1]

FundedFrom(perfs, losers, room) ==
    FoldLeft(LAMBDA acc, i :
                IF perfs[i].business \notin losers /\ acc.room >= Increment
                THEN [room |-> acc.room - Increment, who |-> acc.who \cup {i}]
                ELSE acc,
             [room |-> room, who |-> {}], Ranking(perfs)).who
\* Mutant: the deployed capital of the sunset businesses is freed twice.
Funded_FreesTwice(perfs, budget, losers) ==
    FundedFrom(perfs, losers,
        Headroom(perfs, budget)
          + CapitalOf(perfs, {i \in DOMAIN perfs : Sunset(perfs[i])}))
Funded(perfs, budget, losers) == FundedFrom(perfs, losers, Headroom(perfs, budget))

\* allocate(): one recommendation per business, in input order.
Allocate(perfs, budget, losers) ==
    LET funded == Funded(perfs, budget, losers)
        advice(i, action, delta) ==
            [business |-> perfs[i].business, action |-> action, delta |-> delta]
        held(i) == IF Winner(perfs[i]) \/ Score(perfs[i]) >= 0 THEN "hold" ELSE "starve"
    IN  [i \in DOMAIN perfs |->
            IF Sunset(perfs[i]) THEN advice(i, "sunset", -perfs[i].capital)
            ELSE IF i \in funded THEN advice(i, "invest_more", Increment)
            ELSE advice(i, held(i), 0)]

----------------------------------------------------------------------------
(* KPIs.  A row is [business, budget, status, decision].                   *)

\* round(): to the nearest integer, a half to the even one.
Rounded(n, d) ==
    LET down == n \div d
        twice == 2 * (n % d)
    IN  IF twice > d \/ (twice = d /\ down % 2 = 1) THEN down + 1 ELSE down

\* experiment_kpis() for one business, from the rows of the table.
Kpi(rows, b) ==
    LET mine(P(_)) == {e \in DOMAIN rows : rows[e].business = b /\ P(rows[e])}
        concluded  == mine(LAMBDA r : r.status = "concluded")
        scaled     == mine(LAMBDA r : r.status = "concluded" /\ r.decision = "scale")
    IN  [open      |-> Cardinality(mine(LAMBDA r : r.status # "concluded")),
         concluded |-> Cardinality(concluded),
         scaled    |-> Cardinality(scaled),
         winRate   |-> IF concluded = {} THEN 0
                       ELSE Rounded(10000 * Cardinality(scaled), Cardinality(concluded)),
         committed |-> FoldFunctionOnSet(+, 0, [e \in DOMAIN rows |-> rows[e].budget],
                                         mine(LAMBDA r : TRUE))]
==============================================================================
