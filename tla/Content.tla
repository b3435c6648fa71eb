------------------------------- MODULE Content -------------------------------
(***************************************************************************)
(* Social content (ab_social): a plan drawn from the brand's weighted      *)
(* pillars, drafts that are authorised, reviewed, checked and published,   *)
(* and the pillars reweighted from what the posts earned.  Authority comes *)
(* from the agent organisation (ab_org), verdicts from GrowthRules.        *)
(*                                                                         *)
(* Several pipelines may work for one brand at a time; each looks at the   *)
(* number of posts once, when it asks whether a human must approve.        *)
(***************************************************************************)
EXTENDS GrowthRules

CONSTANTS
    Nobody,
    Charters,        \* Charters[a] = [level, reportsTo] for the agents that exist
    Initiator,
    Levels,          \* authority a publication may need
    ReviewModes,     \* of "human_approval_first_n", "always" and "never"
    ReviewFirstN,
    StartWeights,    \* weights of the pillars, in their order and a common unit
    Platforms,       \* sequence of [name, format]: the top-share format
    PlanCount,       \* posts in a plan
    Drafts,          \* what the writer may return: [forbidden, cta, tags]
    Engagement,      \* what a post may earn: [seen, won, spent]
    ExperimentBudget,  \* experiment_budget_minor
    Pipelines, MaxPosts, MaxReweights

ASSUME ContentAssumption ==
    /\ ReviewFirstN \in Nat /\ Levels \subseteq Int
    /\ \A a \in DOMAIN Charters : Charters[a].level \in Int
    /\ StartWeights \in Seq(Nat \ {0}) /\ PlanCount \in Nat

VARIABLES
    mode,            \* the profile's review mode
    weights,         \* its pillar weights, in units of 1 / unit
    pipe,            \* pipe[p] = [step, pillar, draft, level, human, approved]
    published,       \* posts in order: [pillar, level, approved]
    earned,          \* earned[i]: the metrics of the i-th post, once collected
    unit             \* doubled by a run_optimization(), which may halve a weight
contentVars == <<mode, weights, pipe, published, earned, unit>>

----------------------------------------------------------------------------
(* Authority: a walk up reports_to.                                        *)

\* The agent n levels above, Nobody past a missing charter.
Above ==
    LET f[n \in Nat] ==
            IF n = 0 THEN Initiator
            ELSE IF f[n - 1] \in DOMAIN Charters THEN Charters[f[n - 1]].reportsTo
                 ELSE Nobody
    IN  f

\* route(): somebody on the chain, which may be a cycle, holds the level.
Chain == {Above[n] : n \in 0..Cardinality(DOMAIN Charters)} \cap DOMAIN Charters
EscalatesToHuman(level) == \A a \in Chain : Charters[a].level < level

----------------------------------------------------------------------------
(* The plan.                                                               *)

SumOfWeights == SumOf(weights)
Whole(i) == (weights[i] * PlanCount) \div SumOfWeights
Remainder(i) == (weights[i] * PlanCount) % SumOfWeights
\* Posts left once every pillar has its whole share.
Spare == PlanCount - FoldFunction(+, 0, [i \in DOMAIN weights |-> Whole(i)])
Ahead(i) ==
    {j \in DOMAIN weights : Remainder(j) > Remainder(i) \/ (Remainder(j) = Remainder(i) /\ j < i)}

\* Mutant: every share is rounded to the nearest.
Share_Rounded(i) == (2 * weights[i] * PlanCount + SumOfWeights) \div (2 * SumOfWeights)
\* _allocate(): what is left goes to the largest remainders.
Share(i) == Whole(i) + IF Cardinality(Ahead(i)) < Spare THEN 1 ELSE 0

\* plan(): pillar by pillar, cycling the platforms.
Plan ==
    LET pillars == FlattenSeq([i \in DOMAIN weights |-> [k \in 1..Share(i) |-> i]])
    IN  [k \in DOMAIN pillars |->
            [pillar |-> pillars[k], platform |-> Platforms[((k - 1) % Len(Platforms)) + 1]]]

----------------------------------------------------------------------------
(* Publishing.                                                             *)

Passes(d) == ~ d.forbidden /\ d.cta /\ d.tags            \* qa()

\* Mutant: the post being authorised is counted as published.
ReviewRequired_OffByOne(count) ==
    \/ mode = "always"
    \/ mode = "human_approval_first_n" /\ count + 1 < ReviewFirstN
ReviewRequired(count) ==
    \/ mode = "always"
    \/ mode = "human_approval_first_n" /\ count < ReviewFirstN

NoDraft == [forbidden |-> FALSE, cta |-> FALSE, tags |-> FALSE]
NoWork == [step |-> "idle", pillar |-> 0, draft |-> NoDraft, level |-> 0,
            human |-> FALSE, approved |-> FALSE]
Release(p) == pipe' = [pipe EXCEPT ![p] = NoWork]

\* A plan item is written up.
Write(p) ==
    /\ pipe[p].step = "idle" /\ Len(published) < MaxPosts
    /\ \E k \in DOMAIN Plan, d \in Drafts :
          pipe' = [pipe EXCEPT ![p] =
             [@ EXCEPT !.step = "authorize", !.pillar = Plan[k].pillar, !.draft = d]]
    /\ UNCHANGED <<mode, weights, published, earned, unit>>

\* authorize_publish(): the posts are counted here.
Authorize(p) ==
    /\ pipe[p].step = "authorize"
    /\ \E level \in Levels :
          pipe' = [pipe EXCEPT ![p] =
             [@ EXCEPT !.step = "publish", !.level = level,
                       !.human = ReviewRequired(Len(published)) \/ EscalatesToHuman(level)]]
    /\ UNCHANGED <<mode, weights, published, earned, unit>>

\* A person may approve at any time before governed_publish() is called.
Approve(p) ==
    /\ pipe[p].step = "publish" /\ ~ pipe[p].approved
    /\ pipe' = [pipe EXCEPT ![p] = [@ EXCEPT !.approved = TRUE]]
    /\ UNCHANGED <<mode, weights, published, earned, unit>>

\* governed_publish(): held, rejected, or out.
GovernedPublish(p) ==
    /\ pipe[p].step = "publish"
    /\ IF (pipe[p].human => pipe[p].approved) /\ Passes(pipe[p].draft)
       THEN /\ Len(published) < MaxPosts
            /\ published' = Append(published,
                  [pillar |-> pipe[p].pillar, level |-> pipe[p].level,
                   approved |-> pipe[p].approved])
       ELSE UNCHANGED published
    /\ Release(p)
    /\ UNCHANGED <<mode, weights, earned, unit>>

----------------------------------------------------------------------------
(* Learning.                                                               *)

\* collect_metrics()
Collect(i) ==
    /\ i \notin DOMAIN earned
    /\ \E m \in Engagement :
          earned' = [k \in DOMAIN earned \cup {i} |-> IF k = i THEN m ELSE earned[k]]
    /\ UNCHANGED <<mode, weights, pipe, published, unit>>

PostsOf(pillar) == {i \in DOMAIN earned : published[i].pillar = pillar}
ArmOf(pillar) ==
    [k \in {"seen", "won", "spent"} |->
        FoldFunctionOnSet(+, 0, [i \in DOMAIN earned |-> earned[i][k]], PostsOf(pillar))]

\* Mutant: a lost experiment is read as a won one.
Reweighted_Swapped(w, action) ==
    CASE action = "kill" -> 3 * w
      [] action = "scale" -> w
      [] OTHER -> 2 * w
\* run_optimization(): SCALE_FACTOR and KILL_FACTOR, in half units.
Reweighted(w, action) ==
    CASE action = "scale" -> 3 * w
      [] action = "kill" -> w
      [] OTHER -> 2 * w

\* More engagements than impressions make the arm invalid: nothing changes.
Optimize(incumbent, challenger) ==
    LET c == ArmOf(incumbent)
        v == ArmOf(challenger)
    IN
    /\ unit < 2 ^ MaxReweights
    /\ c.won <= c.seen /\ v.won <= v.seen
    /\ weights' = [i \in DOMAIN weights |->
                      Reweighted(weights[i],
                         IF i = challenger THEN Decide(c, v, ExperimentBudget)
                         ELSE "continue")]
    /\ unit' = 2 * unit
    /\ UNCHANGED <<mode, pipe, published, earned>>

----------------------------------------------------------------------------
ContentInit ==
    /\ mode \in ReviewModes
    /\ weights = StartWeights
    /\ pipe = [p \in Pipelines |-> NoWork]
    /\ published = <<>> /\ earned = <<>> /\ unit = 1

ContentNext ==
    \/ \E p \in Pipelines : Write(p) \/ Authorize(p) \/ Approve(p) \/ GovernedPublish(p)
    \/ \E i \in DOMAIN published : Collect(i)
    \/ \E i, j \in DOMAIN weights : i # j /\ Optimize(i, j)

ContentSpec == ContentInit /\ [][ContentNext]_contentVars

----------------------------------------------------------------------------
(* Properties.                                                             *)

\* The first posts of the brand were approved by a person, however many
\* pipelines counted the posts before any of them published (the count is an
\* argument of authorize_publish(): this is about callers that count), and
\* every post is one no agent had the authority to make alone, or could.
FirstPostsReviewed ==
    \A i \in DOMAIN published :
        \/ published[i].approved
        \/ /\ mode # "always"
           /\ mode = "human_approval_first_n" => i > ReviewFirstN
           /\ \E a \in Chain : Charters[a].level >= published[i].level

\* Whatever the pillars have come to weigh, a plan of a brand that has any
\* has the posts asked for and gives each pillar its share, rounded up or
\* down: _allocate() and plan() (core.py).
PlanIsProportional ==
    LET plan == Plan IN
    /\ weights # <<>> => Len(plan) = PlanCount
    /\ \A i \in DOMAIN weights :
          LET posts == Cardinality({k \in DOMAIN plan : plan[k].pillar = i})
          IN  /\ (posts - 1) * SumOfWeights < weights[i] * PlanCount
              /\ weights[i] * PlanCount < (posts + 1) * SumOfWeights

\* A pillar gains weight only after its posts won more of their impressions
\* than the posts it was compared with (run_optimization() in optimize.py,
\* decide() in experiment.py).
WinnersGain ==
    [][\A i \in DOMAIN weights :
          weights'[i] * unit > weights[i] * unit' =>
             \E j \in DOMAIN weights \ {i} :
                ArmOf(i).won * ArmOf(j).seen > ArmOf(j).won * ArmOf(i).seen]_contentVars
==============================================================================
