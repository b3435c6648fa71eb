------------------------------- MODULE MCGrowth -------------------------------
(***************************************************************************)
(* The growth loop and the content of a brand, which share the rules of    *)
(* decide() and no state: one of them moves in each behaviour.             *)
(*                                                                         *)
(* Experiments: two businesses, of which one has capital to lose; ideas    *)
(* that pass the gate, that do not, and that cite nothing; a form whose    *)
(* budget is in cash and one whose is not; arms of four impressions, the   *)
(* fewest at which a difference of all to none is significant; two runners *)
(* on the same experiments; one consumer that is rewound once.             *)
(* Content: two pillars on two platforms, two posts by two pipelines; one  *)
(* of them needs a person in the first review mode.  The reporting chain   *)
(* is a cycle, and no agent holds the highest level.                       *)
(***************************************************************************)
EXTENDS Experiments, Content, TLC

CONSTANTS acme, bolt, social, cmo
VARIABLE part
growthVars == <<part, vars, contentVars>>

MCBusinesses == {acme, bolt}
MCCash == (acme :> 4 @@ bolt :> 2)
MCCapital == (acme :> 2 @@ bolt :> 1)
MCBlueprint == (acme :> 3 @@ bolt :> 9)

Scored(n, others) ==
    [novelty |-> n, feasibility |-> others, market |-> others,
     grounding |-> others, clarity |-> others]
Idea(key, business, budget, sources, scores) ==
    [key |-> key, business |-> business, budget |-> budget, sources |-> sources,
     scores |-> scores]
Good == Idea("good", acme, 4, {"kpi"}, Scored(3, 4))
Other == Idea("other", bolt, 2, {"kpi"}, Scored(4, 4))
Dear == Idea("dear", bolt, 3, {"kpi"}, Scored(5, 5))
Baseless == Idea("baseless", bolt, 1, {}, Scored(5, 5))
Stale == Idea("stale", acme, 1, {"kpi"}, Scored(2, 4))

MCJunk == Idea("junk", acme, 0, {}, Scored(1, 1))

MCGenerated == {<< <<Good, Junk>>, <<>>, <<Good, Other, Stale>> >>, << <<>>, <<>>, <<>> >>}
MCForms == {[business |-> acme, budget |-> 5], [business |-> bolt, budget |-> 1]}
MCRaws == {<<>>, <<Good, Junk, Baseless>>, <<Dear, Other>>}

Arm(won) == [seen |-> 4, won |-> won, spent |-> 1]
MCBatches == {[control |-> Arm(0), variant |-> Arm(4)],
              [control |-> Arm(2), variant |-> Arm(3)]}
MCZSquared == <<384, 100>>
MCMinRate == <<9, 10>>
MCSunsetFloor == -1

MCCharters == (social :> [level |-> 2, reportsTo |-> cmo]
                 @@ cmo :> [level |-> 3, reportsTo |-> social])
MCStartWeights == <<8, 4>>
MCPlatforms == << [name |-> "linkedin", format |-> "carousel"],
                  [name |-> "x", format |-> "thread"] >>
MCDrafts == {[forbidden |-> f, cta |-> TRUE, tags |-> TRUE] : f \in BOOLEAN}
MCEngagement == {[seen |-> 4, won |-> 0, spent |-> 0], [seen |-> 4, won |-> 4, spent |-> 0]}

\* While the content rests, its brand has no pillars and hence nothing to plan.
NoContent ==
    /\ mode = "never" /\ weights = <<>> /\ pipe = [p \in Pipelines |-> NoWork]
    /\ published = <<>> /\ earned = <<>> /\ unit = 1

GrowthInit ==
    /\ Init
    /\ \/ part = "content" /\ ContentInit
       \/ part = "experiments" /\ NoContent

GrowthNext ==
    /\ UNCHANGED part
    /\ \/ part = "experiments" /\ Next /\ UNCHANGED contentVars
       \/ part = "content" /\ ContentNext /\ UNCHANGED vars

GrowthSpec == GrowthInit /\ [][GrowthNext]_growthVars

\* Either runner, and either pipeline, may play either part.
Symmetry == Permutations(Runners) \cup Permutations(Pipelines)
==============================================================================
