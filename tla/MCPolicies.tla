------------------------------ MODULE MCPolicies ------------------------------
(***************************************************************************)
(* The rule sets of Policies against reference definitions, over all small *)
(* inputs; TLC evaluates the assumptions at the start of a run.            *)
(***************************************************************************)
EXTENDS Integers, Sequences, FiniteSets

P == INSTANCE Policies

----------------------------------------------------------------------------
(* Escalation, for every reporting line of three agents: straight, broken  *)
(* by an agent without a charter, forked or cyclic.                        *)

Agents == {"a", "b", "c"}
Orgs == [Agents -> [level : 0..2, boss : Agents \cup {"stranger", P!NoDecider}]]

\* Whoever is on the line above an agent, itself included.
Superiors(org, a) ==
    {x \in Agents : \A S \in SUBSET Agents :
        (a \in S /\ \A y \in S : org[y].boss \in Agents => org[y].boss \in S) => x \in S}

\* route() stops at the nearest superior with the authority, passes each agent
\* once along the reporting line, and asks a human exactly when nobody on the
\* line has the authority, cycles or not.
ASSUME EscalationFindsTheNearest ==
    \A org \in Orgs, a \in Agents, level \in 1..2 :
        LET walk == P!Route(org, a, level)
            entitled == {x \in Superiors(org, a) : org[x].level >= level}
        IN  /\ walk.path[1] = a
            /\ \A i \in 2..Len(walk.path) : walk.path[i] = org[walk.path[i - 1]].boss
            /\ \A i, j \in DOMAIN walk.path : walk.path[i] = walk.path[j] => i = j
            /\ walk.decider = P!NoDecider <=> entitled = {}
            /\ walk.decider # P!NoDecider =>
                  /\ walk.decider \in entitled
                  /\ {walk.path[i] : i \in DOMAIN walk.path} \cap entitled = {walk.decider}

----------------------------------------------------------------------------
(* Data protection, for every record of two entries.                       *)

Entries == [element : {"email", "name"}, class : {"internal", "financial", "personal"},
            basis : {P!Missing, "consent", "legal_obligation"},
            policy : {P!Missing, "short", "tax", "gone"}]
Inventories == [policies : {{"short", "tax"}}, holds : {{"tax"}}, records : Entries \X Entries]
Elements(inv, I) == {inv.records[i].element : i \in I}

\* What passes check() gives erasure plans that evidence every refusal and
\* never both erase and keep an element.
ASSUME PlansOfSoundRecords ==
    \A inv \in Inventories :
        P!None(P!RecordFaults(inv)) =>
            /\ P!Evidenced(inv)
            /\ Elements(inv, P!Erased(inv)) \cap Elements(inv, P!Retained(inv)) = {}

\* check() compares elements and not classes: a compliant inventory may record
\* an element as internal that the code stores as personal, and the erasure
\* plan then does not mention it (ropa.py, dsar.py).
ASSUME MisclassifiedIsForgotten ==
    \E inv \in Inventories :
        /\ P!Compliant(inv, {[element |-> "email", class |-> "personal", policy |-> "short"]}, {})
        /\ "email" \notin Elements(inv, P!Erased(inv) \cup P!Retained(inv))

----------------------------------------------------------------------------
(* Playbooks of up to four winners.                                        *)

Modules == {"crm", "ads"}
Listing == {<<>>, <<"crm">>, <<"ads">>, <<"crm", "ads">>}
Winners == UNION {[1..n -> Listing] : n \in 1..4}

\* A strict majority of the winners use what is recommended, if none lists a
\* module twice; a winner that does is counted twice.
ASSUME RecommendedIsWidelyUsed ==
    /\ \A winners \in Winners : \A m \in P!Recommended(winners, Modules) :
          2 * Cardinality(P!Users(winners, m)) > Len(winners)
    /\ P!Recommended(<<<<"crm", "crm">>, <<>>>>, Modules) = {"crm"}

\* The median has as many values above it as below, rounding down an even one.
ASSUME MedianIsInTheMiddle ==
    \A n \in 1..4 : \A values \in [1..n -> 0..3] :
        LET m == P!Median(values)
        IN  /\ 2 * Cardinality({i \in 1..n : values[i] <= m}) >= n
            /\ 2 * Cardinality({i \in 1..n : values[i] > m}) <= n
            /\ 2 * Cardinality({i \in 1..n : values[i] < m}) <= n
===============================================================================
