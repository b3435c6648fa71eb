------------------------------- MODULE Policies -------------------------------
(***************************************************************************)
(* Three rule sets that decide from a document alone: the record of        *)
(* processing activities and the erasure plan drawn from it                *)
(* (ab_compliance), the walk of a decision up the reporting lines (ab_org) *)
(* and the playbook distilled from winning businesses (ab_playbook).       *)
(***************************************************************************)
EXTENDS Integers, Sequences, FiniteSets

Missing == "missing"      \* a field that is absent or empty

----------------------------------------------------------------------------
(* Data protection.  The inventory is [policies, holds, records]: retention *)
(* policies, those whose description cites a legal obligation, and a       *)
(* sequence of [element, class, basis, policy].                            *)

NeedsBasis == {"personal"}
MustInventory == {"personal", "financial"}

Documented(inv) == {inv.records[i].element : i \in DOMAIN inv.records}
At(inv, P(_)) == {i \in DOMAIN inv.records : P(inv.records[i])}

\* check(), first part: the violations of the record itself.
RecordFaults(inv) ==
    [duplicate |-> {i \in DOMAIN inv.records :
                        \E j \in 1..(i - 1) : inv.records[j].element = inv.records[i].element},
     baseless  |-> At(inv, LAMBDA r : r.class \in NeedsBasis /\ r.basis = Missing),
     unlimited |-> At(inv, LAMBDA r : r.policy = Missing),
     undefined |-> At(inv, LAMBDA r : r.policy \notin inv.policies \cup {Missing})]

\* The code's own inventory, a set of [element, class, policy].
CodeFaults(inv, code) ==
    [undefined  |-> {c \in code : c.policy \notin inv.policies \cup {Missing}},
     unrecorded |-> {c \in code : c.class \in MustInventory /\ c.element \notin Documented(inv)}]

\* retention_with_basis
Backed(inv) ==
    {inv.records[i].policy :
        i \in At(inv, LAMBDA r : /\ r.class \in NeedsBasis
                                 /\ r.basis # Missing /\ r.policy # Missing)}

\* The event catalog, a set of [class, inline, policy]; inline: a basis is stated.
EventFaults(inv, events) ==
    [baseless  |-> {e \in events : e.class \in NeedsBasis /\ ~ e.inline /\ e.policy \notin Backed(inv)},
     undefined |-> {e \in events : /\ e.class \in MustInventory
                                   /\ e.policy \notin inv.policies \cup {Missing}}]

None(faults) == \A k \in DOMAIN faults : faults[k] = {}
Compliant(inv, code, events) ==
    None(RecordFaults(inv)) /\ None(CodeFaults(inv, code)) /\ None(EventFaults(inv, events))

\* erasure_plan(): the personal records a subject's request meets.
Held(inv, r) == r.basis = "legal_obligation" \/ r.policy \in inv.holds
Retained(inv) == At(inv, LAMBDA r : r.class = "personal" /\ Held(inv, r))
Erased(inv) == At(inv, LAMBDA r : r.class = "personal" /\ ~ Held(inv, r))
Evidenced(inv) ==
    \A i \in Retained(inv) : inv.records[i].basis # Missing /\ inv.records[i].policy # Missing

----------------------------------------------------------------------------
(* Escalation.  org[a] = [level, boss].                                    *)

NoDecider == "nobody"

\* One turn of the loop of route(); the walk is [current, path, decider].
Over(org, walk) ==
    \/ walk.decider # NoDecider
    \/ walk.current \notin DOMAIN org
    \/ \E i \in DOMAIN walk.path : walk.path[i] = walk.current
Turn(org, level, walk) ==
    IF Over(org, walk) THEN walk
    ELSE [current |-> org[walk.current].boss,
          path |-> Append(walk.path, walk.current),
          decider |-> IF org[walk.current].level >= level THEN walk.current ELSE NoDecider]

\* route(): no walk takes more turns than there are agents.
Route(org, initiator, level) ==
    LET walk[n \in Nat] ==
            IF n = 0 THEN [current |-> initiator, path |-> <<>>, decider |-> NoDecider]
            ELSE Turn(org, level, walk[n - 1])
    IN  walk[Cardinality(DOMAIN org)]

----------------------------------------------------------------------------
(* Playbooks.  A winner's enabled_modules is a sequence.                   *)

\* freq: every listing counts, also a second one by the same winner.
Listings(winners, m) ==
    UNION {{<<i, j>> : j \in {j \in DOMAIN winners[i] : winners[i][j] = m}} : i \in DOMAIN winners}
Users(winners, m) == {i \in DOMAIN winners : \E j \in DOMAIN winners[i] : winners[i][j] = m}

Majority(winners) == (Len(winners) \div 2) + 1
Recommended(winners, Modules) ==
    {m \in Modules : Cardinality(Listings(winners, m)) >= Majority(winners)}

\* ordered[k - 1] of the sorted values.
Nth(values, k) ==
    CHOOSE v \in {values[i] : i \in DOMAIN values} :
        /\ Cardinality({i \in DOMAIN values : values[i] < v}) < k
        /\ k <= Cardinality({i \in DOMAIN values : values[i] <= v})

\* _median_int()
Median(values) ==
    LET mid == Len(values) \div 2
    IN  IF Len(values) % 2 = 1 THEN Nth(values, mid + 1)
        ELSE (Nth(values, mid) + Nth(values, mid + 1)) \div 2
===============================================================================
