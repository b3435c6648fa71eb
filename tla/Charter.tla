------------------------------- MODULE Charter -------------------------------
(***************************************************************************)
(* The charter of a business and what must fit it (ab_product: charter.py, *)
(* classify.py, blueprint.py, scaffold.py; promote_initiative() of         *)
(* ab_gateway/tools.py).  Colours, fonts and rendered files are left out:  *)
(* the tokens of a business are a function of its id.                      *)
(***************************************************************************)
EXTENDS Naturals

CONSTANTS
    NoBusiness,
    Slugs,                       \* well-formed business ids: ensure_slug()
    DefaultStack,                \* TechCharter.stack
    DefaultRules, DefaultDeps,   \* _DEFAULT_RULES, _DEFAULT_DEPS
    ScaffoldDeps                 \* _SCAFFOLD_DEPS

----------------------------------------------------------------------------
(* Charters.                                                               *)

\* BusinessCharter, version 1, with default_tokens().
FirstCharter(b) ==
    [business |-> b, version |-> 1, tokens |-> b,
     stack |-> DefaultStack, rules |-> DefaultRules, deps |-> DefaultDeps]

Charters(Stacks, Rules, Deps) ==
    [business : Slugs, version : Nat \ {0}, tokens : Slugs,
     stack : Stacks, rules : SUBSET Rules, deps : SUBSET Deps]

\* extend()
Extended(c, rules, deps) ==
    [business |-> c.business, version |-> c.version + 1, tokens |-> c.tokens,
     stack |-> c.stack, rules |-> c.rules \cup rules, deps |-> c.deps \cup deps]

\* is_consistent_extension(): the stack is not compared.
IsConsistentExtension(old, new) ==
    /\ new.business = old.business /\ new.version > old.version /\ new.tokens = old.tokens
    /\ old.rules \subseteq new.rules /\ old.deps \subseteq new.deps

\* charter_conformance()
Conforms(artifact, c) ==
    /\ artifact.theme = c.business
    /\ artifact.deps \subseteq c.deps
    /\ c.rules \subseteq artifact.rules
    /\ artifact.version >= 1 /\ artifact.version <= c.version

----------------------------------------------------------------------------
(* Promotion of an initiative to a scaffold.                               *)

\* classify(): an initiative names its business or gets one from its title.
Kind(i) == IF i.business # NoBusiness THEN "extension" ELSE "new"
BusinessOf(i) == IF i.business # NoBusiness THEN i.business ELSE i.slug

\* StubProductModel.spec(), the blueprint promote_initiative() uses.
DefaultBlueprint(b) == [business |-> b, tokens |-> b]

\* ModelGatewayProductModel.spec(): an abstention or a malformed answer gives
\* the default; a proposal never moves to another business.
Blueprint(b, answer) ==
    IF answer.abstains \/ answer.malformed THEN DefaultBlueprint(b)
    ELSE [business |-> b, tokens |-> answer.tokens]

\* scaffold(): what the plan declares to the gate.
Artifact(c) ==
    [theme |-> c.business, deps |-> ScaffoldDeps, rules |-> c.rules, version |-> c.version]

\* promote_initiative(): what the caller is answered, with the business whose
\* scaffold is announced.  Refused is a ToolDenied, which is audited; Failed is
\* what nobody catches, a ValidationError of a business id that is no slug.
Refused == [answer |-> "refused", business |-> NoBusiness]
Failed == [answer |-> "failed", business |-> NoBusiness]
PromoteInitiative(i, serves) ==
    LET b == BusinessOf(i)
        c == [FirstCharter(b) EXCEPT !.tokens = DefaultBlueprint(b).tokens]
        unbound == Kind(i) = "extension" /\ b \notin serves
    IN  CASE unbound -> Refused
          [] ~ unbound /\ b \notin Slugs -> Failed
          [] OTHER ->
                IF Conforms(Artifact(c), c)
                THEN [answer |-> "promoted", business |-> b] ELSE Refused
==============================================================================
