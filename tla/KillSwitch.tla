----------------------------- MODULE KillSwitch ------------------------------
(***************************************************************************)
(* The kill switch (src/ab_killswitch) and the revocation list of          *)
(* src/ab_identity it writes to.  An activation is one HTTP request to     *)
(* the kill-switch service; control.activate() makes four separate writes  *)
(* (flag, revocation, audit record, event), each in a connection of its    *)
(* own, and the service may die between any two of them.  Nothing in the   *)
(* code clears a flag or a revocation.                                     *)
(***************************************************************************)
CONSTANTS
    Revocable,        \* those that POST /revoke is called for
    Targets,          \* what a target_id may name: principals and businesses
    NoTarget,         \* target_id is None
    Activations,      \* requests to POST /activate
    Orders            \* their contents: [scope, target, authorized]

VARIABLES
    order,            \* order[o]: the request body and its verified identity
    step,             \* step[o]: the statement of activate() that runs next
    flagged,          \* activations whose row is in table kill_switch
    revoked,          \* table revoked_principals
    recorded,         \* activations with their record in the audit log
    announced         \* activations whose KillSwitchActivated is on the bus
vars == <<order, step, flagged, revoked, recorded, announced>>

Scopes == {"global", "context", "agent"}       \* enum KillSwitchScope
Running == {"flag", "revoke", "audit", "publish"}
NoOrder == [scope |-> "none", target |-> NoTarget, authorized |-> FALSE]

\* state.is_killed(): an active row is global or names p as an agent.
IsKilled(p) ==
    \E o \in flagged :
        \/ order[o].scope = "global"
        \/ order[o].scope = "agent" /\ order[o].target = p

IsRevoked(p) == p \in revoked

Init ==
    /\ order = [o \in Activations |-> NoOrder]
    /\ step = [o \in Activations |-> "idle"]
    /\ flagged = {}
    /\ revoked = {}
    /\ recorded = {}
    /\ announced = {}

Goto(o, s) == step' = [step EXCEPT ![o] = s]

\* require_security_operator(): a signed identity in a mutating role.
Receive(o) ==
    /\ step[o] = "idle"
    /\ \E new \in Orders :
          /\ order' = [order EXCEPT ![o] = new]
          /\ \/ new.authorized /\ Goto(o, "flag")
             \/ ~ new.authorized /\ Goto(o, "refused")
    /\ UNCHANGED <<flagged, revoked, recorded, announced>>

SetFlag(o) ==
    /\ step[o] = "flag"
    /\ flagged' = flagged \cup {o}
    /\ Goto(o, "revoke")
    /\ UNCHANGED <<order, revoked, recorded, announced>>

\* Only an agent-scoped activation with a target revokes.
ToRevoke(ord) == IF ord.scope = "agent" THEN {ord.target} \ {NoTarget} ELSE {}

\* Mutant: the revocation is left to the identity service.
Revoke_Dropped(o) ==
    /\ step[o] = "revoke"
    /\ Goto(o, "audit")
    /\ UNCHANGED <<order, flagged, revoked, recorded, announced>>

Revoke(o) ==
    /\ step[o] = "revoke"
    /\ revoked' = revoked \cup ToRevoke(order[o])
    /\ Goto(o, "audit")
    /\ UNCHANGED <<order, flagged, recorded, announced>>

Record(o) ==
    /\ step[o] = "audit"
    /\ recorded' = recorded \cup {o}
    /\ Goto(o, "publish")
    /\ UNCHANGED <<order, flagged, revoked, announced>>

\* KillSwitchScope(scope) raises on a scope outside the enum; otherwise the
\* event is handed to a producer whose delivery errors nobody looks at.
Publish(o) ==
    /\ step[o] = "publish"
    /\ \/ /\ order[o].scope \in Scopes
          /\ announced' \in {announced, announced \cup {o}}
          /\ Goto(o, "done")
       \/ /\ order[o].scope \notin Scopes
          /\ Goto(o, "failed")
          /\ UNCHANGED announced
    /\ UNCHANGED <<order, flagged, revoked, recorded>>

Die(o) ==
    /\ step[o] \in Running
    /\ Goto(o, "failed")
    /\ UNCHANGED <<order, flagged, revoked, recorded, announced>>

\* POST /revoke of the identity service: a revocation without a flag.
RevokeAgent(p) ==
    /\ revoked' = revoked \cup {p}
    /\ UNCHANGED <<order, step, flagged, recorded, announced>>

Next ==
    \/ \E o \in Activations :
          \/ Receive(o) \/ SetFlag(o) \/ Revoke(o) \/ Record(o)
          \/ Publish(o) \/ Die(o)
    \/ \E p \in Revocable : RevokeAgent(p)

Spec == Init /\ [][Next]_vars
------------------------------------------------------------------------------
TypeOK ==
    /\ order \in [Activations -> Orders \cup {NoOrder}]
    /\ step \in [Activations -> Running \cup {"idle", "refused", "done", "failed"}]
    /\ flagged \subseteq Activations
    /\ revoked \subseteq Revocable \cup {ord.target : ord \in Orders}
    /\ recorded \subseteq Activations
    /\ announced \subseteq Activations

\* The evidence never runs ahead of the control (control.activate's order):
\* what the bus announces is in the audit log, what the log records is in
\* force (flag and revocation), and only an authorized order is in force,
\* wherever an activation died.
EvidenceFollowsControl ==
    /\ announced \subseteq recorded
    /\ recorded \subseteq flagged
    /\ \A o \in recorded : ToRevoke(order[o]) \subseteq revoked
    /\ \A o \in flagged : order[o].authorized

\* A halt is permanent: once is_killed or is_revoked answers yes for a
\* principal no later step of anybody, a dying activation included, makes it
\* answer no.
HaltsForGood ==
    [][\A p \in Targets \cup Revocable :
          /\ IsKilled(p) => IsKilled(p)'
          /\ IsRevoked(p) => IsRevoked(p)']_vars

==============================================================================
