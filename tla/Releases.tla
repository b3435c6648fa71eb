------------------------------- MODULE Releases -------------------------------
(***************************************************************************)
(* Release control (ab_ops/reliability.py): deployments, and incidents     *)
(* with rollback and freeze.  The errors counted in the window are an      *)
(* argument of each call: any number, whatever it was before.              *)
(***************************************************************************)
EXTENDS Integers

CONSTANTS
    Versions, FirstVersion, NoVersion,
    ErrorBudget,     \* errors the window allows
    MaxErrors        \* bound on the errors of a window

ASSUME ReleasesAssumption == NoVersion \notin Versions /\ FirstVersion \in Versions

VARIABLES
    current, previous, frozen,   \* ReleaseManager
    condemned                    \* history: versions an incident rolled back from
releaseVars == <<current, previous, frozen, condemned>>

ReleasesInit ==
    /\ current = FirstVersion /\ previous = NoVersion /\ frozen = FALSE
    /\ condemned = {}

\* Mutant: only can_release() looks at the freeze, and nobody asks it.
Deploy_Frozen(v) ==
    /\ previous' = current /\ current' = v
    /\ UNCHANGED <<frozen, condemned>>

\* deploy() looks at the freeze; the budget is can_release()'s, which the
\* caller need not ask.
Deploy(v) ==
    /\ ~ frozen
    /\ previous' = current /\ current' = v
    /\ UNCHANGED <<frozen, condemned>>

\* handle_incident() with a Sev1: back to the previous version, then frozen.
\* With nothing to go back to, rollback() raises before the lines that freeze
\* are reached, and nothing changes.
Sev1 ==
    /\ previous # NoVersion
    /\ current' = previous /\ frozen' = TRUE
    /\ condemned' = condemned \cup ({current} \ {previous})
    /\ UNCHANGED previous

\* Any other incident freezes if the budget is spent.
LesserIncident(errors) ==
    /\ frozen' = (frozen \/ errors > ErrorBudget)
    /\ UNCHANGED <<current, previous, condemned>>

ReleasesNext ==
    \/ \E v \in Versions : Deploy(v)
    \/ Sev1
    \/ \E errors \in 0..MaxErrors : LesserIncident(errors)

ReleasesSpec == ReleasesInit /\ [][ReleasesNext]_releaseVars

\* A version that a Sev1 rolled back from never comes back, whatever incidents
\* and attempts to deploy follow (handle_incident() in reliability.py).
BadNeverReturns == current \notin condemned
================================================================================
