SPECIFICATION Spec
CONSTANTS
    Kinds = {"decision", "other", "invalid"}
    BatchSize = 2
    Sla = 1
    MaxMessages = 3
    MaxFailures = 2
    MaxTicks = 2
    Suites <- MCSuites
    Stub = stub
    LiveModels = {portkey, openrouter}
    Routed = {"ideation"}
    EvalOnBoot = TRUE
    NoModel = NoModel
    MaxPromotions = 2
    Versions = {v1, v2, v3}
    FirstVersion = v1
    NoVersion = NoVersion
    ErrorBudget = 2
    MaxErrors = 3
    twin = twin
    Nobody = Nobody
    Initiatives = {twin}
    Operators = {u1, u2}
    MaxChanges = 4
    acme = acme
    d1 = d1
    Requests = {q1, q2}
    Callers <- MCCallers
    MutatingRoles = {"operator", "security", "admin"}
    Forms <- MCForms
    Pending = {d1}
    Shops = {acme}
    NoTarget = NoTarget
    PortRole = "operator"
SYMMETRY Symmetry
INVARIANTS CountedPerAnnouncement LossPerFailure ReadyMissesOnlyRecent
           RegistryWasEvaluated BadNeverReturns GatesWerePassed
           OnlyEntitledAct PagesTellTheTruth
PROPERTY SettledUnlessStale
CHECK_DEADLOCK FALSE
