SPECIFICATION Spec
CONSTANTS
    cmo = cmo  growth = growth  acme = acme  draft = draft  ghost = ghost
    platform = platform  c1 = c1  c2 = c2  c3 = c3
    Principals <- MCPrincipals
    Businesses <- MCBusinesses
    NoRequest = NoRequest
    NoOne = NoOne
    ApprovedPayees <- MCApprovedPayees
    Ceiling <- MCCeiling
    Serves <- MCServes
    MayUse <- MCMayUse
    Status <- MCStatus
    Budget <- MCBudget
    Capital <- MCCapital
    ComplianceClear = TRUE
    Cap = 2
    Targets <- MCTargets
    NoTarget = NoTarget
    Calls = {c1, c2}
    Requests <- MoneyRequests
    Activations = {}
    Orders <- MCOrders
    Revocable = {}
INVARIANT NoOverdraft
CHECK_DEADLOCK FALSE
