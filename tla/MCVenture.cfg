SPECIFICATION SceneSpec
CONSTANTS
    acme = acme
    None = None
    NoOne = NoOne
    ApprovedPayees <- MCApprovedPayees
    Businesses <- MCBusinesses
    Budget <- MCBudget
    LlmBudget <- MCLlmBudget
    ComplianceClear = TRUE
    Cap = 2
    Offers <- MCOffers
    Launches = {p1, p2}
    Calls = {c1, c2}
    Prompts <- MCPrompts
    Leads <- MCLeads
    MinFit = 2
    MinBudget = 1
    RailRuns = 2
    Campaigns <- MCCampaigns
    AdRuns = 1
    Payments <- MCPayments
    MaxLlmRatio = 3000
    LossFloor <- MCLossFloor
    Looks = 1
    Width = 2
SYMMETRY Symmetry
INVARIANTS ActivationIsFunded BooksTieOut NothingUnbooked
PROPERTIES OverrunIsOverlap NoFalseAlarm
CHECK_DEADLOCK FALSE
