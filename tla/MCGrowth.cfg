SPECIFICATION GrowthSpec
CONSTANTS
    acme = acme
    bolt = bolt
    NoIdea = NoIdea
    Junk <- MCJunk
    ZSquared <- MCZSquared
    MinExposure = 4
    MinRate <- MCMinRate
    MaxCac = 1
    SunsetFloor <- MCSunsetFloor
    MinConclusive = 1
    InvestThreshold = 1
    Increment = 2
    Businesses <- MCBusinesses
    Operable <- MCBusinesses
    Cash <- MCCash
    Capital <- MCCapital
    Blueprint <- MCBlueprint
    Generated <- MCGenerated
    Raws <- MCRaws
    IdeaCount = 2
    Forms <- MCForms
    Batches <- MCBatches
    MaxSeen = 8
    MaxRows = 2
    Sessions = {s1}
    Runners = {r1, r2}
    MaxRewinds = 1
    Budgets = {3, 4, 7}
    social = social
    cmo = cmo
    Nobody = Nobody
    Charters <- MCCharters
    Initiator = social
    Levels = {3, 5}
    ReviewModes = {"human_approval_first_n", "always", "never"}
    ReviewFirstN = 1
    StartWeights <- MCStartWeights
    Platforms <- MCPlatforms
    PlanCount = 3
    Drafts <- MCDrafts
    Engagement <- MCEngagement
    ExperimentBudget = 5
    Pipelines = {p1, p2}
    MaxPosts = 2
    MaxReweights = 2
SYMMETRY Symmetry
INVARIANTS IdeationProposesGatedIdeas ToldOnceAsDecided ProjectionsAgree CapitalFollowsEvidence
           FirstPostsReviewed PlanIsProportional
PROPERTIES SpentOutIsDecided WinnersGain
CHECK_DEADLOCK FALSE
