SPECIFICATION FairSpec
CONSTANTS
    acme = acme  beta = beta  s1 = s1  s2 = s2
    Businesses = {acme, beta}
    Starts = 2
    MaxRuns = 1
    Threads = 2
    Generators = 1
    Streams = {s1}
    NoRun = NoRun
    Ended = Ended
    NoBusiness = NoBusiness
INVARIANTS OneRunPerBusiness OneOutcome HaltBoundsSpending
PROPERTY EveryRunEnds
CHECK_DEADLOCK FALSE
