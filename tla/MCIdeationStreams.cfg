SPECIFICATION FairSpec
CONSTANTS
    acme = acme  beta = beta  s1 = s1  s2 = s2
    Businesses = {acme}
    Starts = 1
    MaxRuns = 1
    Threads = 2
    Generators = 1
    Streams = {s1, s2}
    NoRun = NoRun
    Ended = Ended
    NoBusiness = NoBusiness
PROPERTY EveryStreamEnds
CHECK_DEADLOCK FALSE
