SPECIFICATION FairSpec
CONSTANTS
    gateway = gateway  consumer = consumer  d1 = d1  d2 = d2  call = call
    Writers = {gateway, consumer}
    Records = {d1, d2, call}
    Ids = {d1, d2}
    Me = consumer
    Genesis = Genesis
    NoOne = NoOne
    NoRecord = NoRecord
    NoHash = NoHash
    NoId = NoId
    MaxCalls = 3
    Batch = 2
    MaxMessages = 2
    MaxSessions = 3
INVARIANTS ChainVerifies ReceiptsPerFailure
PROPERTY EveryAppendReturns
CHECK_DEADLOCK FALSE
