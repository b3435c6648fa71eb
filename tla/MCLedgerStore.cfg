SPECIFICATION FairSpec
CONSTANTS
    a1 = a1  a2 = a2  a3 = a3
    Attempts <- MCAttempts
    Txns <- MCTxns
    ApprovedPayees <- MCApprovedPayees
    NoOne = NoOne
    NoTxn = NoTxn
    Cap = 1
INVARIANT TrialBalanceZero
PROPERTIES ImplementsLedger EveryPostReturns
CHECK_DEADLOCK FALSE
