SPECIFICATION Spec
CONSTANTS
    t1 = t1
    t2 = t2
    own = own
    foreign = foreign
    Tx <- MCTwoRequests
    NoTx = NoTx
    Valuations <- MCNoValuations
    References <- MCOwn
    NoKey = NoKey
    CreditsOf <- MCCreditsOf
    Adjustments <- MCNoAdjustments
    MaxMovements = 3
    Ours <- MCOwn
INVARIANT
    AckedIsHandled
