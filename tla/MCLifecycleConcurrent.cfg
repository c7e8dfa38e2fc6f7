SPECIFICATION MCFairSpec
CONSTANTS
    t1 = t1
    t2 = t2
    v1 = v1
    v2 = v2
    r1 = r1
    unsigned = unsigned
    signed = signed
    unsectioned = unsectioned
    Tx <- MCTwoRequests
    NoTx = NoTx
    Valuations <- MCOneValuation
    References <- MCReferences
    NoKey = NoKey
    CreditsOf <- MCCreditsOf
    Adjustments <- MCNoAdjustments
    MaxMovements = 2
    Contents <- MCTwoContents
    Sectioned <- MCSectioned
    Signed <- MCSigned
    Blank = unsigned
    NoHash = NoHash
    MaxVersions = 2
INVARIANTS
    TypeOK
    LockedIffNoDraft
    VersionsChained
    ChargedIffConcluded
PROPERTIES
    ImplementsLedger EveryRequestEnds
