SPECIFICATION WorkspaceSpec
CONSTANTS
    t1 = t1
    t2 = t2
    v1 = v1
    v2 = v2
    r1 = r1
    unsigned = unsigned
    signed = signed
    unsectioned = unsectioned
    Tx <- MCOneRequest
    NoTx = NoTx
    Valuations <- MCTwoValuations
    References <- MCReferences
    NoKey = NoKey
    CreditsOf <- MCCreditsOf
    Adjustments <- MCNoAdjustments
    MaxMovements = 3
    Contents <- MCContents
    Sectioned <- MCSectioned
    Signed <- MCSigned
    Blank = unsigned
    NoHash = NoHash
    MaxVersions = 3
    blank = blank
    full = full
    p1 = p1
    p2 = p2
    k1 = k1
    k2 = k2
    Requests <- MCTwoPanels
    Captures <- MCCaptures
    Complete <- MCComplete
    Default = blank
    Comparables <- MCComparables
    Exclusions <- MCExclusions
    Lines <- MCLines
    Traced <- MCTraced
    NoValue = NoValue
    f1 = f1
    f2 = f2
    f3 = f3
    one = one
    none = none
    text = text
    Cells <- MCCells
    Nodes <- MCNodes
    Literals <- MCLiterals
    Formulas <- MCWorlds
    Homologation <- MCHomologation
    FreeTable <- MCFreeTable
    MaxInserted = 1
    MaxHidden = 1
    Concluding = Concluding
    Calculating = Calculating
    Computing = Computing
    Arranging = Arranging
SYMMETRY MCPanels
INVARIANTS
    WorkspaceTypeOK
    WorkflowContract
    StepsWithCaptures
    LockOrder
    ShownIsComputed
    CyclesAreTold
    OneOrder
    HeaderIsOverItsColumn
PROPERTIES
    ImplementsDocument
    TitlesStay
\* The requests of the panels are served once each, then the system rests.
CHECK_DEADLOCK FALSE
