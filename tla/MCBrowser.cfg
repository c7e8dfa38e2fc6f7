SPECIFICATION MCSpec
CONSTANTS
    t1 = t1
    t2 = t2
    own = own
    foreign = foreign
    Tx <- MCTwoRequests
    NoTx = NoTx
    Valuations <- MCNoValuations
    References <- MCOwnAndForeign
    NoKey = NoKey
    CreditsOf <- MCCreditsOf
    Adjustments <- MCNoAdjustments
    MaxMovements = 3
    Ours <- MCOwn
    j1 = j1
    j2 = j2
    y1 = y1
    phone = phone
    typed = typed
    untitled = untitled
    Texts <- MCTexts
    Untitled <- MCUntitled
    Formatted <- MCFormatted
    SaveRequests <- MCSaves
    Syncs <- MCSyncs
    EDITOR_HISTORY_LIMIT = 2
    MaxEdits = 2
    MaxValue = 1
    None = None
    Blocks <- MCBlocks
    Locked <- MCLocked
    Pinned <- MCPinned
    Arrangements <- MCArrangements
    MaxArranging = 2
    Editing = Editing
    Arranging = Arranging
    Buying = Buying
    Racing = Racing
INVARIANTS
    BrowserTypeOK
    SectionEditsLandAsTold
    CreditsArePaidFor
    ProcessedIsCredited
    SavedIsStored
    LeftIsStored
    PrintsConclusionUnlessUndone
PROPERTIES
    PendingIsStored
    PurchaseIsCredited
\* The requests of the editor are sent once each and the edits of a section
\* bounded, then the system rests.
CHECK_DEADLOCK FALSE
