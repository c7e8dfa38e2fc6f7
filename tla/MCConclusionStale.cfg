SPECIFICATION MCCalculationSpec
CONSTANTS
    blank = blank
    full = full
    p1 = p1
    p2 = p2
    k1 = k1
    k2 = k2
    Requests <- MCOnePanel
    Captures <- MCCaptures
    Complete <- MCComplete
    Default = blank
    Comparables <- MCComparables
    Exclusions <- MCExclusions
    Lines <- MCAllLines
    Traced <- MCTraced
    NoValue = NoValue
INVARIANT ConclusionFollows
\* The requests of the panels are served once each, then the system rests.
CHECK_DEADLOCK FALSE
