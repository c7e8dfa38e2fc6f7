SPECIFICATION ArrangementSpec
CONSTANTS
    Blocks <- MCBlocks
    Locked <- MCLocked
    Pinned <- MCPinned
    Arrangements <- MCOnlyPlain
    MaxArranging = 1
INVARIANT ApartadosLandAsTold
\* The edits are bounded.
CHECK_DEADLOCK FALSE
