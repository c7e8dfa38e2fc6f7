SPECIFICATION FormulaSpec
CONSTANTS
    f1 = f1
    f2 = f2
    f3 = f3
    one = one
    none = none
    text = text
    Cells <- MCCells
    Nodes <- MCNodes
    Literals <- MCLiterals
    Formulas <- MCWorlds
INVARIANT CircularIsReported
\* The computation of a document ends.
CHECK_DEADLOCK FALSE
