----------------------------- MODULE MCFormulas -----------------------------
(* A small instance of FormulaEngine: three formulas, every graph of what    *)
(* they read of each other, of a number, a blank cell and a text.            *)
EXTENDS FormulaEngine

CONSTANTS f1, f2, f3, one, none, text

MCCells == {f1, f2, f3}
MCNodes == <<f1, f2, f3>>
MCLiterals == [w \in {one, none, text} |-> IF w = one THEN "number" ELSE IF w = none THEN "blank" ELSE "text"]
MCWorlds ==
    [name : {"add"}, left : MCCells \cup {one}, right : MCCells]
    \cup [name : {"sum"}, left : MCCells, right : {text}]
    \cup [name : {"iferror"}, left : MCCells, right : {f1, one}]
    \cup [name : {"if"}, left : {f1, none}, right : MCCells]
=============================================================================
