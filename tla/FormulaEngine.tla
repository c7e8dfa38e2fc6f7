---------------------------- MODULE FormulaEngine ----------------------------
(***************************************************************************)
(* The formulas of a valuation                                             *)
(* (features/valuations/services/table-formula-engine.ts): every formula   *)
(* of the tables and the concepts is computed once, each after the ones it *)
(* reads.  orderNodes walks what formulas read with a stack of its own and *)
(* marks the ones it finds on its way to themselves; evaluateFormulaWorld  *)
(* then computes in the order the walk left them.                          *)
(*                                                                         *)
(* A step of the walk or the computation of one formula is an action.  A   *)
(* formula is what it reads and how: an operation of two values, a         *)
(* function over a list, IFERROR, or IF with a branch that reads nothing.  *)
(* What a cell that is not a formula holds is a number, nothing or a text. *)
(* The other operators and functions, money, formats and the ranges a      *)
(* reference names are left out.                                           *)
(***************************************************************************)
EXTENDS Integers, Sequences

CONSTANTS
    Cells,      \* cells and concepts with a formula
    Nodes,      \* the same, in the order the tables list them
    Literals,   \* what else a formula may read: what each of them holds
    Formulas    \* the formulas the user may write

SourceKinds == {"number", "blank", "text"}

Operands == Cells \cup DOMAIN Literals

Operations == {"add", "sum", "iferror", "if"}

ASSUME NodesAssumption ==
    /\ Nodes \in Seq(Cells)
    /\ \A c \in Cells : \E i \in 1..Len(Nodes) : Nodes[i] = c
ASSUME LiteralsAssumption ==
    /\ \A w \in DOMAIN Literals : Literals[w] \in SourceKinds
    /\ Cells \cap DOMAIN Literals = {}
ASSUME FormulasAssumption == Formulas \subseteq [name : Operations, left : Operands, right : Operands]

VARIABLES
    world,      \* the formula of each cell
    state,      \* of each cell in the walk
    stack,      \* the walk: each cell on the way and how many of its reads it followed
    order,      \* cells in the order they are computed
    circular,   \* cells found on a way to themselves
    results,    \* what each cell shows
    computed    \* how many cells of the order are computed

formulaVars == <<world, state, stack, order, circular, results, computed>>

-----------------------------------------------------------------------------
(* Values *)

Pending == [ok |-> FALSE, error |-> "PENDING"]

Failure(error) == [ok |-> FALSE, error |-> error]

Number(n) == [ok |-> TRUE, value |-> n]

\* A formula that is not computed yet is part of a cycle.
readResult(result) == IF result = Pending THEN Failure("CIRCULAR_REFERENCE") ELSE result

\* A single value: nothing written is zero, and a text is no number.
Scalar(shown, o) ==
    CASE o \in Cells -> readResult(shown[o])
      [] o \notin Cells /\ Literals[o] = "number" -> Number(1)
      [] o \notin Cells /\ Literals[o] = "blank" -> Number(0)
      [] OTHER -> Failure("INVALID_NUMBER")

\* A cell of a list: texts are left out, and count for nothing.
Listed(shown, o) == IF o \in Cells THEN readResult(shown[o]) ELSE Number(IF Literals[o] = "number" THEN 1 ELSE 0)

\* Both values of an operation.  Mutant: an error counts for nothing.
BothThatAre(l, r) == IF ~l.ok THEN r ELSE IF ~r.ok THEN l ELSE Number(l.value + r.value)

Both(l, r) == IF ~l.ok THEN l ELSE IF ~r.ok THEN r ELSE Number(l.value + r.value)

\* What a formula gives from what the others show.
evaluateExpression(f, shown) ==
    LET l == Scalar(shown, f.left)
        r == Scalar(shown, f.right)
    IN  CASE f.name = "add" -> Both(l, r)
          [] f.name = "sum" -> Both(Listed(shown, f.left), Listed(shown, f.right))
          [] f.name = "iferror" -> IF l.ok THEN l ELSE r
          [] f.name = "if" -> IF ~l.ok THEN l ELSE IF l.value # 0 THEN r ELSE Number(0)

-----------------------------------------------------------------------------
(* The walk *)

\* The formulas a formula reads, each once, in the order it names them.
dependenciesOf(c) ==
    LET f == world[c]
    IN  CASE f.left \in Cells /\ f.right \in Cells /\ f.left # f.right -> <<f.left, f.right>>
          [] f.left \in Cells /\ (f.right \notin Cells \/ f.left = f.right) -> <<f.left>>
          [] f.left \notin Cells /\ f.right \in Cells -> <<f.right>>
          [] OTHER -> << >>

FormulaInit ==
    /\ world \in [Cells -> Formulas]
    /\ state = [c \in Cells |-> "new"]
    /\ stack = << >> /\ order = << >> /\ circular = {}
    /\ results = [c \in Cells |-> Pending]
    /\ computed = 0

Enters(c, below) ==
    /\ state' = [state EXCEPT ![c] = "visiting"]
    /\ stack' = Append(below, [key |-> c, next |-> 1])

\* The next cell of the tables that no walk reached.
EnterRoot ==
    /\ stack = << >>
    /\ \E i \in 1..Len(Nodes) :
          /\ state[Nodes[i]] = "new"
          /\ \A j \in 1..(i - 1) : state[Nodes[j]] # "new"
          /\ Enters(Nodes[i], << >>)
    /\ UNCHANGED <<world, order, circular, results, computed>>

Top == stack[Len(stack)]

Followed == [stack EXCEPT ![Len(stack)].next = @ + 1]

\* The next read of the cell on top: a new cell is entered,
EnterRead ==
    /\ stack # << >> /\ Top.next <= Len(dependenciesOf(Top.key))
    /\ LET read == dependenciesOf(Top.key)[Top.next]
       IN  /\ state[read] = "new"
           /\ Enters(read, Followed)
    /\ UNCHANGED <<world, order, circular, results, computed>>

\* from the last place of the cell on the stack up,
PathFrom(c) ==
    LET from == CHOOSE i \in 1..Len(stack) : stack[i].key = c /\ \A j \in (i + 1)..Len(stack) : stack[j].key # c
    IN  {stack[i].key : i \in from..Len(stack)}

\* a cell on the way closes a cycle, all of it marked, and one already walked
\* is passed over.
FollowRead ==
    /\ stack # << >> /\ Top.next <= Len(dependenciesOf(Top.key))
    /\ LET read == dependenciesOf(Top.key)[Top.next]
       IN  /\ state[read] # "new"
           /\ stack' = Followed
           /\ circular' = IF state[read] = "visiting" THEN circular \cup PathFrom(read) ELSE circular
    /\ UNCHANGED <<world, state, order, results, computed>>

\* Mutant: a cell goes before the ones it reads.
LeavesFirst ==
    /\ stack # << >> /\ Top.next > Len(dependenciesOf(Top.key))
    /\ state' = [state EXCEPT ![Top.key] = "done"]
    /\ order' = <<Top.key>> \o order
    /\ stack' = SubSeq(stack, 1, Len(stack) - 1)
    /\ UNCHANGED <<world, circular, results, computed>>

\* A cell that has followed all it reads is computed after them.
Leaves ==
    /\ stack # << >> /\ Top.next > Len(dependenciesOf(Top.key))
    /\ state' = [state EXCEPT ![Top.key] = "done"]
    /\ order' = Append(order, Top.key)
    /\ stack' = SubSeq(stack, 1, Len(stack) - 1)
    /\ UNCHANGED <<world, circular, results, computed>>

Walked == stack = << >> /\ \A c \in Cells : state[c] = "done"

\* The computation of the next cell of the order.
ComputeFormula ==
    /\ Walked /\ computed < Len(order)
    /\ LET c == order[computed + 1]
       IN  results' = [results EXCEPT ![c] =
               IF c \in circular THEN Failure("CIRCULAR_REFERENCE") ELSE evaluateExpression(world[c], results)]
    /\ computed' = computed + 1
    /\ UNCHANGED <<world, state, stack, order, circular>>

FormulaNext == EnterRoot \/ EnterRead \/ FollowRead \/ Leaves \/ ComputeFormula

FormulaSpec == FormulaInit /\ [][FormulaNext]_formulaVars

-----------------------------------------------------------------------------
(* Properties *)

Shown == Walked /\ computed = Len(order)

ReadCells(c) == {world[c].left, world[c].right} \cap Cells

\* The cells a walk along the reads of a cell reaches: the least set that holds
\* them and what they read.
ReachedBy(c, reads) ==
    {d \in Cells : \A S \in SUBSET Cells :
        reads[c] \subseteq S /\ (\A e \in S : reads[e] \subseteq S) => d \in S}

AllReads == [c \in Cells |-> ReadCells(c)]

\* What a formula cannot do without: both values of an operation, the condition
\* of an IF, and what an IFERROR falls back to when it is the same.
Needs == [c \in Cells |->
    CASE world[c].name \in {"add", "sum"} -> ReadCells(c)
      [] world[c].name = "if" -> {world[c].left} \cap Cells
      [] OTHER -> IF world[c].left = world[c].right THEN ReadCells(c) ELSE {}]

\* Every cell has one state of the walk, is on the stack once while it is
\* visited, and is ordered once when it is done.
FormulaTypeOK ==
    /\ world \in [Cells -> Formulas]
    /\ state \in [Cells -> {"new", "visiting", "done"}]
    /\ \A i \in 1..Len(stack) : stack[i].key \in Cells /\ stack[i].next \in 1..(Len(dependenciesOf(stack[i].key)) + 1)
    /\ \A c \in Cells : state[c] = "visiting" <=> \E i \in 1..Len(stack) : stack[i].key = c
    /\ order \in Seq(Cells)
    /\ \A c \in Cells : state[c] = "done" <=> \E i \in 1..Len(order) : order[i] = c
    /\ \A i, j \in 1..Len(order) : order[i] = order[j] => i = j
    /\ circular \subseteq Cells
    /\ computed \in 0..Len(order)

\* "Formulas in the order they must be computed, each after the ones it reads":
\* what every formula shows is what it gives from what the others show, with no
\* result of an earlier moment in it, whatever the graph and the order of the
\* tables (orderNodes, table-formula-engine.ts:481-520, and the loop at 566-579).
ShownIsComputed ==
    Shown => \A c \in Cells :
        results[c] = IF c \in circular THEN Failure("CIRCULAR_REFERENCE") ELSE evaluateExpression(world[c], results)

\* A formula that no cycle reaches is never told it is circular: marking stays
\* on the way from a cell to itself.
AcyclicIsComputed ==
    Shown => \A c \in Cells :
        results[c] = Failure("CIRCULAR_REFERENCE")
            => \E d \in ReachedBy(c, AllReads) \cup {c} : d \in ReachedBy(d, AllReads)

\* A formula that cannot do without its own value never shows a number,
\* whichever of the formulas of the cycle the walk reached first.
SelfReadHasNoNumber ==
    Shown => \A c \in Cells : c \in ReachedBy(c, Needs) => ~results[c].ok

\* A cycle is told to those it concerns: only formulas a cycle reaches are
\* circular, and those that cannot do without themselves have no value.
CyclesAreTold == AcyclicIsComputed /\ SelfReadHasNoNumber

\* "A formula that reads itself, directly or through others, is a
\* CIRCULAR_REFERENCE, and so is whatever reads it."
CircularIsReported ==
    Shown => \A c \in Cells : c \in ReachedBy(c, AllReads) => results[c] = Failure("CIRCULAR_REFERENCE")
=============================================================================
