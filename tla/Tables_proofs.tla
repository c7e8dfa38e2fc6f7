--------------------------- MODULE Tables_proofs ---------------------------
(***************************************************************************)
(* What the runs check of the formulas and of the columns of a table on    *)
(* small instances, proved for any number of them: how FormulaEngine walks *)
(* and computes, and how DocumentTable keeps its columns, zones and titles *)
(* together.                                                               *)
(***************************************************************************)
EXTENDS FormulaEngine, DocumentTable, FiniteSetTheorems, WellFoundedInduction, SequenceTheorems, TLAPS

-----------------------------------------------------------------------------
(* The walk of the formulas *)

\* A frame of the walk, a cell and its next read.
Frame == [key : Cells, next : Nat \ {0}]

\* The variables of the walk hold what they should.
Shapes ==
    /\ world \in [Cells -> Formulas]
    /\ state \in [Cells -> {"new", "visiting", "done"}]
    /\ stack \in Seq(Frame)
    /\ order \in Seq(Cells)
    /\ circular \subseteq Cells
    /\ results \in [Cells -> {results[c] : c \in Cells}]
    /\ computed \in 0..Len(order)

\* No cell is followed past its last read.
WithinReads == \A i \in 1..Len(stack) : stack[i].next <= Len(dependenciesOf(stack[i].key)) + 1

\* The cells being visited are those of the stack, each once.
StackIsVisiting ==
    /\ \A c \in Cells : state[c] = "visiting" <=> \E i \in 1..Len(stack) : stack[i].key = c
    /\ \A i, j \in 1..Len(stack) : stack[i].key = stack[j].key => i = j

\* The cells done are those of the order, each once.
OrderIsDone ==
    /\ \A c \in Cells : state[c] = "done" <=> \E i \in 1..Len(order) : order[i] = c
    /\ \A i, j \in 1..Len(order) : order[i] = order[j] => i = j

\* A read that was followed is done, is the cell above, or closed a cycle.
FollowedIsDone ==
    \A i \in 1..Len(stack) : \A k \in 1..(stack[i].next - 1) :
        LET r == dependenciesOf(stack[i].key)[k]
        IN  \/ state[r] = "done"
            \/ i < Len(stack) /\ stack[i + 1].key = r
            \/ stack[i].key \in circular

\* A cell that is not circular is ordered after what it reads.
OrderFollowsReads ==
    \A i \in 1..Len(order) : order[i] \notin circular =>
        \A k \in 1..Len(dependenciesOf(order[i])) :
            \E j \in 1..(i - 1) : order[j] = dependenciesOf(order[i])[k]

\* What is computed is what the formulas give now.
ComputedIsCurrent ==
    /\ computed > 0 => Walked
    /\ \A i \in 1..computed :
          results[order[i]] = IF order[i] \in circular THEN Failure("CIRCULAR_REFERENCE")
                              ELSE evaluateExpression(world[order[i]], results)

\* The inductive invariant of an evaluation.
FormulaInv ==
    /\ Shapes /\ WithinReads /\ StackIsVisiting /\ OrderIsDone
    /\ FollowedIsDone /\ OrderFollowsReads /\ ComputedIsCurrent

-----------------------------------------------------------------------------
(* The reads of a formula *)

\* The reads of a cell are cells, and each cell its formula names is among them.
LEMMA ReadsOfFormula ==
    ASSUME Shapes, NEW c \in Cells
    PROVE  /\ world[c] \in [name : Operations, left : Operands, right : Operands]
           /\ dependenciesOf(c) \in Seq(Cells)
           /\ Len(dependenciesOf(c)) \in Nat
           /\ \A o \in {world[c].left, world[c].right} \cap Cells :
                 \E k \in 1..Len(dependenciesOf(c)) : dependenciesOf(c)[k] = o
<1>1. world[c] \in [name : Operations, left : Operands, right : Operands]
  BY FormulasAssumption DEF Shapes
<1>2. dependenciesOf(c) \in Seq(Cells) /\ Len(dependenciesOf(c)) \in Nat
  BY <1>1 DEF dependenciesOf
<1>3. \A o \in {world[c].left, world[c].right} \cap Cells :
          \E k \in 1..Len(dependenciesOf(c)) : dependenciesOf(c)[k] = o
  <2>1. CASE world[c].left \in Cells /\ world[c].right \in Cells /\ world[c].left # world[c].right
    <3>1. dependenciesOf(c) = <<world[c].left, world[c].right>>
      BY <2>1 DEF dependenciesOf
    <3> QED BY <3>1
  <2>2. CASE world[c].left \in Cells /\ (world[c].right \notin Cells \/ world[c].left = world[c].right)
    <3>1. dependenciesOf(c) = <<world[c].left>>
      BY <2>2 DEF dependenciesOf
    <3> QED BY <3>1, <2>2
  <2>3. CASE world[c].left \notin Cells /\ world[c].right \in Cells
    <3>1. dependenciesOf(c) = <<world[c].right>>
      BY <2>3 DEF dependenciesOf
    <3> QED BY <3>1, <2>3
  <2> QED BY <2>1, <2>2, <2>3
<1> QED BY <1>1, <1>2, <1>3

\* A formula gives the same from two worlds that show the same where it reads.
LEMMA EvaluationReadsItsOperands ==
    ASSUME NEW f \in [name : Operations, left : Operands, right : Operands], NEW one, NEW other,
           \A o \in {f.left, f.right} \cap Cells : one[o] = other[o]
    PROVE  evaluateExpression(f, one) = evaluateExpression(f, other)
<1>1. Scalar(one, f.left) = Scalar(other, f.left) /\ Scalar(one, f.right) = Scalar(other, f.right)
  BY DEF Scalar
<1>2. Listed(one, f.left) = Listed(other, f.left) /\ Listed(one, f.right) = Listed(other, f.right)
  BY DEF Listed
<1> QED BY <1>1, <1>2, Zenon DEF evaluateExpression

-----------------------------------------------------------------------------
(* The steps of the walk *)

\* Nothing is walked at the start.
LEMMA FormulasStart == FormulaInit => FormulaInv
  BY DEF FormulaInit, FormulaInv, Shapes, WithinReads, StackIsVisiting, OrderIsDone, FollowedIsDone,
         OrderFollowsReads, ComputedIsCurrent

\* The way with a cell entered on top of it.
LEMMA EnteredShape ==
    ASSUME stack \in Seq(Frame), NEW c \in Cells, NEW below \in Seq(Frame), Len(below) = Len(stack),
           \A i \in 1..Len(stack) : below[i].key = stack[i].key, Enters(c, below)
    PROVE  /\ stack' \in Seq(Frame) /\ Len(stack) \in Nat /\ Len(stack') = Len(stack) + 1
           /\ 1..Len(stack') = 1..Len(stack) \cup {Len(stack) + 1} /\ Len(stack) + 1 \notin 1..Len(stack)
           /\ stack'[Len(stack) + 1].key = c /\ stack'[Len(stack) + 1].next = 1
           /\ \A i \in 1..Len(stack) : stack'[i].key = stack[i].key /\ stack'[i].next = below[i].next
<1> DEFINE n == Len(stack)
           frame == [key |-> c, next |-> 1]
<1>0. frame \in Frame /\ frame.key = c /\ frame.next = 1
  BY DEF Frame
<1> HIDE DEF frame
<1>1. stack' = Append(below, frame)
  BY DEF Enters, frame
<1>2. stack' \in Seq(Frame) /\ Len(stack') = Len(below) + 1 /\ Len(below) \in Nat
  BY <1>0, <1>1
<1>3. stack'[Len(below) + 1] = frame /\ \A i \in 1..Len(below) : stack'[i] = below[i]
  BY <1>0, <1>1
<1>4. n = Len(below)
  OBVIOUS
<1>5. 1..Len(stack') = 1..n \cup {n + 1} /\ n + 1 \notin 1..n
  BY <1>2, <1>4
<1> QED BY <1>0, <1>2, <1>3, <1>4, <1>5

\* A cell no walk reached is entered over a way that reads it.
LEMMA EntersKeeps ==
    ASSUME FormulaInv, NEW c \in Cells, NEW below \in Seq(Frame), state[c] = "new",
           Len(below) = Len(stack),
           \A i \in 1..Len(stack) : below[i].key = stack[i].key,
           \A i \in 1..Len(below) : below[i].next <= Len(dependenciesOf(below[i].key)) + 1,
           \A i \in 1..Len(below) : \A k \in 1..(below[i].next - 1) :
              \/ k < stack[i].next
              \/ i = Len(below) /\ dependenciesOf(below[i].key)[k] = c,
           Enters(c, below), UNCHANGED <<world, order, circular, results, computed>>
    PROVE  FormulaInv'
<1> DEFINE n == Len(stack)
<1>2. /\ stack' \in Seq(Frame) /\ n \in Nat /\ Len(stack') = n + 1
      /\ 1..Len(stack') = 1..n \cup {n + 1} /\ n + 1 \notin 1..n
      /\ stack'[n + 1].key = c /\ stack'[n + 1].next = 1
      /\ \A i \in 1..n : stack'[i].key = stack[i].key /\ stack'[i].next = below[i].next
  BY EnteredShape DEF FormulaInv, Shapes
<1>3. /\ state' \in [Cells -> {"new", "visiting", "done"}] /\ state'[c] = "visiting"
      /\ \A d \in Cells : d # c => state'[d] = state[d]
      /\ \A d \in Cells : state'[d] = "done" <=> state[d] = "done"
  BY DEF Enters, FormulaInv, Shapes
<1>4. /\ \A d \in Cells : (dependenciesOf(d))' = dependenciesOf(d)
      /\ \A i \in 1..n : (dependenciesOf(stack[i].key))' = dependenciesOf(stack[i].key)
  BY <1>2 DEF dependenciesOf
<1>5. \A i \in 1..n : stack[i] \in Frame /\ stack[i].key \in Cells /\ stack[i].next \in Nat
  <2>1. \A i \in 1..n : stack[i] \in Frame
    BY DEF FormulaInv, Shapes
  <2> QED BY <2>1 DEF Frame
<1>a. Shapes'
  BY <1>2, <1>3 DEF FormulaInv, Shapes
<1>b. WithinReads'
  <2>1. dependenciesOf(c) \in Seq(Cells) /\ Len(dependenciesOf(c)) \in Nat
    BY ReadsOfFormula DEF FormulaInv
  <2> SUFFICES ASSUME NEW i \in 1..Len(stack')
      PROVE (stack[i].next <= Len(dependenciesOf(stack[i].key)) + 1)'
    BY DEF WithinReads
  <2>2. CASE i = Len(stack) + 1
    <3>1. (dependenciesOf(stack[i].key))' = dependenciesOf(c)
      BY <1>2, <2>2 DEF dependenciesOf
    <3> QED BY <1>2, <2>1, <2>2, <3>1
  <2>3. CASE i \in 1..Len(stack)
    BY <1>2, <1>4, <1>5, <2>3
  <2> QED BY <1>2, <2>2, <2>3
<1>c. StackIsVisiting'
  <2>1. \A i \in 1..Len(stack) : stack[i].key # c
    BY <1>5 DEF FormulaInv, StackIsVisiting
  <2>2. \A d \in Cells : state'[d] = "visiting" <=> \E i \in 1..Len(stack') : stack'[i].key = d
    <3> TAKE d \in Cells
    <3>1. CASE d = c
      <4>1. n + 1 \in 1..Len(stack')
        BY <1>2
      <4> QED BY <1>2, <1>3, <3>1, <4>1
    <3>2. CASE d # c
      <4>1. (\E i \in 1..Len(stack') : stack'[i].key = d) <=> \E i \in 1..n : stack[i].key = d
        BY <1>2, <3>2, Zenon
      <4> QED BY <1>3, <3>2, <4>1 DEF FormulaInv, StackIsVisiting
    <3> QED BY <3>1, <3>2
  <2>3. ASSUME NEW i \in 1..Len(stack'), NEW j \in 1..Len(stack'), stack'[i].key = stack'[j].key
        PROVE i = j
    <3>1. CASE i \in 1..n /\ j \in 1..n
      BY <1>2, <2>3, <3>1 DEF FormulaInv, StackIsVisiting
    <3>2. CASE i = n + 1 \/ j = n + 1
      BY <1>2, <2>1, <2>3, <3>2, Zenon
    <3> QED BY <1>2, <3>1, <3>2
  <2> QED BY <2>2, <2>3 DEF StackIsVisiting
<1>d. OrderIsDone'
  BY <1>3 DEF FormulaInv, OrderIsDone
<1>e. FollowedIsDone'
  <2> SUFFICES ASSUME NEW i \in 1..Len(stack'), NEW k \in 1..(stack'[i].next - 1)
      PROVE (LET r == dependenciesOf(stack[i].key)[k]
             IN  \/ state[r] = "done"
                 \/ i < Len(stack) /\ stack[i + 1].key = r
                 \/ stack[i].key \in circular)'
    BY DEF FollowedIsDone
  <2>1. i \in 1..Len(stack)
    BY <1>2
  <2>2. (dependenciesOf(stack[i].key))' = dependenciesOf(stack[i].key) /\ stack'[i].next = below[i].next
    BY <1>2, <1>4, <1>5, <2>1
  <2>3. dependenciesOf(stack[i].key) \in Seq(Cells) /\ k \in 1..Len(dependenciesOf(stack[i].key))
    <3>1. dependenciesOf(stack[i].key) \in Seq(Cells) /\ Len(dependenciesOf(stack[i].key)) \in Nat
      BY <1>5, <2>1, ReadsOfFormula DEF FormulaInv
    <3>2. below[i] \in Frame /\ below[i].key = stack[i].key /\ below[i].next <= Len(dependenciesOf(below[i].key)) + 1
      BY <1>2, <2>1
    <3>3. below[i].next \in Nat
      BY <3>2 DEF Frame
    <3> QED BY <3>1, <3>2, <3>3, <2>2
  <2>4. CASE k < stack[i].next
    <3>1. \/ state[dependenciesOf(stack[i].key)[k]] = "done"
          \/ i < Len(stack) /\ stack[i + 1].key = dependenciesOf(stack[i].key)[k]
          \/ stack[i].key \in circular
      BY <1>5, <2>1, <2>4 DEF FormulaInv, FollowedIsDone
    <3>2. dependenciesOf(stack[i].key)[k] \in Cells
      BY <2>3
    <3> QED BY <3>1, <3>2, <1>2, <1>3, <2>1, <2>2
  <2>5. CASE i = Len(below) /\ dependenciesOf(below[i].key)[k] = c
    BY <1>2, <2>1, <2>2, <2>5
  <2> QED BY <2>1, <2>2, <2>4, <2>5
<1>f. OrderFollowsReads'
  <2>1. \A i \in 1..Len(order) : order[i] \in Cells
    BY DEF FormulaInv, Shapes
  <2> QED BY <2>1, <1>4 DEF FormulaInv, OrderFollowsReads
<1>g. ComputedIsCurrent'
  <2>1. computed = 0
    <3>1. stack # << >> \/ \E d \in Cells : state[d] # "done"
      OBVIOUS
    <3> QED BY <3>1 DEF FormulaInv, ComputedIsCurrent, Shapes, Walked
  <2> QED BY <2>1 DEF ComputedIsCurrent
<1> QED BY <1>a, <1>b, <1>c, <1>d, <1>e, <1>f, <1>g DEF FormulaInv

\* Starting from a formula keeps the invariant of the walk,
LEMMA EnterRootKeeps == FormulaInv /\ EnterRoot => FormulaInv'
<1> SUFFICES ASSUME FormulaInv, EnterRoot PROVE FormulaInv'
  OBVIOUS
<1>1. PICK i \in 1..Len(Nodes) : state[Nodes[i]] = "new" /\ Enters(Nodes[i], << >>)
  BY DEF EnterRoot
<1>2. Nodes[i] \in Cells
  BY NodesAssumption
<1>3. stack = << >> /\ UNCHANGED <<world, order, circular, results, computed>>
  BY DEF EnterRoot
<1>4. << >> \in Seq(Frame) /\ Len(<< >>) = Len(stack) /\ 1..Len(stack) = {} /\ 1..Len(<< >>) = {}
  BY <1>3
<1> DEFINE below == << >>
<1>5. /\ below \in Seq(Frame) /\ Len(below) = Len(stack) /\ 1..Len(stack) = {} /\ 1..Len(below) = {}
      /\ Enters(Nodes[i], below)
  BY <1>1, <1>4
<1> HIDE DEF below
<1>6. /\ \A k \in 1..Len(stack) : below[k].key = stack[k].key
      /\ \A k \in 1..Len(below) : below[k].next <= Len(dependenciesOf(below[k].key)) + 1
      /\ \A k \in 1..Len(below) : \A m \in 1..(below[k].next - 1) :
            m < stack[k].next \/ (k = Len(below) /\ dependenciesOf(below[k].key)[m] = Nodes[i])
  BY <1>5
<1> QED BY <1>1, <1>2, <1>3, <1>5, <1>6, EntersKeeps

\* The frame on top, and the way with one more read of it followed.
LEMMA FollowedShape ==
    ASSUME Shapes, stack # << >>
    PROVE  /\ Len(stack) \in 1..Len(stack) /\ Top \in Frame /\ Top.key \in Cells /\ Top.next \in Nat \ {0}
           /\ Followed \in Seq(Frame) /\ Len(Followed) = Len(stack)
           /\ \A i \in 1..Len(stack) : Followed[i].key = stack[i].key
           /\ \A i \in 1..Len(stack) : i # Len(stack) => Followed[i].next = stack[i].next
           /\ Followed[Len(stack)].next = Top.next + 1
<1>1. stack \in Seq(Frame) /\ Len(stack) \in Nat \ {0} /\ Len(stack) \in 1..Len(stack)
  BY DEF Shapes
<1>2. Top \in Frame
  BY <1>1 DEF Top
<1>3. Top.key \in Cells /\ Top.next \in Nat \ {0}
  BY <1>2 DEF Frame
<1> DEFINE more == [stack[Len(stack)] EXCEPT !.next = @ + 1]
<1>4. more \in Frame /\ more.key = Top.key /\ more.next = Top.next + 1
  <2>1. stack[Len(stack)] \in [key : Cells, next : Nat \ {0}]
    BY <1>2 DEF Top, Frame
  <2> QED BY <2>1 DEF Frame, Top
<1>5. Followed = [stack EXCEPT ![Len(stack)] = more]
  BY DEF Followed
<1> HIDE DEF more
<1>6. /\ Followed \in Seq(Frame) /\ Len(Followed) = Len(stack)
      /\ \A i \in 1..Len(stack) : Followed[i] = IF i = Len(stack) THEN more ELSE stack[i]
  BY <1>1, <1>4, <1>5
<1> QED BY <1>1, <1>2, <1>3, <1>4, <1>6 DEF Top

\* The next read of the cell on top is a cell.
LEMMA NextReadIsACell ==
    ASSUME Shapes, stack # << >>, Top.next <= Len(dependenciesOf(Top.key))
    PROVE  dependenciesOf(Top.key)[Top.next] \in Cells
<1>1. Top.key \in Cells /\ Top.next \in Nat \ {0}
  BY FollowedShape
<1>2. dependenciesOf(Top.key) \in Seq(Cells) /\ Len(dependenciesOf(Top.key)) \in Nat
  BY <1>1, ReadsOfFormula
<1> QED BY <1>1, <1>2

\* Following the next read keeps every frame within what its cell reads.
LEMMA FollowedIsWithin ==
    ASSUME Shapes, WithinReads, stack # << >>, Top.next <= Len(dependenciesOf(Top.key))
    PROVE  \A i \in 1..Len(Followed) : Followed[i].next <= Len(dependenciesOf(Followed[i].key)) + 1
<1>1. Top.key \in Cells /\ Len(dependenciesOf(Top.key)) \in Nat /\ Top.next \in Nat
  BY FollowedShape, ReadsOfFormula
<1> TAKE i \in 1..Len(Followed)
<1>2. CASE i = Len(stack)
  BY <1>1, <1>2, FollowedShape DEF Top
<1>3. CASE i # Len(stack)
  BY <1>3, FollowedShape DEF WithinReads
<1> QED BY <1>2, <1>3

\* entering what it reads does,
LEMMA EnterReadKeeps == FormulaInv /\ EnterRead => FormulaInv'
<1> SUFFICES ASSUME FormulaInv, EnterRead PROVE FormulaInv'
  OBVIOUS
<1> DEFINE read == dependenciesOf(Top.key)[Top.next]
<1>1. /\ stack # << >> /\ Top.next <= Len(dependenciesOf(Top.key)) /\ state[read] = "new"
      /\ Enters(read, Followed) /\ UNCHANGED <<world, order, circular, results, computed>>
  BY DEF EnterRead
<1>2. read \in Cells
  BY <1>1, NextReadIsACell DEF FormulaInv
<1>3. /\ Followed \in Seq(Frame) /\ Len(Followed) = Len(stack)
      /\ \A i \in 1..Len(stack) : Followed[i].key = stack[i].key
  BY <1>1, FollowedShape DEF FormulaInv
<1>4. \A i \in 1..Len(Followed) : Followed[i].next <= Len(dependenciesOf(Followed[i].key)) + 1
  BY <1>1, FollowedIsWithin DEF FormulaInv
<1>5. \A i \in 1..Len(Followed) : \A k \in 1..(Followed[i].next - 1) :
          k < stack[i].next \/ (i = Len(Followed) /\ dependenciesOf(Followed[i].key)[k] = read)
  <2> TAKE i \in 1..Len(Followed)
  <2> TAKE k \in 1..(Followed[i].next - 1)
  <2>1. CASE i # Len(stack)
    <3>1. Followed[i].next = stack[i].next /\ stack[i] \in Frame
      BY <1>1, <1>3, <2>1, FollowedShape DEF FormulaInv, Shapes
    <3> QED BY <3>1 DEF Frame
  <2>2. CASE i = Len(stack)
    <3>1. Followed[i].next = Top.next + 1 /\ Top.next \in Nat /\ Followed[i].key = Top.key /\ stack[i] = Top
      BY <1>1, <1>3, <2>2, FollowedShape DEF FormulaInv, Top
    <3>2. k < Top.next \/ k = Top.next
      BY <3>1
    <3> QED BY <1>3, <2>2, <3>1, <3>2
  <2> QED BY <2>1, <2>2
<1> HIDE DEF read
<1> QED BY <1>1, <1>2, <1>3, <1>4, <1>5, EntersKeeps

\* No formula is computed during a walk.
LEMMA WalkBeforeComputing == ASSUME FormulaInv, stack # << >> PROVE computed = 0
  BY DEF FormulaInv, Shapes, ComputedIsCurrent, Walked

\* The cell on top of the way is on the way to whatever is visited.
LEMMA TopOnEveryPath ==
    ASSUME FormulaInv, stack # << >>, NEW c \in Cells, state[c] = "visiting"
    PROVE  Top.key \in PathFrom(c) /\ PathFrom(c) \subseteq Cells
           /\ \A d \in PathFrom(c) : state[d] = "visiting"
<1> DEFINE From(i) == stack[i].key = c /\ \A j \in (i + 1)..Len(stack) : stack[j].key # c
           from == CHOOSE i \in 1..Len(stack) : From(i)
<1>1. Len(stack) \in Nat \ {0} /\ \A i \in 1..Len(stack) : stack[i] \in Frame
  BY DEF FormulaInv, Shapes
<1>2. PICK i \in 1..Len(stack) : stack[i].key = c
  BY DEF FormulaInv, StackIsVisiting
<1>3. \A j \in (i + 1)..Len(stack) : stack[j].key # c
  <2> TAKE j \in (i + 1)..Len(stack)
  <2>1. j \in 1..Len(stack) /\ j # i
    BY <1>1
  <2> QED BY <2>1, <1>2 DEF FormulaInv, StackIsVisiting
<1>4. from \in 1..Len(stack)
  BY <1>2, <1>3
<1>5. PathFrom(c) = {stack[k].key : k \in from..Len(stack)}
  BY DEF PathFrom
<1> HIDE DEF from
<1>6. Len(stack) \in from..Len(stack) /\ from..Len(stack) \subseteq 1..Len(stack)
  BY <1>1, <1>4
<1>7. \A k \in 1..Len(stack) : stack[k].key \in Cells /\ state[stack[k].key] = "visiting"
  <2>1. \A k \in 1..Len(stack) : stack[k].key \in Cells
    BY <1>1 DEF Frame
  <2> QED BY <2>1 DEF FormulaInv, StackIsVisiting
<1> QED BY <1>5, <1>6, <1>7 DEF Top

\* passing over what was visited,
LEMMA FollowReadKeeps == FormulaInv /\ FollowRead => FormulaInv'
<1> SUFFICES ASSUME FormulaInv, FollowRead PROVE FormulaInv'
  OBVIOUS
<1> DEFINE n == Len(stack)
           read == dependenciesOf(Top.key)[Top.next]
<1>1. /\ stack # << >> /\ Top.next <= Len(dependenciesOf(Top.key)) /\ state[read] # "new"
      /\ stack' = Followed
      /\ circular' = IF state[read] = "visiting" THEN circular \cup PathFrom(read) ELSE circular
      /\ UNCHANGED <<world, state, order, results, computed>>
  BY DEF FollowRead
<1>2. read \in Cells
  BY <1>1, NextReadIsACell DEF FormulaInv
<1>3. /\ n \in Nat /\ n \in 1..n /\ stack' \in Seq(Frame) /\ Len(stack') = n
      /\ \A i \in 1..n : stack'[i].key = stack[i].key
      /\ \A i \in 1..n : i # n => stack'[i].next = stack[i].next
      /\ stack'[n].next = Top.next + 1
      /\ Top.key \in Cells /\ Top.next \in Nat
  BY <1>1, FollowedShape DEF FormulaInv
<1>4. /\ \A d \in Cells : (dependenciesOf(d))' = dependenciesOf(d)
      /\ \A i \in 1..n : (dependenciesOf(stack[i].key))' = dependenciesOf(stack[i].key)
  BY <1>1, <1>3 DEF dependenciesOf
<1>5. /\ circular \subseteq circular' /\ circular' \subseteq Cells
      /\ \A d \in circular' \ circular : state[d] = "visiting"
      /\ state[read] = "visiting" => Top.key \in circular'
  BY <1>1, <1>2, TopOnEveryPath DEF FormulaInv, Shapes
<1>6. state[read] \in {"visiting", "done"}
  BY <1>1, <1>2 DEF FormulaInv, Shapes
<1> HIDE DEF read
<1>a. Shapes'
  BY <1>1, <1>3, <1>5 DEF FormulaInv, Shapes
<1>b. WithinReads'
  <2>1. \A i \in 1..n : Followed[i].next <= Len(dependenciesOf(Followed[i].key)) + 1
    BY <1>1, <1>3, FollowedIsWithin DEF FormulaInv
  <2> QED BY <2>1, <1>1, <1>3, <1>4 DEF WithinReads
<1>c. StackIsVisiting'
  BY <1>1, <1>3 DEF FormulaInv, StackIsVisiting
<1>d. OrderIsDone'
  BY <1>1 DEF FormulaInv, OrderIsDone
<1>e. FollowedIsDone'
  <2> SUFFICES ASSUME NEW i \in 1..Len(stack'), NEW k \in 1..(stack'[i].next - 1)
      PROVE (LET r == dependenciesOf(stack[i].key)[k]
             IN  \/ state[r] = "done"
                 \/ i < Len(stack) /\ stack[i + 1].key = r
                 \/ stack[i].key \in circular)'
    BY DEF FollowedIsDone
  <2>1. i \in 1..n /\ (i < n => i + 1 \in 1..n)
    BY <1>3
  <2>2. \/ state[dependenciesOf(stack[i].key)[k]] = "done"
        \/ i < n /\ stack[i + 1].key = dependenciesOf(stack[i].key)[k]
        \/ stack[i].key \in circular'
    <3>1. CASE i # n \/ k < Top.next
      <4>1. k \in 1..(stack[i].next - 1)
        BY <3>1, <1>3, <2>1 DEF Top
      <4> QED BY <4>1, <1>5, <2>1 DEF FormulaInv, FollowedIsDone
    <3>2. CASE i = n /\ k = Top.next
      BY <3>2, <1>5, <1>6 DEF Top, read
    <3> QED BY <3>1, <3>2, <1>3, <2>1
  <2>3. stack'[i].key = stack[i].key /\ (dependenciesOf(stack[i].key))' = dependenciesOf(stack[i].key)
    BY <1>3, <1>4, <2>1
  <2> QED BY <1>1, <1>3, <2>1, <2>2, <2>3
<1>f. OrderFollowsReads'
  <2>1. \A i \in 1..Len(order) : order[i] \in Cells
    BY DEF FormulaInv, Shapes
  <2> QED BY <2>1, <1>1, <1>4, <1>5 DEF FormulaInv, OrderFollowsReads
<1>g. ComputedIsCurrent'
  <2>1. computed = 0
    BY <1>1, WalkBeforeComputing
  <2> QED BY <1>1, <2>1 DEF ComputedIsCurrent
<1> QED BY <1>a, <1>b, <1>c, <1>d, <1>e, <1>f, <1>g DEF FormulaInv

\* The way without the cell on top of it.
LEMMA LeftShape ==
    ASSUME stack \in Seq(Frame), stack # << >>, stack' = SubSeq(stack, 1, Len(stack) - 1)
    PROVE  /\ stack' \in Seq(Frame) /\ Len(stack') = Len(stack) - 1 /\ Len(stack) \notin 1..(Len(stack) - 1)
           /\ 1..Len(stack) = 1..(Len(stack) - 1) \cup {Len(stack)}
           /\ \A i \in 1..(Len(stack) - 1) : stack'[i] = stack[i]
<1>1. PICK n \in Nat \ {0} : n = Len(stack)
  OBVIOUS
<1>2. n - 1 \in Int /\ 1 \in Int /\ \A i \in 1..(n - 1) : stack[i] \in Frame
  BY <1>1
<1>3. /\ SubSeq(stack, 1, n - 1) \in Seq(Frame)
      /\ Len(SubSeq(stack, 1, n - 1)) = IF 1 <= n - 1 THEN (n - 1) - 1 + 1 ELSE 0
      /\ \A i \in 1..((n - 1) - 1 + 1) : SubSeq(stack, 1, n - 1)[i] = stack[1 + i - 1]
  BY <1>2, SubSeqProperties
<1>4. (n - 1) - 1 + 1 = n - 1 /\ (~(1 <= n - 1) => n - 1 = 0) /\ \A i \in 1..(n - 1) : 1 + i - 1 = i
  BY <1>1
<1>5. n \notin 1..(n - 1) /\ 1..n = 1..(n - 1) \cup {n}
  BY <1>1
<1> QED BY <1>1, <1>3, <1>4, <1>5

\* leaving a formula,
LEMMA LeavesKeeps == FormulaInv /\ Leaves => FormulaInv'
<1> SUFFICES ASSUME FormulaInv, Leaves PROVE FormulaInv'
  OBVIOUS
<1> DEFINE n == Len(stack)
           c == Top.key
           m == Len(order)
<1>1. /\ stack # << >> /\ Top.next > Len(dependenciesOf(c))
      /\ state' = [state EXCEPT ![c] = "done"] /\ order' = Append(order, c)
      /\ stack' = SubSeq(stack, 1, n - 1) /\ UNCHANGED <<world, circular, results, computed>>
  BY DEF Leaves
<1>2. /\ n \in Nat \ {0} /\ n \in 1..n /\ c \in Cells /\ Top.next \in Nat /\ stack[n].key = c /\ stack[n].next = Top.next
      /\ \A i \in 1..n : stack[i] \in Frame /\ stack[i].key \in Cells
  <2>1. n \in Nat \ {0} /\ n \in 1..n /\ c \in Cells /\ Top.next \in Nat /\ stack[n] = Top
    BY <1>1, FollowedShape DEF FormulaInv, Top
  <2>2. \A i \in 1..n : stack[i] \in Frame
    BY DEF FormulaInv, Shapes
  <2> QED BY <2>1, <2>2 DEF Frame
<1> HIDE DEF c
<1>3. /\ stack' \in Seq(Frame) /\ Len(stack') = n - 1 /\ n \notin 1..(n - 1)
      /\ 1..n = 1..(n - 1) \cup {n} /\ \A i \in 1..(n - 1) : stack'[i] = stack[i]
  BY <1>1, LeftShape DEF FormulaInv, Shapes
<1>4. /\ order' \in Seq(Cells) /\ m \in Nat /\ Len(order') = m + 1 /\ order'[m + 1] = c
      /\ 1..Len(order') = 1..m \cup {m + 1} /\ m + 1 \notin 1..m
      /\ \A i \in 1..m : order'[i] = order[i] /\ order[i] \in Cells
  BY <1>1, <1>2 DEF FormulaInv, Shapes
<1>5. /\ state[c] = "visiting" /\ state'[c] = "done"
      /\ \A d \in Cells : d # c => state'[d] = state[d]
      /\ state' \in [Cells -> {"new", "visiting", "done"}]
  BY <1>1, <1>2 DEF FormulaInv, Shapes, StackIsVisiting
<1>6. /\ \A d \in Cells : (dependenciesOf(d))' = dependenciesOf(d)
      /\ \A i \in 1..(n - 1) : (dependenciesOf(stack[i].key))' = dependenciesOf(stack[i].key)
      /\ \A i \in 1..m : (dependenciesOf(order[i]))' = dependenciesOf(order[i])
      /\ \A i \in {m + 1} : (dependenciesOf(order[i]))' = dependenciesOf(c)
  BY <1>1, <1>3, <1>4 DEF dependenciesOf
<1>7. dependenciesOf(c) \in Seq(Cells) /\ Len(dependenciesOf(c)) \in Nat
  BY <1>2, ReadsOfFormula DEF FormulaInv
<1>8. computed = 0
  BY <1>1, WalkBeforeComputing
<1>a. Shapes'
  BY <1>1, <1>3, <1>4, <1>5, <1>8 DEF FormulaInv, Shapes
<1>b. WithinReads'
  BY <1>3, <1>6 DEF FormulaInv, WithinReads
<1>c. StackIsVisiting'
  <2>1. \A i \in 1..(n - 1) : stack[i].key # c
    BY <1>2, <1>3 DEF FormulaInv, StackIsVisiting
  <2>2. \A d \in Cells : state'[d] = "visiting" <=> \E i \in 1..Len(stack') : stack'[i].key = d
    <3> TAKE d \in Cells
    <3>1. CASE d = c
      BY <1>3, <1>5, <2>1, <3>1
    <3>2. CASE d # c
      <4>1. (\E i \in 1..Len(stack') : stack'[i].key = d) <=> \E i \in 1..n : stack[i].key = d
        BY <1>2, <1>3, <3>2, Zenon
      <4> QED BY <1>5, <3>2, <4>1 DEF FormulaInv, StackIsVisiting
    <3> QED BY <3>1, <3>2
  <2> QED BY <1>3, <2>2 DEF FormulaInv, StackIsVisiting
<1>d. OrderIsDone'
  <2>1. \A i \in 1..m : order[i] # c
    BY <1>2, <1>4, <1>5 DEF FormulaInv, OrderIsDone
  <2>2. \A d \in Cells : state'[d] = "done" <=> \E i \in 1..Len(order') : order'[i] = d
    <3> TAKE d \in Cells
    <3>1. CASE d = c
      <4>1. m + 1 \in 1..Len(order')
        BY <1>4
      <4> QED BY <1>4, <1>5, <3>1, <4>1
    <3>2. CASE d # c
      <4>1. (\E i \in 1..Len(order') : order'[i] = d) <=> \E i \in 1..m : order[i] = d
        BY <1>4, <3>2, Zenon
      <4> QED BY <1>5, <3>2, <4>1 DEF FormulaInv, OrderIsDone
    <3> QED BY <3>1, <3>2
  <2>3. ASSUME NEW i \in 1..Len(order'), NEW j \in 1..Len(order'), order'[i] = order'[j]
        PROVE i = j
    <3>1. CASE i \in 1..m /\ j \in 1..m
      BY <1>4, <2>3, <3>1 DEF FormulaInv, OrderIsDone
    <3>2. CASE i = m + 1 \/ j = m + 1
      BY <1>4, <2>1, <2>3, <3>2, Zenon
    <3> QED BY <1>4, <3>1, <3>2
  <2> QED BY <2>2, <2>3 DEF OrderIsDone
<1>e. FollowedIsDone'
  <2> SUFFICES ASSUME NEW i \in 1..Len(stack'), NEW k \in 1..(stack'[i].next - 1)
      PROVE (LET r == dependenciesOf(stack[i].key)[k]
             IN  \/ state[r] = "done"
                 \/ i < Len(stack) /\ stack[i + 1].key = r
                 \/ stack[i].key \in circular)'
    BY DEF FollowedIsDone
  <2>1. i \in 1..(n - 1) /\ i \in 1..n /\ stack'[i] = stack[i]
    BY <1>3
  <2>2. dependenciesOf(stack[i].key)[k] \in Cells
    <3>1. dependenciesOf(stack[i].key) \in Seq(Cells) /\ Len(dependenciesOf(stack[i].key)) \in Nat
      BY <1>2, <2>1, ReadsOfFormula DEF FormulaInv
    <3>2. stack[i].next \in Nat /\ stack[i].next <= Len(dependenciesOf(stack[i].key)) + 1
      BY <1>2, <2>1 DEF FormulaInv, WithinReads, Frame
    <3>3. k \in 1..Len(dependenciesOf(stack[i].key))
      BY <2>1, <3>1, <3>2
    <3> QED BY <3>1, <3>3
  <2>3. \/ state[dependenciesOf(stack[i].key)[k]] = "done"
        \/ i < n /\ stack[i + 1].key = dependenciesOf(stack[i].key)[k]
        \/ stack[i].key \in circular
    BY <2>1 DEF FormulaInv, FollowedIsDone
  <2>4. CASE state[dependenciesOf(stack[i].key)[k]] = "done"
    BY <1>5, <1>6, <2>1, <2>2, <2>4
  <2>5. CASE i < n /\ stack[i + 1].key = dependenciesOf(stack[i].key)[k]
    <3>1. CASE i + 1 = n
      BY <1>2, <1>5, <1>6, <2>1, <2>5, <3>1
    <3>2. CASE i + 1 # n
      <4>1. i + 1 \in 1..(n - 1) /\ i < n - 1
        BY <1>2, <2>1, <2>5, <3>2
      <4> QED BY <1>3, <1>6, <2>1, <2>5, <4>1
    <3> QED BY <3>1, <3>2
  <2>6. CASE stack[i].key \in circular
    BY <1>1, <2>1, <2>6
  <2> QED BY <2>3, <2>4, <2>5, <2>6
<1>f. OrderFollowsReads'
  <2> SUFFICES ASSUME NEW i \in 1..Len(order'), order'[i] \notin circular
      PROVE (\A k \in 1..Len(dependenciesOf(order[i])) :
                \E j \in 1..(i - 1) : order[j] = dependenciesOf(order[i])[k])'
    BY <1>1 DEF OrderFollowsReads
  <2>1. CASE i \in 1..m
    <3>1. \A k \in 1..Len(dependenciesOf(order[i])) : \E j \in 1..(i - 1) : order[j] = dependenciesOf(order[i])[k]
      BY <1>4, <2>1 DEF FormulaInv, OrderFollowsReads
    <3>2. \A j \in 1..(i - 1) : j \in 1..m
      BY <1>4, <2>1
    <3> QED BY <1>4, <1>6, <2>1, <3>1, <3>2
  <2>2. CASE i = m + 1
    <3>1. c \notin circular
      BY <1>4, <2>2
    <3>2. \A k \in 1..Len(dependenciesOf(c)) : state[dependenciesOf(c)[k]] = "done"
      <4> TAKE k \in 1..Len(dependenciesOf(c))
      <4>1. k \in 1..(stack[n].next - 1) /\ ~(n < n)
        BY <1>1, <1>2, <1>7
      <4> QED BY <1>2, <3>1, <4>1 DEF FormulaInv, FollowedIsDone
    <3>3. \A k \in 1..Len(dependenciesOf(c)) : \E j \in 1..m : order[j] = dependenciesOf(c)[k]
      BY <1>7, <3>2 DEF FormulaInv, OrderIsDone
    <3>4. i - 1 = m
      BY <1>4, <2>2
    <3> QED BY <1>4, <1>6, <2>2, <3>3, <3>4
  <2> QED BY <1>4, <2>1, <2>2
<1>g. ComputedIsCurrent'
  BY <1>1, <1>8 DEF ComputedIsCurrent
<1> QED BY <1>a, <1>b, <1>c, <1>d, <1>e, <1>f, <1>g DEF FormulaInv

\* What a walk left stays as it is while nothing is walked.
LEMMA WalkKept ==
    ASSUME UNCHANGED <<world, state, stack, order, circular>>
    PROVE  /\ WithinReads => WithinReads'
           /\ StackIsVisiting => StackIsVisiting'
           /\ OrderIsDone => OrderIsDone'
           /\ FollowedIsDone => FollowedIsDone'
           /\ OrderFollowsReads => OrderFollowsReads'
<1>1. WithinReads => WithinReads'
  BY DEF WithinReads, dependenciesOf
<1>2. StackIsVisiting => StackIsVisiting'
  BY DEF StackIsVisiting
<1>3. OrderIsDone => OrderIsDone'
  BY DEF OrderIsDone
<1>4. FollowedIsDone => FollowedIsDone'
  BY DEF FollowedIsDone, dependenciesOf
<1>5. OrderFollowsReads => OrderFollowsReads'
  BY DEF OrderFollowsReads, dependenciesOf
<1> QED BY <1>1, <1>2, <1>3, <1>4, <1>5

\* computing one,
LEMMA ComputeFormulaKeeps == FormulaInv /\ ComputeFormula => FormulaInv'
<1> SUFFICES ASSUME FormulaInv, ComputeFormula PROVE FormulaInv'
  OBVIOUS
<1> DEFINE c == order[computed + 1]
           given == IF c \in circular THEN Failure("CIRCULAR_REFERENCE") ELSE evaluateExpression(world[c], results)
<1>1. /\ Walked /\ computed < Len(order) /\ computed' = computed + 1
      /\ results' = [results EXCEPT ![c] = given]
      /\ UNCHANGED <<world, state, stack, order, circular>>
  BY DEF ComputeFormula
<1>2. /\ computed \in Nat /\ Len(order) \in Nat /\ computed + 1 \in 1..Len(order)
      /\ \A i \in 1..(computed + 1) : i \in 1..Len(order) /\ order[i] \in Cells
  BY <1>1 DEF FormulaInv, Shapes
<1>3. /\ c \in Cells
      /\ \A i \in 1..computed : order[i] # c
      /\ 1..(computed + 1) = 1..computed \cup {computed + 1}
  BY <1>2 DEF FormulaInv, OrderIsDone
<1>4. results'[c] = given /\ \A d \in Cells : d # c => results'[d] = results[d]
  BY <1>1, <1>3 DEF FormulaInv, Shapes
<1> HIDE DEF given
<1>5. \A i \in 1..(computed + 1) : order[i] \notin circular =>
          evaluateExpression(world[order[i]], results') = evaluateExpression(world[order[i]], results)
  <2> SUFFICES ASSUME NEW i \in 1..(computed + 1), order[i] \notin circular
      PROVE evaluateExpression(world[order[i]], results') = evaluateExpression(world[order[i]], results)
    OBVIOUS
  <2> DEFINE f == world[order[i]]
  <2>1. f \in [name : Operations, left : Operands, right : Operands]
    BY <1>2, ReadsOfFormula DEF FormulaInv
  <2>2. ASSUME NEW o \in {f.left, f.right} \cap Cells
        PROVE results'[o] = results[o]
    <3>1. PICK k \in 1..Len(dependenciesOf(order[i])) : dependenciesOf(order[i])[k] = o
      BY <1>2, ReadsOfFormula DEF FormulaInv
    <3>2. PICK j \in 1..(i - 1) : order[j] = o
      BY <1>2, <3>1 DEF FormulaInv, OrderFollowsReads
    <3>3. j \in 1..computed
      BY <1>2
    <3> QED BY <1>3, <1>4, <3>2, <3>3
  <2> HIDE DEF f
  <2>3. evaluateExpression(f, results') = evaluateExpression(f, results)
    BY <2>1, <2>2, EvaluationReadsItsOperands
  <2> QED BY <2>3 DEF f
<1>a. Shapes'
  BY <1>1, <1>2 DEF FormulaInv, Shapes
<1>b. WithinReads' /\ StackIsVisiting' /\ OrderIsDone' /\ FollowedIsDone' /\ OrderFollowsReads'
  BY <1>1, WalkKept DEF FormulaInv
<1>c. ComputedIsCurrent'
  <2>1. Walked'
    BY <1>1 DEF Walked
  <2> SUFFICES ASSUME NEW i \in 1..(computed + 1)
      PROVE results'[order[i]] = IF order[i] \in circular THEN Failure("CIRCULAR_REFERENCE")
                                 ELSE evaluateExpression(world[order[i]], results')
    BY <1>1, <2>1 DEF ComputedIsCurrent
  <2>2. CASE i = computed + 1
    BY <1>2, <1>4, <1>5, <2>2 DEF given
  <2>3. CASE i \in 1..computed
    BY <1>2, <1>3, <1>4, <1>5, <2>3 DEF FormulaInv, ComputedIsCurrent
  <2> QED BY <1>3, <2>2, <2>3
<1> QED BY <1>a, <1>b, <1>c DEF FormulaInv

\* and a step of somebody else.
LEMMA FormulaStuttersKeep == FormulaInv /\ UNCHANGED formulaVars => FormulaInv'
<1> SUFFICES ASSUME FormulaInv, UNCHANGED formulaVars PROVE FormulaInv'
  OBVIOUS
<1>1. UNCHANGED <<world, state, stack, order, circular, results, computed>>
  BY DEF formulaVars
<1>2. Shapes'
  BY <1>1 DEF FormulaInv, Shapes
<1>3. ComputedIsCurrent'
  BY <1>1 DEF FormulaInv, ComputedIsCurrent, Walked
<1> QED BY <1>1, <1>2, <1>3, WalkKept DEF FormulaInv

\* Every step keeps the invariant of the walk.
LEMMA FormulaStepsKeep == FormulaInv /\ [FormulaNext]_formulaVars => FormulaInv'
  BY EnterRootKeeps, EnterReadKeeps, FollowReadKeeps, LeavesKeeps, ComputeFormulaKeeps, FormulaStuttersKeep
     DEF FormulaNext

\* The walk visits each formula once and orders it after everything it reads
\* that is not on a cycle with it.
THEOREM FormulasInOrder == FormulaSpec => []FormulaInv
  BY FormulasStart, FormulaStepsKeep, PTL DEF FormulaSpec

-----------------------------------------------------------------------------
(* What the formulas show *)

\* The invariant of the walk gives its shape,
LEMMA InvTypesFormulas == FormulaInv => FormulaTypeOK
<1> SUFFICES ASSUME FormulaInv PROVE FormulaTypeOK
  OBVIOUS
<1>1. \A i \in 1..Len(stack) : stack[i].key \in Cells /\ stack[i].next \in 1..(Len(dependenciesOf(stack[i].key)) + 1)
  <2> TAKE i \in 1..Len(stack)
  <2>1. stack[i] \in Frame
    BY DEF FormulaInv, Shapes
  <2>2. stack[i].key \in Cells /\ stack[i].next \in Nat \ {0}
    BY <2>1 DEF Frame
  <2>3. Len(dependenciesOf(stack[i].key)) \in Nat
    BY <2>2, ReadsOfFormula DEF FormulaInv
  <2> QED BY <2>2, <2>3 DEF FormulaInv, WithinReads
<1> QED BY <1>1 DEF FormulaInv, Shapes, StackIsVisiting, OrderIsDone, FormulaTypeOK

\* Every formula has one state of the walk, is on the way once while it is
\* visited and is ordered once when it is done.
THEOREM FormulasTyped == FormulaSpec => []FormulaTypeOK
  BY FormulasInOrder, InvTypesFormulas, PTL

\* and that no computed formula shows a stale value.
LEMMA InvShowsComputed == FormulaInv => ShownIsComputed
<1> SUFFICES ASSUME FormulaInv, Shown, NEW c \in Cells
    PROVE results[c] = IF c \in circular THEN Failure("CIRCULAR_REFERENCE") ELSE evaluateExpression(world[c], results)
  BY DEF ShownIsComputed
<1>1. PICK i \in 1..Len(order) : order[i] = c
  BY DEF FormulaInv, OrderIsDone, Shown, Walked
<1>2. i \in 1..computed
  BY DEF Shown
<1> QED BY <1>1, <1>2 DEF FormulaInv, ComputedIsCurrent

\* However many formulas there are and whatever they read, what each one shows
\* when the computation ends is what it gives from what the others show.
THEOREM FormulasShowComputed == FormulaSpec => []ShownIsComputed
  BY FormulasInOrder, InvShowsComputed, PTL

-----------------------------------------------------------------------------
(* Cycles *)

\* A walk along the reads of the cell comes to a cell that reaches itself.
Concerned(c) == \E d \in ReachedBy(c, AllReads) \cup {c} : d \in ReachedBy(d, AllReads)

\* Each cell on the way is reached from those below it.
WayReaches == \A i, j \in 1..Len(stack) : i < j => stack[j].key \in ReachedBy(stack[i].key, AllReads)

\* A circular cell reaches itself along the reads.
CircularReachThemselves == \A d \in circular : d \in ReachedBy(d, AllReads)

\* What is computed is not pending, and is circular only where a cycle concerns it.
ComputedIsTold ==
    \A i \in 1..computed :
        /\ results[order[i]] # Pending
        /\ results[order[i]] = Failure("CIRCULAR_REFERENCE") => Concerned(order[i])

\* With it, what is told of the cells of a cycle.
CycleInv == FormulaInv /\ WayReaches /\ CircularReachThemselves /\ ComputedIsTold

\* What a cell reads is reached, and reaching is transitive, for the reads of
\* every formula and for those it cannot do without.
LEMMA ReadsAreReached ==
    ASSUME NEW reads, NEW c \in Cells, NEW d \in reads[c], reads[c] \subseteq Cells
    PROVE  d \in ReachedBy(c, reads)
BY DEF ReachedBy

\* What a cell reaches reaches further for it.
LEMMA ReachingIsTransitive ==
    ASSUME NEW reads, NEW c, NEW d \in ReachedBy(c, reads), NEW e \in ReachedBy(d, reads)
    PROVE  e \in ReachedBy(c, reads)
BY DEF ReachedBy

\* Only cells are reached.
LEMMA ReachedAreCells == \A c, reads : ReachedBy(c, reads) \subseteq Cells
BY DEF ReachedBy

\* What reaches what depends only on the formulas.
LEMMA ReachedStays ==
    ASSUME UNCHANGED world
    PROVE  AllReads' = AllReads /\ \A c : (ReachedBy(c, AllReads))' = ReachedBy(c, AllReads)
<1>1. AllReads' = AllReads
  BY DEF AllReads, ReadCells
<1> QED BY <1>1 DEF ReachedBy

\* Each dependency of a cell is a cell it names.
LEMMA DependenciesAreReached ==
    ASSUME Shapes, NEW c \in Cells, NEW k \in 1..Len(dependenciesOf(c))
    PROVE  dependenciesOf(c)[k] \in ReachedBy(c, AllReads)
<1>1. dependenciesOf(c)[k] \in ReadCells(c)
  <2>1. CASE world[c].left \in Cells /\ world[c].right \in Cells /\ world[c].left # world[c].right
    <3>1. dependenciesOf(c) = <<world[c].left, world[c].right>>
      BY <2>1 DEF dependenciesOf
    <3> QED BY <3>1, <2>1 DEF ReadCells
  <2>2. CASE world[c].left \in Cells /\ (world[c].right \notin Cells \/ world[c].left = world[c].right)
    <3>1. dependenciesOf(c) = <<world[c].left>>
      BY <2>2 DEF dependenciesOf
    <3> QED BY <3>1, <2>2 DEF ReadCells
  <2>3. CASE world[c].left \notin Cells /\ world[c].right \in Cells
    <3>1. dependenciesOf(c) = <<world[c].right>>
      BY <2>3 DEF dependenciesOf
    <3> QED BY <3>1, <2>3 DEF ReadCells
  <2>4. CASE world[c].left \notin Cells /\ world[c].right \notin Cells
    <3>1. dependenciesOf(c) = << >>
      BY <2>4 DEF dependenciesOf
    <3> QED BY <3>1
  <2> QED BY <2>1, <2>2, <2>3, <2>4
<1>2. AllReads[c] = ReadCells(c) /\ ReadCells(c) \subseteq Cells
  BY DEF AllReads, ReadCells
<1> QED BY <1>1, <1>2, ReadsAreReached

\* A formula is never pending, and tells of a cycle only when one of the cells
\* it names does.
LEMMA EvaluationTells ==
    ASSUME NEW f \in [name : Operations, left : Operands, right : Operands], NEW shown
    PROVE  /\ evaluateExpression(f, shown) # Pending
           /\ evaluateExpression(f, shown) = Failure("CIRCULAR_REFERENCE") =>
                 \E o \in {f.left, f.right} \cap Cells : readResult(shown[o]) = Failure("CIRCULAR_REFERENCE")
<1> DEFINE told == Failure("CIRCULAR_REFERENCE")
           l == Scalar(shown, f.left)
           r == Scalar(shown, f.right)
           ll == Listed(shown, f.left)
           lr == Listed(shown, f.right)
<1>1. \A n : Number(n) # told /\ Number(n) # Pending
  BY DEF Number, Failure, Pending
<1>2. \A x : readResult(x) # Pending
  BY DEF readResult, Failure, Pending
<1>3. Failure("INVALID_NUMBER") # told /\ Failure("INVALID_NUMBER") # Pending
  BY DEF Failure, Pending
<1>4. \A o : Scalar(shown, o) # Pending /\ Listed(shown, o) # Pending
  BY <1>1, <1>2, <1>3 DEF Scalar, Listed
<1>5. \A o : Scalar(shown, o) = told \/ Listed(shown, o) = told => o \in Cells /\ readResult(shown[o]) = told
  BY <1>1, <1>3 DEF Scalar, Listed
<1> HIDE DEF told, l, r, ll, lr
<1>6. \A x, y : /\ Both(x, y) = told => x = told \/ y = told
                /\ x # Pending /\ y # Pending => Both(x, y) # Pending
  BY <1>1 DEF Both
<1>7. /\ f.name = "add" => evaluateExpression(f, shown) = Both(l, r)
      /\ f.name = "sum" => evaluateExpression(f, shown) = Both(ll, lr)
      /\ f.name = "iferror" => evaluateExpression(f, shown) = IF l.ok THEN l ELSE r
      /\ f.name = "if" => evaluateExpression(f, shown) = IF ~l.ok THEN l ELSE IF l.value # 0 THEN r ELSE Number(0)
  BY DEF evaluateExpression, l, r, ll, lr
<1>8. f.name \in {"add", "sum", "iferror", "if"}
  BY DEF Operations
<1>9. /\ evaluateExpression(f, shown) # Pending
      /\ evaluateExpression(f, shown) = told => l = told \/ r = told \/ ll = told \/ lr = told
  BY <1>1, <1>4, <1>6, <1>7, <1>8 DEF l, r, ll, lr
<1> QED BY <1>5, <1>9 DEF told, l, r, ll, lr

\* Every cell from one on the way that the top reads again up to the top
\* reaches itself.
LEMMA PathReachesItself ==
    ASSUME CycleInv, stack # << >>, Top.next <= Len(dependenciesOf(Top.key)),
           state[dependenciesOf(Top.key)[Top.next]] = "visiting",
           NEW d \in PathFrom(dependenciesOf(Top.key)[Top.next])
    PROVE  d \in ReachedBy(d, AllReads)
<1> DEFINE n == Len(stack)
           c == dependenciesOf(Top.key)[Top.next]
           From(i) == stack[i].key = c /\ \A j \in (i + 1)..Len(stack) : stack[j].key # c
           from == CHOOSE i \in 1..Len(stack) : From(i)
<1>1. n \in Nat \ {0} /\ n \in 1..n /\ Top = stack[n] /\ Top.key \in Cells /\ Top.next \in Nat \ {0}
  BY FollowedShape DEF CycleInv, FormulaInv, Shapes, Top
<1>2. c \in ReachedBy(Top.key, AllReads) /\ c \in Cells
  <2>1. Len(dependenciesOf(Top.key)) \in Nat
    BY <1>1, ReadsOfFormula DEF CycleInv, FormulaInv
  <2>2. Top.next \in 1..Len(dependenciesOf(Top.key))
    BY <1>1, <2>1
  <2> QED BY <1>1, <2>2, DependenciesAreReached, ReachedAreCells DEF CycleInv, FormulaInv
<1>3. PathFrom(c) = {stack[k].key : k \in from..n}
  BY DEF PathFrom
<1>4. from \in 1..n /\ stack[from].key = c
  <2>1. PICK i \in 1..n : stack[i].key = c
    BY <1>2 DEF CycleInv, FormulaInv, StackIsVisiting
  <2>2. \A j \in (i + 1)..n : j \in 1..n /\ j # i
    BY <1>1
  <2>3. From(i)
    BY <2>1, <2>2 DEF CycleInv, FormulaInv, StackIsVisiting
  <2> QED BY <2>3
<1> HIDE DEF from, c
<1>5. PICK k \in from..n : d = stack[k].key
  BY <1>3 DEF c
<1>6. k \in 1..n /\ (k = n \/ k < n) /\ (k = from \/ from < k)
  BY <1>1, <1>4, <1>5
<1>7. c \in ReachedBy(d, AllReads)
  <2>1. CASE k = n
    BY <1>1, <1>2, <1>5, <2>1
  <2>2. CASE k < n
    BY <1>1, <1>2, <1>5, <1>6, <2>2, ReachingIsTransitive DEF CycleInv, WayReaches
  <2> QED BY <1>6, <2>1, <2>2
<1>8. CASE k = from
  BY <1>4, <1>5, <1>7, <1>8
<1>9. CASE from < k
  <2>1. d \in ReachedBy(c, AllReads)
    BY <1>4, <1>5, <1>6, <1>9 DEF CycleInv, WayReaches
  <2> QED BY <1>7, <2>1, ReachingIsTransitive
<1> QED BY <1>6, <1>8, <1>9

\* Before the walk nothing is marked.
LEMMA CyclesStart == FormulaInit => CycleInv
BY FormulasStart DEF FormulaInit, CycleInv, WayReaches, CircularReachThemselves, ComputedIsTold

\* What was told of cycles stays while nothing is computed.
LEMMA ToldStays ==
    ASSUME CycleInv, UNCHANGED <<world, results, computed>>, computed = 0
    PROVE  ComputedIsTold'
BY DEF ComputedIsTold

\* Starting from a formula keeps the invariant of the marks,
LEMMA EnterRootCycles == CycleInv /\ EnterRoot => CycleInv'
<1> SUFFICES ASSUME CycleInv, EnterRoot PROVE CycleInv'
  OBVIOUS
<1>1. FormulaInv'
  BY EnterRootKeeps DEF CycleInv
<1>2. stack = << >> /\ UNCHANGED <<world, order, circular, results, computed>> /\ \E c \in Cells : state[c] # "done"
  BY NodesAssumption DEF EnterRoot
<1>3. Len(stack') = 1
  <2>1. PICK i \in 1..Len(Nodes) : Enters(Nodes[i], << >>)
    BY DEF EnterRoot
  <2>2. Nodes[i] \in Cells
    BY NodesAssumption
  <2>3. PICK frame : stack' = Append(<< >>, frame)
    BY <2>1 DEF Enters
  <2> QED BY <2>3
<1>4. computed = 0
  BY <1>2 DEF CycleInv, FormulaInv, Shapes, ComputedIsCurrent, Walked
<1>5. WayReaches'
  <2>1. \A i, j \in 1..Len(stack') : ~(i < j)
    BY <1>3
  <2> QED BY <2>1 DEF WayReaches
<1>6. CircularReachThemselves'
  BY <1>2, ReachedStays DEF CycleInv, CircularReachThemselves
<1> QED BY <1>1, <1>2, <1>4, <1>5, <1>6, ToldStays DEF CycleInv

\* entering what it reads does,
LEMMA EnterReadCycles == CycleInv /\ EnterRead => CycleInv'
<1> SUFFICES ASSUME CycleInv, EnterRead PROVE CycleInv'
  OBVIOUS
<1> DEFINE n == Len(stack)
           read == dependenciesOf(Top.key)[Top.next]
<1>1. FormulaInv'
  BY EnterReadKeeps DEF CycleInv
<1>2. /\ stack # << >> /\ Top.next <= Len(dependenciesOf(Top.key))
      /\ Enters(read, Followed) /\ UNCHANGED <<world, order, circular, results, computed>>
  BY DEF EnterRead
<1>3. /\ n \in Nat \ {0} /\ n \in 1..n /\ Top = stack[n] /\ Top.key \in Cells /\ Top.next \in Nat \ {0}
      /\ Followed \in Seq(Frame) /\ Len(Followed) = n /\ \A i \in 1..n : Followed[i].key = stack[i].key
  BY <1>2, FollowedShape DEF CycleInv, FormulaInv, Shapes, Top
<1>4. read \in ReachedBy(Top.key, AllReads) /\ read \in Cells
  <2>1. Len(dependenciesOf(Top.key)) \in Nat
    BY <1>3, ReadsOfFormula DEF CycleInv, FormulaInv
  <2>2. Top.next \in 1..Len(dependenciesOf(Top.key))
    BY <1>2, <1>3, <2>1
  <2> QED BY <1>3, <2>2, DependenciesAreReached, ReachedAreCells DEF CycleInv, FormulaInv
<1> HIDE DEF read
<1>5. /\ Len(stack') = n + 1 /\ 1..Len(stack') = 1..n \cup {n + 1}
      /\ stack'[n + 1].key = read /\ \A i \in 1..n : stack'[i].key = stack[i].key
  BY <1>2, <1>3, <1>4, EnteredShape DEF CycleInv, FormulaInv, Shapes
<1>6. WayReaches'
  <2> SUFFICES ASSUME NEW i \in 1..Len(stack'), NEW j \in 1..Len(stack'), i < j
      PROVE stack'[j].key \in ReachedBy(stack'[i].key, AllReads)
    BY <1>2, ReachedStays DEF WayReaches
  <2>1. i \in 1..n
    BY <1>3, <1>5
  <2>2. CASE j \in 1..n
    BY <1>5, <2>1, <2>2 DEF CycleInv, WayReaches
  <2>3. CASE j = n + 1
    <3>1. CASE i = n
      BY <1>3, <1>4, <1>5, <2>1, <2>3, <3>1
    <3>2. CASE i < n
      BY <1>3, <1>4, <1>5, <2>1, <2>3, <3>2, ReachingIsTransitive DEF CycleInv, WayReaches
    <3> QED BY <1>3, <2>1, <3>1, <3>2
  <2> QED BY <1>5, <2>2, <2>3
<1>7. CircularReachThemselves'
  BY <1>2, ReachedStays DEF CycleInv, CircularReachThemselves
<1> QED BY <1>1, <1>2, <1>6, <1>7, WalkBeforeComputing, ToldStays DEF CycleInv

\* closing a cycle, which marks it,
LEMMA FollowReadCycles == CycleInv /\ FollowRead => CycleInv'
<1> SUFFICES ASSUME CycleInv, FollowRead PROVE CycleInv'
  OBVIOUS
<1> DEFINE read == dependenciesOf(Top.key)[Top.next]
<1>1. FormulaInv'
  BY FollowReadKeeps DEF CycleInv
<1>2. /\ stack # << >> /\ Top.next <= Len(dependenciesOf(Top.key)) /\ stack' = Followed
      /\ circular' = IF state[read] = "visiting" THEN circular \cup PathFrom(read) ELSE circular
      /\ UNCHANGED <<world, state, order, results, computed>>
  BY DEF FollowRead
<1>3. Len(stack') = Len(stack) /\ \A i \in 1..Len(stack) : stack'[i].key = stack[i].key
  BY <1>2, FollowedShape DEF CycleInv, FormulaInv
<1>4. WayReaches'
  BY <1>2, <1>3, ReachedStays DEF CycleInv, WayReaches
<1>5. \A d \in circular' : d \in ReachedBy(d, AllReads)
  BY <1>2, PathReachesItself DEF CycleInv, CircularReachThemselves
<1>6. CircularReachThemselves'
  BY <1>2, <1>5, ReachedStays DEF CircularReachThemselves
<1> QED BY <1>1, <1>2, <1>4, <1>6, WalkBeforeComputing, ToldStays DEF CycleInv

\* leaving a formula,
LEMMA LeavesCycles == CycleInv /\ Leaves => CycleInv'
<1> SUFFICES ASSUME CycleInv, Leaves PROVE CycleInv'
  OBVIOUS
<1>1. FormulaInv'
  BY LeavesKeeps DEF CycleInv
<1>2. stack # << >> /\ stack' = SubSeq(stack, 1, Len(stack) - 1) /\ UNCHANGED <<world, circular, results, computed>>
  BY DEF Leaves
<1>3. \A i \in 1..Len(stack') : i \in 1..Len(stack) /\ stack'[i] = stack[i]
  BY <1>2, LeftShape DEF CycleInv, FormulaInv, Shapes
<1>4. WayReaches'
  BY <1>2, <1>3, ReachedStays DEF CycleInv, WayReaches
<1>5. CircularReachThemselves'
  BY <1>2, ReachedStays DEF CycleInv, CircularReachThemselves
<1> QED BY <1>1, <1>2, <1>4, <1>5, WalkBeforeComputing, ToldStays DEF CycleInv

\* computing one,
LEMMA ComputeCycles == CycleInv /\ ComputeFormula => CycleInv'
<1> SUFFICES ASSUME CycleInv, ComputeFormula PROVE CycleInv'
  OBVIOUS
<1> DEFINE c == order[computed + 1]
           given == IF c \in circular THEN Failure("CIRCULAR_REFERENCE") ELSE evaluateExpression(world[c], results)
<1>1. FormulaInv'
  BY ComputeFormulaKeeps DEF CycleInv
<1>2. /\ Walked /\ computed < Len(order) /\ computed' = computed + 1
      /\ results' = [results EXCEPT ![c] = given]
      /\ UNCHANGED <<world, state, stack, order, circular>>
  BY DEF ComputeFormula
<1>3. /\ computed \in Nat /\ computed + 1 \in 1..Len(order) /\ c \in Cells
      /\ 1..(computed + 1) = 1..computed \cup {computed + 1}
      /\ \A i \in 1..computed : order[i] \in Cells /\ order[i] # c
  <2>1. /\ computed \in Nat /\ Len(order) \in Nat /\ computed + 1 \in 1..Len(order)
        /\ \A i \in 1..(computed + 1) : i \in 1..Len(order) /\ order[i] \in Cells
    BY <1>2 DEF CycleInv, FormulaInv, Shapes
  <2> QED BY <2>1 DEF CycleInv, FormulaInv, OrderIsDone
<1>4. results'[c] = given /\ \A d \in Cells : d # c => results'[d] = results[d]
  BY <1>2, <1>3 DEF CycleInv, FormulaInv, Shapes
<1>5. given # Pending /\ (given = Failure("CIRCULAR_REFERENCE") => Concerned(c))
  <2>1. CASE c \in circular
    <3>1. given = Failure("CIRCULAR_REFERENCE") /\ given # Pending
      BY <2>1 DEF Failure, Pending
    <3> QED BY <2>1, <3>1 DEF CycleInv, CircularReachThemselves, Concerned
  <2>2. CASE c \notin circular
    <3>1. world[c] \in [name : Operations, left : Operands, right : Operands] /\ given = evaluateExpression(world[c], results)
      BY <1>3, <2>2, ReadsOfFormula DEF CycleInv, FormulaInv
    <3>2. ASSUME NEW o \in {world[c].left, world[c].right} \cap Cells,
                 readResult(results[o]) = Failure("CIRCULAR_REFERENCE")
          PROVE  Concerned(c)
      <4>1. PICK k \in 1..Len(dependenciesOf(c)) : dependenciesOf(c)[k] = o
        BY <1>3, ReadsOfFormula DEF CycleInv, FormulaInv
      <4>2. o \in ReachedBy(c, AllReads)
        BY <1>3, <4>1, DependenciesAreReached DEF CycleInv, FormulaInv
      <4>3. PICK j \in 1..computed : order[j] = o
        BY <1>3, <2>2, <4>1 DEF CycleInv, FormulaInv, OrderFollowsReads
      <4>4. results[o] # Pending
        BY <4>3 DEF CycleInv, ComputedIsTold
      <4>5. results[o] = Failure("CIRCULAR_REFERENCE")
        BY <3>2, <4>4 DEF readResult
      <4>6. Concerned(o)
        BY <4>3, <4>5 DEF CycleInv, ComputedIsTold
      <4> QED BY <4>2, <4>6, ReachingIsTransitive DEF Concerned
    <3> HIDE DEF given
    <3> QED BY <3>1, <3>2, EvaluationTells
  <2> QED BY <2>1, <2>2
<1> HIDE DEF given
<1>6. \A d : Concerned(d)' = Concerned(d)
  BY <1>2, ReachedStays DEF Concerned
<1>7. ComputedIsTold'
  <2> SUFFICES ASSUME NEW i \in 1..(computed + 1)
      PROVE results'[order[i]] # Pending
            /\ (results'[order[i]] = Failure("CIRCULAR_REFERENCE") => Concerned(order[i]))
    BY <1>2, <1>6 DEF ComputedIsTold
  <2>1. CASE i = computed + 1
    BY <1>4, <1>5, <2>1
  <2>2. CASE i \in 1..computed
    BY <1>3, <1>4, <2>2 DEF CycleInv, ComputedIsTold
  <2> QED BY <1>3, <2>1, <2>2
<1>8. WayReaches' /\ CircularReachThemselves'
  BY <1>2, ReachedStays DEF CycleInv, WayReaches, CircularReachThemselves
<1> QED BY <1>1, <1>7, <1>8 DEF CycleInv

\* and a step of somebody else.
LEMMA CyclesStutter == CycleInv /\ UNCHANGED formulaVars => CycleInv'
<1> SUFFICES ASSUME CycleInv, UNCHANGED formulaVars PROVE CycleInv'
  OBVIOUS
<1>1. UNCHANGED <<world, state, stack, order, circular, results, computed>>
  BY DEF formulaVars
<1>2. FormulaInv'
  BY FormulaStuttersKeep DEF CycleInv
<1>3. \A d : Concerned(d)' = Concerned(d)
  BY <1>1, ReachedStays DEF Concerned
<1> QED BY <1>1, <1>2, <1>3, ReachedStays DEF CycleInv, WayReaches, CircularReachThemselves, ComputedIsTold

\* Only cells that reach themselves are marked, and what is computed tells of a
\* cycle only where one concerns it.
THEOREM CyclesMarked == FormulaSpec => []CycleInv
<1>1. CycleInv /\ [FormulaNext]_formulaVars => CycleInv'
  BY EnterRootCycles, EnterReadCycles, FollowReadCycles, LeavesCycles, ComputeCycles, CyclesStutter DEF FormulaNext
<1> QED BY <1>1, CyclesStart, PTL DEF FormulaSpec

-----------------------------------------------------------------------------
(* Who is told of a cycle *)

\* A cell whose value is a number has a number in all it cannot do without.
LEMMA EvaluationNeeds ==
    ASSUME Shapes, NEW c \in Cells, evaluateExpression(world[c], results).ok, NEW o \in Needs[c]
    PROVE  o \in Cells /\ results[o].ok /\ o \in {world[c].left, world[c].right} \cap Cells
<1> DEFINE f == world[c]
<1>1. f \in [name : Operations, left : Operands, right : Operands]
  BY ReadsOfFormula
<1>2. \A x : readResult(x).ok => x.ok
  BY DEF readResult, Failure
<1>3. \A d \in Cells : Scalar(results, d) = readResult(results[d]) /\ Listed(results, d) = readResult(results[d])
  BY DEF Scalar, Listed
<1>4. \A x, y : Both(x, y).ok => x.ok /\ y.ok
  BY DEF Both
<1>5. o \in Needs[c] /\ Needs[c] \subseteq {f.left, f.right} \cap Cells
  BY DEF Needs, ReadCells
<1>6. CASE f.name \in {"add", "sum"}
  <2>1. \/ evaluateExpression(f, results) = Both(Scalar(results, f.left), Scalar(results, f.right))
        \/ evaluateExpression(f, results) = Both(Listed(results, f.left), Listed(results, f.right))
    BY <1>6 DEF evaluateExpression
  <2> QED BY <1>2, <1>3, <1>4, <1>5, <2>1
<1>7. CASE f.name = "if"
  <2>1. o = f.left
    BY <1>7 DEF Needs
  <2>2. Scalar(results, f.left).ok
    BY <1>7 DEF evaluateExpression
  <2> QED BY <1>2, <1>3, <1>5, <2>1, <2>2
<1>8. CASE f.name = "iferror"
  <2>1. f.left = f.right /\ o = f.left
    BY <1>8 DEF Needs, ReadCells
  <2>2. Scalar(results, f.left).ok
    BY <1>8, <2>1 DEF evaluateExpression
  <2> QED BY <1>2, <1>3, <1>5, <2>1, <2>2
<1> QED BY <1>1, <1>6, <1>7, <1>8 DEF Operations

\* The formulas with a number that are computed before one are closed under what
\* they need: nobody needs itself and shows a number.
LEMMA InvLeavesNoNumber == FormulaInv => SelfReadHasNoNumber
<1> SUFFICES ASSUME FormulaInv, Shown, NEW c \in Cells, c \in ReachedBy(c, Needs), results[c].ok
    PROVE  FALSE
  BY DEF SelfReadHasNoNumber
<1>1. PICK n \in 1..Len(order) : order[n] = c
  BY DEF FormulaInv, OrderIsDone, Shown, Walked
<1> DEFINE Before(i) == {d \in Cells : results[d].ok /\ \E j \in 1..(i - 1) : order[j] = d}
<1>2. Len(order) \in Nat /\ \A i \in 1..Len(order) : order[i] \in Cells
  BY DEF FormulaInv, Shapes
<1>3. ASSUME NEW i \in 1..Len(order), results[order[i]].ok
      PROVE  Needs[order[i]] \subseteq Before(i)
  <2>1. order[i] \notin circular /\ evaluateExpression(world[order[i]], results).ok
    BY <1>3 DEF FormulaInv, ComputedIsCurrent, Shown, Failure
  <2>2. ASSUME NEW o \in Needs[order[i]]
        PROVE  o \in Before(i)
    <3>1. o \in Cells /\ results[o].ok /\ o \in {world[order[i]].left, world[order[i]].right} \cap Cells
      BY <1>2, <2>1, EvaluationNeeds DEF FormulaInv
    <3>2. PICK k \in 1..Len(dependenciesOf(order[i])) : dependenciesOf(order[i])[k] = o
      BY <1>2, <3>1, ReadsOfFormula DEF FormulaInv
    <3>3. PICK j \in 1..(i - 1) : order[j] = o
      BY <2>1, <3>2 DEF FormulaInv, OrderFollowsReads
    <3> QED BY <3>1, <3>3
  <2> QED BY <2>2
<1>4. ASSUME NEW d \in Before(n)
      PROVE  Needs[d] \subseteq Before(n)
  <2>1. PICK j \in 1..(n - 1) : order[j] = d /\ results[d].ok
    BY <1>4
  <2>2. j \in 1..Len(order) /\ Before(j) \subseteq Before(n)
    BY <1>2
  <2> QED BY <1>3, <2>1, <2>2
<1>5. Needs[c] \subseteq Before(n)
  BY <1>1, <1>3
<1>6. Before(n) \in SUBSET Cells
  OBVIOUS
<1> HIDE DEF Before
<1>7. c \in Before(n)
  BY <1>4, <1>5, <1>6 DEF ReachedBy
<1>8. PICK j \in 1..(n - 1) : order[j] = c
  BY <1>7 DEF Before
<1> QED BY <1>1, <1>2, <1>8 DEF FormulaInv, OrderIsDone

\* A formula no cycle concerns is computed without one.
LEMMA InvTellsTheConcerned == CycleInv => AcyclicIsComputed
<1> SUFFICES ASSUME CycleInv, Shown, NEW c \in Cells, results[c] = Failure("CIRCULAR_REFERENCE")
    PROVE  Concerned(c)
  BY DEF AcyclicIsComputed, Concerned
<1>1. PICK i \in 1..computed : order[i] = c
  BY DEF CycleInv, FormulaInv, OrderIsDone, Shown, Walked
<1> QED BY <1>1 DEF CycleInv, ComputedIsTold

\* Whatever the formulas read and in whatever order the tables list them: no
\* formula is told of a cycle that does not concern it, and none that needs its
\* own value shows a number.
THEOREM CyclesAlwaysTold == FormulaSpec => []CyclesAreTold
<1>1. CycleInv => CyclesAreTold
  BY InvLeavesNoNumber, InvTellsTheConcerned DEF CycleInv, CyclesAreTold
<1> QED BY <1>1, CyclesMarked, PTL

-----------------------------------------------------------------------------
(* Induction over the natural numbers *)

\* A set that holds 0 and the successor of each of its numbers holds every
\* natural number.  Else the intervals 1..n of the missing n would be a family
\* of finite sets without a smallest one, which the well-founded strict
\* inclusion of finite sets forbids.
LEMMA NatSetInduction ==
    ASSUME NEW S, 0 \in S, \A n \in Nat : n \in S => n + 1 \in S
    PROVE  Nat \subseteq S
<1> DEFINE Missing == Nat \ S
           Intervals == {1..n : n \in Missing}
           Smaller == StrictSubsetOrdering(Nat)
<1>1. SUFFICES ASSUME Missing # {} PROVE FALSE
  OBVIOUS
<1>2. IsWellFoundedOn(Smaller, FiniteSubsetsOf(Nat))
  BY FS_StrictSubsetOrderingWellFounded
<1>3. Intervals \subseteq FiniteSubsetsOf(Nat)
  <2>1. \A n \in Nat : 1..n \in SUBSET Nat /\ IsFiniteSet(1..n)
    BY FS_Interval
  <2> QED BY <2>1 DEF FiniteSubsetsOf
<1>4. Intervals # {}
  BY <1>1
<1>5. PICK least \in Intervals : \A other \in Intervals : ~(<<other, least>> \in Smaller)
  <2> HIDE DEF Smaller, Intervals
  <2> QED BY <1>2, <1>3, <1>4, WFMin
<1>6. PICK n \in Missing : least = 1..n
  OBVIOUS
<1>7. n \in Nat \ {0} /\ n - 1 \in Missing
  OBVIOUS
<1>8. <<1..(n - 1), 1..n>> \in Smaller
  <2>1. 1..(n - 1) \in SUBSET Nat /\ 1..n \in SUBSET Nat
    BY <1>7
  <2>2. 1..(n - 1) \subseteq 1..n /\ n \in 1..n /\ n \notin 1..(n - 1)
    BY <1>7
  <2> QED BY <2>1, <2>2 DEF StrictSubsetOrdering
<1> QED BY <1>5, <1>6, <1>7, <1>8

\* A function defined from its value one before exists.
LEMMA RecursionExists ==
    ASSUME NEW A, NEW base \in A, NEW N \in Nat, NEW step \in [1..N -> [A -> A]]
    PROVE  \E f \in [0..N -> A] : f[0] = base /\ \A n \in 1..N : f[n] = step[n][f[n - 1]]
<1> DEFINE Upto(m, f) == f[0] = base /\ \A n \in 1..m : f[n] = step[n][f[n - 1]]
           Good == {m \in Nat : m <= N => \E f \in [0..m -> A] : Upto(m, f)}
<1>1. 0 \in Good
  <2>1. [n \in 0..0 |-> base] \in [0..0 -> A] /\ Upto(0, [n \in 0..0 |-> base])
    OBVIOUS
  <2> QED BY <2>1
<1>2. ASSUME NEW m \in Nat, m \in Good PROVE m + 1 \in Good
  <2>1. SUFFICES ASSUME m + 1 <= N PROVE \E f \in [0..(m + 1) -> A] : Upto(m + 1, f)
    OBVIOUS
  <2>2. PICK f \in [0..m -> A] : Upto(m, f)
    BY <1>2, <2>1
  <2>3. f[m] \in A /\ m + 1 \in 1..N
    BY <2>1
  <2>4. step[m + 1][f[m]] \in A
    BY <2>3
  <2> DEFINE g == [n \in 0..(m + 1) |-> IF n = m + 1 THEN step[m + 1][f[m]] ELSE f[n]]
  <2>5. g \in [0..(m + 1) -> A]
    BY <2>4
  <2>6. g[0] = base /\ g[m + 1] = step[m + 1][f[m]] /\ \A n \in 0..m : g[n] = f[n]
    BY <2>2
  <2>7. ASSUME NEW n \in 1..(m + 1) PROVE g[n] = step[n][g[n - 1]]
    <3>1. CASE n = m + 1
      <4>1. n - 1 = m /\ m \in 0..m
        BY <3>1
      <4> QED BY <3>1, <4>1, <2>6
    <3>2. CASE n # m + 1
      <4>1. n \in 1..m /\ n \in 0..m /\ n - 1 \in 0..m
        BY <3>2
      <4> QED BY <4>1, <2>2, <2>6
    <3> QED BY <3>1, <3>2
  <2> HIDE DEF g
  <2> QED BY <2>5, <2>6, <2>7
<1>3. N \in Good
  <2> HIDE DEF Good
  <2> QED BY <1>1, <1>2, NatSetInduction
<1> QED BY <1>3

-----------------------------------------------------------------------------
(* Only, and FlattenSeq, one member at a time *)

\* What Only keeps of the first n members.
KeptUpTo(f, s, S) ==
    /\ f[0] = << >>
    /\ \A n \in 1..Len(s) : f[n] = IF s[n] \in S THEN Append(f[n - 1], s[n]) ELSE f[n - 1]

\* Only is what is kept of all the members.
LEMMA OnlyIsKept ==
    ASSUME NEW X, NEW s \in Seq(X), NEW S
    PROVE  \E f \in [0..Len(s) -> Seq(X)] : KeptUpTo(f, s, S) /\ Only(s, S) = f[Len(s)]
<1> DEFINE N == Len(s)
           Body(g) == [n \in 0..N |-> IF n = 0 THEN << >> ELSE IF s[n] \in S THEN Append(g[n - 1], s[n]) ELSE g[n - 1]]
           step == [n \in 1..N |-> [t \in Seq(X) |-> IF s[n] \in S THEN Append(t, s[n]) ELSE t]]
           kept == CHOOSE g : g = Body(g)
<1>1. N \in Nat /\ << >> \in Seq(X)
  OBVIOUS
<1>2. step \in [1..N -> [Seq(X) -> Seq(X)]]
  <2>1. ASSUME NEW n \in 1..N, NEW t \in Seq(X)
        PROVE  (IF s[n] \in S THEN Append(t, s[n]) ELSE t) \in Seq(X)
    <3>1. s[n] \in X
      OBVIOUS
    <3> QED BY <3>1, AppendProperties
  <2> QED BY <2>1
<1>3. \A n \in 1..N, t \in Seq(X) : step[n][t] = IF s[n] \in S THEN Append(t, s[n]) ELSE t
  OBVIOUS
<1>4. PICK f \in [0..N -> Seq(X)] : f[0] = << >> /\ \A n \in 1..N : f[n] = step[n][f[n - 1]]
  <2> DEFINE base == << >>
             A == Seq(X)
  <2>1. base \in A /\ step \in [1..N -> [A -> A]] /\ N \in Nat
    BY <1>1, <1>2
  <2> HIDE DEF step, N, base, A
  <2>2. \E f \in [0..N -> A] : f[0] = base /\ \A n \in 1..N : f[n] = step[n][f[n - 1]]
    BY <2>1, RecursionExists
  <2> QED BY <2>2 DEF base, A
<1>5. \A n \in 1..N : f[n] = IF s[n] \in S THEN Append(f[n - 1], s[n]) ELSE f[n - 1]
  <2> HIDE DEF step
  <2>1. \A n \in 1..N : f[n - 1] \in Seq(X)
    OBVIOUS
  <2> QED BY <1>3, <1>4, <2>1
<1>6. f = Body(f)
  <2>1. ASSUME NEW n \in 0..N PROVE f[n] = Body(f)[n]
    <3>1. CASE n = 0
      BY <1>4, <3>1
    <3>2. CASE n # 0
      <4>1. n \in 1..N
        BY <3>2
      <4> QED BY <1>5, <3>2, <4>1
    <3> QED BY <3>1, <3>2
  <2>2. f = [n \in 0..N |-> f[n]] /\ Body(f) = [n \in 0..N |-> Body(f)[n]]
    OBVIOUS
  <2> HIDE DEF Body
  <2> QED BY <2>1, <2>2
<1>7. kept = Body(kept)
  BY <1>6
<1>8. Only(s, S) = kept[N]
  BY DEF Only
<1>9. \A n \in 0..N : kept[n] = f[n]
  <2> DEFINE Same == {n \in Nat : n <= N => kept[n] = f[n]}
  <2> HIDE DEF kept
  <2>1. \A n \in 0..N : kept[n] = IF n = 0 THEN << >> ELSE IF s[n] \in S THEN Append(kept[n - 1], s[n]) ELSE kept[n - 1]
    BY <1>7
  <2>2. 0 \in Same
    BY <2>1, <1>4
  <2>3. ASSUME NEW n \in Nat, n \in Same PROVE n + 1 \in Same
    <3>1. SUFFICES ASSUME n + 1 <= N PROVE kept[n + 1] = f[n + 1]
      OBVIOUS
    <3>2. n + 1 \in 1..N /\ n + 1 \in 0..N /\ (n + 1) - 1 = n /\ n + 1 # 0
      BY <3>1
    <3>3. kept[n] = f[n]
      BY <2>3, <3>1
    <3> QED BY <2>1, <1>5, <3>2, <3>3
  <2>4. Nat \subseteq Same
    <3> HIDE DEF Same
    <3> QED BY <2>2, <2>3, NatSetInduction
  <2> QED BY <2>4
<1>10. Only(s, S) = f[N]
  <2> HIDE DEF kept
  <2> QED BY <1>1, <1>8, <1>9
<1> QED BY <1>4, <1>5, <1>10 DEF KeptUpTo

\* The first n sequences one after another.
JoinedUpTo(f, ss) == f[0] = << >> /\ \A n \in 1..Len(ss) : f[n] = f[n - 1] \o ss[n]

\* FlattenSeq is all the sequences one after another.
LEMMA FlattenIsJoined ==
    ASSUME NEW X, NEW ss \in Seq(Seq(X))
    PROVE  \E f \in [0..Len(ss) -> Seq(X)] : JoinedUpTo(f, ss) /\ FlattenSeq(ss) = f[Len(ss)]
<1> DEFINE N == Len(ss)
           Body(g) == [n \in 1..N |-> IF n = 1 THEN ss[n] ELSE g[n - 1] \o ss[n]]
           step == [n \in 1..N |-> [t \in Seq(X) |-> t \o ss[n]]]
           flat == CHOOSE g : g = Body(g)
<1>1. N \in Nat /\ << >> \in Seq(X) /\ \A n \in 1..N : ss[n] \in Seq(X)
  OBVIOUS
<1>2. step \in [1..N -> [Seq(X) -> Seq(X)]]
  <2>1. ASSUME NEW n \in 1..N, NEW t \in Seq(X) PROVE t \o ss[n] \in Seq(X)
    BY <1>1, ConcatProperties
  <2> QED BY <2>1
<1>3. \A n \in 1..N, t \in Seq(X) : step[n][t] = t \o ss[n]
  OBVIOUS
<1>4. PICK f \in [0..N -> Seq(X)] : f[0] = << >> /\ \A n \in 1..N : f[n] = step[n][f[n - 1]]
  <2> DEFINE base == << >>
             A == Seq(X)
  <2>1. base \in A /\ step \in [1..N -> [A -> A]] /\ N \in Nat
    BY <1>1, <1>2
  <2> HIDE DEF step, N, base, A
  <2>2. \E f \in [0..N -> A] : f[0] = base /\ \A n \in 1..N : f[n] = step[n][f[n - 1]]
    BY <2>1, RecursionExists
  <2> QED BY <2>2 DEF base, A
<1>5. \A n \in 1..N : f[n] = f[n - 1] \o ss[n]
  <2> HIDE DEF step
  <2>1. \A n \in 1..N : f[n - 1] \in Seq(X)
    OBVIOUS
  <2> QED BY <1>3, <1>4, <2>1
<1>6. CASE N = 0
  <2>1. FlattenSeq(ss) = ss /\ ss = << >>
    BY <1>6 DEF FlattenSeq
  <2> QED BY <1>4, <1>5, <1>6, <2>1 DEF JoinedUpTo
<1>7. CASE N # 0
  <2> DEFINE h == [n \in 1..N |-> f[n]]
  <2>1. h = Body(h)
    <3>1. ASSUME NEW n \in 1..N PROVE h[n] = Body(h)[n]
      <4>1. CASE n = 1
        <5>1. n - 1 = 0 /\ ss[n] \in Seq(X)
          BY <1>1, <4>1
        <5>2. f[n] = f[n - 1] \o ss[n]
          BY <1>5
        <5>3. f[n] = ss[n]
          BY <1>4, <5>1, <5>2, ConcatEmptySeq
        <5> QED BY <4>1, <5>3
      <4>2. CASE n # 1
        <5>1. n - 1 \in 1..N
          BY <4>2
        <5> QED BY <4>2, <5>1, <1>5
      <4> QED BY <4>1, <4>2
    <3>2. h = [n \in 1..N |-> h[n]] /\ Body(h) = [n \in 1..N |-> Body(h)[n]]
      OBVIOUS
    <3> HIDE DEF Body, h
    <3> QED BY <3>1, <3>2
  <2>2. flat = Body(flat)
    BY <2>1
  <2>3. FlattenSeq(ss) = flat[N]
    BY <1>7 DEF FlattenSeq
  <2>4. \A n \in 1..N : flat[n] = f[n]
    <3> DEFINE Same == {n \in Nat : n \in 1..N => flat[n] = f[n]}
    <3> HIDE DEF flat
    <3>1. \A n \in 1..N : flat[n] = IF n = 1 THEN ss[n] ELSE flat[n - 1] \o ss[n]
      BY <2>2
    <3>2. 0 \in Same
      OBVIOUS
    <3>3. ASSUME NEW n \in Nat, n \in Same PROVE n + 1 \in Same
      <4>1. SUFFICES ASSUME n + 1 \in 1..N PROVE flat[n + 1] = f[n + 1]
        OBVIOUS
      <4>2. CASE n = 0
        <5>1. 1 \in 1..N /\ 1 - 1 = 0
          BY <4>1, <4>2
        <5>2. f[1] = f[1 - 1] \o ss[1] /\ ss[1] \in Seq(X) /\ f[0] = << >>
          BY <1>1, <1>4, <1>5, <5>1
        <5>3. f[1] = ss[1]
          BY <5>1, <5>2, ConcatEmptySeq
        <5>4. flat[1] = ss[1]
          BY <3>1, <5>1
        <5> QED BY <4>2, <5>3, <5>4
      <4>3. CASE n # 0
        <5>1. n \in 1..N /\ n + 1 # 1 /\ (n + 1) - 1 = n
          BY <4>1, <4>3
        <5>2. flat[n] = f[n]
          BY <3>3, <5>1
        <5>3. flat[n + 1] = flat[(n + 1) - 1] \o ss[n + 1]
          BY <3>1, <4>1, <5>1
        <5>4. f[n + 1] = f[(n + 1) - 1] \o ss[n + 1]
          BY <1>5, <4>1
        <5> QED BY <5>1, <5>2, <5>3, <5>4
      <4> QED BY <4>2, <4>3
    <3>4. Nat \subseteq Same
      <4> HIDE DEF Same
      <4> QED BY <3>2, <3>3, NatSetInduction
    <3> QED BY <3>4
  <2>5. FlattenSeq(ss) = f[N]
    <3> HIDE DEF flat
    <3> QED BY <1>1, <1>7, <2>3, <2>4
  <2> QED BY <1>4, <1>5, <2>5 DEF JoinedUpTo
<1> QED BY <1>6, <1>7

-----------------------------------------------------------------------------
(* A sequence without repetitions is its members and which come before which *)

\* No member comes twice.
Distinct(s) == \A i, j \in DOMAIN s : s[i] = s[j] => i = j

\* One member comes somewhere before another.
Before(s, a, b) == \E i, j \in DOMAIN s : i < j /\ s[i] = a /\ s[j] = b

\* The positions of a sequence, its members and the empty sequence.
LEMMA MembersOf ==
    ASSUME NEW X, NEW s \in Seq(X)
    PROVE  /\ DOMAIN s = 1..Len(s) /\ Len(s) \in Nat
           /\ ToSet(s) \subseteq X /\ s \in Seq(ToSet(s))
           /\ \A i \in 1..Len(s) : s[i] \in ToSet(s)
           /\ \A a \in ToSet(s) : \E i \in 1..Len(s) : s[i] = a
           /\ s = << >> <=> ToSet(s) = {}
           /\ s = << >> <=> Len(s) = 0
<1>1. DOMAIN s = 1..Len(s) /\ Len(s) \in Nat /\ s \in [1..Len(s) -> X]
  BY LenProperties
<1>2. ToSet(s) = {s[i] : i \in 1..Len(s)}
  BY <1>1 DEF ToSet
<1>3. s \in [1..Len(s) -> ToSet(s)]
  BY <1>1, <1>2
<1>4. s \in Seq(ToSet(s))
  BY <1>1, <1>3, SeqDef
<1>5. s = << >> <=> Len(s) = 0
  BY EmptySeq
<1>6. ToSet(s) = {} <=> Len(s) = 0
  BY <1>1, <1>2
<1> QED BY <1>1, <1>2, <1>3, <1>4, <1>5, <1>6

\* A member has a position.
LEMMA MemberAt ==
    ASSUME NEW X, NEW s \in Seq(X), NEW a \in ToSet(s)
    PROVE  \E i \in 1..Len(s) : s[i] = a
BY MembersOf

\* A member more, at the end.
LEMMA AppendMembers ==
    ASSUME NEW X, NEW s \in Seq(X), NEW x \in X
    PROVE  /\ Append(s, x) \in Seq(X)
           /\ ToSet(Append(s, x)) = ToSet(s) \cup {x}
           /\ Distinct(s) /\ x \notin ToSet(s) => Distinct(Append(s, x))
           /\ \A a, b : Before(Append(s, x), a, b) => Before(s, a, b) \/ (a \in ToSet(s) /\ b = x)
<1> DEFINE t == Append(s, x)
<1>1. t \in Seq(X) /\ Len(t) = Len(s) + 1 /\ (\A i \in 1..Len(s) : t[i] = s[i]) /\ t[Len(s) + 1] = x
  BY AppendProperties
<1>2. DOMAIN t = 1..(Len(s) + 1) /\ DOMAIN s = 1..Len(s) /\ Len(s) \in Nat
  BY <1>1, LenProperties
<1>3. ToSet(s) = {s[i] : i \in 1..Len(s)} /\ ToSet(t) = {t[i] : i \in 1..(Len(s) + 1)}
  BY <1>2 DEF ToSet
<1> HIDE DEF t
<1>4. \A i \in 1..(Len(s) + 1) : i \in 1..Len(s) \/ i = Len(s) + 1
  BY <1>2
<1>5. ToSet(t) = ToSet(s) \cup {x}
  <2>1. ToSet(t) \subseteq ToSet(s) \cup {x}
    BY <1>1, <1>2, <1>3, <1>4
  <2>2. ToSet(s) \subseteq ToSet(t)
    <3>1. \A i \in 1..Len(s) : i \in 1..(Len(s) + 1)
      BY <1>2
    <3> QED BY <1>1, <1>3, <3>1
  <2>3. x \in ToSet(t)
    <3>1. Len(s) + 1 \in 1..(Len(s) + 1)
      BY <1>2
    <3> QED BY <1>1, <1>3, <3>1
  <2> QED BY <2>1, <2>2, <2>3
<1>6. ASSUME Distinct(s), x \notin ToSet(s) PROVE Distinct(t)
  <2>1. SUFFICES ASSUME NEW i \in 1..(Len(s) + 1), NEW j \in 1..(Len(s) + 1), t[i] = t[j] PROVE i = j
    BY <1>2 DEF Distinct
  <2>2. \A k \in 1..Len(s) : s[k] # x
    BY <1>3, <1>6
  <2> QED BY <1>1, <1>2, <1>4, <1>6, <2>1, <2>2 DEF Distinct
<1>7. ASSUME NEW a, NEW b, Before(t, a, b) PROVE Before(s, a, b) \/ (a \in ToSet(s) /\ b = x)
  <2>1. PICK i \in 1..(Len(s) + 1), j \in 1..(Len(s) + 1) : i < j /\ t[i] = a /\ t[j] = b
    BY <1>2, <1>7 DEF Before
  <2>2. i \in 1..Len(s) /\ s[i] = a /\ a \in ToSet(s)
    BY <1>1, <1>2, <1>3, <2>1
  <2>3. CASE j = Len(s) + 1
    BY <1>1, <2>1, <2>2, <2>3
  <2>4. CASE j # Len(s) + 1
    <3>1. j \in 1..Len(s) /\ s[j] = b
      BY <1>1, <1>4, <2>1, <2>4
    <3> QED BY <1>2, <2>1, <2>2, <3>1 DEF Before
  <2> QED BY <2>3, <2>4
<1> QED BY <1>1, <1>5, <1>6, <1>7 DEF t

\* Two sequences one after the other.
LEMMA ConcatMembers ==
    ASSUME NEW X, NEW s \in Seq(X), NEW t \in Seq(X)
    PROVE  /\ s \o t \in Seq(X)
           /\ ToSet(s \o t) = ToSet(s) \cup ToSet(t)
           /\ Distinct(s) /\ Distinct(t) /\ ToSet(s) \cap ToSet(t) = {} => Distinct(s \o t)
           /\ \A a, b : Before(s \o t, a, b) =>
                 Before(s, a, b) \/ Before(t, a, b) \/ (a \in ToSet(s) /\ b \in ToSet(t))
<1> DEFINE u == s \o t
           m == Len(s)
           n == Len(t)
<1>1. u \in Seq(X) /\ Len(u) = m + n /\ \A i \in 1..(m + n) : u[i] = IF i <= m THEN s[i] ELSE t[i - m]
  BY ConcatProperties
<1>2. m \in Nat /\ n \in Nat /\ DOMAIN u = 1..(m + n) /\ DOMAIN s = 1..m /\ DOMAIN t = 1..n
  BY <1>1, LenProperties
<1>3. ToSet(s) = {s[i] : i \in 1..m} /\ ToSet(t) = {t[i] : i \in 1..n} /\ ToSet(u) = {u[i] : i \in 1..(m + n)}
  BY <1>2 DEF ToSet
<1> HIDE DEF u, m, n
<1>4. \A i \in 1..(m + n) : (i \in 1..m /\ u[i] = s[i]) \/ (i - m \in 1..n /\ u[i] = t[i - m])
  BY <1>1, <1>2
<1>5. ToSet(u) = ToSet(s) \cup ToSet(t)
  <2>1. ToSet(u) \subseteq ToSet(s) \cup ToSet(t)
    BY <1>3, <1>4
  <2>2. \A i \in 1..m : i \in 1..(m + n) /\ u[i] = s[i]
    BY <1>1, <1>2
  <2>3. \A i \in 1..n : i + m \in 1..(m + n) /\ u[i + m] = t[i]
    <3>1. SUFFICES ASSUME NEW i \in 1..n PROVE i + m \in 1..(m + n) /\ u[i + m] = t[i]
      OBVIOUS
    <3>2. i + m \in 1..(m + n) /\ ~(i + m <= m) /\ (i + m) - m = i
      BY <1>2
    <3> QED BY <1>1, <3>2
  <2> QED BY <1>3, <2>1, <2>2, <2>3
<1>6. ASSUME Distinct(s), Distinct(t), ToSet(s) \cap ToSet(t) = {} PROVE Distinct(u)
  <2>1. SUFFICES ASSUME NEW i \in 1..(m + n), NEW j \in 1..(m + n), u[i] = u[j] PROVE i = j
    BY <1>2 DEF Distinct
  <2>2. \A k \in 1..m, l \in 1..n : s[k] # t[l]
    BY <1>3, <1>6
  <2>3. CASE i \in 1..m /\ u[i] = s[i] /\ j \in 1..m /\ u[j] = s[j]
    BY <1>2, <1>6, <2>1, <2>3 DEF Distinct
  <2>4. CASE i - m \in 1..n /\ u[i] = t[i - m] /\ j - m \in 1..n /\ u[j] = t[j - m]
    <3>1. i - m = j - m
      BY <1>2, <1>6, <2>1, <2>4 DEF Distinct
    <3> QED BY <1>2, <3>1
  <2> QED BY <1>4, <2>1, <2>2, <2>3, <2>4
<1>7. ASSUME NEW a, NEW b, Before(u, a, b)
      PROVE  Before(s, a, b) \/ Before(t, a, b) \/ (a \in ToSet(s) /\ b \in ToSet(t))
  <2>1. PICK i \in 1..(m + n), j \in 1..(m + n) : i < j /\ u[i] = a /\ u[j] = b
    BY <1>2, <1>7 DEF Before
  <2>2. CASE i \in 1..m /\ u[i] = s[i] /\ j \in 1..m /\ u[j] = s[j]
    BY <1>2, <2>1, <2>2 DEF Before
  <2>3. CASE i - m \in 1..n /\ u[i] = t[i - m] /\ j - m \in 1..n /\ u[j] = t[j - m]
    <3>1. i - m < j - m
      BY <1>2, <2>1
    <3> QED BY <1>2, <2>1, <2>3, <3>1 DEF Before
  <2>4. CASE i \in 1..m /\ u[i] = s[i] /\ j - m \in 1..n /\ u[j] = t[j - m]
    BY <1>3, <2>1, <2>4
  <2>5. CASE i - m \in 1..n /\ j \in 1..m
    BY <1>2, <2>1, <2>5
  <2> QED BY <1>4, <2>1, <2>2, <2>3, <2>4, <2>5
<1> QED BY <1>1, <1>5, <1>6, <1>7 DEF u

\* Only keeps the members that are in the set, in their order.
LEMMA OnlyMembers ==
    ASSUME NEW X, NEW s \in Seq(X), NEW S
    PROVE  /\ Only(s, S) \in Seq(X)
           /\ ToSet(Only(s, S)) = ToSet(s) \cap S
           /\ Distinct(s) => Distinct(Only(s, S))
           /\ \A a, b : Before(Only(s, S), a, b) => Before(s, a, b)
<1> DEFINE N == Len(s)
<1>1. PICK f \in [0..N -> Seq(X)] : KeptUpTo(f, s, S) /\ Only(s, S) = f[N]
  BY OnlyIsKept
<1>2. N \in Nat /\ DOMAIN s = 1..N /\ \A i \in 1..N : s[i] \in X
  BY LenProperties, ElementOfSeq
<1>3. f[0] = << >> /\ \A n \in 1..N : f[n] = IF s[n] \in S THEN Append(f[n - 1], s[n]) ELSE f[n - 1]
  BY <1>1 DEF KeptUpTo
<1> HIDE DEF N
<1> DEFINE Kept(n) ==
               /\ ToSet(f[n]) = {s[i] : i \in 1..n} \cap S
               /\ Distinct(s) => Distinct(f[n])
               /\ \A a, b : Before(f[n], a, b) => \E i, j \in 1..n : i < j /\ s[i] = a /\ s[j] = b
           Good == {n \in Nat : n <= N => Kept(n)}
<1>4. 0 \in Good
  <2>1. DOMAIN f[0] = {}
    BY <1>3
  <2> QED BY <2>1 DEF ToSet, Distinct, Before
<1>5. ASSUME NEW n \in Nat, n \in Good PROVE n + 1 \in Good
  <2>1. SUFFICES ASSUME n + 1 <= N PROVE Kept(n + 1)
    OBVIOUS
  <2>2. n + 1 \in 1..N /\ n \in 0..N /\ (n + 1) - 1 = n /\ s[n + 1] \in X /\ f[n] \in Seq(X)
    BY <1>2, <2>1
  <2>3. Kept(n)
    <3>1. n <= N
      BY <1>2, <2>1
    <3> HIDE DEF Kept
    <3> QED BY <1>5, <3>1
  <2>4. {s[i] : i \in 1..(n + 1)} = {s[i] : i \in 1..n} \cup {s[n + 1]}
    <3>1. 1..(n + 1) = 1..n \cup {n + 1}
      OBVIOUS
    <3> QED BY <3>1
  <2>5. \A i \in 1..n : i \in 1..(n + 1)
    OBVIOUS
  <2>6. CASE s[n + 1] \notin S
    <3>1. f[n + 1] = f[n]
      BY <1>3, <2>2, <2>6
    <3>2. ToSet(f[n + 1]) = {s[i] : i \in 1..(n + 1)} \cap S
      BY <2>3, <2>4, <2>6, <3>1
    <3>3. ASSUME NEW a, NEW b, Before(f[n + 1], a, b)
          PROVE  \E i, j \in 1..(n + 1) : i < j /\ s[i] = a /\ s[j] = b
      BY <2>3, <2>5, <3>1, <3>3
    <3> QED BY <2>3, <3>1, <3>2, <3>3
  <2>7. CASE s[n + 1] \in S
    <3>1. f[n + 1] = Append(f[n], s[n + 1])
      BY <1>3, <2>2, <2>7
    <3>2. ToSet(f[n + 1]) = {s[i] : i \in 1..(n + 1)} \cap S
      <4>1. ToSet(f[n + 1]) = ToSet(f[n]) \cup {s[n + 1]}
        BY <2>2, <3>1, AppendMembers
      <4> QED BY <2>3, <2>4, <2>7, <4>1
    <3>3. Distinct(s) => Distinct(f[n + 1])
      <4>1. SUFFICES ASSUME Distinct(s) PROVE Distinct(f[n + 1])
        OBVIOUS
      <4>2. ASSUME NEW i \in 1..n PROVE s[i] # s[n + 1]
        <5>1. i \in DOMAIN s /\ n + 1 \in DOMAIN s /\ i # n + 1
          BY <1>2, <2>2
        <5> QED BY <4>1, <5>1 DEF Distinct
      <4>3. s[n + 1] \notin ToSet(f[n])
        BY <2>3, <4>2
      <4> QED BY <2>2, <2>3, <3>1, <4>1, <4>3, AppendMembers
    <3>4. ASSUME NEW a, NEW b, Before(f[n + 1], a, b)
          PROVE  \E i, j \in 1..(n + 1) : i < j /\ s[i] = a /\ s[j] = b
      <4>1. Before(f[n], a, b) \/ (a \in ToSet(f[n]) /\ b = s[n + 1])
        BY <2>2, <3>1, <3>4, AppendMembers
      <4>2. CASE Before(f[n], a, b)
        BY <2>3, <2>5, <4>2
      <4>3. CASE a \in ToSet(f[n]) /\ b = s[n + 1]
        <5>1. PICK i \in 1..n : s[i] = a
          BY <2>3, <4>3
        <5>2. i \in 1..(n + 1) /\ n + 1 \in 1..(n + 1) /\ i < n + 1
          OBVIOUS
        <5> QED BY <4>3, <5>1, <5>2
      <4> QED BY <4>1, <4>2, <4>3
    <3> QED BY <3>2, <3>3, <3>4
  <2> QED BY <2>6, <2>7
<1>6. Kept(N)
  <2>1. Nat \subseteq Good
    <3> HIDE DEF Good
    <3> QED BY <1>4, <1>5, NatSetInduction
  <2> HIDE DEF Kept
  <2> QED BY <1>2, <2>1
<1>7. ToSet(s) = {s[i] : i \in 1..N}
  BY <1>2 DEF ToSet
<1>8. f[N] \in Seq(X)
  BY <1>2
<1>9. ASSUME NEW a, NEW b, Before(f[N], a, b) PROVE Before(s, a, b)
  <2>1. \E i, j \in 1..N : i < j /\ s[i] = a /\ s[j] = b
    BY <1>6, <1>9
  <2> QED BY <1>2, <2>1 DEF Before
<1>10. ToSet(f[N]) = ToSet(s) \cap S /\ (Distinct(s) => Distinct(f[N]))
  BY <1>6, <1>7
<1> QED BY <1>1, <1>8, <1>9, <1>10

\* Without repetitions, the order of the members is all there is to a sequence.
LEMMA SameOrder ==
    ASSUME NEW X, NEW r \in Seq(X), NEW s \in Seq(X), Distinct(r), Distinct(s), ToSet(r) = ToSet(s),
           \A a, b : Before(r, a, b) => Before(s, a, b)
    PROVE  r = s
<1> DEFINE m == Len(r)
           n == Len(s)
<1>1. m \in Nat /\ n \in Nat /\ DOMAIN r = 1..m /\ DOMAIN s = 1..n
  BY LenProperties
<1>2. \A k \in 1..m : \E j \in 1..n : s[j] = r[k]
  BY <1>1 DEF ToSet
<1>3. \A k \in 1..n : \E j \in 1..m : r[j] = s[k]
  BY <1>1 DEF ToSet
<1> HIDE DEF m, n
<1> DEFINE Agree(k) == \A i \in 1..k : i <= m => i <= n /\ r[i] = s[i]
           Good == {k \in Nat : Agree(k)}
<1>4. 0 \in Good
  OBVIOUS
<1>5. ASSUME NEW k \in Nat, k \in Good PROVE k + 1 \in Good
  <2>1. SUFFICES ASSUME k + 1 <= m PROVE k + 1 <= n /\ r[k + 1] = s[k + 1]
    <3>1. \A i \in 1..(k + 1) : i \in 1..k \/ i = k + 1
      OBVIOUS
    <3> QED BY <1>5, <2>1, <3>1
  <2>2. k + 1 \in 1..m
    BY <1>1, <2>1
  <2>3. PICK j \in 1..n : s[j] = r[k + 1]
    BY <1>2, <2>2
  <2>4. \A i \in 1..k : i \in 1..m /\ i \in 1..n /\ r[i] = s[i]
    BY <1>1, <1>5, <2>1
  <2>5. ~(j \in 1..k)
    <3>1. SUFFICES ASSUME j \in 1..k PROVE FALSE
      OBVIOUS
    <3>2. r[j] = r[k + 1] /\ j \in 1..m
      BY <2>3, <2>4, <3>1
    <3>3. j = k + 1
      BY <1>1, <2>2, <3>2 DEF Distinct
    <3> QED BY <3>1, <3>3
  <2>6. k + 1 <= j /\ k + 1 \in 1..n
    BY <1>1, <2>5
  <2>7. CASE j # k + 1
    <3>1. PICK l \in 1..m : r[l] = s[k + 1]
      BY <1>3, <2>6
    <3>2. s[k + 1] # s[j]
      BY <1>1, <2>6, <2>7 DEF Distinct
    <3>3. l # k + 1
      BY <2>3, <3>1, <3>2
    <3>4. ~(l \in 1..k)
      <4>1. SUFFICES ASSUME l \in 1..k PROVE FALSE
        OBVIOUS
      <4>2. s[l] = s[k + 1] /\ l \in 1..n
        BY <2>4, <3>1, <4>1
      <4>3. l = k + 1
        BY <1>1, <2>6, <4>2 DEF Distinct
      <4> QED BY <3>3, <4>3
    <3>5. k + 1 < l
      BY <3>3, <3>4
    <3>6. Before(r, r[k + 1], r[l])
      BY <1>1, <2>2, <3>5 DEF Before
    <3>7. PICK u \in 1..n, v \in 1..n : u < v /\ s[u] = r[k + 1] /\ s[v] = r[l]
      <4>1. Before(s, r[k + 1], r[l])
        BY <3>6
      <4> QED BY <1>1, <4>1 DEF Before
    <3>8. u = j
      BY <1>1, <2>3, <3>7 DEF Distinct
    <3>9. v = k + 1
      BY <1>1, <2>6, <3>1, <3>7 DEF Distinct
    <3> QED BY <1>1, <2>6, <2>7, <3>7, <3>8, <3>9
  <2> QED BY <1>1, <2>3, <2>6, <2>7
<1>6. Nat \subseteq Good
  <2> HIDE DEF Good
  <2> QED BY <1>4, <1>5, NatSetInduction
<1>7. \A i \in 1..m : i <= n /\ r[i] = s[i]
  <2>1. m \in Good
    BY <1>1, <1>6
  <2> QED BY <1>1, <2>1
<1>8. n <= m
  <2>1. SUFFICES ASSUME m < n PROVE FALSE
    BY <1>1
  <2>2. m + 1 \in 1..n
    BY <1>1, <2>1
  <2>3. PICK j \in 1..m : r[j] = s[m + 1]
    BY <1>3, <2>2
  <2>4. s[j] = s[m + 1] /\ j \in 1..n
    BY <1>1, <1>7, <2>3
  <2>5. j = m + 1
    BY <1>1, <2>2, <2>4 DEF Distinct
  <2> QED BY <1>1, <2>5
<1>9. m <= n
  BY <1>1, <1>7
<1>10. m = n
  BY <1>1, <1>8, <1>9
<1> QED BY <1>7, <1>10, SeqEqual DEF m, n

\* Of two members, one comes before the other and not after it.
LEMMA OneBeforeOther ==
    ASSUME NEW X, NEW s \in Seq(X), Distinct(s), NEW a \in ToSet(s), NEW b \in ToSet(s)
    PROVE  /\ a # b => Before(s, a, b) \/ Before(s, b, a)
           /\ Before(s, a, b) => ~Before(s, b, a) /\ a # b
<1>1. DOMAIN s = 1..Len(s) /\ Len(s) \in Nat
  BY LenProperties
<1>2. PICK i \in 1..Len(s), j \in 1..Len(s) : s[i] = a /\ s[j] = b
  BY <1>1 DEF ToSet
<1>3. a # b => Before(s, a, b) \/ Before(s, b, a)
  <2>1. SUFFICES ASSUME a # b PROVE i < j \/ j < i
    BY <1>1, <1>2 DEF Before
  <2> QED BY <1>2, <2>1
<1>4. ASSUME NEW c, NEW d, NEW k \in 1..Len(s), NEW l \in 1..Len(s), s[k] = c, s[l] = d, Before(s, c, d)
      PROVE  k < l
  <2>1. PICK u \in 1..Len(s), v \in 1..Len(s) : u < v /\ s[u] = c /\ s[v] = d
    BY <1>1, <1>4 DEF Before
  <2>2. u = k /\ v = l
    BY <1>1, <1>4, <2>1 DEF Distinct
  <2> QED BY <2>1, <2>2
<1>5. Before(s, a, b) => i < j
  BY <1>2, <1>4
<1>6. Before(s, b, a) => j < i
  BY <1>2, <1>4
<1>7. Before(s, a, b) => a # b
  <2>1. a = b => i = j
    BY <1>1, <1>2 DEF Distinct
  <2> QED BY <1>5, <2>1
<1> QED BY <1>3, <1>5, <1>6, <1>7

\* What is in a sequence's order.
LEMMA BeforeAreMembers ==
    ASSUME NEW s, NEW a, NEW b, Before(s, a, b)
    PROVE  a \in ToSet(s) /\ b \in ToSet(s)
BY DEF Before, ToSet

\* Two sequences of the same members in the order of a third are equal.
LEMMA SameOrderAs ==
    ASSUME NEW X, NEW u \in Seq(X), NEW r \in Seq(X), NEW s \in Seq(X),
           Distinct(u), Distinct(r), Distinct(s), ToSet(r) = ToSet(s),
           \A a, b : Before(r, a, b) => Before(u, a, b),
           \A a, b : Before(s, a, b) => Before(u, a, b)
    PROVE  r = s
<1>1. ASSUME NEW a, NEW b, Before(r, a, b) PROVE Before(s, a, b)
  <2>1. a \in ToSet(r) /\ b \in ToSet(r) /\ Before(u, a, b)
    BY <1>1, BeforeAreMembers
  <2>2. a \in ToSet(u) /\ b \in ToSet(u)
    BY <2>1, BeforeAreMembers
  <2>3. a # b /\ ~Before(u, b, a)
    BY <2>1, <2>2, OneBeforeOther
  <2>4. Before(s, a, b) \/ Before(s, b, a)
    BY <2>1, <2>3, OneBeforeOther
  <2> QED BY <2>3, <2>4
<1> QED BY <1>1, SameOrder

\* Only is the one sequence of its members in the order of the whole.
LEMMA IsOnly ==
    ASSUME NEW X, NEW u \in Seq(X), NEW r \in Seq(X), NEW S, Distinct(u), Distinct(r),
           ToSet(r) = ToSet(u) \cap S, \A a, b : Before(r, a, b) => Before(u, a, b)
    PROVE  r = Only(u, S)
<1>1. /\ Only(u, S) \in Seq(X) /\ Distinct(Only(u, S)) /\ ToSet(r) = ToSet(Only(u, S))
      /\ \A a, b : Before(Only(u, S), a, b) => Before(u, a, b)
  BY OnlyMembers
<1> QED BY <1>1, SameOrderAs

\* All, none, and some of some.
LEMMA OnlyAll ==
    ASSUME NEW X, NEW s \in Seq(X), NEW S, Distinct(s), ToSet(s) \subseteq S
    PROVE  Only(s, S) = s
<1>1. ToSet(s) = ToSet(s) \cap S
  OBVIOUS
<1> QED BY <1>1, IsOnly

\* Nothing is kept of a sequence that has none of the members to keep.
LEMMA OnlyNone ==
    ASSUME NEW X, NEW s \in Seq(X), NEW S, ToSet(s) \cap S = {}
    PROVE  Only(s, S) = << >>
<1>1. Only(s, S) \in Seq(X) /\ ToSet(Only(s, S)) = {}
  BY OnlyMembers
<1> QED BY <1>1, MembersOf

\* Keeping twice keeps the members that are in both sets.
LEMMA OnlyOnly ==
    ASSUME NEW X, NEW s \in Seq(X), NEW S, NEW T, Distinct(s)
    PROVE  Only(Only(s, S), T) = Only(s, S \cap T)
<1> DEFINE r == Only(s, S)
           q == Only(r, T)
<1>1. r \in Seq(X) /\ Distinct(r) /\ ToSet(r) = ToSet(s) \cap S /\ \A a, b : Before(r, a, b) => Before(s, a, b)
  BY OnlyMembers
<1> HIDE DEF r
<1>2. q \in Seq(X) /\ Distinct(q) /\ ToSet(q) = ToSet(r) \cap T /\ \A a, b : Before(q, a, b) => Before(r, a, b)
  BY <1>1, OnlyMembers
<1> HIDE DEF q
<1>3. ToSet(q) = ToSet(s) \cap (S \cap T) /\ \A a, b : Before(q, a, b) => Before(s, a, b)
  BY <1>1, <1>2
<1>4. q = Only(s, S \cap T)
  BY <1>2, <1>3, IsOnly
<1> QED BY <1>4 DEF q, r

\* The same members are kept.
LEMMA OnlySame ==
    ASSUME NEW X, NEW s \in Seq(X), NEW S, NEW T, Distinct(s), ToSet(s) \cap S = ToSet(s) \cap T
    PROVE  Only(s, S) = Only(s, T)
<1>1. /\ Only(s, S) \in Seq(X) /\ Distinct(Only(s, S)) /\ ToSet(Only(s, S)) = ToSet(s) \cap T
      /\ \A a, b : Before(Only(s, S), a, b) => Before(s, a, b)
  BY OnlyMembers
<1> QED BY <1>1, IsOnly

\* Each sequence has the members of its number, in the order of the whole, in
\* which the numbers come one after another.
Pieces(ss, u, number, S) ==
    /\ \A c \in ToSet(u) : number[c] \in 1..Len(ss)
    /\ \A a, b : Before(u, a, b) => number[a] <= number[b]
    /\ \A k \in 1..Len(ss) : Distinct(ss[k])
    /\ \A k \in 1..Len(ss) : \A c : c \in ToSet(ss[k]) <=> c \in ToSet(u) /\ number[c] = k /\ c \in S
    /\ \A k \in 1..Len(ss) : \A a, b : Before(ss[k], a, b) => Before(u, a, b)

\* The pieces of a whole one after another are the whole.
LEMMA FlattenInOrder ==
    ASSUME NEW X, NEW u \in Seq(X), Distinct(u), NEW S, NEW number, NEW ss \in Seq(Seq(X)),
           Pieces(ss, u, number, S)
    PROVE  FlattenSeq(ss) = Only(u, S)
<1> DEFINE N == Len(ss)
           Upto(n) == {c \in ToSet(u) : number[c] \in 1..n} \cap S
<1>1. PICK f \in [0..N -> Seq(X)] : JoinedUpTo(f, ss) /\ FlattenSeq(ss) = f[N]
  BY FlattenIsJoined
<1>2. N \in Nat /\ \A k \in 1..N : ss[k] \in Seq(X)
  BY LenProperties, ElementOfSeq
<1>3. f[0] = << >> /\ \A n \in 1..N : f[n] = f[n - 1] \o ss[n]
  BY <1>1 DEF JoinedUpTo
<1>4. \A c \in ToSet(u) : number[c] \in 1..N
  BY DEF Pieces
<1> DEFINE Inv(n) == ToSet(f[n]) = Upto(n) /\ Distinct(f[n]) /\ \A a, b : Before(f[n], a, b) => Before(u, a, b)
           Good == {n \in Nat : n <= N => Inv(n)}
<1>5. 0 \in Good
  <2>1. DOMAIN f[0] = {} /\ 1..0 = {}
    BY <1>3
  <2> QED BY <2>1 DEF ToSet, Distinct, Before
<1>6. ASSUME NEW n \in Nat, n \in Good PROVE n + 1 \in Good
  <2>1. SUFFICES ASSUME n + 1 <= N PROVE Inv(n + 1)
    OBVIOUS
  <2>2. n + 1 \in 1..N /\ n \in 0..N /\ (n + 1) - 1 = n /\ n <= N
    BY <1>2, <2>1
  <2>3. Inv(n)
    <3> HIDE DEF Inv
    <3> QED BY <1>6, <2>2
  <2>4. f[n + 1] = f[n] \o ss[n + 1] /\ f[n] \in Seq(X) /\ ss[n + 1] \in Seq(X)
    BY <1>2, <1>3, <2>2
  <2>5. /\ Distinct(ss[n + 1]) /\ \A c : c \in ToSet(ss[n + 1]) <=> c \in ToSet(u) /\ number[c] = n + 1 /\ c \in S
        /\ \A a, b : Before(ss[n + 1], a, b) => Before(u, a, b)
    BY <2>2 DEF Pieces
  <2>6. ToSet(f[n]) \cap ToSet(ss[n + 1]) = {}
    BY <2>3, <2>5
  <2>7. ToSet(f[n + 1]) = ToSet(f[n]) \cup ToSet(ss[n + 1]) /\ Distinct(f[n + 1])
    BY <2>3, <2>4, <2>5, <2>6, ConcatMembers
  <2>8. ToSet(f[n + 1]) = Upto(n + 1)
    <3>1. 1..(n + 1) = 1..n \cup {n + 1}
      OBVIOUS
    <3> QED BY <2>3, <2>5, <2>7, <3>1
  <2>9. ASSUME NEW a, NEW b, Before(f[n + 1], a, b) PROVE Before(u, a, b)
    <3>1. Before(f[n], a, b) \/ Before(ss[n + 1], a, b) \/ (a \in ToSet(f[n]) /\ b \in ToSet(ss[n + 1]))
      BY <2>4, <2>9, ConcatMembers
    <3>2. CASE a \in ToSet(f[n]) /\ b \in ToSet(ss[n + 1])
      <4>1. a \in ToSet(u) /\ b \in ToSet(u) /\ number[a] \in 1..n /\ number[b] = n + 1
        BY <2>3, <2>5, <3>2
      <4>2. Before(u, a, b) \/ Before(u, b, a)
        <5>1. a # b
          BY <4>1
        <5> QED BY <4>1, <5>1, OneBeforeOther
      <4>3. Before(u, b, a) => number[b] <= number[a]
        BY DEF Pieces
      <4> QED BY <4>1, <4>2, <4>3
    <3> QED BY <2>3, <2>5, <3>1, <3>2
  <2> QED BY <2>7, <2>8, <2>9
<1>7. Inv(N)
  <2>1. Nat \subseteq Good
    <3> HIDE DEF Good
    <3> QED BY <1>5, <1>6, NatSetInduction
  <2> HIDE DEF Inv
  <2> QED BY <1>2, <2>1
<1>8. f[N] \in Seq(X)
  BY <1>2
<1>9. ToSet(f[N]) = ToSet(u) \cap S
  BY <1>4, <1>7
<1>10. f[N] = Only(u, S)
  BY <1>7, <1>8, <1>9, IsOnly
<1> QED BY <1>1, <1>10

-----------------------------------------------------------------------------
(* Positions *)

\* A stretch of a sequence.
LEMMA SubSeqMembers ==
    ASSUME NEW X, NEW s \in Seq(X), NEW m \in Int, NEW n \in Int, 1 <= m, n <= Len(s)
    PROVE  /\ SubSeq(s, m, n) \in Seq(X)
           /\ ToSet(SubSeq(s, m, n)) = {s[i] : i \in m..n}
           /\ Distinct(s) => Distinct(SubSeq(s, m, n))
           /\ \A a, b : Before(SubSeq(s, m, n), a, b) => \E i, j \in m..n : i < j /\ s[i] = a /\ s[j] = b
<1> DEFINE t == SubSeq(s, m, n)
<1>1. Len(s) \in Nat /\ DOMAIN s = 1..Len(s) /\ (\A i \in m..n : s[i] \in X /\ i \in 1..Len(s))
  <2>1. Len(s) \in Nat /\ DOMAIN s = 1..Len(s)
    BY LenProperties
  <2>2. \A i \in m..n : i \in 1..Len(s)
    BY <2>1
  <2> QED BY <2>1, <2>2, ElementOfSeq
<1>2. /\ t \in Seq(X) /\ Len(t) = (IF m <= n THEN n - m + 1 ELSE 0)
      /\ \A i \in 1..(n - m + 1) : t[i] = s[m + i - 1]
  BY <1>1, SubSeqProperties
<1>3. DOMAIN t = 1..Len(t)
  BY <1>2, LenProperties
<1> HIDE DEF t
<1>4. DOMAIN t = 1..(n - m + 1)
  BY <1>2, <1>3
<1>5. \A i \in 1..(n - m + 1) : m + i - 1 \in m..n
  OBVIOUS
<1>6. \A i \in m..n : i - m + 1 \in 1..(n - m + 1) /\ m + (i - m + 1) - 1 = i
  OBVIOUS
<1>7. ToSet(t) = {s[i] : i \in m..n}
  <2>1. \A a \in ToSet(t) : a \in {s[i] : i \in m..n}
    BY <1>2, <1>4, <1>5 DEF ToSet
  <2>2. \A i \in m..n : s[i] = t[i - m + 1]
    BY <1>2, <1>6
  <2>3. \A i \in m..n : s[i] \in ToSet(t)
    BY <1>4, <1>6, <2>2 DEF ToSet
  <2> QED BY <2>1, <2>3
<1>8. ASSUME Distinct(s) PROVE Distinct(t)
  <2>1. SUFFICES ASSUME NEW i \in 1..(n - m + 1), NEW j \in 1..(n - m + 1), t[i] = t[j] PROVE i = j
    BY <1>4 DEF Distinct
  <2>2. s[m + i - 1] = s[m + j - 1] /\ m + i - 1 \in 1..Len(s) /\ m + j - 1 \in 1..Len(s)
    BY <1>1, <1>2, <1>5, <2>1
  <2>3. m + i - 1 = m + j - 1
    BY <1>1, <1>8, <2>2 DEF Distinct
  <2> QED BY <2>3
<1>9. ASSUME NEW a, NEW b, Before(t, a, b) PROVE \E i, j \in m..n : i < j /\ s[i] = a /\ s[j] = b
  <2>1. PICK i \in 1..(n - m + 1), j \in 1..(n - m + 1) : i < j /\ t[i] = a /\ t[j] = b
    BY <1>4, <1>9 DEF Before
  <2>2. m + i - 1 < m + j - 1
    BY <2>1
  <2> QED BY <1>2, <1>5, <2>1, <2>2
<1> QED BY <1>2, <1>7, <1>8, <1>9 DEF t

\* A sequence without one of its positions.
LEMMA RemoveMembers ==
    ASSUME NEW X, NEW s \in Seq(X), Distinct(s), NEW i \in 1..Len(s)
    PROVE  /\ RemoveAt(s, i) \in Seq(X) /\ Len(RemoveAt(s, i)) = Len(s) - 1
           /\ ToSet(RemoveAt(s, i)) = ToSet(s) \ {s[i]}
           /\ Distinct(RemoveAt(s, i))
           /\ \A a, b : Before(RemoveAt(s, i), a, b) => Before(s, a, b)
           /\ \A j \in 1..(Len(s) - 1) : RemoveAt(s, i)[j] = IF j < i THEN s[j] ELSE s[j + 1]
<1> DEFINE N == Len(s)
           p == SubSeq(s, 1, i - 1)
           q == SubSeq(s, i + 1, N)
<1>1. N \in Nat /\ DOMAIN s = 1..N /\ i \in Int /\ 1 <= i /\ i <= N
  BY LenProperties
<1>2. i - 1 \in Int /\ i + 1 \in Int /\ i - 1 <= N /\ 1 <= i + 1 /\ N <= N
  BY <1>1
<1>3. p \in Seq(X) /\ ToSet(p) = {s[k] : k \in 1..(i - 1)} /\ Distinct(p)
      /\ \A a, b : Before(p, a, b) => \E k, l \in 1..(i - 1) : k < l /\ s[k] = a /\ s[l] = b
  <2> DEFINE first == 1
             last == i - 1
  <2>1. first \in Int /\ last \in Int /\ 1 <= first /\ last <= Len(s)
    BY <1>1, <1>2
  <2> HIDE DEF first, last
  <2>2. /\ SubSeq(s, first, last) \in Seq(X) /\ ToSet(SubSeq(s, first, last)) = {s[k] : k \in first..last}
        /\ Distinct(SubSeq(s, first, last))
        /\ \A a, b : Before(SubSeq(s, first, last), a, b) => \E k, l \in first..last : k < l /\ s[k] = a /\ s[l] = b
    BY <2>1, SubSeqMembers
  <2> QED BY <2>2 DEF first, last
<1>4. q \in Seq(X) /\ ToSet(q) = {s[k] : k \in (i + 1)..N} /\ Distinct(q)
      /\ \A a, b : Before(q, a, b) => \E k, l \in (i + 1)..N : k < l /\ s[k] = a /\ s[l] = b
  BY <1>1, <1>2, SubSeqMembers
<1>5. RemoveAt(s, i) = p \o q
  BY DEF RemoveAt
<1>6. Len(p) = i - 1 /\ \A j \in 1..(i - 1) : p[j] = s[j]
  <2>1. \A k \in 1..(i - 1) : s[k] \in X
    BY <1>1, ElementOfSeq
  <2>2. Len(p) = (IF 1 <= i - 1 THEN (i - 1) - 1 + 1 ELSE 0) /\ \A j \in 1..((i - 1) - 1 + 1) : p[j] = s[1 + j - 1]
    BY <1>2, <2>1, SubSeqProperties
  <2>3. (i - 1) - 1 + 1 = i - 1 /\ \A j \in 1..(i - 1) : 1 + j - 1 = j
    BY <1>1
  <2> HIDE DEF p
  <2> QED BY <1>1, <2>2, <2>3
<1>7. Len(q) = N - i /\ \A j \in 1..(N - i) : q[j] = s[i + j]
  <2>1. \A k \in (i + 1)..N : s[k] \in X
    BY <1>1, ElementOfSeq
  <2>2. Len(q) = (IF i + 1 <= N THEN N - (i + 1) + 1 ELSE 0)
        /\ \A j \in 1..(N - (i + 1) + 1) : q[j] = s[(i + 1) + j - 1]
    BY <1>1, <1>2, <2>1, SubSeqProperties
  <2>3. N - (i + 1) + 1 = N - i /\ \A j \in 1..(N - i) : (i + 1) + j - 1 = i + j
    BY <1>1
  <2> HIDE DEF q, N
  <2> QED BY <1>1, <2>2, <2>3
<1> HIDE DEF p, q, N
<1>8. \A k \in 1..N, l \in 1..N : s[k] = s[l] => k = l
  BY <1>1 DEF Distinct
<1>9. ToSet(p) \cap ToSet(q) = {}
  <2>1. SUFFICES ASSUME NEW k \in 1..(i - 1), NEW l \in (i + 1)..N, s[k] = s[l] PROVE FALSE
    BY <1>3, <1>4
  <2>2. k \in 1..N /\ l \in 1..N /\ k # l
    BY <1>1
  <2> QED BY <1>8, <2>1, <2>2
<1>10. Distinct(p \o q) /\ p \o q \in Seq(X) /\ ToSet(p \o q) = ToSet(p) \cup ToSet(q)
  BY <1>3, <1>4, <1>9, ConcatMembers
<1>11. ToSet(p \o q) = ToSet(s) \ {s[i]}
  <2>1. ToSet(s) = {s[k] : k \in 1..N}
    BY <1>1 DEF ToSet
  <2>2. \A k \in 1..N : k \in 1..(i - 1) \/ k = i \/ k \in (i + 1)..N
    BY <1>1
  <2>3. \A k \in 1..(i - 1) : k \in 1..N /\ k # i
    BY <1>1
  <2>4. \A k \in (i + 1)..N : k \in 1..N /\ k # i
    BY <1>1
  <2>5. i \in 1..N
    BY <1>1
  <2> QED BY <1>3, <1>4, <1>8, <1>10, <2>1, <2>2, <2>3, <2>4, <2>5
<1>12. ASSUME NEW a, NEW b, Before(p \o q, a, b) PROVE Before(s, a, b)
  <2>1. Before(p, a, b) \/ Before(q, a, b) \/ (a \in ToSet(p) /\ b \in ToSet(q))
    BY <1>3, <1>4, <1>12, ConcatMembers
  <2>2. \E k, l \in 1..N : k < l /\ s[k] = a /\ s[l] = b
    <3>1. CASE Before(p, a, b)
      <4>1. PICK k \in 1..(i - 1), l \in 1..(i - 1) : k < l /\ s[k] = a /\ s[l] = b
        BY <1>3, <3>1
      <4>2. k \in 1..N /\ l \in 1..N
        BY <1>1
      <4> QED BY <4>1, <4>2
    <3>2. CASE Before(q, a, b)
      <4>1. PICK k \in (i + 1)..N, l \in (i + 1)..N : k < l /\ s[k] = a /\ s[l] = b
        BY <1>4, <3>2
      <4>2. k \in 1..N /\ l \in 1..N
        BY <1>1
      <4> QED BY <4>1, <4>2
    <3>3. CASE a \in ToSet(p) /\ b \in ToSet(q)
      <4>1. PICK k \in 1..(i - 1), l \in (i + 1)..N : s[k] = a /\ s[l] = b
        BY <1>3, <1>4, <3>3
      <4>2. k \in 1..N /\ l \in 1..N /\ k < l
        BY <1>1
      <4> QED BY <4>1, <4>2
    <3> QED BY <2>1, <3>1, <3>2, <3>3
  <2> QED BY <1>1, <2>2 DEF Before
<1>13. /\ Len(p \o q) = N - 1
       /\ \A j \in 1..(N - 1) : (p \o q)[j] = IF j < i THEN s[j] ELSE s[j + 1]
  <2>1. /\ Len(p \o q) = Len(p) + Len(q)
        /\ \A j \in 1..(Len(p) + Len(q)) : (p \o q)[j] = IF j <= Len(p) THEN p[j] ELSE q[j - Len(p)]
    BY <1>3, <1>4, ConcatProperties
  <2>2. Len(p) + Len(q) = N - 1
    BY <1>1, <1>6, <1>7
  <2>3. ASSUME NEW j \in 1..(N - 1) PROVE (p \o q)[j] = IF j < i THEN s[j] ELSE s[j + 1]
    <3>1. CASE j < i
      <4>1. j <= Len(p) /\ j \in 1..(i - 1)
        BY <1>1, <1>6, <3>1
      <4> QED BY <1>6, <2>1, <2>2, <3>1, <4>1
    <3>2. CASE ~(j < i)
      <4>1. ~(j <= Len(p)) /\ j - Len(p) = j - i + 1 /\ j - i + 1 \in 1..(N - i) /\ i + (j - i + 1) = j + 1
        BY <1>1, <1>6, <3>2
      <4> QED BY <1>7, <2>1, <2>2, <3>2, <4>1
    <3> QED BY <3>1, <3>2
  <2> QED BY <2>1, <2>2, <2>3
<1> QED BY <1>5, <1>10, <1>11, <1>12, <1>13 DEF N

\* A sequence with one member more at a position.
LEMMA InsertMembers ==
    ASSUME NEW X, NEW s \in Seq(X), Distinct(s), NEW i \in 1..(Len(s) + 1), NEW x \in X, x \notin ToSet(s)
    PROVE  /\ InsertAt(s, i, x) \in Seq(X)
           /\ ToSet(InsertAt(s, i, x)) = ToSet(s) \cup {x}
           /\ Distinct(InsertAt(s, i, x))
           /\ \A a, b : Before(InsertAt(s, i, x), a, b) =>
                 \/ Before(s, a, b)
                 \/ a = x /\ \E j \in i..Len(s) : s[j] = b
                 \/ b = x /\ \E j \in 1..(i - 1) : s[j] = a
<1> DEFINE N == Len(s)
           p == SubSeq(s, 1, i - 1)
           q == SubSeq(s, i, N)
           one == <<x>>
           front == p \o one
<1>1. N \in Nat /\ DOMAIN s = 1..N /\ i \in Int /\ 1 <= i /\ i <= N + 1
  BY LenProperties
<1>2. i - 1 \in Int /\ i - 1 <= N /\ N <= N
  BY <1>1
<1>3. p \in Seq(X) /\ ToSet(p) = {s[k] : k \in 1..(i - 1)} /\ Distinct(p)
      /\ \A a, b : Before(p, a, b) => \E k, l \in 1..(i - 1) : k < l /\ s[k] = a /\ s[l] = b
  BY <1>1, <1>2, SubSeqMembers
<1>4. q \in Seq(X) /\ ToSet(q) = {s[k] : k \in i..N} /\ Distinct(q)
      /\ \A a, b : Before(q, a, b) => \E k, l \in i..N : k < l /\ s[k] = a /\ s[l] = b
  BY <1>1, <1>2, SubSeqMembers
<1>5. one \in Seq(X) /\ ToSet(one) = {x} /\ Distinct(one) /\ \A a, b : ~Before(one, a, b)
  <2>1. one \in Seq(X) /\ DOMAIN one = {1} /\ one[1] = x
    OBVIOUS
  <2> HIDE DEF one
  <2> QED BY <2>1 DEF ToSet, Distinct, Before
<1>6. InsertAt(s, i, x) = front \o q
  BY DEF InsertAt
<1> HIDE DEF p, q, N, one
<1>7. \A k \in 1..N, l \in 1..N : s[k] = s[l] => k = l
  BY <1>1 DEF Distinct
<1>8. ToSet(s) = {s[k] : k \in 1..N}
  BY <1>1 DEF ToSet
<1>9. (\A k \in 1..(i - 1) : k \in 1..N) /\ (\A k \in i..N : k \in 1..N) /\ \A k \in 1..N : k \in 1..(i - 1) \/ k \in i..N
  BY <1>1
<1>10. ToSet(p) \cup ToSet(q) = ToSet(s) /\ ToSet(p) \cap {x} = {}
  BY <1>3, <1>4, <1>8, <1>9
<1>11. ToSet(p) \cap ToSet(q) = {} /\ x \notin ToSet(q)
  <2>1. SUFFICES ASSUME NEW k \in 1..(i - 1), NEW l \in i..N, s[k] = s[l] PROVE FALSE
    BY <1>3, <1>4, <1>10
  <2>2. k \in 1..N /\ l \in 1..N /\ k # l
    BY <1>1
  <2> QED BY <1>7, <2>1, <2>2
<1>12. /\ front \in Seq(X) /\ ToSet(front) = ToSet(p) \cup {x} /\ Distinct(front)
       /\ \A a, b : Before(front, a, b) => Before(p, a, b) \/ (a \in ToSet(p) /\ b = x)
  <2>1. front \in Seq(X) /\ ToSet(front) = ToSet(p) \cup ToSet(one)
    BY <1>3, <1>5, ConcatMembers
  <2>2. Distinct(front)
    BY <1>3, <1>5, <1>10, ConcatMembers
  <2>3. \A a, b : Before(front, a, b) =>
            Before(p, a, b) \/ Before(one, a, b) \/ (a \in ToSet(p) /\ b \in ToSet(one))
    BY <1>3, <1>5, ConcatMembers
  <2> HIDE DEF front
  <2> QED BY <1>5, <2>1, <2>2, <2>3
<1> HIDE DEF front
<1>13. front \o q \in Seq(X) /\ ToSet(front \o q) = ToSet(front) \cup ToSet(q) /\ Distinct(front \o q)
  <2>1. ToSet(front) \cap ToSet(q) = {}
    BY <1>11, <1>12
  <2> QED BY <1>4, <1>12, <2>1, ConcatMembers
<1>14. ASSUME NEW a, NEW b, Before(front \o q, a, b)
       PROVE  \/ Before(s, a, b)
              \/ a = x /\ \E j \in i..N : s[j] = b
              \/ b = x /\ \E j \in 1..(i - 1) : s[j] = a
  <2>1. Before(front, a, b) \/ Before(q, a, b) \/ (a \in ToSet(front) /\ b \in ToSet(q))
    BY <1>4, <1>12, <1>14, ConcatMembers
  <2>2. CASE Before(p, a, b)
    <3>1. PICK k \in 1..(i - 1), l \in 1..(i - 1) : k < l /\ s[k] = a /\ s[l] = b
      BY <1>3, <2>2
    <3> QED BY <1>1, <1>9, <3>1 DEF Before
  <2>3. CASE Before(q, a, b)
    <3>1. PICK k \in i..N, l \in i..N : k < l /\ s[k] = a /\ s[l] = b
      BY <1>4, <2>3
    <3> QED BY <1>1, <1>9, <3>1 DEF Before
  <2>4. CASE a \in ToSet(p) /\ b = x
    BY <1>3, <2>4
  <2>5. CASE a = x /\ b \in ToSet(q)
    BY <1>4, <2>5
  <2>6. CASE a \in ToSet(p) /\ b \in ToSet(q)
    <3>1. PICK k \in 1..(i - 1), l \in i..N : s[k] = a /\ s[l] = b
      BY <1>3, <1>4, <2>6
    <3>2. k < l
      BY <1>1
    <3> QED BY <1>1, <1>9, <3>1, <3>2 DEF Before
  <2> QED BY <1>12, <2>1, <2>2, <2>3, <2>4, <2>5, <2>6
<1>15. ToSet(front \o q) = ToSet(s) \cup {x}
  BY <1>10, <1>12, <1>13
<1> QED BY <1>6, <1>13, <1>14, <1>15 DEF N

\* A member has taken the place of another: those after it were with or after
\* the other, those before it with or before the other, and the rest stay.
Displaced(s, r, c, target) ==
    \A a, b : Before(r, a, b) =>
        \/ Before(s, a, b) /\ a # c /\ b # c
        \/ a = c /\ b # c /\ (b = target \/ Before(s, target, b))
        \/ b = c /\ a # c /\ (a = target \/ Before(s, a, target))

\* That is what Moved does.
LEMMA MovedMembers ==
    ASSUME NEW X, NEW s \in Seq(X), Distinct(s), NEW from \in 1..Len(s), NEW to \in 1..Len(s)
    PROVE  /\ Moved(s, from, to) \in Seq(X)
           /\ ToSet(Moved(s, from, to)) = ToSet(s)
           /\ Distinct(Moved(s, from, to))
           /\ Displaced(s, Moved(s, from, to), s[from], s[to])
<1> DEFINE N == Len(s)
           c == s[from]
           r == RemoveAt(s, from)
           m == InsertAt(r, to, c)
<1>1. N \in Nat /\ DOMAIN s = 1..N /\ c \in X /\ c \in ToSet(s)
  BY LenProperties, ElementOfSeq, MembersOf
<1>2. /\ r \in Seq(X) /\ Len(r) = N - 1 /\ ToSet(r) = ToSet(s) \ {c} /\ Distinct(r)
      /\ \A a, b : Before(r, a, b) => Before(s, a, b)
      /\ \A j \in 1..(N - 1) : r[j] = IF j < from THEN s[j] ELSE s[j + 1]
  BY RemoveMembers
<1>3. Moved(s, from, to) = m
  BY DEF Moved
<1>4. from \in 1..N /\ to \in 1..N /\ s[from] = c
  OBVIOUS
<1> HIDE DEF N, c, r
<1>5. to \in 1..(Len(r) + 1) /\ c \notin ToSet(r)
  BY <1>1, <1>2, <1>4
<1>6. /\ m \in Seq(X) /\ ToSet(m) = ToSet(r) \cup {c} /\ Distinct(m)
      /\ \A a, b : Before(m, a, b) =>
            \/ Before(r, a, b)
            \/ a = c /\ \E j \in to..Len(r) : r[j] = b
            \/ b = c /\ \E j \in 1..(to - 1) : r[j] = a
  BY <1>1, <1>2, <1>5, InsertMembers
<1> HIDE DEF m
<1>7. ToSet(m) = ToSet(s)
  BY <1>1, <1>2, <1>6
<1>8. ASSUME NEW a, NEW b, Before(m, a, b)
      PROVE  \/ Before(s, a, b) /\ a # c /\ b # c
             \/ a = c /\ b # c /\ (b = s[to] \/ Before(s, s[to], b))
             \/ b = c /\ a # c /\ (a = s[to] \/ Before(s, a, s[to]))
  <2>1. \A j \in 1..(N - 1) : r[j] \in ToSet(r) /\ r[j] # c
    BY <1>2, <1>5, MembersOf
  <2>2. CASE Before(r, a, b)
    <3>1. a \in ToSet(r) /\ b \in ToSet(r)
      BY <2>2, BeforeAreMembers
    <3> QED BY <1>2, <1>5, <2>2, <3>1
  <2>3. CASE a = c /\ \E j \in to..Len(r) : r[j] = b
    <3>1. PICK j \in to..(N - 1) : r[j] = b
      BY <1>2, <2>3
    <3>2. j \in 1..(N - 1) /\ j \in 1..N /\ j + 1 \in 1..N /\ to < j + 1 /\ to <= j
      BY <1>1, <1>4
    <3>3. b = s[j] \/ b = s[j + 1]
      BY <1>2, <3>1, <3>2
    <3>4. b = s[to] \/ Before(s, s[to], b)
      BY <1>1, <1>4, <3>2, <3>3 DEF Before
    <3> QED BY <2>1, <2>3, <3>1, <3>2, <3>4
  <2>4. CASE b = c /\ \E j \in 1..(to - 1) : r[j] = a
    <3>1. PICK j \in 1..(to - 1) : r[j] = a
      BY <2>4
    <3>2. j \in 1..(N - 1) /\ j \in 1..N /\ j + 1 \in 1..N /\ j < to /\ j + 1 <= to
      BY <1>1, <1>4
    <3>3. a = s[j] \/ a = s[j + 1]
      BY <1>2, <3>1, <3>2
    <3>4. a = s[to] \/ Before(s, a, s[to])
      <4>1. CASE a = s[j]
        BY <1>1, <1>4, <3>2, <4>1 DEF Before
      <4>2. CASE a = s[j + 1] /\ j + 1 # to
        <5>1. j + 1 < to
          BY <1>4, <3>2, <4>2
        <5> QED BY <1>1, <1>4, <3>2, <4>2, <5>1 DEF Before
      <4> QED BY <3>3, <4>1, <4>2
    <3> QED BY <2>1, <2>4, <3>1, <3>2, <3>4
  <2> QED BY <1>6, <1>8, <2>2, <2>3, <2>4
<1> QED BY <1>3, <1>6, <1>7, <1>8 DEF c, Displaced

\* The first position of a sequence that passes, when only one does.
LEMMA SelectOnly ==
    ASSUME NEW n \in Nat, NEW I, NEW i \in 1..n, I = {i}
    PROVE  (IF I # {} THEN Min(I) ELSE 0) = i
<1>1. Min({i}) = i
  <2>1. i \in {i} /\ \A y \in {i} : i <= y
    OBVIOUS
  <2>2. \A x \in {i} : x = i
    OBVIOUS
  <2> QED BY <2>1, <2>2 DEF Min
<1> QED BY <1>1

\* The position of a column.
LEMMA PositionOfColumn ==
    ASSUME NEW X, NEW s \in Seq(X), Distinct(s), NEW i \in 1..Len(s)
    PROVE  PositionOf(s[i], s) = i
<1> DEFINE I == {j \in 1..Len(s) : s[j] = s[i]}
<1>1. Len(s) \in Nat /\ DOMAIN s = 1..Len(s)
  BY LenProperties
<1>2. I = {i}
  BY <1>1 DEF Distinct
<1>3. PositionOf(s[i], s) = IF I # {} THEN Min(I) ELSE 0
  BY DEF PositionOf, SelectInSeq
<1> HIDE DEF I
<1> QED BY <1>1, <1>2, <1>3, SelectOnly

\* The zone of a column: the one that has it, or none.
LEMMA ZoneOfColumn ==
    ASSUME NEW t, DOMAIN t.zones = 1..Len(t.zones), Len(t.zones) \in Nat, NEW c, NEW k \in 1..Len(t.zones),
           \A j \in 1..Len(t.zones) : c \in ToSet(t.zones[j].columnIds) <=> j = k
    PROVE  findZoneForColumn(t, c) = t.zones[k].id
<1> DEFINE I == {j \in 1..Len(t.zones) : c \in ToSet(t.zones[j].columnIds)}
           i == IF I # {} THEN Min(I) ELSE 0
<1>1. I = {k}
  OBVIOUS
<1>2. findZoneForColumn(t, c) = IF i = 0 THEN NoZone ELSE t.zones[i].id
  BY DEF findZoneForColumn, SelectInSeq
<1>3. i = k
  <2> HIDE DEF I
  <2> QED BY <1>1, SelectOnly
<1> HIDE DEF i
<1> QED BY <1>2, <1>3

\* A table without zones has none for a column.
LEMMA NoZoneOfColumn ==
    ASSUME NEW t, t.zones = << >>, NEW c
    PROVE  findZoneForColumn(t, c) = NoZone
<1> DEFINE I == {j \in 1..Len(t.zones) : c \in ToSet(t.zones[j].columnIds)}
           i == IF I # {} THEN Min(I) ELSE 0
<1>1. I = {}
  OBVIOUS
<1>2. findZoneForColumn(t, c) = IF i = 0 THEN NoZone ELSE t.zones[i].id
  BY DEF findZoneForColumn, SelectInSeq
<1> HIDE DEF I
<1> QED BY <1>1, <1>2

\* The parts of a table.
LEMMA TableParts ==
    ASSUME NEW t \in Table
    PROVE  /\ t.columns \in Seq(Int) /\ DOMAIN t.columns = 1..Len(t.columns) /\ Len(t.columns) \in Nat
           /\ t.zones \in Seq(Zone) /\ DOMAIN t.zones = 1..Len(t.zones) /\ Len(t.zones) \in Nat
           /\ t.cells \subseteq Int /\ t.hidden \subseteq Int /\ t.preset \in BOOLEAN /\ t.grouped \subseteq Int
           /\ \A k \in 1..Len(t.zones) : t.zones[k] \in Zone
           /\ t.zones = << >> <=> Len(t.zones) = 0
<1>1. t.columns \in Seq(Int) /\ t.zones \in Seq(Zone)
      /\ t.cells \subseteq Int /\ t.hidden \subseteq Int /\ t.preset \in BOOLEAN /\ t.grouped \subseteq Int
  BY DEF Table
<1>2. DOMAIN t.columns = 1..Len(t.columns) /\ Len(t.columns) \in Nat
  BY <1>1, LenProperties
<1>3. DOMAIN t.zones = 1..Len(t.zones) /\ Len(t.zones) \in Nat
  BY <1>1, LenProperties
<1>4. \A k \in 1..Len(t.zones) : t.zones[k] \in Zone
  BY <1>1, ElementOfSeq
<1>5. t.zones = << >> <=> Len(t.zones) = 0
  BY <1>1, EmptySeq
<1> QED BY <1>1, <1>2, <1>3, <1>4, <1>5

\* The zones of a table, and their columns in sequence.
LEMMA ZoneParts ==
    ASSUME NEW t \in Table
    PROVE  /\ \A k \in 1..Len(t.zones) :
                 t.zones[k].id \in Int /\ t.zones[k].minColumns \in Nat /\ t.zones[k].columnIds \in Seq(Int)
           /\ [i \in DOMAIN t.zones |-> t.zones[i].columnIds] \in Seq(Seq(Int))
           /\ Len([i \in DOMAIN t.zones |-> t.zones[i].columnIds]) = Len(t.zones)
<1>1. /\ DOMAIN t.zones = 1..Len(t.zones) /\ Len(t.zones) \in Nat
      /\ \A k \in 1..Len(t.zones) : t.zones[k] \in Zone
  BY TableParts
<1>2. \A k \in 1..Len(t.zones) :
          t.zones[k].id \in Int /\ t.zones[k].minColumns \in Nat /\ t.zones[k].columnIds \in Seq(Int)
  BY <1>1 DEF Zone
<1> DEFINE ids == [i \in DOMAIN t.zones |-> t.zones[i].columnIds]
           S == Seq(Int)
           N == Len(t.zones)
<1>3. ids \in [1..N -> S] /\ N \in Nat
  BY <1>1, <1>2
<1>4. ids \in Seq(S) /\ Len(ids) = N
  <2> HIDE DEF ids, S, N
  <2>1. ids \in Seq(S)
    BY <1>3, SeqDef
  <2>2. DOMAIN ids = 1..N /\ DOMAIN ids = 1..Len(ids) /\ Len(ids) \in Nat
    BY <1>3, <2>1, LenProperties
  <2> QED BY <1>3, <2>2
<1> QED BY <1>2, <1>4

\* The columns come zone after zone, each zone with those it is given.
Layout(t, zoneOf) ==
    /\ zoneOf \in [ToSet(t.columns) -> 1..Len(t.zones)]
    /\ \A a, b : Before(t.columns, a, b) => zoneOf[a] <= zoneOf[b]
    /\ \A k \in 1..Len(t.zones) : t.zones[k].columnIds = Only(t.columns, {c \in ToSet(t.columns) : zoneOf[c] = k})

\* A layout is what zones a table.
LEMMA LayoutZones ==
    ASSUME NEW t \in Table, NEW zoneOf
    PROVE  Layout(t, zoneOf) <=> zoneOf \in [ToSet(t.columns) -> DOMAIN t.zones] /\ ZonedBy(t, zoneOf)
<1>1. /\ DOMAIN t.zones = 1..Len(t.zones) /\ Len(t.zones) \in Nat
      /\ DOMAIN t.columns = 1..Len(t.columns) /\ Len(t.columns) \in Nat
      /\ t.columns \in Seq(Int)
  BY TableParts
<1>2. \A i \in 1..Len(t.columns) : t.columns[i] \in ToSet(t.columns)
  BY <1>1, MembersOf
<1>3. ASSUME zoneOf \in [ToSet(t.columns) -> 1..Len(t.zones)]
      PROVE  (\A a, b : Before(t.columns, a, b) => zoneOf[a] <= zoneOf[b])
             <=> \A i, j \in DOMAIN t.columns : i <= j => zoneOf[t.columns[i]] <= zoneOf[t.columns[j]]
  <2>1. \A i \in 1..Len(t.columns) : zoneOf[t.columns[i]] \in 1..Len(t.zones)
    BY <1>2, <1>3
  <2>2. ASSUME \A a, b : Before(t.columns, a, b) => zoneOf[a] <= zoneOf[b],
               NEW i \in 1..Len(t.columns), NEW j \in 1..Len(t.columns), i <= j
        PROVE  zoneOf[t.columns[i]] <= zoneOf[t.columns[j]]
    <3>1. CASE i = j
      BY <1>1, <2>1, <3>1
    <3>2. CASE i < j
      <4>1. Before(t.columns, t.columns[i], t.columns[j])
        BY <1>1, <3>2 DEF Before
      <4> QED BY <2>2, <4>1
    <3> QED BY <1>1, <2>2, <3>1, <3>2
  <2>3. ASSUME \A i, j \in DOMAIN t.columns : i <= j => zoneOf[t.columns[i]] <= zoneOf[t.columns[j]],
               NEW a, NEW b, Before(t.columns, a, b)
        PROVE  zoneOf[a] <= zoneOf[b]
    <3>1. PICK i \in 1..Len(t.columns), j \in 1..Len(t.columns) : i < j /\ t.columns[i] = a /\ t.columns[j] = b
      BY <1>1, <2>3 DEF Before
    <3> QED BY <1>1, <2>3, <3>1
  <2> QED BY <1>1, <2>2, <2>3
<1> QED BY <1>1, <1>3 DEF Layout, ZonedBy

\* The columns of each zone of a layout.
LEMMA LayoutColumns ==
    ASSUME NEW t \in Table, Distinct(t.columns), NEW zoneOf, Layout(t, zoneOf), NEW k \in 1..Len(t.zones)
    PROVE  /\ t.zones[k].columnIds \in Seq(Int) /\ Distinct(t.zones[k].columnIds)
           /\ ToSet(t.zones[k].columnIds) = {c \in ToSet(t.columns) : zoneOf[c] = k}
           /\ \A a, b : Before(t.zones[k].columnIds, a, b) => Before(t.columns, a, b)
<1> DEFINE S == {c \in ToSet(t.columns) : zoneOf[c] = k}
<1>1. t.zones[k].columnIds = Only(t.columns, S)
  BY DEF Layout
<1>2. t.columns \in Seq(Int)
  BY TableParts
<1>3. ToSet(t.columns) \cap S = S
  OBVIOUS
<1> HIDE DEF S
<1>4. /\ Only(t.columns, S) \in Seq(Int) /\ Distinct(Only(t.columns, S)) /\ ToSet(Only(t.columns, S)) = S
      /\ \A a, b : Before(Only(t.columns, S), a, b) => Before(t.columns, a, b)
  BY <1>2, <1>3, OnlyMembers
<1> QED BY <1>1, <1>4 DEF S

\* What the operations need of a table, its zones apart.
LEMMA ArrangedParts ==
    ASSUME NEW t, Arranged(t)
    PROVE  /\ t \in Table /\ Distinct(t.columns) /\ t.columns # << >> /\ t.cells = ToSet(t.columns)
           /\ t.grouped \subseteq zoneIds(t) /\ NoZone \notin t.grouped
           /\ \A i, j \in 1..Len(t.zones) : t.zones[i].id = t.zones[j].id => i = j
           /\ t.zones # << >> => \E zoneOf : Layout(t, zoneOf)
<1>1. t \in Table /\ NamedOnce(t) /\ Zoned(t) /\ t.columns # << >> /\ t.cells = ToSet(t.columns)
      /\ t.grouped \subseteq zoneIds(t) \ {NoZone}
  BY DEF Arranged
<1>2. DOMAIN t.zones = 1..Len(t.zones)
  BY <1>1, TableParts
<1>3. Distinct(t.columns) /\ \A i, j \in 1..Len(t.zones) : t.zones[i].id = t.zones[j].id => i = j
  BY <1>1, <1>2 DEF NamedOnce, Distinct
<1>4. t.zones # << >> => \E zoneOf : Layout(t, zoneOf)
  <2>1. SUFFICES ASSUME t.zones # << >> PROVE \E zoneOf : Layout(t, zoneOf)
    OBVIOUS
  <2>2. PICK zoneOf \in [ToSet(t.columns) -> DOMAIN t.zones] : ZonedBy(t, zoneOf)
    BY <1>1, <2>1 DEF Zoned
  <2> QED BY <1>1, <2>2, LayoutZones
<1> QED BY <1>1, <1>3, <1>4

\* A table of those parts is one.
LEMMA ArrangedFromParts ==
    ASSUME NEW t \in Table, Distinct(t.columns), t.columns # << >>, t.cells = ToSet(t.columns),
           t.grouped \subseteq zoneIds(t), NoZone \notin t.grouped,
           \A i, j \in 1..Len(t.zones) : t.zones[i].id = t.zones[j].id => i = j,
           t.zones # << >> => \E zoneOf : Layout(t, zoneOf)
    PROVE  Arranged(t)
<1>1. DOMAIN t.zones = 1..Len(t.zones)
  BY TableParts
<1>2. NamedOnce(t)
  BY <1>1 DEF NamedOnce, Distinct
<1>3. Zoned(t)
  <2>1. SUFFICES ASSUME t.zones # << >> PROVE \E zoneOf \in [ToSet(t.columns) -> DOMAIN t.zones] : ZonedBy(t, zoneOf)
    BY DEF Zoned
  <2>2. PICK zoneOf : Layout(t, zoneOf)
    BY <2>1
  <2> QED BY <2>2, LayoutZones
<1> QED BY <1>2, <1>3 DEF Arranged

\* The columns of the zones one after another, those of a set only, are those
\* of the table.
LEMMA ZonesInOrderOf ==
    ASSUME NEW t \in Table, Distinct(t.columns), NEW zoneOf, Layout(t, zoneOf), NEW S,
           NEW ss \in Seq(Seq(Int)), Len(ss) = Len(t.zones),
           \A k \in 1..Len(t.zones) : ss[k] = Only(t.zones[k].columnIds, S)
    PROVE  FlattenSeq(ss) = Only(t.columns, S)
<1> DEFINE u == t.columns
<1>1. u \in Seq(Int) /\ Distinct(u)
  BY TableParts
<1>2. /\ \A c \in ToSet(u) : zoneOf[c] \in 1..Len(ss)
      /\ \A a, b : Before(u, a, b) => zoneOf[a] <= zoneOf[b]
  BY DEF Layout
<1>3. ASSUME NEW k \in 1..Len(ss)
      PROVE  /\ Distinct(ss[k]) /\ ToSet(ss[k]) = {c \in ToSet(u) : zoneOf[c] = k} \cap S
             /\ \A a, b : Before(ss[k], a, b) => Before(u, a, b)
  <2> DEFINE z == t.zones[k].columnIds
  <2>1. /\ z \in Seq(Int) /\ Distinct(z) /\ ToSet(z) = {c \in ToSet(u) : zoneOf[c] = k}
        /\ \A a, b : Before(z, a, b) => Before(u, a, b)
    <3>1. k \in 1..Len(t.zones)
      OBVIOUS
    <3>2. t.zones[k].columnIds \in Seq(Int) /\ Distinct(t.zones[k].columnIds)
      BY <3>1, LayoutColumns
    <3>3. ToSet(t.zones[k].columnIds) = {c \in ToSet(t.columns) : zoneOf[c] = k}
      BY <3>1, LayoutColumns
    <3>4. \A a, b : Before(t.zones[k].columnIds, a, b) => Before(t.columns, a, b)
      BY <3>1, LayoutColumns
    <3> QED BY <3>2, <3>3, <3>4
  <2>2. ss[k] = Only(z, S)
    OBVIOUS
  <2> HIDE DEF z
  <2>3. /\ Distinct(Only(z, S)) /\ ToSet(Only(z, S)) = ToSet(z) \cap S
        /\ \A a, b : Before(Only(z, S), a, b) => Before(z, a, b)
    BY <2>1, OnlyMembers
  <2> QED BY <2>1, <2>2, <2>3
<1> HIDE DEF u
<1>4. /\ \A k \in 1..Len(ss) : Distinct(ss[k])
      /\ \A k \in 1..Len(ss) : \A c : c \in ToSet(ss[k]) <=> c \in ToSet(u) /\ zoneOf[c] = k /\ c \in S
  BY <1>3
<1>5. \A k \in 1..Len(ss) : \A a, b : Before(ss[k], a, b) => Before(u, a, b)
  BY <1>3
<1>6. FlattenSeq(ss) = Only(u, S)
  <2>1. Pieces(ss, u, zoneOf, S)
    BY <1>2, <1>4, <1>5 DEF Pieces
  <2> QED BY <1>1, <2>1, FlattenInOrder
<1> QED BY <1>6 DEF u

\* The columns are shown in the order of the table.
LEMMA ShownInOrder ==
    ASSUME NEW t, Arranged(t)
    PROVE  getDisplayColumns(t) = t.columns
<1>1. /\ t \in Table /\ Distinct(t.columns) /\ t.columns \in Seq(Int)
      /\ t.zones # << >> => \E zoneOf : Layout(t, zoneOf)
  BY ArrangedParts, TableParts
<1>2. CASE t.zones = << >>
  BY <1>2 DEF getDisplayColumns
<1>3. CASE t.zones # << >>
  <2> DEFINE ss == [i \in DOMAIN t.zones |-> t.zones[i].columnIds]
             all == ToSet(t.columns)
  <2>1. PICK zoneOf : Layout(t, zoneOf)
    BY <1>1, <1>3
  <2>2. ss \in Seq(Seq(Int)) /\ Len(ss) = Len(t.zones) /\ DOMAIN t.zones = 1..Len(t.zones)
    BY <1>1, ZoneParts, TableParts
  <2>3. ASSUME NEW k \in 1..Len(t.zones) PROVE ss[k] = Only(t.zones[k].columnIds, all)
    <3>1. /\ t.zones[k].columnIds \in Seq(Int) /\ Distinct(t.zones[k].columnIds)
          /\ ToSet(t.zones[k].columnIds) \subseteq all
      BY <1>1, <2>1, LayoutColumns
    <3>2. Only(t.zones[k].columnIds, all) = t.zones[k].columnIds
      <4> HIDE DEF all
      <4> QED BY <3>1, OnlyAll
    <3>3. ss[k] = t.zones[k].columnIds
      BY <2>2
    <3> QED BY <3>2, <3>3
  <2>4. getDisplayColumns(t) = Only(FlattenSeq(ss), all)
    BY <1>3 DEF getDisplayColumns
  <2> HIDE DEF ss
  <2>5. FlattenSeq(ss) = Only(t.columns, all)
    BY <1>1, <2>1, <2>2, <2>3, ZonesInOrderOf
  <2>6. Only(t.columns, all) = t.columns
    BY <1>1, OnlyAll
  <2> QED BY <2>4, <2>5, <2>6
<1> QED BY <1>2, <1>3

\* A column is found in its zone.
LEMMA FoundInItsZone ==
    ASSUME NEW t \in Table, Distinct(t.columns), NEW zoneOf, Layout(t, zoneOf), NEW c \in ToSet(t.columns)
    PROVE  findZoneForColumn(t, c) = t.zones[zoneOf[c]].id /\ zoneOf[c] \in 1..Len(t.zones)
<1>1. DOMAIN t.zones = 1..Len(t.zones) /\ Len(t.zones) \in Nat
  BY TableParts
<1>2. zoneOf[c] \in 1..Len(t.zones)
  BY DEF Layout
<1>3. \A j \in 1..Len(t.zones) : c \in ToSet(t.zones[j].columnIds) <=> j = zoneOf[c]
  <2>1. \A j \in 1..Len(t.zones) : ToSet(t.zones[j].columnIds) = {d \in ToSet(t.columns) : zoneOf[d] = j}
    BY LayoutColumns
  <2> QED BY <2>1
<1> QED BY <1>1, <1>2, <1>3, ZoneOfColumn

-----------------------------------------------------------------------------
(* The operations keep a table arranged *)

\* A table that differs in the order of its columns, and of those of its zones.
Reordered(t, t2, listed, place) ==
    /\ t2 \in Table /\ t2.columns = listed
    /\ t2.cells = t.cells /\ t2.hidden = t.hidden /\ t2.preset = t.preset /\ t2.grouped = t.grouped
    /\ Len(t2.zones) = Len(t.zones)
    /\ \A k \in 1..Len(t.zones) : t2.zones[k].id = t.zones[k].id
    /\ \A k \in 1..Len(t.zones) :
          t2.zones[k].columnIds = Only(listed, {c \in ToSet(listed) : place[c] = t.zones[k].id})

\* That is what withColumnOrder returns.
LEMMA OrderedColumns ==
    ASSUME NEW t \in Table, NEW listed \in Seq(Int), Distinct(listed), ToSet(listed) = ToSet(t.columns), NEW place
    PROVE  Reordered(t, withColumnOrder(t, listed, place), listed, place)
<1> DEFINE N == Len(t.zones)
           Own(k) == Only(listed, {c \in ToSet(listed) : place[c] = t.zones[k].id})
           zones == [i \in DOMAIN t.zones |-> [t.zones[i] EXCEPT !.columnIds = Own(i)]]
           columns == Only(listed, ToSet(t.columns)) \o Only(t.columns, ToSet(t.columns) \ ToSet(listed))
           t2 == withColumnOrder(t, listed, place)
<1>1. /\ t.columns \in Seq(Int) /\ DOMAIN t.zones = 1..N /\ N \in Nat
      /\ \A k \in 1..N : t.zones[k] \in Zone
  BY TableParts
<1>2. columns = listed
  <2>1. Only(listed, ToSet(t.columns)) = listed
    BY OnlyAll
  <2>2. Only(t.columns, ToSet(t.columns) \ ToSet(listed)) = << >>
    <3>1. ToSet(t.columns) \cap (ToSet(t.columns) \ ToSet(listed)) = {}
      OBVIOUS
    <3> QED BY <1>1, <3>1, OnlyNone
  <2> QED BY <2>1, <2>2, ConcatEmptySeq
<1>3. \A k \in 1..N : Own(k) \in Seq(Int)
  BY OnlyMembers
<1>4. t2 = [t EXCEPT !.columns = columns, !.zones = zones]
  BY DEF withColumnOrder
<1> HIDE DEF columns, Own, t2, N
<1>5. ASSUME NEW k \in 1..N
      PROVE  zones[k] \in Zone /\ zones[k].id = t.zones[k].id /\ zones[k].columnIds = Own(k)
  <2>1. zones[k] = [t.zones[k] EXCEPT !.columnIds = Own(k)] /\ t.zones[k] \in Zone /\ Own(k) \in Seq(Int)
    BY <1>1, <1>3
  <2> HIDE DEF zones
  <2> QED BY <2>1 DEF Zone
<1>6. zones \in Seq(Zone) /\ Len(zones) = N
  <2>1. DOMAIN zones = 1..N
    BY <1>1
  <2>2. zones \in [1..N -> Zone]
    <3>1. zones = [i \in 1..N |-> zones[i]]
      BY <1>1
    <3> HIDE DEF zones
    <3> QED BY <1>5, <3>1
  <2> HIDE DEF zones
  <2>3. zones \in Seq(Zone)
    BY <1>1, <2>2, SeqDef
  <2> QED BY <1>1, <2>1, <2>3, LenProperties
<1> HIDE DEF zones
<1>7. /\ t2 \in Table /\ t2.columns = listed /\ t2.zones = zones
      /\ t2.cells = t.cells /\ t2.hidden = t.hidden /\ t2.preset = t.preset /\ t2.grouped = t.grouped
  BY <1>2, <1>4, <1>6 DEF Table
<1> QED BY <1>5, <1>6, <1>7 DEF t2, N, Own, Reordered

\* Each column has the place of its number, and the numbers come in order.
Numbered(t, listed, place, number) ==
    /\ number \in [ToSet(listed) -> 1..Len(t.zones)]
    /\ \A c \in ToSet(listed) : place[c] = t.zones[number[c]].id
    /\ \A a, b : Before(listed, a, b) => number[a] <= number[b]

\* A table in a new order keeps its zones' columns together when their places
\* follow the order.
LEMMA OrderedLayout ==
    ASSUME NEW t \in Table, NEW listed \in Seq(Int), Distinct(listed), ToSet(listed) = ToSet(t.columns), NEW place,
           \A i, j \in 1..Len(t.zones) : t.zones[i].id = t.zones[j].id => i = j,
           NEW number, Numbered(t, listed, place, number)
    PROVE  Layout(withColumnOrder(t, listed, place), number)
<1> DEFINE t2 == withColumnOrder(t, listed, place)
<1>1. /\ t2.columns = listed /\ Len(t2.zones) = Len(t.zones)
      /\ \A k \in 1..Len(t.zones) :
            t2.zones[k].columnIds = Only(listed, {c \in ToSet(listed) : place[c] = t.zones[k].id})
  <2>1. Reordered(t, t2, listed, place)
    BY OrderedColumns
  <2> HIDE DEF t2
  <2> QED BY <2>1 DEF Reordered
<1> HIDE DEF t2
<1>2. ASSUME NEW k \in 1..Len(t.zones)
      PROVE  {c \in ToSet(listed) : place[c] = t.zones[k].id} = {c \in ToSet(listed) : number[c] = k}
  <2>1. ASSUME NEW c \in ToSet(listed) PROVE place[c] = t.zones[k].id <=> number[c] = k
    <3>1. number[c] \in 1..Len(t.zones) /\ place[c] = t.zones[number[c]].id
      BY DEF Numbered
    <3> QED BY <3>1
  <2> QED BY <2>1
<1>3. \A k \in 1..Len(t.zones) : t2.zones[k].columnIds = Only(listed, {c \in ToSet(listed) : number[c] = k})
  BY <1>1, <1>2
<1>4. Layout(t2, number)
  BY <1>1, <1>3 DEF Layout, Numbered
<1> QED BY <1>4 DEF t2

\* Such a table is arranged.
LEMMA OrderedArranged ==
    ASSUME NEW t \in Table, NEW listed \in Seq(Int), Distinct(listed), ToSet(listed) = ToSet(t.columns), NEW place,
           \A i, j \in 1..Len(t.zones) : t.zones[i].id = t.zones[j].id => i = j,
           listed # << >>, t.cells = ToSet(listed), t.grouped \subseteq zoneIds(t), NoZone \notin t.grouped,
           t.zones # << >> => \E number : Numbered(t, listed, place, number)
    PROVE  Arranged(withColumnOrder(t, listed, place))
<1> DEFINE t2 == withColumnOrder(t, listed, place)
<1>1. /\ t2 \in Table /\ t2.columns = listed /\ Len(t2.zones) = Len(t.zones)
      /\ t2.cells = t.cells /\ t2.grouped = t.grouped
      /\ \A k \in 1..Len(t.zones) : t2.zones[k].id = t.zones[k].id
  <2>1. Reordered(t, t2, listed, place)
    BY OrderedColumns
  <2> HIDE DEF t2
  <2> QED BY <2>1 DEF Reordered
<1>2. t.zones # << >> => \E number : Layout(t2, number)
  BY OrderedLayout
<1> HIDE DEF t2
<1>3. /\ DOMAIN t.zones = 1..Len(t.zones) /\ DOMAIN t2.zones = 1..Len(t2.zones)
      /\ (t.zones = << >> <=> Len(t.zones) = 0) /\ (t2.zones = << >> <=> Len(t2.zones) = 0)
  BY <1>1, TableParts
<1>4. zoneIds(t2) = zoneIds(t)
  <2>1. zoneIds(t) = {t.zones[i].id : i \in 1..Len(t.zones)} /\ zoneIds(t2) = {t2.zones[i].id : i \in 1..Len(t.zones)}
    BY <1>1, <1>3 DEF zoneIds
  <2> QED BY <1>1, <2>1
<1>5. \A i, j \in 1..Len(t2.zones) : t2.zones[i].id = t2.zones[j].id => i = j
  BY <1>1
<1>6. t2.zones # << >> => \E number : Layout(t2, number)
  BY <1>1, <1>2, <1>3
<1>7. Arranged(t2)
  BY <1>1, <1>4, <1>5, <1>6, ArrangedFromParts
<1> QED BY <1>7 DEF t2

\* The columns of a table in a new order are found in the zones they are given.
LEMMA OrderedFound ==
    ASSUME NEW t \in Table, NEW listed \in Seq(Int), Distinct(listed), ToSet(listed) = ToSet(t.columns), NEW place,
           \A i, j \in 1..Len(t.zones) : t.zones[i].id = t.zones[j].id => i = j,
           NEW number, Numbered(t, listed, place, number), NEW c \in ToSet(listed)
    PROVE  findZoneForColumn(withColumnOrder(t, listed, place), c) = place[c]
<1> DEFINE t2 == withColumnOrder(t, listed, place)
<1>1. /\ t2 \in Table /\ t2.columns = listed /\ Len(t2.zones) = Len(t.zones)
      /\ \A k \in 1..Len(t.zones) : t2.zones[k].id = t.zones[k].id
  <2>1. Reordered(t, t2, listed, place)
    BY OrderedColumns
  <2> HIDE DEF t2
  <2> QED BY <2>1 DEF Reordered
<1>2. Layout(t2, number)
  BY OrderedLayout
<1> HIDE DEF t2
<1>3. findZoneForColumn(t2, c) = t2.zones[number[c]].id /\ number[c] \in 1..Len(t.zones)
  BY <1>1, <1>2, FoundInItsZone
<1>4. place[c] = t.zones[number[c]].id
  BY DEF Numbered
<1>5. findZoneForColumn(t2, c) = place[c]
  BY <1>1, <1>3, <1>4
<1> QED BY <1>5 DEF t2

\* Moving a column keeps the table arranged, and every other column its zone.
LEMMA MoveArranged ==
    ASSUME NEW t, Arranged(t), NEW c \in ToSet(t.columns), NEW target \in ToSet(t.columns), c # target
    PROVE  LET t2 == moveTableColumnTo(t, c, target)
           IN  /\ Arranged(t2) /\ t2.cells = t.cells /\ t2.grouped = t.grouped
               /\ \A d \in ToSet(t.columns) \ {c} : findZoneForColumn(t2, d) = findZoneForColumn(t, d)
<1> DEFINE t2 == moveTableColumnTo(t, c, target)
           u == t.columns
           from == PositionOf(c, u)
           to == PositionOf(target, u)
           listed == Moved(u, from, to)
           place == [ZonesOf(t, u) EXCEPT ![c] = findZoneForColumn(t, target)]
<1>1. /\ t \in Table /\ Distinct(u) /\ u # << >> /\ t.cells = ToSet(u)
      /\ t.grouped \subseteq zoneIds(t) /\ NoZone \notin t.grouped
      /\ \A i, j \in 1..Len(t.zones) : t.zones[i].id = t.zones[j].id => i = j
      /\ t.zones # << >> => \E zoneOf : Layout(t, zoneOf)
  BY ArrangedParts
<1>2. u \in Seq(Int) /\ getDisplayColumns(t) = u
  BY <1>1, TableParts, ShownInOrder
<1>3. from \in 1..Len(u) /\ u[from] = c /\ to \in 1..Len(u) /\ u[to] = target
  <2>1. PICK i \in 1..Len(u) : u[i] = c
    BY <1>2, MemberAt
  <2>2. PICK j \in 1..Len(u) : u[j] = target
    BY <1>2, MemberAt
  <2>3. PositionOf(u[i], u) = i /\ PositionOf(u[j], u) = j
    BY <1>1, <1>2, PositionOfColumn
  <2> QED BY <2>1, <2>2, <2>3
<1>4. t2 = IF t.zones = << >> THEN [t EXCEPT !.columns = listed] ELSE withColumnOrder(t, listed, place)
  BY <1>2 DEF moveTableColumnTo
<1> HIDE DEF from, to, t2, u
<1>5. /\ listed \in Seq(Int) /\ ToSet(listed) = ToSet(u) /\ Distinct(listed)
      /\ \A a, b : Before(listed, a, b) =>
            \/ Before(u, a, b) /\ a # c /\ b # c
            \/ a = c /\ b # c /\ (b = target \/ Before(u, target, b))
            \/ b = c /\ a # c /\ (a = target \/ Before(u, a, target))
  <2>1. listed \in Seq(Int) /\ ToSet(listed) = ToSet(u) /\ Distinct(listed)
    BY <1>1, <1>2, <1>3, MovedMembers
  <2>2. Displaced(u, listed, u[from], u[to])
    BY <1>1, <1>2, <1>3, MovedMembers
  <2> HIDE DEF listed
  <2> QED BY <1>3, <2>1, <2>2 DEF Displaced
<1> HIDE DEF listed
<1>6. listed # << >>
  BY <1>1, <1>2, <1>5, MembersOf
<1>7. CASE t.zones = << >>
  <2>1. /\ t2 \in Table /\ t2.columns = listed /\ t2.cells = t.cells /\ t2.grouped = t.grouped
        /\ t2.zones = t.zones
    <3>1. t2 = [t EXCEPT !.columns = listed]
      BY <1>4, <1>7
    <3> QED BY <1>1, <1>5, <3>1 DEF Table
  <2>2. zoneIds(t2) = zoneIds(t)
    BY <2>1 DEF zoneIds
  <2>3. Arranged(t2)
    BY <1>1, <1>5, <1>6, <1>7, <2>1, <2>2, ArrangedFromParts
  <2>4. \A d : findZoneForColumn(t2, d) = findZoneForColumn(t, d)
    BY <1>7, <2>1, NoZoneOfColumn
  <2> QED BY <2>1, <2>3, <2>4 DEF t2
<1>8. CASE t.zones # << >>
  <2>1. PICK zoneOf : Layout(t, zoneOf)
    BY <1>1, <1>8
  <2>2. /\ zoneOf \in [ToSet(u) -> 1..Len(t.zones)]
        /\ \A a, b : Before(u, a, b) => zoneOf[a] <= zoneOf[b]
    BY <2>1 DEF Layout, u
  <2>3. c \in ToSet(u) /\ target \in ToSet(u)
    BY DEF u
  <2>4. \A d \in ToSet(u) : findZoneForColumn(t, d) = t.zones[zoneOf[d]].id
    BY <1>1, <2>1, FoundInItsZone DEF u
  <2> DEFINE number == [zoneOf EXCEPT ![c] = zoneOf[target]]
  <2>5. \A d \in ToSet(u) : place[d] = IF d = c THEN findZoneForColumn(t, target) ELSE findZoneForColumn(t, d)
    BY DEF ZonesOf
  <2>6. number \in [ToSet(u) -> 1..Len(t.zones)] /\ \A d \in ToSet(u) : number[d] = IF d = c THEN zoneOf[target] ELSE zoneOf[d]
    BY <2>2, <2>3
  <2> HIDE DEF number, place
  <2>7. \A d \in ToSet(u) : place[d] = t.zones[number[d]].id
    BY <2>3, <2>4, <2>5, <2>6
  <2>8. ASSUME NEW a, NEW b, Before(listed, a, b) PROVE number[a] <= number[b]
    <3>1. a \in ToSet(u) /\ b \in ToSet(u)
      BY <1>5, <2>8, BeforeAreMembers
    <3>2. number[a] \in 1..Len(t.zones) /\ number[b] \in 1..Len(t.zones) /\ Len(t.zones) \in Nat
      BY <1>1, <2>6, <3>1, TableParts
    <3>3. CASE Before(u, a, b) /\ a # c /\ b # c
      BY <2>2, <2>6, <3>1, <3>3
    <3>4. CASE a = c /\ b # c /\ (b = target \/ Before(u, target, b))
      BY <2>2, <2>3, <2>6, <3>1, <3>2, <3>4
    <3>5. CASE b = c /\ a # c /\ (a = target \/ Before(u, a, target))
      BY <2>2, <2>3, <2>6, <3>1, <3>2, <3>5
    <3> QED BY <1>5, <2>8, <3>3, <3>4, <3>5
  <2>9. Numbered(t, listed, place, number)
    BY <1>5, <2>6, <2>7, <2>8 DEF Numbered
  <2>10. t2 = withColumnOrder(t, listed, place) /\ ToSet(listed) = ToSet(t.columns) /\ t.cells = ToSet(listed)
    BY <1>1, <1>4, <1>5, <1>8 DEF u
  <2>11. Arranged(withColumnOrder(t, listed, place))
    BY <1>1, <1>5, <1>6, <2>9, <2>10, OrderedArranged
  <2>12. ASSUME NEW d \in ToSet(t.columns) \ {c} PROVE findZoneForColumn(t2, d) = findZoneForColumn(t, d)
    <3>1. d \in ToSet(listed) /\ d # c /\ d \in ToSet(u)
      BY <1>5, <2>10
    <3>2. findZoneForColumn(t2, d) = place[d]
      BY <1>1, <1>5, <2>9, <2>10, <3>1, OrderedFound
    <3> QED BY <2>5, <3>1, <3>2
  <2>13. t2.cells = t.cells /\ t2.grouped = t.grouped
    <3>1. Reordered(t, t2, listed, place)
      BY <1>1, <1>5, <2>10, OrderedColumns
    <3> QED BY <3>1 DEF Reordered
  <2> QED BY <2>10, <2>11, <2>12, <2>13 DEF t2
<1> QED BY <1>7, <1>8

\* A table with an empty column more, before its columns take their order.
LEMMA FilledTable ==
    ASSUME NEW t \in Table, NEW new \in Int
    PROVE  LET filled == [t EXCEPT !.columns = Append(@, new), !.cells = @ \cup {new}]
           IN  /\ filled \in Table /\ ToSet(filled.columns) = ToSet(t.columns) \cup {new}
               /\ filled.cells = t.cells \cup {new} /\ filled.grouped = t.grouped /\ filled.zones = t.zones
               /\ zoneIds(filled) = zoneIds(t)
<1> DEFINE filled == [t EXCEPT !.columns = Append(@, new), !.cells = @ \cup {new}]
<1>1. t.columns \in Seq(Int) /\ t.cells \subseteq Int
  BY TableParts
<1>2. Append(t.columns, new) \in Seq(Int) /\ ToSet(Append(t.columns, new)) = ToSet(t.columns) \cup {new}
  BY <1>1, AppendMembers
<1>3. t.cells \cup {new} \in SUBSET Int
  BY <1>1
<1>4. /\ filled \in Table /\ filled.columns = Append(t.columns, new)
      /\ filled.cells = t.cells \cup {new} /\ filled.grouped = t.grouped /\ filled.zones = t.zones
  BY <1>2, <1>3 DEF Table
<1> HIDE DEF filled
<1>5. zoneIds(filled) = zoneIds(t)
  BY <1>4 DEF zoneIds
<1> QED BY <1>2, <1>4, <1>5 DEF filled

\* Inserting a column keeps the table arranged, and every column its zone.
LEMMA InsertArranged ==
    ASSUME NEW t, Arranged(t), NEW c \in ToSet(t.columns), NEW side \in {"left", "right"},
           NEW new \in Int, new \notin ToSet(t.columns)
    PROVE  LET t2 == insertTableColumnBeside(t, c, side, new)
           IN  /\ Arranged(t2) /\ t2.cells = t.cells \cup {new} /\ t2.grouped = t.grouped
               /\ \A d \in ToSet(t.columns) : findZoneForColumn(t2, d) = findZoneForColumn(t, d)
<1> DEFINE t2 == insertTableColumnBeside(t, c, side, new)
           u == t.columns
           at == PositionOf(c, u)
           i == IF side = "left" THEN at ELSE at + 1
           listed == InsertAt(u, i, new)
           filled == [t EXCEPT !.columns = Append(@, new), !.cells = @ \cup {new}]
           place == [d \in ToSet(listed) |-> findZoneForColumn(t, IF d = new THEN c ELSE d)]
<1>1. /\ t \in Table /\ Distinct(u) /\ u # << >> /\ t.cells = ToSet(u)
      /\ t.grouped \subseteq zoneIds(t) /\ NoZone \notin t.grouped
      /\ \A k, l \in 1..Len(t.zones) : t.zones[k].id = t.zones[l].id => k = l
      /\ t.zones # << >> => \E zoneOf : Layout(t, zoneOf)
  BY ArrangedParts
<1>2. u \in Seq(Int) /\ getDisplayColumns(t) = u
  BY <1>1, TableParts, ShownInOrder
<1>3. at \in 1..Len(u) /\ u[at] = c
  <2>1. PICK k \in 1..Len(u) : u[k] = c
    BY <1>2, MemberAt
  <2>2. PositionOf(u[k], u) = k
    BY <1>1, <1>2, PositionOfColumn
  <2> QED BY <2>1, <2>2
<1>4. t2 = withColumnOrder(filled, listed, place)
  BY <1>2 DEF insertTableColumnBeside
<1>5. /\ filled \in Table /\ ToSet(filled.columns) = ToSet(u) \cup {new}
      /\ filled.cells = t.cells \cup {new} /\ filled.grouped = t.grouped /\ filled.zones = t.zones
      /\ zoneIds(filled) = zoneIds(t)
  BY <1>1, FilledTable
<1>6. c \in ToSet(u) /\ new \notin ToSet(u)
  OBVIOUS
<1> HIDE DEF at, t2, u, filled
<1>7. /\ i \in 1..(Len(u) + 1) /\ (\A j \in i..Len(u) : j \in at..Len(u)) /\ (\A j \in 1..(i - 1) : j \in 1..at)
      /\ Len(u) \in Nat
  <2>1. Len(u) \in Nat
    BY <1>2, LenProperties
  <2> QED BY <1>3, <2>1
<1> HIDE DEF i
<1>8. /\ listed \in Seq(Int) /\ ToSet(listed) = ToSet(u) \cup {new} /\ Distinct(listed)
      /\ \A a, b : Before(listed, a, b) =>
            \/ Before(u, a, b)
            \/ a = new /\ \E j \in i..Len(u) : u[j] = b
            \/ b = new /\ \E j \in 1..(i - 1) : u[j] = a
  BY <1>1, <1>2, <1>6, <1>7, InsertMembers
<1>9. \A d \in ToSet(listed) : place[d] = findZoneForColumn(t, IF d = new THEN c ELSE d)
  OBVIOUS
<1> HIDE DEF listed, place
<1>10. listed # << >> /\ filled.cells = ToSet(listed) /\ ToSet(listed) = ToSet(filled.columns)
  <2>1. ToSet(listed) # {}
    BY <1>8
  <2> QED BY <1>1, <1>5, <1>8, <2>1, MembersOf
<1>11. ASSUME NEW zoneOf, Layout(t, zoneOf)
       PROVE  \E number : Numbered(filled, listed, place, number)
  <2>1. /\ zoneOf \in [ToSet(u) -> 1..Len(t.zones)]
        /\ \A a, b : Before(u, a, b) => zoneOf[a] <= zoneOf[b]
    BY <1>11 DEF Layout, u
  <2>2. \A d \in ToSet(u) : findZoneForColumn(t, d) = t.zones[zoneOf[d]].id
    BY <1>1, <1>11, FoundInItsZone DEF u
  <2> DEFINE number == [d \in ToSet(listed) |-> zoneOf[IF d = new THEN c ELSE d]]
  <2>3. /\ number \in [ToSet(listed) -> 1..Len(t.zones)]
        /\ \A d \in ToSet(listed) : number[d] = zoneOf[IF d = new THEN c ELSE d]
    BY <1>6, <1>8, <2>1
  <2> HIDE DEF number
  <2>4. \A d \in ToSet(listed) : place[d] = t.zones[number[d]].id
    BY <1>6, <1>8, <1>9, <2>2, <2>3
  <2>5. \A k, l \in 1..Len(u) : k <= l => zoneOf[u[k]] <= zoneOf[u[l]]
    <3>1. SUFFICES ASSUME NEW k \in 1..Len(u), NEW l \in 1..Len(u), k <= l PROVE zoneOf[u[k]] <= zoneOf[u[l]]
      OBVIOUS
    <3>2. DOMAIN u = 1..Len(u) /\ zoneOf[u[k]] \in 1..Len(t.zones) /\ Len(t.zones) \in Nat
      BY <1>1, <1>2, <2>1, MembersOf, TableParts
    <3>3. CASE k = l
      BY <3>2, <3>3
    <3>4. CASE k < l
      <4>1. Before(u, u[k], u[l])
        BY <3>2, <3>4 DEF Before
      <4> QED BY <2>1, <4>1
    <3> QED BY <3>1, <3>3, <3>4
  <2>6. ASSUME NEW a, NEW b, Before(listed, a, b) PROVE number[a] <= number[b]
    <3>1. a \in ToSet(listed) /\ b \in ToSet(listed) /\ (\A d \in ToSet(u) : d # new)
      BY <1>6, <2>6, BeforeAreMembers
    <3>2. CASE Before(u, a, b)
      <4>1. a \in ToSet(u) /\ b \in ToSet(u)
        BY <3>2, BeforeAreMembers
      <4> QED BY <2>1, <2>3, <3>1, <3>2, <4>1
    <3>3. CASE a = new /\ \E j \in i..Len(u) : u[j] = b
      <4>1. PICK j \in at..Len(u) : u[j] = b
        BY <1>7, <3>3
      <4>2. j \in 1..Len(u) /\ at <= j
        BY <1>3, <1>7
      <4>3. b \in ToSet(u)
        BY <1>2, <4>1, <4>2, MembersOf
      <4> QED BY <1>3, <2>3, <2>5, <3>1, <3>3, <4>1, <4>2, <4>3
    <3>4. CASE b = new /\ \E j \in 1..(i - 1) : u[j] = a
      <4>1. PICK j \in 1..at : u[j] = a
        BY <1>7, <3>4
      <4>2. j \in 1..Len(u) /\ j <= at
        BY <1>3, <1>7
      <4>3. a \in ToSet(u)
        BY <1>2, <4>1, <4>2, MembersOf
      <4> QED BY <1>3, <2>3, <2>5, <3>1, <3>4, <4>1, <4>2, <4>3
    <3> QED BY <1>8, <2>6, <3>2, <3>3, <3>4
  <2>7. Numbered(filled, listed, place, number)
    BY <1>5, <2>3, <2>4, <2>6 DEF Numbered
  <2> QED BY <2>7
<1>12. filled.zones # << >> => \E number : Numbered(filled, listed, place, number)
  BY <1>1, <1>5, <1>11
<1>13. Arranged(t2)
  BY <1>1, <1>4, <1>5, <1>8, <1>10, <1>12, OrderedArranged
<1>14. t2.cells = t.cells \cup {new} /\ t2.grouped = t.grouped /\ Len(t2.zones) = Len(t.zones) /\ t2 \in Table
  <2>1. Reordered(filled, t2, listed, place)
    BY <1>4, <1>5, <1>8, <1>10, OrderedColumns
  <2> QED BY <1>5, <2>1 DEF Reordered
<1>15. ASSUME NEW d \in ToSet(u) PROVE findZoneForColumn(t2, d) = findZoneForColumn(t, d)
  <2>1. CASE t.zones = << >>
    <3>1. t2.zones = << >>
      BY <1>1, <1>14, <2>1, TableParts
    <3> QED BY <2>1, <3>1, NoZoneOfColumn
  <2>2. CASE t.zones # << >>
    <3>1. PICK number : Numbered(filled, listed, place, number)
      BY <1>5, <1>12, <2>2
    <3>2. d \in ToSet(listed) /\ d # new
      BY <1>6, <1>8
    <3>3. \A k, l \in 1..Len(filled.zones) : filled.zones[k].id = filled.zones[l].id => k = l
      BY <1>1, <1>5
    <3>4. findZoneForColumn(withColumnOrder(filled, listed, place), d) = place[d]
      <4>1. filled \in Table /\ listed \in Seq(Int) /\ Distinct(listed) /\ ToSet(listed) = ToSet(filled.columns)
        BY <1>5, <1>8, <1>10
      <4>2. d \in ToSet(listed)
        BY <3>2
      <4> QED BY <4>1, <4>2, <3>1, <3>3, OrderedFound
    <3> QED BY <1>4, <1>9, <3>2, <3>4
  <2> QED BY <2>1, <2>2
<1> QED BY <1>13, <1>14, <1>15 DEF t2, u

\* Removing a column keeps the table arranged, and every other column its zone.
LEMMA RemoveArranged ==
    ASSUME NEW t, Arranged(t), NEW c \in ToSet(t.columns), Len(t.columns) > 1
    PROVE  LET t2 == removeTableColumn(t, c)
           IN  /\ Arranged(t2) /\ t2.cells = t.cells \ {c} /\ t2.grouped = t.grouped
               /\ \A d \in ToSet(t.columns) \ {c} : findZoneForColumn(t2, d) = findZoneForColumn(t, d)
<1> DEFINE t2 == removeTableColumn(t, c)
           u == t.columns
           v == Only(u, ToSet(u) \ {c})
           N == Len(t.zones)
           Rest(s) == Only(s, ToSet(s) \ {c})
           zones == [k \in DOMAIN t.zones |-> [t.zones[k] EXCEPT !.columnIds = Only(@, ToSet(@) \ {c})]]
<1>1. /\ t \in Table /\ Distinct(u) /\ t.cells = ToSet(u)
      /\ t.grouped \subseteq zoneIds(t) /\ NoZone \notin t.grouped
      /\ \A k, l \in 1..N : t.zones[k].id = t.zones[l].id => k = l
      /\ t.zones # << >> => \E zoneOf : Layout(t, zoneOf)
  BY ArrangedParts
<1>2. /\ u \in Seq(Int) /\ DOMAIN t.zones = 1..N /\ N \in Nat /\ DOMAIN u = 1..Len(u) /\ Len(u) \in Nat
      /\ \A k \in 1..N : t.zones[k] \in Zone
      /\ t.zones = << >> <=> N = 0
  BY <1>1, TableParts
<1>3. /\ v \in Seq(Int) /\ Distinct(v) /\ ToSet(v) = ToSet(u) \ {c}
      /\ \A a, b : Before(v, a, b) => Before(u, a, b)
  <2>1. ToSet(u) \cap (ToSet(u) \ {c}) = ToSet(u) \ {c}
    OBVIOUS
  <2> HIDE DEF u
  <2> QED BY <1>1, <1>2, <2>1, OnlyMembers
<1>4. v # << >>
  <2>1. 1 \in 1..Len(u) /\ 2 \in 1..Len(u)
    BY <1>2
  <2>2. u[1] # u[2] /\ u[1] \in ToSet(u) /\ u[2] \in ToSet(u)
    <3>1. u[1] # u[2]
      BY <1>1, <1>2, <2>1 DEF Distinct
    <3> QED BY <1>2, <2>1, <3>1, MembersOf
  <2> HIDE DEF u, v
  <2>3. ToSet(v) # {}
    BY <1>3, <2>2
  <2> QED BY <1>3, <2>3, MembersOf
<1>5. t2 = [t EXCEPT !.columns = v, !.cells = @ \ {c}, !.zones = zones]
  BY DEF removeTableColumn
<1> HIDE DEF t2, u, v, N
<1>6. ASSUME NEW k \in 1..N
      PROVE  /\ zones[k] \in Zone /\ zones[k].id = t.zones[k].id
             /\ zones[k].columnIds = Rest(t.zones[k].columnIds)
  <2>1. zones[k] = [t.zones[k] EXCEPT !.columnIds = Rest(t.zones[k].columnIds)]
    BY <1>2
  <2>2. t.zones[k] \in Zone /\ t.zones[k].columnIds \in Seq(Int)
    BY <1>2 DEF Zone
  <2>3. Rest(t.zones[k].columnIds) \in Seq(Int)
    BY <2>2, OnlyMembers
  <2> HIDE DEF zones, Rest
  <2> QED BY <2>1, <2>2, <2>3 DEF Zone
<1>7. zones \in Seq(Zone) /\ Len(zones) = N /\ DOMAIN zones = 1..N
  <2>1. DOMAIN zones = 1..N /\ zones = [k \in 1..N |-> zones[k]]
    BY <1>2
  <2> HIDE DEF zones, Rest
  <2>2. zones \in [1..N -> Zone]
    BY <1>6, <2>1
  <2>3. zones \in Seq(Zone)
    BY <1>2, <2>2, SeqDef
  <2> QED BY <1>2, <2>1, <2>3, LenProperties
<1> HIDE DEF zones
<1>8. /\ t2 \in Table /\ t2.columns = v /\ t2.zones = zones
      /\ t2.cells = t.cells \ {c} /\ t2.hidden = t.hidden /\ t2.grouped = t.grouped
  BY <1>1, <1>3, <1>5, <1>7 DEF Table
<1>9. zoneIds(t2) = zoneIds(t)
  <2>1. zoneIds(t) = {t.zones[k].id : k \in 1..N} /\ zoneIds(t2) = {zones[k].id : k \in 1..N}
    BY <1>2, <1>7, <1>8 DEF zoneIds
  <2> QED BY <1>6, <2>1
<1>10. \A k, l \in 1..Len(t2.zones) : t2.zones[k].id = t2.zones[l].id => k = l
  BY <1>1, <1>6, <1>7, <1>8
<1>11. ASSUME NEW zoneOf, Layout(t, zoneOf)
       PROVE  /\ Layout(t2, [d \in ToSet(v) |-> zoneOf[d]])
              /\ \A d \in ToSet(v) : findZoneForColumn(t2, d) = findZoneForColumn(t, d)
  <2> DEFINE number == [d \in ToSet(v) |-> zoneOf[d]]
  <2>1. /\ zoneOf \in [ToSet(u) -> 1..N]
        /\ \A a, b : Before(u, a, b) => zoneOf[a] <= zoneOf[b]
        /\ \A k \in 1..N : t.zones[k].columnIds = Only(u, {d \in ToSet(u) : zoneOf[d] = k})
    BY <1>11 DEF Layout, u, N
  <2>2. number \in [ToSet(v) -> 1..N] /\ \A d \in ToSet(v) : number[d] = zoneOf[d]
    BY <1>3, <2>1
  <2> HIDE DEF number
  <2>3. ASSUME NEW k \in 1..N PROVE zones[k].columnIds = Only(v, {d \in ToSet(v) : number[d] = k})
    <3> DEFINE Z == {d \in ToSet(u) : zoneOf[d] = k}
               z == Only(u, Z)
               W == {d \in ToSet(v) : number[d] = k}
    <3>1. t.zones[k].columnIds = z
      BY <2>1
    <3>2. ToSet(z) = Z
      <4>1. ToSet(u) \cap Z = Z
        OBVIOUS
      <4> HIDE DEF Z
      <4> QED BY <1>2, <4>1, OnlyMembers
    <3>3. zones[k].columnIds = Only(z, Z \ {c})
      BY <1>6, <3>1, <3>2
    <3>4. Only(z, Z \ {c}) = Only(u, Z \cap (Z \ {c}))
      <4> HIDE DEF Z
      <4> QED BY <1>1, <1>2, OnlyOnly DEF u
    <3>5. Only(v, W) = Only(u, (ToSet(u) \ {c}) \cap W)
      <4> HIDE DEF W
      <4> QED BY <1>1, <1>2, OnlyOnly DEF u, v
    <3>6. Z \cap (Z \ {c}) = (ToSet(u) \ {c}) \cap W
      BY <1>3, <2>2
    <3> QED BY <3>3, <3>4, <3>5, <3>6
  <2>4. \A a, b : Before(v, a, b) => number[a] <= number[b]
    <3>1. SUFFICES ASSUME NEW a, NEW b, Before(v, a, b) PROVE number[a] <= number[b]
      OBVIOUS
    <3>2. a \in ToSet(v) /\ b \in ToSet(v) /\ Before(u, a, b)
      BY <1>3, <3>1, BeforeAreMembers
    <3> QED BY <2>1, <2>2, <3>2
  <2>5. Layout(t2, number)
    BY <1>7, <1>8, <2>2, <2>3, <2>4 DEF Layout
  <2>6. ASSUME NEW d \in ToSet(v) PROVE findZoneForColumn(t2, d) = findZoneForColumn(t, d)
    <3>1. findZoneForColumn(t2, d) = zones[number[d]].id
      BY <1>3, <1>8, <2>5, FoundInItsZone
    <3>2. d \in ToSet(u) /\ number[d] = zoneOf[d] /\ zoneOf[d] \in 1..N
      BY <1>3, <2>1, <2>2
    <3>3. findZoneForColumn(t, d) = t.zones[zoneOf[d]].id
      BY <1>1, <1>11, <3>2, FoundInItsZone DEF u
    <3> QED BY <1>6, <3>1, <3>2, <3>3
  <2> QED BY <2>5, <2>6 DEF number
<1>12. t2.zones # << >> => \E zoneOf : Layout(t2, zoneOf)
  <2>1. SUFFICES ASSUME t2.zones # << >> PROVE \E zoneOf : Layout(t2, zoneOf)
    OBVIOUS
  <2>2. t.zones # << >>
    BY <1>2, <1>7, <1>8, <2>1, EmptySeq
  <2> QED BY <1>1, <1>11, <2>2
<1>13. Arranged(t2)
  BY <1>1, <1>3, <1>4, <1>8, <1>9, <1>10, <1>12, ArrangedFromParts
<1>14. ASSUME NEW d \in ToSet(u) \ {c} PROVE findZoneForColumn(t2, d) = findZoneForColumn(t, d)
  <2>1. CASE t.zones = << >>
    <3>1. t2.zones = << >>
      BY <1>2, <1>7, <1>8, <2>1, EmptySeq
    <3> QED BY <2>1, <3>1, NoZoneOfColumn
  <2>2. CASE t.zones # << >>
    <3>1. d \in ToSet(v)
      BY <1>3
    <3> QED BY <1>1, <1>11, <2>2, <3>1
  <2> QED BY <2>1, <2>2
<1> QED BY <1>8, <1>13, <1>14 DEF t2, u

\* What is done to a table besides its columns and zones keeps it arranged when
\* it titles nothing new.
LEMMA SameColumnsArranged ==
    ASSUME NEW t, Arranged(t), NEW t2 \in Table, t2.columns = t.columns, t2.zones = t.zones, t2.cells = t.cells,
           t2.grouped \subseteq t.grouped
    PROVE  Arranged(t2) /\ \A d : findZoneForColumn(t2, d) = findZoneForColumn(t, d)
<1>1. zoneIds(t2) = zoneIds(t)
  BY DEF zoneIds
<1>2. Arranged(t2)
  <2>1. \A zoneOf : Layout(t, zoneOf) => Layout(t2, zoneOf)
    BY DEF Layout
  <2>2. /\ Distinct(t2.columns) /\ t2.columns # << >> /\ t2.cells = ToSet(t2.columns)
        /\ t2.grouped \subseteq zoneIds(t2) /\ NoZone \notin t2.grouped
        /\ \A i, j \in 1..Len(t2.zones) : t2.zones[i].id = t2.zones[j].id => i = j
    BY <1>1, ArrangedParts
  <2>3. t2.zones # << >> => \E zoneOf : Layout(t2, zoneOf)
    BY <2>1, ArrangedParts
  <2> QED BY <2>2, <2>3, ArrangedFromParts
<1>3. \A d : findZoneForColumn(t2, d) = findZoneForColumn(t, d)
  BY DEF findZoneForColumn
<1> QED BY <1>2, <1>3

-----------------------------------------------------------------------------
(* Grouping a range *)

\* The positions where a run of equal keys starts, and the ones where it ends.
StartsOf(key) == Only([i \in DOMAIN key |-> i], {i \in DOMAIN key : i = 1 \/ key[i] # key[i - 1]})

EndOf(starts, n, k) == IF k = Len(starts) THEN n ELSE starts[k + 1] - 1

\* The runs come one after another, cover every position, have one key each,
\* and the next one another.
RunsOf(starts, key, n) ==
    /\ starts \in Seq(1..n) /\ starts # << >>
    /\ \A k, l \in 1..Len(starts) : k < l => starts[k] < starts[l]
    /\ \A k \in 1..Len(starts) : starts[k] # 1 => key[starts[k]] # key[starts[k] - 1]
    /\ \A p \in 1..n : \E k \in 1..Len(starts) :
          starts[k] <= p /\ p <= EndOf(starts, n, k) /\ key[p] = key[starts[k]]

\* The starts are those of runs.
LEMMA StartsAreRuns ==
    ASSUME NEW n \in Nat \ {0}, NEW key, DOMAIN key = 1..n
    PROVE  RunsOf(StartsOf(key), key, n)
<1> DEFINE s == [i \in 1..n |-> i]
           S == {i \in 1..n : i = 1 \/ key[i] # key[i - 1]}
           starts == Only(s, S)
           m == Len(starts)
           X == 1..n
<1>1. StartsOf(key) = starts
  BY DEF StartsOf
<1>2. s \in Seq(X) /\ ToSet(s) = X /\ Distinct(s) /\ \A a, b : Before(s, a, b) => a \in X /\ b \in X /\ a < b
  <2>1. s \in [1..n -> X] /\ DOMAIN s = 1..n /\ \A i \in 1..n : s[i] = i
    OBVIOUS
  <2>2. s \in Seq(X)
    BY <2>1, SeqDef
  <2> HIDE DEF s
  <2>3. ToSet(s) = X /\ Distinct(s) /\ \A a, b : Before(s, a, b) => a \in X /\ b \in X /\ a < b
    BY <2>1 DEF ToSet, Distinct, Before
  <2> QED BY <2>2, <2>3
<1>3. S \subseteq X /\ 1 \in S /\ \A i \in 1..n : i \in S <=> i = 1 \/ key[i] # key[i - 1]
  OBVIOUS
<1> HIDE DEF s, S, X
<1>4. /\ starts \in Seq(X) /\ ToSet(starts) = S /\ Distinct(starts)
      /\ \A a, b : Before(starts, a, b) => Before(s, a, b)
  <2>1. ToSet(s) \cap S = S
    BY <1>2, <1>3
  <2> QED BY <1>2, <2>1, OnlyMembers
<1> HIDE DEF starts
<1>5. /\ DOMAIN starts = 1..m /\ m \in Nat /\ (\A k \in 1..m : starts[k] \in S) /\ starts # << >>
      /\ \A i \in S : \E k \in 1..m : starts[k] = i
  <2>1. ToSet(starts) # {}
    BY <1>3, <1>4
  <2> QED BY <1>4, <2>1, MembersOf
<1>6. \A k \in 1..m : starts[k] \in 1..n
  BY <1>3, <1>5 DEF X
<1> HIDE DEF m
<1>7. ASSUME NEW k \in 1..m, NEW l \in 1..m, k < l PROVE starts[k] < starts[l]
  <2>1. Before(starts, starts[k], starts[l])
    BY <1>5, <1>7 DEF Before
  <2> QED BY <1>2, <1>4, <2>1
<1> DEFINE End(k) == EndOf(starts, n, k)
           In(p, k) == starts[k] <= p /\ p <= End(k) /\ key[p] = key[starts[k]]
           Good == {p \in Nat : p \in 1..n => \E k \in 1..m : In(p, k)}
<1>8. \A k \in 1..m : End(k) = IF k = m THEN n ELSE starts[k + 1] - 1
  BY DEF EndOf, m
<1>9. \A k \in 1..m : starts[k] <= End(k)
  <2>1. SUFFICES ASSUME NEW k \in 1..m PROVE starts[k] <= End(k)
    OBVIOUS
  <2>2. CASE k = m
    BY <1>6, <1>8, <2>2
  <2>3. CASE k # m
    <3>1. k + 1 \in 1..m /\ k < k + 1
      BY <1>5, <2>3
    <3>2. starts[k] < starts[k + 1] /\ starts[k] \in 1..n /\ starts[k + 1] \in 1..n
      BY <1>6, <1>7, <3>1
    <3> QED BY <1>8, <2>3, <3>2
  <2> QED BY <2>2, <2>3
<1> HIDE DEF End
<1>10. 0 \in Good
  OBVIOUS
<1>11. ASSUME NEW p \in Nat, p \in Good PROVE p + 1 \in Good
  <2>1. SUFFICES ASSUME p + 1 \in 1..n PROVE \E k \in 1..m : In(p + 1, k)
    OBVIOUS
  <2>2. ASSUME NEW k \in 1..m, starts[k] = p + 1 PROVE In(p + 1, k)
    BY <1>9, <2>2
  <2>3. CASE p = 0
    <3>1. PICK k \in 1..m : starts[k] = p + 1
      BY <1>3, <1>5, <2>3
    <3> QED BY <2>2, <3>1
  <2>4. CASE p # 0
    <3>1. p \in 1..n
      BY <2>1, <2>4
    <3>2. PICK k \in 1..m : In(p, k)
      BY <1>11, <3>1
    <3>3. CASE p + 1 \in S
      <4>1. PICK l \in 1..m : starts[l] = p + 1
        BY <1>5, <3>3
      <4> QED BY <2>2, <4>1
    <3>4. CASE p + 1 \notin S
      <4>1. key[p + 1] = key[p]
        <5>1. (p + 1) - 1 = p
          OBVIOUS
        <5> QED BY <1>3, <2>1, <3>4, <5>1
      <4>2. p + 1 <= End(k)
        <5>1. CASE k = m
          BY <1>8, <2>1, <5>1
        <5>2. CASE k # m
          <6>1. k + 1 \in 1..m
            BY <1>5, <5>2
          <6>2. starts[k + 1] # p + 1 /\ starts[k + 1] \in 1..n
            BY <1>5, <1>6, <3>4, <6>1
          <6> QED BY <1>8, <3>2, <5>2, <6>2
        <5> QED BY <5>1, <5>2
      <4>3. starts[k] <= p + 1
        BY <1>6, <3>2
      <4> QED BY <3>2, <4>1, <4>2, <4>3
    <3> QED BY <3>3, <3>4
  <2> QED BY <2>3, <2>4
<1>12. \A p \in 1..n : \E k \in 1..m : In(p, k)
  <2>1. Nat \subseteq Good
    <3> HIDE DEF Good
    <3> QED BY <1>10, <1>11, NatSetInduction
  <2>2. \A p \in 1..n : p \in Good
    BY <2>1
  <2> QED BY <2>2
<1>13. \A k \in 1..m : starts[k] # 1 => key[starts[k]] # key[starts[k] - 1]
  BY <1>3, <1>5, <1>6
<1>14. starts \in Seq(1..n) /\ starts # << >>
  BY <1>4, <1>5 DEF X
<1> QED BY <1>1, <1>7, <1>12, <1>13, <1>14 DEF RunsOf, End, m

\* A position is in one run, and later positions are in the same or a later one.
LEMMA RunsInOrder ==
    ASSUME NEW n \in Nat \ {0}, NEW key, NEW starts, RunsOf(starts, key, n),
           NEW p \in 1..n, NEW q \in 1..n, p <= q, NEW k \in 1..Len(starts), NEW l \in 1..Len(starts),
           starts[k] <= p, p <= EndOf(starts, n, k), starts[l] <= q, q <= EndOf(starts, n, l)
    PROVE  k <= l
<1>1. starts \in Seq(1..n) /\ \A i, j \in 1..Len(starts) : i < j => starts[i] < starts[j]
  BY DEF RunsOf
<1>2. Len(starts) \in Nat /\ \A i \in 1..Len(starts) : starts[i] \in 1..n
  BY <1>1, LenProperties, ElementOfSeq
<1>3. SUFFICES ASSUME l < k PROVE FALSE
  OBVIOUS
<1>4. l + 1 \in 1..Len(starts) /\ l # Len(starts)
  BY <1>2, <1>3
<1>5. q <= starts[l + 1] - 1
  BY <1>4 DEF EndOf
<1>6. starts[l + 1] <= starts[k]
  <2>1. CASE l + 1 = k
    BY <1>2, <2>1
  <2>2. CASE l + 1 < k
    BY <1>1, <1>2, <1>4, <2>2
  <2> QED BY <1>3, <2>1, <2>2
<1> QED BY <1>2, <1>4, <1>5, <1>6

\* The keys of a range and of what is outside: those of the range are new, and
\* an old one comes together but for the range.
CutBy(key, n, from, to, new) ==
    /\ from \in 1..n /\ to \in 1..n /\ from <= to
    /\ \A i \in 1..n : key[i] = new <=> i \in from..to
    /\ \A i, j, l \in 1..n : i < j /\ j < l /\ key[i] = key[l] => key[j] = key[i] \/ (key[j] = new /\ key[i] # new)

\* Only the run that follows the range can have the key of an earlier one.
LEMMA RepeatedRun ==
    ASSUME NEW n \in Nat \ {0}, NEW key, NEW starts, RunsOf(starts, key, n),
           NEW from, NEW to, NEW new, CutBy(key, n, from, to, new),
           NEW j \in 1..Len(starts), NEW k \in 1..Len(starts), j < k, key[starts[j]] = key[starts[k]]
    PROVE  starts[k] = to + 1 /\ starts[j] < from /\ key[starts[k]] # new
<1>1. /\ starts \in Seq(1..n) /\ \A i, l \in 1..Len(starts) : i < l => starts[i] < starts[l]
      /\ \A i \in 1..Len(starts) : starts[i] # 1 => key[starts[i]] # key[starts[i] - 1]
  BY DEF RunsOf
<1>2. starts[j] \in 1..n /\ starts[k] \in 1..n
  BY <1>1, ElementOfSeq
<1> DEFINE p == starts[k] - 1
<1>3. starts[j] < starts[k] /\ starts[k] # 1 /\ p \in 1..n /\ starts[j] <= p
  BY <1>1, <1>2
<1>4. key[starts[k]] # key[p]
  BY <1>1, <1>3
<1>5. starts[j] < p /\ p < starts[k]
  <2>1. starts[j] # p
    BY <1>4
  <2> QED BY <1>2, <1>3, <2>1
<1> HIDE DEF p
<1>6. /\ from \in 1..n /\ to \in 1..n /\ from <= to
      /\ \A i \in 1..n : key[i] = new <=> i \in from..to
      /\ key[p] = key[starts[j]] \/ (key[p] = new /\ key[starts[j]] # new)
  BY <1>2, <1>3, <1>5 DEF CutBy
<1>7. key[p] = new /\ key[starts[j]] # new /\ key[starts[k]] # new
  BY <1>4, <1>6
<1>8. p \in from..to /\ starts[k] \notin from..to /\ starts[j] \notin from..to
  BY <1>2, <1>3, <1>6, <1>7
<1>9. starts[k] = p + 1
  BY <1>2 DEF p
<1> QED BY <1>2, <1>3, <1>5, <1>6, <1>7, <1>8, <1>9

\* The id of a run.
IdOf(starts, key, cut, k) ==
    IF \E j \in 1..(k - 1) : key[starts[j]] = key[starts[k]] THEN cut ELSE key[starts[k]]

\* No two runs have one id.
LEMMA RunsAreNamedOnce ==
    ASSUME NEW n \in Nat \ {0}, NEW key, NEW starts, RunsOf(starts, key, n),
           NEW from, NEW to, NEW new, CutBy(key, n, from, to, new),
           NEW cut, \A i \in 1..n : key[i] # cut,
           NEW k \in 1..Len(starts), NEW l \in 1..Len(starts),
           IdOf(starts, key, cut, k) = IdOf(starts, key, cut, l)
    PROVE  k = l
<1>1. /\ starts \in Seq(1..n) /\ \A i, j \in 1..Len(starts) : i < j => starts[i] < starts[j]
  BY DEF RunsOf
<1>2. Len(starts) \in Nat /\ \A i \in 1..Len(starts) : starts[i] \in 1..n
  BY <1>1, LenProperties, ElementOfSeq
<1> DEFINE Again(i) == \E j \in 1..(i - 1) : key[starts[j]] = key[starts[i]]
<1>3. ASSUME NEW i \in 1..Len(starts), Again(i) PROVE starts[i] = to + 1
  <2>1. PICK j \in 1..(i - 1) : key[starts[j]] = key[starts[i]]
    BY <1>3
  <2>2. j \in 1..Len(starts) /\ j < i
    BY <1>2
  <2> QED BY <2>1, <2>2, RepeatedRun
<1>4. starts[k] = starts[l] => k = l
  BY <1>1, <1>2
<1>5. IdOf(starts, key, cut, k) = (IF Again(k) THEN cut ELSE key[starts[k]])
      /\ IdOf(starts, key, cut, l) = (IF Again(l) THEN cut ELSE key[starts[l]])
  BY DEF IdOf
<1>6. CASE Again(k) /\ Again(l)
  BY <1>3, <1>4, <1>6
<1>7. CASE ~Again(k) /\ ~Again(l)
  <2>1. key[starts[k]] = key[starts[l]]
    BY <1>5, <1>7
  <2>2. ~(k < l)
    <3>1. k < l => k \in 1..(l - 1)
      BY <1>2
    <3> QED BY <1>7, <2>1, <3>1
  <2>3. ~(l < k)
    <3>1. l < k => l \in 1..(k - 1)
      BY <1>2
    <3> QED BY <1>7, <2>1, <3>1
  <2> QED BY <1>2, <2>2, <2>3
<1>8. CASE Again(k) /\ ~Again(l)
  BY <1>2, <1>5, <1>8
<1>9. CASE ~Again(k) /\ Again(l)
  BY <1>2, <1>5, <1>9
<1> QED BY <1>6, <1>7, <1>8, <1>9

\* The columns of a zone come together, and the zone of a column is one of the
\* table or none.
LEMMA ZonesComeTogether ==
    ASSUME NEW t, Arranged(t)
    PROVE  /\ \A i \in 1..Len(t.columns) : findZoneForColumn(t, t.columns[i]) \in zoneIds(t) \cup {NoZone}
           /\ \A i, j, l \in 1..Len(t.columns) :
                 /\ i < j /\ j < l
                 /\ findZoneForColumn(t, t.columns[i]) = findZoneForColumn(t, t.columns[l])
                 => findZoneForColumn(t, t.columns[j]) = findZoneForColumn(t, t.columns[i])
<1> DEFINE u == t.columns
<1>1. /\ t \in Table /\ Distinct(u) /\ t.zones # << >> => \E zoneOf : Layout(t, zoneOf)
      /\ \A k, l \in 1..Len(t.zones) : t.zones[k].id = t.zones[l].id => k = l
  BY ArrangedParts
<1>2. /\ t \in Table /\ u \in Seq(Int) /\ DOMAIN u = 1..Len(u) /\ Len(t.zones) \in Nat /\ DOMAIN t.zones = 1..Len(t.zones)
      /\ \A i \in 1..Len(u) : u[i] \in ToSet(u)
  <2>1. t \in Table
    BY ArrangedParts
  <2> QED BY <2>1, TableParts, MembersOf
<1>3. CASE t.zones = << >>
  <2>1. \A c : findZoneForColumn(t, c) = NoZone
    BY <1>3, NoZoneOfColumn
  <2> QED BY <2>1
<1>4. CASE t.zones # << >>
  <2>1. PICK zoneOf : Layout(t, zoneOf)
    BY <1>4, ArrangedParts
  <2>2. ASSUME NEW i \in 1..Len(u)
        PROVE  findZoneForColumn(t, u[i]) = t.zones[zoneOf[u[i]]].id /\ zoneOf[u[i]] \in 1..Len(t.zones)
    <3>1. Distinct(u) /\ u[i] \in ToSet(u)
      BY <1>2, ArrangedParts
    <3> QED BY <1>2, <2>1, <3>1, FoundInItsZone
  <2>3. \A i \in 1..Len(u) : findZoneForColumn(t, u[i]) \in zoneIds(t)
    BY <1>2, <2>2 DEF zoneIds
  <2>4. ASSUME NEW i \in 1..Len(u), NEW j \in 1..Len(u), NEW l \in 1..Len(u), i < j, j < l,
               findZoneForColumn(t, u[i]) = findZoneForColumn(t, u[l])
        PROVE  findZoneForColumn(t, u[j]) = findZoneForColumn(t, u[i])
    <3>1. zoneOf[u[i]] = zoneOf[u[l]]
      <4>1. \A k, q \in 1..Len(t.zones) : t.zones[k].id = t.zones[q].id => k = q
        BY ArrangedParts
      <4>2. /\ findZoneForColumn(t, u[i]) = t.zones[zoneOf[u[i]]].id /\ zoneOf[u[i]] \in 1..Len(t.zones)
            /\ findZoneForColumn(t, u[l]) = t.zones[zoneOf[u[l]]].id /\ zoneOf[u[l]] \in 1..Len(t.zones)
        BY <2>2
      <4>3. t.zones[zoneOf[u[i]]].id = t.zones[zoneOf[u[l]]].id
        BY <2>4, <4>2
      <4> QED BY <4>1, <4>2, <4>3
    <3>2. Before(u, u[i], u[j]) /\ Before(u, u[j], u[l])
      BY <1>2, <2>4 DEF Before
    <3>3. zoneOf[u[i]] <= zoneOf[u[j]] /\ zoneOf[u[j]] <= zoneOf[u[l]]
      BY <2>1, <3>2 DEF Layout
    <3>4. zoneOf[u[j]] = zoneOf[u[i]]
      BY <1>2, <2>2, <3>1, <3>3
    <3>5. findZoneForColumn(t, u[i]) = t.zones[zoneOf[u[i]]].id /\ findZoneForColumn(t, u[j]) = t.zones[zoneOf[u[j]]].id
      BY <2>2
    <3>6. t.zones[zoneOf[u[i]]].id = t.zones[zoneOf[u[j]]].id
      BY <3>4
    <3> QED BY <3>5, <3>6
  <2> QED BY <2>3, <2>4
<1> QED BY <1>3, <1>4

\* The key of each position when a range is grouped.
KeysOf(t, from, to, new) ==
    [i \in DOMAIN t.columns |-> IF i \in from..to THEN new ELSE findZoneForColumn(t, t.columns[i])]

\* What the range and its ids are.
GroupedRange(t, from, to, new, cut) ==
    /\ from \in 1..Len(t.columns) /\ to \in 1..Len(t.columns) /\ from <= to
    /\ new \in Int /\ new \notin zoneIds(t) /\ new # NoZone
    /\ cut \in Int /\ cut \notin zoneIds(t) /\ cut # NoZone /\ cut # new

\* The range cuts the keys of the columns.
LEMMA KeysAreCut ==
    ASSUME NEW t, Arranged(t), NEW from, NEW to, NEW new, NEW cut, GroupedRange(t, from, to, new, cut)
    PROVE  LET key == KeysOf(t, from, to, new)
               n == Len(t.columns)
           IN  /\ DOMAIN key = 1..n /\ n \in Nat \ {0} /\ CutBy(key, n, from, to, new)
               /\ \A i \in 1..n : key[i] # cut /\ key[i] \in Int
               /\ \A i \in 1..n : key[i] = IF i \in from..to THEN new ELSE findZoneForColumn(t, t.columns[i])
<1> DEFINE n == Len(t.columns)
           key == KeysOf(t, from, to, new)
           old(i) == findZoneForColumn(t, t.columns[i])
<1>1. t \in Table /\ t.columns # << >>
  BY ArrangedParts
<1>2. DOMAIN t.columns = 1..n /\ n \in Nat \ {0} /\ DOMAIN t.zones = 1..Len(t.zones)
      /\ \A k \in 1..Len(t.zones) : t.zones[k].id \in Int
  <2>1. t.columns \in Seq(Int)
    BY <1>1, TableParts
  <2> QED BY <1>1, <2>1, TableParts, ZoneParts, EmptySeq
<1>3. zoneIds(t) \subseteq Int /\ NoZone \in Int
  BY <1>2 DEF zoneIds, NoZone
<1>4. /\ \A i \in 1..n : old(i) \in zoneIds(t) \cup {NoZone}
      /\ \A i, j, l \in 1..n : i < j /\ j < l /\ old(i) = old(l) => old(j) = old(i)
  BY ZonesComeTogether
<1>5. DOMAIN key = 1..n /\ \A i \in 1..n : key[i] = IF i \in from..to THEN new ELSE old(i)
  BY <1>2 DEF KeysOf
<1>6. /\ from \in 1..n /\ to \in 1..n /\ from <= to
      /\ new \in Int /\ new \notin zoneIds(t) /\ new # NoZone
      /\ cut \in Int /\ cut \notin zoneIds(t) /\ cut # NoZone /\ cut # new
  BY DEF GroupedRange
<1> HIDE DEF n, key, old
<1>7. \A i \in 1..n : key[i] # cut /\ key[i] \in Int
  BY <1>3, <1>4, <1>5, <1>6
<1>8. \A i \in 1..n : key[i] = new <=> i \in from..to
  BY <1>4, <1>5, <1>6
<1>9. ASSUME NEW i \in 1..n, NEW j \in 1..n, NEW l \in 1..n, i < j, j < l, key[i] = key[l]
      PROVE  key[j] = key[i] \/ (key[j] = new /\ key[i] # new)
  <2>1. CASE key[i] = new
    <3>1. i \in from..to /\ l \in from..to
      BY <1>8, <1>9, <2>1
    <3>2. j \in from..to
      BY <1>2, <1>6, <1>9, <3>1
    <3> QED BY <1>8, <2>1, <3>2
  <2>2. CASE key[i] # new /\ j \notin from..to
    <3>1. key[i] = old(i) /\ key[l] = old(l) /\ key[j] = old(j)
      BY <1>5, <1>8, <1>9, <2>2
    <3> QED BY <1>4, <1>9, <3>1
  <2>3. CASE key[i] # new /\ j \in from..to
    BY <1>8, <2>3
  <2> QED BY <2>1, <2>2, <2>3
<1>10. CutBy(key, n, from, to, new)
  BY <1>6, <1>8, <1>9 DEF CutBy
<1> QED BY <1>2, <1>5, <1>7, <1>10 DEF n, key, old

\* A table whose zones are the runs of its columns.
Segmented(t, s, starts, key, cut) ==
    /\ s \in Table /\ s.columns = t.columns /\ s.cells = t.cells /\ s.hidden = t.hidden
    /\ Len(s.zones) = Len(starts)
    /\ \A k \in 1..Len(starts) : s.zones[k].id = IdOf(starts, key, cut, k)
    /\ \A k \in 1..Len(starts) :
          ToSet(s.zones[k].columnIds) = {t.columns[i] : i \in starts[k]..EndOf(starts, Len(t.columns), k)}

\* The zones of the runs.
RunZones(u, starts, key, cut) ==
    [k \in DOMAIN starts |->
        [id |-> IdOf(starts, key, cut, k), minColumns |-> 0,
         columnIds |-> SubSeq(u, starts[k], EndOf(starts, Len(u), k))]]

\* A table given those zones is segmented.
LEMMA RunZonesSegment ==
    ASSUME NEW t \in Table, NEW starts, NEW key, NEW cut \in Int, Len(t.columns) \in Nat \ {0},
           RunsOf(starts, key, Len(t.columns)), \A i \in 1..Len(t.columns) : key[i] \in Int
    PROVE  LET s == [t EXCEPT !.zones = RunZones(t.columns, starts, key, cut)]
           IN  Segmented(t, s, starts, key, cut) /\ s.grouped = t.grouped
<1> DEFINE u == t.columns
           n == Len(u)
           m == Len(starts)
           Z == RunZones(u, starts, key, cut)
           s == [t EXCEPT !.zones = Z]
           End(k) == EndOf(starts, n, k)
<1>1. starts \in Seq(1..n)
  BY DEF RunsOf
<1>2. m \in Nat /\ DOMAIN starts = 1..m /\ \A k \in 1..m : starts[k] \in 1..n
  BY <1>1, LenProperties, ElementOfSeq
<1>3. \A k \in 1..m : key[starts[k]] \in Int
  BY <1>2
<1>4. \A k \in 1..m : IdOf(starts, key, cut, k) \in Int
  BY <1>3 DEF IdOf
<1>5. u \in Seq(Int)
  BY TableParts
<1>6. \A k \in 1..m : End(k) \in Int /\ End(k) <= n
  <2>1. SUFFICES ASSUME NEW k \in 1..m PROVE End(k) \in Int /\ End(k) <= n
    OBVIOUS
  <2>2. CASE k = m
    BY <2>2 DEF EndOf
  <2>3. CASE k # m
    <3>1. k + 1 \in 1..m
      <4> HIDE DEF m
      <4> QED BY <1>2, <2>3
    <3>2. starts[k + 1] \in 1..n
      BY <1>2, <3>1
    <3> QED BY <2>3, <3>2 DEF EndOf
  <2> QED BY <2>2, <2>3
<1> HIDE DEF End, m, n
<1>7. ASSUME NEW k \in 1..m
      PROVE  /\ SubSeq(u, starts[k], End(k)) \in Seq(Int)
             /\ ToSet(SubSeq(u, starts[k], End(k))) = {u[i] : i \in starts[k]..End(k)}
  <2> DEFINE first == starts[k]
             last == End(k)
  <2>1. first \in Int /\ 1 <= first /\ last \in Int /\ last <= Len(u)
    BY <1>2, <1>6 DEF n
  <2> HIDE DEF first, last, u
  <2>2. SubSeq(u, first, last) \in Seq(Int) /\ ToSet(SubSeq(u, first, last)) = {u[i] : i \in first..last}
    BY <1>5, <2>1, SubSeqMembers
  <2> QED BY <2>2 DEF first, last
<1>8. \A k \in 1..m : Z[k] = [id |-> IdOf(starts, key, cut, k), minColumns |-> 0, columnIds |-> SubSeq(u, starts[k], End(k))]
  BY <1>2 DEF RunZones, End, n
<1>9. DOMAIN Z = 1..m /\ Z = [k \in 1..m |-> Z[k]]
  BY <1>2 DEF RunZones
<1> HIDE DEF Z
<1>10. ASSUME NEW k \in 1..m
       PROVE  /\ Z[k] \in Zone /\ Z[k].id = IdOf(starts, key, cut, k)
              /\ Z[k].columnIds = SubSeq(u, starts[k], End(k))
  <2> DEFINE run == [id |-> IdOf(starts, key, cut, k), minColumns |-> 0, columnIds |-> SubSeq(u, starts[k], End(k))]
  <2>1. IdOf(starts, key, cut, k) \in Int /\ SubSeq(u, starts[k], End(k)) \in Seq(Int) /\ 0 \in Nat
    BY <1>4, <1>7
  <2>2. /\ run \in Zone /\ run.id = IdOf(starts, key, cut, k)
        /\ run.columnIds = SubSeq(u, starts[k], End(k))
    BY <2>1 DEF Zone
  <2>3. Z[k] = run
    BY <1>8
  <2> HIDE DEF run
  <2> QED BY <2>2, <2>3
<1>11. Z \in Seq(Zone) /\ Len(Z) = m
  <2>1. Z \in [1..m -> Zone]
    BY <1>9, <1>10
  <2>2. Z \in Seq(Zone)
    BY <1>2, <2>1, SeqDef
  <2> QED BY <1>2, <1>9, <2>2, LenProperties
<1>12. /\ s \in Table /\ s.columns = u /\ s.cells = t.cells /\ s.hidden = t.hidden /\ s.zones = Z
       /\ s.grouped = t.grouped
  BY <1>11 DEF Table
<1> HIDE DEF s
<1>13. Segmented(t, s, starts, key, cut)
  <2>1. \A k \in 1..m : s.zones[k].id = IdOf(starts, key, cut, k)
    BY <1>10, <1>12
  <2>2. \A k \in 1..m : ToSet(s.zones[k].columnIds) = {u[i] : i \in starts[k]..End(k)}
    BY <1>7, <1>10, <1>12
  <2> QED BY <1>11, <1>12, <2>1, <2>2 DEF Segmented, End, n, m
<1> QED BY <1>12, <1>13 DEF s, Z

\* In a segmented table a column is found in the zone of its run.
LEMMA FoundInItsRun ==
    ASSUME NEW t \in Table, Distinct(t.columns), NEW s, NEW starts, NEW key, NEW cut, Len(t.columns) \in Nat \ {0},
           RunsOf(starts, key, Len(t.columns)), Segmented(t, s, starts, key, cut),
           NEW p \in 1..Len(t.columns), NEW k \in 1..Len(starts),
           starts[k] <= p, p <= EndOf(starts, Len(t.columns), k)
    PROVE  findZoneForColumn(s, t.columns[p]) = IdOf(starts, key, cut, k)
<1> DEFINE u == t.columns
           n == Len(u)
           m == Len(starts)
<1>1. /\ s \in Table /\ Len(s.zones) = m
      /\ \A l \in 1..m : s.zones[l].id = IdOf(starts, key, cut, l)
      /\ \A l \in 1..m : ToSet(s.zones[l].columnIds) = {u[i] : i \in starts[l]..EndOf(starts, n, l)}
  BY DEF Segmented
<1>2. DOMAIN s.zones = 1..m /\ m \in Nat /\ DOMAIN u = 1..n
  BY <1>1, TableParts
<1>3. starts \in Seq(1..n)
  BY DEF RunsOf
<1>4. ASSUME NEW l \in 1..m PROVE u[p] \in ToSet(s.zones[l].columnIds) <=> l = k
  <2>1. starts[l] \in 1..n /\ starts[k] \in 1..n
    BY <1>3, ElementOfSeq
  <2>2. EndOf(starts, n, l) \in Int /\ EndOf(starts, n, l) <= n
    <3>1. CASE l = m
      BY <3>1 DEF EndOf
    <3>2. CASE l # m
      <4>1. starts[l + 1] \in 1..n
        BY <1>2, <1>3, <3>2, ElementOfSeq
      <4> QED BY <3>2, <4>1 DEF EndOf
    <3> QED BY <3>1, <3>2
  <2>3. ASSUME u[p] \in ToSet(s.zones[l].columnIds) PROVE l = k
    <3>1. PICK i \in starts[l]..EndOf(starts, n, l) : u[i] = u[p]
      <4>1. ToSet(s.zones[l].columnIds) = {u[i] : i \in starts[l]..EndOf(starts, n, l)}
        BY <1>1
      <4> HIDE DEF u, n
      <4> QED BY <2>3, <4>1
    <3>2. i \in 1..n
      BY <2>1, <2>2
    <3>3. i = p
      BY <1>2, <3>1, <3>2 DEF Distinct
    <3>4. starts[l] <= p /\ p <= EndOf(starts, n, l) /\ p <= p
      BY <2>1, <2>2, <3>1, <3>3
    <3>5. l <= k /\ k <= l
      BY <3>4, RunsInOrder
    <3> QED BY <1>2, <3>5
  <2>4. l = k => u[p] \in ToSet(s.zones[l].columnIds)
    <3>1. l = k => p \in starts[l]..EndOf(starts, n, l)
      BY <2>1, <2>2
    <3> QED BY <1>1, <3>1
  <2> QED BY <2>3, <2>4
<1>5. findZoneForColumn(s, u[p]) = s.zones[k].id
  BY <1>1, <1>2, <1>4, ZoneOfColumn
<1> QED BY <1>1, <1>5

\* A table in the order it has, its zones the runs of a key.
SegmentedTable(t, u, starts, key, cut, new) ==
    LET structured == [t EXCEPT !.zones = RunZones(u, starts, key, cut)]
    IN  withColumnOrder([structured EXCEPT !.grouped = Groups(structured, new)], u, ZonesOf(structured, u))

\* What groupTableHeaders does with the columns in the order they are shown.
GroupedAs(t, shown, from, to, new, cut) ==
    LET key == [i \in DOMAIN shown |-> IF i \in from..to THEN new ELSE findZoneForColumn(t, shown[i])]
        starts == Only([i \in DOMAIN shown |-> i], {i \in DOMAIN shown : i = 1 \/ key[i] # key[i - 1]})
        End(k) == IF k = Len(starts) THEN Len(shown) ELSE starts[k + 1] - 1
        zones == [k \in DOMAIN starts |->
            [id |-> IF \E j \in 1..(k - 1) : key[starts[j]] = key[starts[k]] THEN cut ELSE key[starts[k]],
             minColumns |-> 0,
             columnIds |-> SubSeq(shown, starts[k], End(k))]]
        structured == [t EXCEPT !.zones = zones]
    IN  withColumnOrder([structured EXCEPT !.grouped = Groups(structured, new)],
                        shown, ZonesOf(structured, shown))

\* Grouping a range of an arranged table segments it.
LEMMA GroupingSegments ==
    ASSUME NEW t, Arranged(t), NEW from, NEW to, NEW new, NEW cut
    PROVE  LET key == KeysOf(t, from, to, new)
           IN  groupTableHeaders(t, from, to, new, cut) = SegmentedTable(t, t.columns, StartsOf(key), key, cut, new)
<1> DEFINE u == t.columns
           key == KeysOf(t, from, to, new)
           starts == StartsOf(key)
<1>1. groupTableHeaders(t, from, to, new, cut) = GroupedAs(t, getDisplayColumns(t), from, to, new, cut)
  BY DEF groupTableHeaders, GroupedAs
<1>2. getDisplayColumns(t) = u
  BY ShownInOrder
<1>3. groupTableHeaders(t, from, to, new, cut) = GroupedAs(t, u, from, to, new, cut)
  BY <1>1, <1>2
<1>4. key = [i \in DOMAIN u |-> IF i \in from..to THEN new ELSE findZoneForColumn(t, u[i])] /\ DOMAIN key = DOMAIN u
  BY DEF KeysOf
<1> DEFINE first == Only([i \in DOMAIN u |-> i], {i \in DOMAIN u : i = 1 \/ key[i] # key[i - 1]})
<1>5. starts = first
  BY <1>4 DEF StartsOf
<1> DEFINE zones == [k \in DOMAIN first |->
               [id |-> IF \E j \in 1..(k - 1) : key[first[j]] = key[first[k]] THEN cut ELSE key[first[k]],
                minColumns |-> 0,
                columnIds |-> SubSeq(u, first[k], IF k = Len(first) THEN Len(u) ELSE first[k + 1] - 1)]]
           structured == [t EXCEPT !.zones = zones]
<1>6. GroupedAs(t, u, from, to, new, cut)
      = withColumnOrder([structured EXCEPT !.grouped = Groups(structured, new)], u, ZonesOf(structured, u))
  BY DEF GroupedAs, KeysOf
<1>7. zones = RunZones(u, first, key, cut)
  <2> HIDE DEF first, key
  <2> QED BY DEF RunZones, IdOf, EndOf
<1>8. zones = RunZones(u, starts, key, cut)
  <2> HIDE DEF zones, first, starts
  <2> QED BY <1>5, <1>7
<1> HIDE DEF zones, starts, key
<1> QED BY <1>3, <1>6, <1>8 DEF SegmentedTable, key, starts

\* A position is in a run.
InRun(starts, key, n, k, p) == starts[k] <= p /\ p <= EndOf(starts, n, k) /\ key[p] = key[starts[k]]

\* The run of each column.
RunOf(u, starts, key) ==
    [c \in ToSet(u) |-> CHOOSE k \in 1..Len(starts) : InRun(starts, key, Len(u), k, PositionOf(c, u))]

\* Each column has a run, and they come in the order of the columns.
LEMMA RunsOfColumns ==
    ASSUME NEW u \in Seq(Int), Distinct(u), Len(u) \in Nat \ {0}, NEW starts, NEW key, RunsOf(starts, key, Len(u))
    PROVE  LET run == RunOf(u, starts, key)
           IN  /\ run \in [ToSet(u) -> 1..Len(starts)]
               /\ \A p \in 1..Len(u) : InRun(starts, key, Len(u), run[u[p]], p)
               /\ \A a, b : Before(u, a, b) => run[a] <= run[b]
<1> DEFINE n == Len(u)
           m == Len(starts)
           run == RunOf(u, starts, key)
<1>1. \A p \in 1..n : \E k \in 1..m : InRun(starts, key, n, k, p)
  BY DEF RunsOf, InRun
<1>2. DOMAIN u = 1..n /\ (\A c \in ToSet(u) : \E p \in 1..n : u[p] = c) /\ \A p \in 1..n : u[p] \in ToSet(u)
  BY MembersOf
<1>3. \A p \in 1..n : PositionOf(u[p], u) = p
  BY PositionOfColumn
<1>4. \A c \in ToSet(u) : run[c] = CHOOSE k \in 1..m : InRun(starts, key, n, k, PositionOf(c, u))
  BY DEF RunOf
<1>5. DOMAIN run = ToSet(u) /\ run = [c \in ToSet(u) |-> run[c]]
  BY DEF RunOf
<1> HIDE DEF run, m, n
<1>6. ASSUME NEW p \in 1..n PROVE run[u[p]] \in 1..m /\ InRun(starts, key, n, run[u[p]], p)
  <2>1. run[u[p]] = CHOOSE k \in 1..m : InRun(starts, key, n, k, p)
    <3>1. run[u[p]] = CHOOSE k \in 1..m : InRun(starts, key, n, k, PositionOf(u[p], u))
      BY <1>2, <1>4
    <3> QED BY <1>3, <3>1
  <2> QED BY <1>1, <2>1
<1>7. \A c \in ToSet(u) : run[c] \in 1..m
  BY <1>2, <1>6
<1>8. run \in [ToSet(u) -> 1..m]
  BY <1>5, <1>7
<1>9. ASSUME NEW a, NEW b, Before(u, a, b) PROVE run[a] <= run[b]
  <2>1. PICK p \in 1..n, q \in 1..n : p < q /\ u[p] = a /\ u[q] = b
    BY <1>2, <1>9 DEF Before
  <2>2. /\ run[u[p]] \in 1..m /\ starts[run[u[p]]] <= p /\ p <= EndOf(starts, n, run[u[p]])
        /\ run[u[q]] \in 1..m /\ starts[run[u[q]]] <= q /\ q <= EndOf(starts, n, run[u[q]])
    BY <1>6 DEF InRun
  <2>3. p <= q
    BY <2>1 DEF n
  <2>4. run[u[p]] <= run[u[q]]
    BY <2>2, <2>3, RunsInOrder DEF n, m
  <2> QED BY <2>1, <2>4
<1> QED BY <1>6, <1>8, <1>9 DEF run, m, n

\* A run whose id is not its key follows the range, and continues a zone that
\* starts before it.
LEMMA CutRun ==
    ASSUME NEW n \in Nat \ {0}, NEW key, NEW starts, RunsOf(starts, key, n),
           NEW from, NEW to, NEW new, CutBy(key, n, from, to, new), NEW cut,
           NEW k \in 1..Len(starts)
    PROVE  \/ IdOf(starts, key, cut, k) = key[starts[k]]
           \/ /\ IdOf(starts, key, cut, k) = cut /\ starts[k] = to + 1 /\ key[starts[k]] # new
              /\ \E q \in 1..n : q < from /\ key[q] = key[starts[k]]
<1>1. CASE \E j \in 1..(k - 1) : key[starts[j]] = key[starts[k]]
  <2>1. PICK j \in 1..(k - 1) : key[starts[j]] = key[starts[k]]
    BY <1>1
  <2>2. starts \in Seq(1..n) /\ j \in 1..Len(starts) /\ j < k
    <3>1. starts \in Seq(1..n) /\ Len(starts) \in Nat
      BY LenProperties DEF RunsOf
    <3> QED BY <3>1
  <2>3. starts[k] = to + 1 /\ starts[j] < from /\ key[starts[k]] # new
    BY <2>1, <2>2, RepeatedRun
  <2>4. starts[j] \in 1..n
    BY <2>2, ElementOfSeq
  <2> QED BY <1>1, <2>1, <2>3, <2>4 DEF IdOf
<1>2. CASE ~\E j \in 1..(k - 1) : key[starts[j]] = key[starts[k]]
  BY <1>2 DEF IdOf
<1> QED BY <1>1, <1>2

\* A segmented table that has a title over its zones.
LEMMA Titled ==
    ASSUME NEW s \in Table, NEW new \in Int, new \in zoneIds(s), new # NoZone, NoZone \notin s.grouped
    PROVE  LET s2 == [s EXCEPT !.grouped = Groups(s, new)]
           IN  /\ s2 \in Table /\ s2.columns = s.columns /\ s2.cells = s.cells /\ s2.zones = s.zones
               /\ zoneIds(s2) = zoneIds(s) /\ s2.grouped = (s.grouped \cap zoneIds(s)) \cup {new}
               /\ s2.grouped \subseteq zoneIds(s2) /\ NoZone \notin s2.grouped
<1> DEFINE s2 == [s EXCEPT !.grouped = Groups(s, new)]
<1>1. Groups(s, new) = (s.grouped \cap zoneIds(s)) \cup {new}
  BY DEF Groups
<1>2. Groups(s, new) \in SUBSET Int
  BY <1>1, TableParts
<1>3. s2 \in Table /\ s2.columns = s.columns /\ s2.cells = s.cells /\ s2.zones = s.zones /\ s2.grouped = Groups(s, new)
  BY <1>2 DEF Table
<1> HIDE DEF s2
<1>4. zoneIds(s2) = zoneIds(s)
  BY <1>3 DEF zoneIds
<1> QED BY <1>1, <1>3, <1>4 DEF s2

\* A segmented table is arranged, and its columns are in the zones of their runs.
LEMMA SegmentedArranged ==
    ASSUME NEW t, Arranged(t), NEW from, NEW to, NEW new, NEW cut, GroupedRange(t, from, to, new, cut)
    PROVE  LET u == t.columns
               key == KeysOf(t, from, to, new)
               starts == StartsOf(key)
               run == RunOf(u, starts, key)
               t2 == SegmentedTable(t, u, starts, key, cut, new)
           IN  /\ Arranged(t2) /\ t2.cells = t.cells
               /\ t2.grouped = (t.grouped \cap zoneIds(t2)) \cup {new}
               /\ \A p \in 1..Len(u) : findZoneForColumn(t2, u[p]) = IdOf(starts, key, cut, run[u[p]])
<1> DEFINE u == t.columns
           n == Len(u)
           key == KeysOf(t, from, to, new)
           starts == StartsOf(key)
           m == Len(starts)
           run == RunOf(u, starts, key)
           s == [t EXCEPT !.zones = RunZones(u, starts, key, cut)]
           s2 == [s EXCEPT !.grouped = Groups(s, new)]
           place == ZonesOf(s, u)
           t2 == withColumnOrder(s2, u, place)
<1>1. SegmentedTable(t, u, starts, key, cut, new) = t2
  BY DEF SegmentedTable
<1>2. /\ t \in Table /\ Distinct(u) /\ u # << >> /\ t.cells = ToSet(u)
      /\ t.grouped \subseteq zoneIds(t) /\ NoZone \notin t.grouped
  BY ArrangedParts
<1>3. /\ DOMAIN key = 1..n /\ n \in Nat \ {0} /\ CutBy(key, n, from, to, new)
      /\ (\A i \in 1..n : key[i] # cut) /\ (\A i \in 1..n : key[i] \in Int)
  BY KeysAreCut
<1>4. u \in Seq(Int)
  BY <1>2, TableParts
<1>5. new \in Int /\ new # NoZone /\ cut \in Int
  BY DEF GroupedRange
<1>6. from \in 1..n /\ from <= to /\ key[from] = new
  <2> HIDE DEF key, n
  <2>1. from \in 1..n /\ to \in 1..n /\ from <= to /\ \A i \in 1..n : key[i] = new <=> i \in from..to
    BY <1>3 DEF CutBy
  <2>2. from \in from..to
    BY <1>3, <2>1
  <2> QED BY <2>1, <2>2
<1> HIDE DEF key
<1>7. RunsOf(starts, key, n)
  BY <1>3, StartsAreRuns
<1> HIDE DEF starts
<1>8. Segmented(t, s, starts, key, cut) /\ s.grouped = t.grouped
  BY <1>2, <1>3, <1>5, <1>7, RunZonesSegment
<1> HIDE DEF s, place, run
<1>9. /\ s \in Table /\ s.columns = u /\ s.cells = t.cells /\ Len(s.zones) = m
      /\ \A k \in 1..m : s.zones[k].id = IdOf(starts, key, cut, k)
  BY <1>8 DEF Segmented
<1>10. /\ run \in [ToSet(u) -> 1..m]
       /\ \A p \in 1..n : InRun(starts, key, n, run[u[p]], p)
       /\ \A a, b : Before(u, a, b) => run[a] <= run[b]
  BY <1>2, <1>3, <1>4, <1>7, RunsOfColumns DEF run
<1>11. /\ (\A p \in 1..n : u[p] \in ToSet(u)) /\ DOMAIN s.zones = 1..m
       /\ \A c \in ToSet(u) : \E p \in 1..n : u[p] = c
  <2>1. DOMAIN s.zones = 1..Len(s.zones)
    BY <1>9, TableParts
  <2>2. (\A p \in 1..n : u[p] \in ToSet(u)) /\ \A c \in ToSet(u) : \E p \in 1..n : u[p] = c
    BY <1>4, MembersOf
  <2> QED BY <1>9, <2>1, <2>2
<1>12. new \in zoneIds(s)
  <2> DEFINE k == run[u[from]]
  <2>1. k \in 1..m /\ key[starts[k]] = new
    BY <1>6, <1>10, <1>11 DEF InRun
  <2> HIDE DEF k, n, m
  <2>2. IdOf(starts, key, cut, k) = new
    BY <1>3, <1>7, <2>1, CutRun DEF m
  <2> QED BY <1>9, <1>11, <2>1, <2>2 DEF zoneIds
<1>13. /\ s2 \in Table /\ s2.columns = u /\ s2.cells = t.cells /\ s2.zones = s.zones
       /\ zoneIds(s2) = zoneIds(s) /\ s2.grouped = (t.grouped \cap zoneIds(s)) \cup {new}
       /\ s2.grouped \subseteq zoneIds(s2) /\ NoZone \notin s2.grouped
  <2>1. NoZone \notin s.grouped
    BY <1>2, <1>8
  <2> HIDE DEF u
  <2> QED BY <1>5, <1>8, <1>9, <1>12, <2>1, Titled
<1> HIDE DEF s2
<1>14. \A p \in 1..n : place[u[p]] = IdOf(starts, key, cut, run[u[p]])
  <2>1. SUFFICES ASSUME NEW p \in 1..n PROVE place[u[p]] = IdOf(starts, key, cut, run[u[p]])
    OBVIOUS
  <2>2. place[u[p]] = findZoneForColumn(s, u[p])
    BY <1>11 DEF place, ZonesOf
  <2>3. /\ run[u[p]] \in 1..Len(starts) /\ starts[run[u[p]]] <= p /\ p <= EndOf(starts, n, run[u[p]])
    BY <1>10, <1>11 DEF InRun
  <2>4. findZoneForColumn(s, u[p]) = IdOf(starts, key, cut, run[u[p]])
    <3> DEFINE k == run[u[p]]
    <3>1. /\ k \in 1..Len(starts) /\ starts[k] <= p /\ p <= EndOf(starts, n, k)
      BY <2>3
    <3> HIDE DEF k
    <3>2. findZoneForColumn(s, u[p]) = IdOf(starts, key, cut, k)
      BY <1>2, <1>3, <1>7, <1>8, <3>1, FoundInItsRun
    <3> QED BY <3>2 DEF k
  <2> QED BY <2>2, <2>4
<1>15. \A k, l \in 1..Len(s2.zones) : s2.zones[k].id = s2.zones[l].id => k = l
  <2>1. SUFFICES ASSUME NEW k \in 1..m, NEW l \in 1..m, s2.zones[k].id = s2.zones[l].id PROVE k = l
    BY <1>9, <1>13
  <2>2. IdOf(starts, key, cut, k) = IdOf(starts, key, cut, l)
    BY <1>9, <1>13, <2>1
  <2> QED BY <1>3, <1>7, <2>2, RunsAreNamedOnce
<1>16. Numbered(s2, u, place, run)
  <2>1. \A c \in ToSet(u) : place[c] = s2.zones[run[c]].id
    <3>1. ASSUME NEW p \in 1..n PROVE place[u[p]] = s2.zones[run[u[p]]].id
      <4>1. run[u[p]] \in 1..m
        BY <1>10, <1>11
      <4> QED BY <1>9, <1>13, <1>14, <4>1
    <3> QED BY <1>11, <3>1
  <2>2. Len(s2.zones) = m
    BY <1>9, <1>13
  <2> HIDE DEF u, m
  <2> QED BY <1>10, <2>1, <2>2 DEF Numbered
<1> HIDE DEF t2
<1>17. Arranged(t2)
  <2>1. /\ ToSet(u) = ToSet(s2.columns) /\ s2.cells = ToSet(u)
        /\ s2.zones # << >> => \E number : Numbered(s2, u, place, number)
    BY <1>2, <1>13, <1>16
  <2> HIDE DEF u
  <2> QED BY <1>2, <1>4, <1>13, <1>15, <2>1, OrderedArranged DEF t2
<1>18. Reordered(s2, t2, u, place)
  <2>1. ToSet(u) = ToSet(s2.columns)
    BY <1>13
  <2> HIDE DEF u
  <2> QED BY <1>2, <1>4, <1>13, <2>1, OrderedColumns DEF t2
<1>19. t2.cells = t.cells /\ t2.grouped = s2.grouped /\ zoneIds(t2) = zoneIds(s)
  <2>1. /\ t2 \in Table /\ t2.cells = s2.cells /\ t2.grouped = s2.grouped /\ Len(t2.zones) = Len(s2.zones)
        /\ \A k \in 1..Len(s2.zones) : t2.zones[k].id = s2.zones[k].id
    BY <1>18 DEF Reordered
  <2>2. DOMAIN t2.zones = 1..Len(t2.zones) /\ DOMAIN s2.zones = 1..Len(s2.zones)
    BY <1>13, <2>1, TableParts
  <2>3. zoneIds(t2) = zoneIds(s2)
    BY <2>1, <2>2 DEF zoneIds
  <2> QED BY <1>13, <2>1, <2>3
<1>20. \A p \in 1..n : findZoneForColumn(t2, u[p]) = IdOf(starts, key, cut, run[u[p]])
  <2>1. SUFFICES ASSUME NEW p \in 1..n PROVE findZoneForColumn(t2, u[p]) = IdOf(starts, key, cut, run[u[p]])
    OBVIOUS
  <2>2. u[p] \in ToSet(u) /\ ToSet(u) = ToSet(s2.columns)
    BY <1>11, <1>13
  <2>3. findZoneForColumn(t2, u[p]) = place[u[p]]
    <3> DEFINE c == u[p]
    <3>1. c \in ToSet(u)
      BY <2>2
    <3> HIDE DEF c, u
    <3>2. findZoneForColumn(t2, c) = place[c]
      BY <1>2, <1>4, <1>13, <1>15, <1>16, <2>2, <3>1, OrderedFound DEF t2
    <3> QED BY <3>2 DEF c
  <2> QED BY <1>14, <2>3
<1>21. t2.grouped = (t.grouped \cap zoneIds(t2)) \cup {new}
  BY <1>13, <1>19
<1> QED BY <1>1, <1>17, <1>19, <1>20, <1>21 DEF t2, key, starts, run, place, s, s2

\* What grouping a range does to the zones of the columns: those of the range
\* go to the new one; the others keep theirs, but for the rest of a zone the
\* range cuts, whose start keeps it.
Cut(t, t2, from, to, new, cut) ==
    LET u == t.columns
        Found(p) == findZoneForColumn(t, u[p])
        Found2(p) == findZoneForColumn(t2, u[p])
    IN  /\ from \in 1..Len(u) /\ to \in 1..Len(u) /\ from <= to
        /\ \A p \in from..to : Found2(p) = new
        /\ \A p \in 1..Len(u) \ from..to :
              \/ Found2(p) = Found(p)
              \/ /\ Found2(p) = cut
                 /\ \E d, e \in 1..Len(u) :
                       Found(d) = Found(p) /\ Found2(d) = Found(p) /\ Found(e) = Found(p) /\ Found2(e) = new

\* Grouping a range keeps a table arranged, and cuts its zones so.
LEMMA GroupArranged ==
    ASSUME NEW t, Arranged(t), NEW from, NEW to, NEW new, NEW cut, GroupedRange(t, from, to, new, cut)
    PROVE  LET t2 == groupTableHeaders(t, from, to, new, cut)
           IN  /\ Arranged(t2) /\ t2.cells = t.cells
               /\ t2.grouped = (t.grouped \cap zoneIds(t2)) \cup {new}
               /\ Cut(t, t2, from, to, new, cut)
<1> DEFINE u == t.columns
           n == Len(u)
           key == KeysOf(t, from, to, new)
           starts == StartsOf(key)
           m == Len(starts)
           run == RunOf(u, starts, key)
           t2 == groupTableHeaders(t, from, to, new, cut)
           Found(p) == findZoneForColumn(t, u[p])
           Found2(p) == findZoneForColumn(t2, u[p])
<1>1. t2 = SegmentedTable(t, u, starts, key, cut, new)
  BY GroupingSegments
<1>2. /\ Arranged(t2) /\ t2.cells = t.cells
      /\ t2.grouped = (t.grouped \cap zoneIds(t2)) \cup {new}
      /\ \A p \in 1..n : Found2(p) = IdOf(starts, key, cut, run[u[p]])
  <2> DEFINE t3 == SegmentedTable(t, u, starts, key, cut, new)
  <2>1. /\ Arranged(t3) /\ t3.cells = t.cells
        /\ t3.grouped = (t.grouped \cap zoneIds(t3)) \cup {new}
        /\ \A p \in 1..n : findZoneForColumn(t3, u[p]) = IdOf(starts, key, cut, run[u[p]])
    BY SegmentedArranged
  <2>2. t2 = t3
    BY <1>1
  <2> HIDE DEF t2, t3, starts, key, run
  <2> QED BY <2>1, <2>2
<1>3. /\ DOMAIN key = 1..n /\ n \in Nat \ {0} /\ CutBy(key, n, from, to, new)
      /\ \A i \in 1..n : key[i] # cut
      /\ \A i \in 1..n : key[i] = IF i \in from..to THEN new ELSE Found(i)
  BY KeysAreCut
<1>4. u \in Seq(Int) /\ Distinct(u)
  BY ArrangedParts, TableParts
<1>5. new # cut
  BY DEF GroupedRange
<1>6. from \in 1..n /\ to \in 1..n /\ from <= to /\ \A i \in 1..n : key[i] = new <=> i \in from..to
  BY <1>3 DEF CutBy
<1>7. \A i, j, l \in 1..n : i < j /\ j < l /\ Found(i) = Found(l) => Found(j) = Found(i)
  BY ZonesComeTogether
<1> HIDE DEF key, t2
<1>8. RunsOf(starts, key, n)
  BY <1>3, StartsAreRuns
<1> HIDE DEF starts
<1>9. /\ run \in [ToSet(u) -> 1..m]
      /\ \A p \in 1..n : InRun(starts, key, n, run[u[p]], p)
  BY <1>3, <1>4, <1>8, RunsOfColumns
<1>10. \A p \in 1..n : u[p] \in ToSet(u)
  BY <1>4, MembersOf
<1> HIDE DEF run
<1>11. ASSUME NEW p \in 1..n
       PROVE  \/ Found2(p) = key[p]
              \/ /\ Found2(p) = cut /\ to < p /\ key[p] # new
                 /\ \E q \in 1..n : q < from /\ key[q] = key[p]
  <2> DEFINE k == run[u[p]]
  <2>1. /\ k \in 1..m /\ starts[k] <= p /\ key[p] = key[starts[k]] /\ Found2(p) = IdOf(starts, key, cut, k)
    BY <1>2, <1>9, <1>10 DEF InRun
  <2>2. starts[k] \in 1..n
    <3>1. starts \in Seq(1..n)
      BY <1>8 DEF RunsOf
    <3> QED BY <2>1, <3>1, ElementOfSeq
  <2> HIDE DEF k
  <2>3. \/ IdOf(starts, key, cut, k) = key[starts[k]]
        \/ /\ IdOf(starts, key, cut, k) = cut /\ starts[k] = to + 1 /\ key[starts[k]] # new
           /\ \E q \in 1..n : q < from /\ key[q] = key[starts[k]]
    BY <1>3, <1>8, <2>1, CutRun
  <2>4. CASE IdOf(starts, key, cut, k) = key[starts[k]]
    BY <2>1, <2>4
  <2>5. CASE /\ IdOf(starts, key, cut, k) = cut /\ starts[k] = to + 1 /\ key[starts[k]] # new
             /\ \E q \in 1..n : q < from /\ key[q] = key[starts[k]]
    <3>1. PICK q \in 1..n : q < from /\ key[q] = key[starts[k]]
      BY <2>5
    <3>2. to < p
      BY <1>6, <2>1, <2>2, <2>5
    <3> QED BY <2>1, <2>5, <3>1, <3>2
  <2> QED BY <2>3, <2>4, <2>5
<1> HIDE DEF n, Found, Found2
<1>12. ASSUME NEW p \in from..to PROVE Found2(p) = new
  <2>1. p \in 1..n
    BY <1>3, <1>6
  <2> QED BY <1>6, <1>11, <2>1
<1>13. ASSUME NEW p \in 1..n \ from..to
       PROVE  \/ Found2(p) = Found(p)
              \/ /\ Found2(p) = cut
                 /\ \E d, e \in 1..n :
                       Found(d) = Found(p) /\ Found2(d) = Found(p) /\ Found(e) = Found(p) /\ Found2(e) = new
  <2>1. key[p] = Found(p)
    BY <1>3
  <2>2. CASE Found2(p) = key[p]
    BY <2>1, <2>2
  <2>3. CASE /\ Found2(p) = cut /\ to < p /\ key[p] # new
             /\ \E q \in 1..n : q < from /\ key[q] = key[p]
    <3>1. PICK q \in 1..n : q < from /\ key[q] = key[p]
      BY <2>3
    <3>2. q \notin from..to /\ q < to /\ ~(to < q)
      BY <1>3, <1>6, <3>1
    <3>3. Found(q) = Found(p)
      BY <1>3, <2>1, <3>1, <3>2
    <3>4. Found2(q) = Found(p)
      BY <1>11, <2>1, <3>1, <3>2
    <3>5. Found(to) = Found(p)
      BY <1>6, <1>7, <2>3, <3>2, <3>3
    <3>6. Found2(to) = new
      <4>1. to \in from..to
        BY <1>3, <1>6
      <4> QED BY <1>12, <4>1
    <3> QED BY <1>6, <2>3, <3>3, <3>4, <3>5, <3>6
  <2> QED BY <1>11, <2>2, <2>3
<1>14. Cut(t, t2, from, to, new, cut)
  BY <1>6, <1>12, <1>13 DEF Cut, Found, Found2, n
<1> QED BY <1>2, <1>14 DEF t2

-----------------------------------------------------------------------------
(* Every table of the editor is arranged *)

\* A sequence that names nothing twice has as many members as positions.
LEMMA NamedOnceCount ==
    ASSUME NEW n \in Nat, NEW S, NEW f \in [1..n -> S], \A i, j \in 1..n : f[i] = f[j] => i = j,
           \A a \in S : \E i \in 1..n : f[i] = a
    PROVE  IsFiniteSet(S) /\ Cardinality(S) = n
<1>1. f \in Bijection(1..n, S)
  BY DEF Bijection, Injection, IsInjective, Surjection
<1>2. ExistsBijection(1..n, S)
  BY <1>1 DEF ExistsBijection
<1>3. Cardinality(S) = n
  BY <1>2, FS_CountingElements
<1>4. IsFiniteSet(S)
  BY <1>2, FS_NatBijection
<1> QED BY <1>3, <1>4

\* The id of a new zone is a number that no zone has.
LEMMA NewZoneIsNew ==
    ASSUME NEW taken, IsFiniteSet(taken)
    PROVE  NewZone(taken) \in Nat \ {0} /\ NewZone(taken) \notin taken
<1> DEFINE n == Cardinality(taken) + 1
<1>1. Cardinality(taken) \in Nat
  BY FS_CardinalityType
<1>2. \E z \in 1..n : z \notin taken
  <2>1. SUFFICES ASSUME 1..n \in SUBSET taken PROVE FALSE
    OBVIOUS
  <2>2. Cardinality(1..n) = n
    <3>1. 1 \in Int /\ n \in Int /\ ~(1 > n) /\ n - 1 + 1 = n
      BY <1>1
    <3> HIDE DEF n
    <3> QED BY <3>1, FS_Interval
  <2>3. Cardinality(1..n) <= Cardinality(taken)
    BY <2>1, FS_Subset
  <2> QED BY <1>1, <2>2, <2>3
<1>3. NewZone(taken) \in 1..n /\ NewZone(taken) \notin taken
  BY <1>2 DEF NewZone
<1> QED BY <1>1, <1>3

\* A table names each of its columns and of its zones once.
LEMMA ArrangedCounts ==
    ASSUME NEW t, Arranged(t)
    PROVE  /\ Cardinality(ToSet(t.columns)) = Len(t.columns)
           /\ IsFiniteSet(zoneIds(t)) /\ Cardinality(zoneIds(t)) = Len(t.zones)
<1>1. /\ t \in Table /\ Distinct(t.columns)
      /\ \A i, j \in 1..Len(t.zones) : t.zones[i].id = t.zones[j].id => i = j
  BY ArrangedParts
<1>2. /\ t.columns \in Seq(Int) /\ DOMAIN t.columns = 1..Len(t.columns) /\ Len(t.columns) \in Nat
      /\ DOMAIN t.zones = 1..Len(t.zones) /\ Len(t.zones) \in Nat
  BY <1>1, TableParts
<1>3. Cardinality(ToSet(t.columns)) = Len(t.columns)
  <2> DEFINE n == Len(t.columns)
             f == [i \in 1..n |-> t.columns[i]]
             S == ToSet(t.columns)
  <2>1. (\A i \in 1..n : t.columns[i] \in S) /\ \A a \in S : \E i \in 1..n : t.columns[i] = a
    BY <1>2, MembersOf
  <2>2. f \in [1..n -> S] /\ (\A i, j \in 1..n : f[i] = f[j] => i = j) /\ \A a \in S : \E i \in 1..n : f[i] = a
    BY <1>1, <1>2, <2>1 DEF Distinct
  <2>3. n \in Nat
    BY <1>2
  <2> HIDE DEF n, f, S
  <2>4. Cardinality(S) = n
    BY <2>2, <2>3, NamedOnceCount
  <2> QED BY <2>4 DEF S, n
<1>4. IsFiniteSet(zoneIds(t)) /\ Cardinality(zoneIds(t)) = Len(t.zones)
  <2> DEFINE n == Len(t.zones)
             f == [i \in 1..n |-> t.zones[i].id]
             S == zoneIds(t)
  <2>1. (\A i \in 1..n : t.zones[i].id \in S) /\ \A a \in S : \E i \in 1..n : t.zones[i].id = a
    BY <1>2 DEF zoneIds
  <2>2. f \in [1..n -> S] /\ (\A i, j \in 1..n : f[i] = f[j] => i = j) /\ \A a \in S : \E i \in 1..n : f[i] = a
    BY <1>1, <2>1
  <2>3. n \in Nat
    BY <1>2
  <2> HIDE DEF n, f, S
  <2>4. IsFiniteSet(S) /\ Cardinality(S) = n
    BY <2>2, <2>3, NamedOnceCount
  <2> QED BY <2>4 DEF S, n
<1> QED BY <1>3, <1>4

\* The columns inserted so far are numbered from -1 down.
TableInvariant ==
    /\ Arranged(table)
    /\ inserted \in Nat /\ \A c \in table.cells : c >= -inserted

\* The body of TitlesStay, of a table and the one that follows it.
TitlesKept(t, t2) ==
    LET kept == ToSet(t.columns) \cap ToSet(t2.columns)
        retitled == {c \in kept : TitleOf(t2, c) # TitleOf(t, c)}
        new == t2.grouped \ t.grouped
    IN  IF new = {}
        THEN \/ Cardinality(retitled) <= 1 /\ t.grouped = t2.grouped
             \/ \A c \in kept : TitleOf(t2, c) = IF TitleOf(t, c) \in t2.grouped THEN TitleOf(t, c) ELSE NoZone
        ELSE \A c \in retitled :
                \/ TitleOf(t2, c) \in new
                \/ /\ TitleOf(t2, c) = NoZone
                   /\ \E d, e \in kept :
                         /\ TitleOf(t, d) = TitleOf(t, c) /\ TitleOf(t2, d) = TitleOf(t, c)
                         /\ TitleOf(t, e) = TitleOf(t, c) /\ TitleOf(t2, e) \in new

\* A table that differs in the zone of at most one column keeps the titles of
\* the others.
LEMMA OneRetitled ==
    ASSUME NEW t, NEW t2, t2.grouped = t.grouped, NEW c,
           \A d \in (ToSet(t.columns) \cap ToSet(t2.columns)) \ {c} : findZoneForColumn(t2, d) = findZoneForColumn(t, d)
    PROVE  TitlesKept(t, t2)
<1> DEFINE kept == ToSet(t.columns) \cap ToSet(t2.columns)
           retitled == {d \in kept : TitleOf(t2, d) # TitleOf(t, d)}
<1>1. retitled \in SUBSET {c}
  BY DEF TitleOf
<1>2. IsFiniteSet({c}) /\ Cardinality({c}) = 1
  BY FS_Singleton
<1> HIDE DEF retitled
<1>3. Cardinality(retitled) <= 1
  BY <1>1, <1>2, FS_Subset
<1>4. t2.grouped \ t.grouped = {}
  OBVIOUS
<1> QED BY <1>3, <1>4 DEF TitlesKept, retitled

\* One with fewer titles and the same zones keeps the titles that are left.
LEMMA FewerTitles ==
    ASSUME NEW t, NEW t2, t2.grouped \subseteq t.grouped,
           \A d : findZoneForColumn(t2, d) = findZoneForColumn(t, d)
    PROVE  TitlesKept(t, t2)
<1>1. t2.grouped \ t.grouped = {}
  OBVIOUS
<1>2. \A c : TitleOf(t2, c) = IF TitleOf(t, c) \in t2.grouped THEN TitleOf(t, c) ELSE NoZone
  BY DEF TitleOf
<1> QED BY <1>1, <1>2 DEF TitlesKept

\* Grouping a range retitles its columns, and takes the title from the rest of
\* a zone it cuts.
LEMMA GroupRetitles ==
    ASSUME NEW t, Arranged(t), NEW t2, Arranged(t2), NEW from, NEW to, NEW new, NEW cut,
           GroupedRange(t, from, to, new, cut), Cut(t, t2, from, to, new, cut),
           t2.cells = t.cells, t2.grouped = (t.grouped \cap zoneIds(t2)) \cup {new}
    PROVE  TitlesKept(t, t2)
<1> DEFINE u == t.columns
           n == Len(u)
           Found(p) == findZoneForColumn(t, u[p])
           Found2(p) == findZoneForColumn(t2, u[p])
           kept == ToSet(t.columns) \cap ToSet(t2.columns)
<1>1. /\ t \in Table /\ t.cells = ToSet(u) /\ t.grouped \subseteq zoneIds(t) /\ NoZone \notin t.grouped
      /\ t2 \in Table /\ t2.cells = ToSet(t2.columns) /\ NoZone \notin t2.grouped
  BY ArrangedParts
<1>2. kept = ToSet(u)
  BY <1>1
<1>3. /\ (\A p \in 1..n : u[p] \in ToSet(u)) /\ \A c \in ToSet(u) : \E p \in 1..n : u[p] = c
  <2>1. u \in Seq(Int)
    BY <1>1, TableParts
  <2> QED BY <2>1, MembersOf
<1>4. new \notin t.grouped /\ cut \notin t.grouped /\ cut # new
  BY <1>1 DEF GroupedRange
<1>5. t2.grouped \ t.grouped = {new} /\ new \in t2.grouped /\ cut \notin t2.grouped
  BY <1>4
<1>6. /\ from \in 1..n /\ to \in 1..n
      /\ \A p \in from..to : Found2(p) = new
      /\ \A p \in 1..n \ from..to :
            \/ Found2(p) = Found(p)
            \/ /\ Found2(p) = cut
               /\ \E d, e \in 1..n :
                     Found(d) = Found(p) /\ Found2(d) = Found(p) /\ Found(e) = Found(p) /\ Found2(e) = new
  BY DEF Cut
<1>7. \A p \in 1..n : Found2(p) \in zoneIds(t2) \cup {NoZone}
  <2>1. \A q \in 1..Len(t2.columns) : findZoneForColumn(t2, t2.columns[q]) \in zoneIds(t2) \cup {NoZone}
    BY ZonesComeTogether
  <2>2. t2.columns \in Seq(Int)
    BY <1>1, TableParts
  <2>3. \A c \in ToSet(t2.columns) : \E q \in 1..Len(t2.columns) : t2.columns[q] = c
    BY <2>2, MembersOf
  <2>4. \A c \in ToSet(t2.columns) : findZoneForColumn(t2, c) \in zoneIds(t2) \cup {NoZone}
    BY <2>1, <2>3
  <2>5. \A p \in 1..n : u[p] \in ToSet(t2.columns)
    BY <1>2, <1>3
  <2> QED BY <2>4, <2>5
<1>8. \A p \in 1..n : /\ TitleOf(t, u[p]) = IF Found(p) \in t.grouped THEN Found(p) ELSE NoZone
                      /\ TitleOf(t2, u[p]) = IF Found2(p) \in t2.grouped THEN Found2(p) ELSE NoZone
  BY DEF TitleOf
<1> HIDE DEF Found, Found2
<1>9. ASSUME NEW p \in 1..n, TitleOf(t2, u[p]) # TitleOf(t, u[p])
      PROVE  \/ TitleOf(t2, u[p]) = new
             \/ /\ TitleOf(t2, u[p]) = NoZone
                /\ \E d, e \in 1..n :
                      /\ TitleOf(t, u[d]) = TitleOf(t, u[p]) /\ TitleOf(t2, u[d]) = TitleOf(t, u[p])
                      /\ TitleOf(t, u[e]) = TitleOf(t, u[p]) /\ TitleOf(t2, u[e]) = new
  <2>1. CASE p \in from..to
    BY <1>5, <1>6, <1>8, <2>1
  <2>2. CASE p \notin from..to /\ Found2(p) = Found(p)
    <3>1. CASE Found(p) \in t.grouped
      <4>1. Found(p) \in t2.grouped
        BY <1>1, <1>7, <2>2, <3>1
      <4>2. TitleOf(t2, u[p]) = Found(p) /\ TitleOf(t, u[p]) = Found(p)
        BY <1>8, <2>2, <3>1, <4>1
      <4> QED BY <1>9, <4>2
    <3>2. CASE Found(p) \notin t.grouped
      <4>1. TitleOf(t, u[p]) = NoZone
        BY <1>8, <3>2
      <4>2. Found2(p) \in t2.grouped => Found2(p) = new
        BY <2>2, <3>2
      <4>3. TitleOf(t2, u[p]) = new
        BY <1>8, <1>9, <4>1, <4>2
      <4> QED BY <4>3
    <3> QED BY <3>1, <3>2
  <2>3. CASE /\ Found2(p) = cut
             /\ \E d, e \in 1..n :
                   Found(d) = Found(p) /\ Found2(d) = Found(p) /\ Found(e) = Found(p) /\ Found2(e) = new
    <3>1. PICK d \in 1..n, e \in 1..n :
             Found(d) = Found(p) /\ Found2(d) = Found(p) /\ Found(e) = Found(p) /\ Found2(e) = new
      BY <2>3
    <3>2. TitleOf(t2, u[p]) = NoZone
      BY <1>5, <1>8, <2>3
    <3>3. Found(p) \in t.grouped /\ TitleOf(t, u[p]) = Found(p)
      BY <1>8, <1>9, <3>2
    <3>4. Found(p) \in t2.grouped
      BY <1>1, <1>7, <3>1, <3>3
    <3>5. TitleOf(t, u[d]) = Found(p) /\ TitleOf(t2, u[d]) = Found(p)
      BY <1>8, <3>1, <3>3, <3>4
    <3>6. TitleOf(t, u[e]) = Found(p) /\ TitleOf(t2, u[e]) = new
      BY <1>5, <1>8, <3>1, <3>3
    <3> QED BY <3>2, <3>3, <3>5, <3>6
  <2> QED BY <1>6, <2>1, <2>2, <2>3
<1>10. \A c \in {d \in kept : TitleOf(t2, d) # TitleOf(t, d)} :
          \/ TitleOf(t2, c) \in {new}
          \/ /\ TitleOf(t2, c) = NoZone
             /\ \E d, e \in kept :
                   /\ TitleOf(t, d) = TitleOf(t, c) /\ TitleOf(t2, d) = TitleOf(t, c)
                   /\ TitleOf(t, e) = TitleOf(t, c) /\ TitleOf(t2, e) \in {new}
  <2>1. SUFFICES ASSUME NEW c \in kept, TitleOf(t2, c) # TitleOf(t, c)
                 PROVE  \/ TitleOf(t2, c) = new
                        \/ /\ TitleOf(t2, c) = NoZone
                           /\ \E d, e \in kept :
                                 /\ TitleOf(t, d) = TitleOf(t, c) /\ TitleOf(t2, d) = TitleOf(t, c)
                                 /\ TitleOf(t, e) = TitleOf(t, c) /\ TitleOf(t2, e) = new
    OBVIOUS
  <2>2. PICK p \in 1..n : u[p] = c
    BY <1>2, <1>3
  <2>3. \A d \in 1..n : u[d] \in kept
    BY <1>2, <1>3
  <2> HIDE DEF kept, u, n
  <2> QED BY <1>9, <2>1, <2>2, <2>3
<1>11. {new} # {}
  OBVIOUS
<1> QED BY <1>5, <1>10, <1>11 DEF TitlesKept

-----------------------------------------------------------------------------
(* The steps of the editor *)

\* The tables an appraiser starts from are arranged.
LEMMA TablesStartArranged == TableInit => TableInvariant
<1>1. SUFFICES ASSUME TableInit PROVE TableInvariant
  OBVIOUS
<1>2. Arranged(table) /\ table.cells \subseteq Nat /\ inserted = 0
  BY <1>1, TablesAssumption DEF TableInit
<1> QED BY <1>2 DEF TableInvariant

\* Moving a column.
LEMMA MoveStep ==
    ASSUME TableInvariant, MoveColumn
    PROVE  TableInvariant' /\ TitlesKept(table, table')
<1>1. Arranged(table) /\ inserted \in Nat /\ \A d \in table.cells : d >= -inserted
  BY DEF TableInvariant
<1>2. getDisplayColumns(table) = table.columns
  BY <1>1, ShownInOrder
<1>3. PICK c \in ToSet(table.columns), target \in ToSet(table.columns) :
         c # target /\ table' = moveTableColumnTo(table, c, target)
  BY <1>2 DEF MoveColumn
<1>4. inserted' = inserted
  BY DEF MoveColumn
<1> DEFINE t2 == moveTableColumnTo(table, c, target)
<1>5. /\ Arranged(t2) /\ t2.cells = table.cells /\ t2.grouped = table.grouped
      /\ \A d \in ToSet(table.columns) \ {c} : findZoneForColumn(t2, d) = findZoneForColumn(table, d)
  BY <1>1, <1>3, MoveArranged
<1>6. table' = t2
  BY <1>3
<1> HIDE DEF t2
<1>7. TitlesKept(table, t2)
  <2>1. \A d \in (ToSet(table.columns) \cap ToSet(t2.columns)) \ {c} :
           findZoneForColumn(t2, d) = findZoneForColumn(table, d)
    BY <1>5
  <2> QED BY <1>5, <2>1, OneRetitled
<1> QED BY <1>1, <1>4, <1>5, <1>6, <1>7 DEF TableInvariant

\* Inserting one.
LEMMA InsertStep ==
    ASSUME TableInvariant, InsertColumn
    PROVE  TableInvariant' /\ TitlesKept(table, table')
<1>1. Arranged(table) /\ inserted \in Nat /\ \A d \in table.cells : d >= -inserted
  BY DEF TableInvariant
<1>2. getDisplayColumns(table) = table.columns
  BY <1>1, ShownInOrder
<1>3. PICK c \in ToSet(table.columns), side \in {"left", "right"} :
         table' = insertTableColumnBeside(table, c, side, NewColumn)
  BY <1>2 DEF InsertColumn
<1>4. inserted' = inserted + 1
  BY DEF InsertColumn
<1>5. table.cells = ToSet(table.columns) /\ table.columns \in Seq(Int)
  BY <1>1, ArrangedParts, TableParts
<1>6. NewColumn = -(inserted + 1)
  BY DEF NewColumn
<1> DEFINE new == NewColumn
           t2 == insertTableColumnBeside(table, c, side, new)
<1>7. new \in Int /\ new \notin ToSet(table.columns)
  BY <1>1, <1>5, <1>6
<1>8. table' = t2
  BY <1>3
<1>9. new = -(inserted + 1)
  BY <1>6
<1> HIDE DEF new
<1>10. /\ Arranged(t2) /\ t2.cells = table.cells \cup {new} /\ t2.grouped = table.grouped
       /\ \A d \in ToSet(table.columns) : findZoneForColumn(t2, d) = findZoneForColumn(table, d)
  BY <1>1, <1>7, InsertArranged
<1> HIDE DEF t2
<1>11. TitlesKept(table, t2)
  <2>1. \A d \in (ToSet(table.columns) \cap ToSet(t2.columns)) \ {new} :
           findZoneForColumn(t2, d) = findZoneForColumn(table, d)
    BY <1>10
  <2> QED BY <1>10, <2>1, OneRetitled
<1>12. \A d \in t2.cells : d >= -(inserted + 1)
  <2>1. table.cells \subseteq Int
    BY <1>1, ArrangedParts, TableParts
  <2> QED BY <1>1, <1>9, <1>10, <2>1
<1> QED BY <1>1, <1>4, <1>8, <1>10, <1>11, <1>12 DEF TableInvariant

\* Deleting one.
LEMMA DeleteStep ==
    ASSUME TableInvariant, DeleteColumn
    PROVE  TableInvariant' /\ TitlesKept(table, table')
<1>1. Arranged(table) /\ inserted \in Nat /\ \A d \in table.cells : d >= -inserted
  BY DEF TableInvariant
<1>2. getDisplayColumns(table) = table.columns
  BY <1>1, ShownInOrder
<1>3. PICK c \in ToSet(table.columns) : canRemoveTableColumn(table, c) /\ table' = removeTableColumn(table, c)
  BY <1>2 DEF DeleteColumn
<1>4. inserted' = inserted /\ Len(table.columns) > 1
  BY <1>3 DEF DeleteColumn, canRemoveTableColumn
<1> DEFINE t2 == removeTableColumn(table, c)
<1>5. /\ Arranged(t2) /\ t2.cells = table.cells \ {c} /\ t2.grouped = table.grouped
      /\ \A d \in ToSet(table.columns) \ {c} : findZoneForColumn(t2, d) = findZoneForColumn(table, d)
  BY <1>1, <1>4, RemoveArranged
<1>6. table' = t2
  BY <1>3
<1> HIDE DEF t2
<1>7. TitlesKept(table, t2)
  <2>1. \A d \in (ToSet(table.columns) \cap ToSet(t2.columns)) \ {c} :
           findZoneForColumn(t2, d) = findZoneForColumn(table, d)
    BY <1>5
  <2> QED BY <1>5, <2>1, OneRetitled
<1> QED BY <1>1, <1>4, <1>5, <1>6, <1>7 DEF TableInvariant

\* Grouping a range.
LEMMA GroupStep ==
    ASSUME TableInvariant, GroupHeaders
    PROVE  TableInvariant' /\ TitlesKept(table, table')
<1> DEFINE new == NewZone(zoneIds(table))
           cut == NewZone(zoneIds(table) \cup {new})
<1>1. Arranged(table) /\ inserted \in Nat /\ \A d \in table.cells : d >= -inserted
  BY DEF TableInvariant
<1>2. getDisplayColumns(table) = table.columns /\ DOMAIN table.columns = 1..Len(table.columns)
  BY <1>1, ShownInOrder, ArrangedParts, TableParts
<1>3. PICK from \in 1..Len(table.columns), to \in 1..Len(table.columns) :
         from <= to /\ table' = groupTableHeaders(table, from, to, new, cut)
  BY <1>2 DEF GroupHeaders
<1>4. inserted' = inserted
  BY DEF GroupHeaders
<1>5. IsFiniteSet(zoneIds(table)) /\ IsFiniteSet(zoneIds(table) \cup {new})
  BY <1>1, ArrangedCounts, FS_AddElement
<1>6. /\ new \in Nat \ {0} /\ new \notin zoneIds(table)
      /\ cut \in Nat \ {0} /\ cut \notin zoneIds(table) \cup {new}
  BY <1>5, NewZoneIsNew
<1> HIDE DEF new, cut
<1>7. GroupedRange(table, from, to, new, cut)
  <2>1. NoZone = -1
    BY DEF NoZone
  <2> QED BY <1>3, <1>6, <2>1 DEF GroupedRange
<1> DEFINE t2 == groupTableHeaders(table, from, to, new, cut)
<1>8. /\ Arranged(t2) /\ t2.cells = table.cells
      /\ t2.grouped = (table.grouped \cap zoneIds(t2)) \cup {new}
      /\ Cut(table, t2, from, to, new, cut)
  BY <1>1, <1>7, GroupArranged
<1>9. table' = t2
  BY <1>3
<1> HIDE DEF t2
<1>10. TitlesKept(table, t2)
  BY <1>1, <1>7, <1>8, GroupRetitles
<1> QED BY <1>1, <1>4, <1>8, <1>9, <1>10 DEF TableInvariant

\* Separating a group, and hiding or showing a column.
LEMMA SameColumnsStep ==
    ASSUME TableInvariant, UngroupHeaders \/ SetColumnHidden
    PROVE  TableInvariant' /\ TitlesKept(table, table')
<1>1. Arranged(table) /\ inserted \in Nat /\ \A d \in table.cells : d >= -inserted
  BY DEF TableInvariant
<1>2. table \in Table /\ table.grouped \subseteq Int /\ table.hidden \subseteq Int /\ ToSet(table.columns) \subseteq Int
  <2>1. table \in Table
    BY <1>1, ArrangedParts
  <2>2. table.columns \in Seq(Int)
    BY <2>1, TableParts
  <2> QED BY <2>1, <2>2, TableParts, MembersOf
<1>3. inserted' = inserted
  BY DEF UngroupHeaders, SetColumnHidden
<1>4. \E t2 : /\ table' = t2 /\ t2 \in Table /\ t2.columns = table.columns /\ t2.zones = table.zones
              /\ t2.cells = table.cells /\ t2.grouped \subseteq table.grouped
  <2>1. CASE UngroupHeaders
    <3>1. PICK g \in table.grouped : table' = [table EXCEPT !.grouped = @ \ {g}]
      BY <2>1 DEF UngroupHeaders
    <3>2. table.grouped \ {g} \in SUBSET Int
      BY <1>2
    <3> QED BY <1>2, <3>1, <3>2 DEF Table
  <2>2. CASE SetColumnHidden
    <3>1. PICK c \in ToSet(table.columns) :
             table' = [table EXCEPT !.hidden = IF c \in @ THEN @ \ {c} ELSE @ \cup {c}]
      BY <2>2 DEF SetColumnHidden
    <3> DEFINE hidden == IF c \in table.hidden THEN table.hidden \ {c} ELSE table.hidden \cup {c}
    <3>2. hidden \in SUBSET Int
      BY <1>2
    <3>3. table' = [table EXCEPT !.hidden = hidden]
      BY <3>1
    <3> HIDE DEF hidden
    <3>4. /\ [table EXCEPT !.hidden = hidden] \in Table
          /\ [table EXCEPT !.hidden = hidden].columns = table.columns
          /\ [table EXCEPT !.hidden = hidden].zones = table.zones
          /\ [table EXCEPT !.hidden = hidden].cells = table.cells
          /\ [table EXCEPT !.hidden = hidden].grouped = table.grouped
      BY <1>2, <3>2 DEF Table
    <3> QED BY <3>3, <3>4
  <2> QED BY <2>1, <2>2
<1>5. PICK t2 : /\ table' = t2 /\ t2 \in Table /\ t2.columns = table.columns /\ t2.zones = table.zones
                /\ t2.cells = table.cells /\ t2.grouped \subseteq table.grouped
  BY <1>4
<1>6. Arranged(t2) /\ \A d : findZoneForColumn(t2, d) = findZoneForColumn(table, d)
  BY <1>1, <1>5, SameColumnsArranged
<1>7. TitlesKept(table, t2)
  BY <1>5, <1>6, FewerTitles
<1> QED BY <1>1, <1>3, <1>5, <1>6, <1>7 DEF TableInvariant

-----------------------------------------------------------------------------
(* What the editor keeps *)

\* Whatever the editor does keeps its table arranged.
LEMMA TableStep == TableInvariant /\ [TableNext]_tableVars => TableInvariant'
<1>1. SUFFICES ASSUME TableInvariant, [TableNext]_tableVars PROVE TableInvariant'
  OBVIOUS
<1>2. CASE MoveColumn
  BY <1>1, <1>2, MoveStep
<1>3. CASE InsertColumn
  BY <1>1, <1>3, InsertStep
<1>4. CASE DeleteColumn
  BY <1>1, <1>4, DeleteStep
<1>5. CASE GroupHeaders
  BY <1>1, <1>5, GroupStep
<1>6. CASE UngroupHeaders \/ SetColumnHidden
  BY <1>1, <1>6, SameColumnsStep
<1>7. CASE UNCHANGED tableVars
  BY <1>1, <1>7 DEF tableVars, TableInvariant
<1> QED BY <1>1, <1>2, <1>3, <1>4, <1>5, <1>6, <1>7 DEF TableNext

\* The columns of the table and those of its zones stay together: each zone has
\* some of them, the zones come in the order of the table, no column and no
\* zone is there twice, every column has its cells, and every title its zone
\* (withColumnOrder and the operations of table.ts that end in it).
THEOREM TableArranged == TableSpec => []TableInvariant
<1>1. TableInit => TableInvariant
  BY TablesStartArranged
<1>2. TableInvariant /\ [TableNext]_tableVars => TableInvariant'
  BY TableStep
<1> QED BY <1>1, <1>2, PTL DEF TableSpec

\* Every row has a cell for every column and no other, and a group of headers
\* titles a zone the table has, after any edit.
THEOREM TableTyped == TableSpec => []TableTypeOK
<1>1. TableInvariant => TableTypeOK
  <2>1. SUFFICES ASSUME TableInvariant PROVE TableTypeOK
    OBVIOUS
  <2>2. Arranged(table)
    BY <2>1 DEF TableInvariant
  <2>3. table.cells = ToSet(table.columns) /\ table.grouped \subseteq zoneIds(table) /\ table.columns # << >>
    BY <2>2, ArrangedParts
  <2>4. Cardinality(ToSet(table.columns)) = Len(table.columns) /\ Cardinality(zoneIds(table)) = Len(table.zones)
    BY <2>2, ArrangedCounts
  <2> QED BY <2>3, <2>4 DEF TableTypeOK
<1> QED BY <1>1, TableArranged, PTL

\* The order the zones give the columns is the one stored in the table, so what
\* is edited, printed and computed agree on it (getDisplayColumns).
THEOREM ColumnsHaveOneOrder == TableSpec => []OneOrder
<1>1. TableInvariant => OneOrder
  BY ShownInOrder DEF TableInvariant, OneOrder
<1> QED BY <1>1, TableArranged, PTL

\* No edit changes the title over a column it was not asked to: a move gives
\* the column moved the title where it lands, a grouping titles its range and
\* untitles at most the end of a group it cuts, and separating a group takes
\* its title alone.
THEOREM TitlesAreKept == TableSpec => TitlesStay
<1>1. TableInvariant /\ [TableNext]_tableVars => [table' # table => TitlesKept(table, table')]_tableVars
  <2>1. SUFFICES ASSUME TableInvariant, [TableNext]_tableVars, table' # table PROVE TitlesKept(table, table')
    OBVIOUS
  <2>2. CASE MoveColumn
    BY <2>1, <2>2, MoveStep
  <2>3. CASE InsertColumn
    BY <2>1, <2>3, InsertStep
  <2>4. CASE DeleteColumn
    BY <2>1, <2>4, DeleteStep
  <2>5. CASE GroupHeaders
    BY <2>1, <2>5, GroupStep
  <2>6. CASE UngroupHeaders \/ SetColumnHidden
    BY <2>1, <2>6, SameColumnsStep
  <2>7. CASE UNCHANGED tableVars
    BY <2>1, <2>7 DEF tableVars
  <2> QED BY <2>1, <2>2, <2>3, <2>4, <2>5, <2>6, <2>7 DEF TableNext
<1>2. TableSpec => [][table' # table => TitlesKept(table, table')]_tableVars
  BY <1>1, TableArranged, PTL DEF TableSpec
<1>3. TitlesStay <=> [][table' # table => TitlesKept(table, table')]_tableVars
  BY DEF TitlesStay, TitlesKept
<1> QED BY <1>2, <1>3

-----------------------------------------------------------------------------
(* The header over the columns *)

\* A cell of either row of the header.
HeaderCell == [title : Int, column : Int, colSpan : Nat]

\* How many columns a cell with a title is over; one without is laid with the next
\* row.
SpanOf(cell) == IF cell.title = NoZone THEN 0 ELSE cell.colSpan

\* The columns a cell of the top row is over, the bottom row's from the one
\* after the first ones up to the last.
Under(cell, bottom, first, last) ==
    IF cell.title = NoZone THEN <<cell.column>> ELSE SubSeq(bottom, first + 1, last)

\* The cells of the bottom row before each one of the top row, and the columns
\* under those of the top row so far.
Laid(top, bottom, before, under) ==
    /\ before \in [0..Len(top) -> 0..Len(bottom)] /\ before[0] = 0 /\ before[Len(top)] = Len(bottom)
    /\ under \in [0..Len(top) -> Seq(Int)] /\ under[0] = << >>
    /\ \A i \in 1..Len(top) : before[i] = before[i - 1] + SpanOf(top[i])
    /\ \A i \in 1..Len(top) : under[i] = under[i - 1] \o Under(top[i], bottom, before[i - 1], before[i])

\* The two rows use up each other, over some columns.
Heads(top, bottom, columns) == \E before, under : Laid(top, bottom, before, under) /\ under[Len(top)] = columns

\* The columns under two rows.
HeadedBy(top, bottom) ==
    LET before[i \in 0..Len(top)] ==
            IF i = 0 THEN 0 ELSE before[i - 1] + (IF top[i].title = NoZone THEN 0 ELSE top[i].colSpan)
    IN  FlattenSeq([i \in DOMAIN top |->
            IF top[i].title = NoZone THEN <<top[i].column>> ELSE SubSeq(bottom, before[i - 1] + 1, before[i])])

\* Two functions start with one value and go on in one way.
Alike(f, g, N) == f[0] = g[0] /\ \A n \in 1..N : f[n - 1] = g[n - 1] => f[n] = g[n]

\* Such functions are equal.
LEMMA SameRecursion ==
    ASSUME NEW N \in Nat, NEW f, NEW g, Alike(f, g, N)
    PROVE  \A n \in 0..N : f[n] = g[n]
<1> DEFINE Same == {n \in Nat : n <= N => f[n] = g[n]}
<1>1. 0 \in Same
  BY DEF Alike
<1>2. ASSUME NEW n \in Nat, n \in Same PROVE n + 1 \in Same
  <2>1. SUFFICES ASSUME n + 1 <= N PROVE f[n + 1] = g[n + 1]
    OBVIOUS
  <2>2. n + 1 \in 1..N /\ (n + 1) - 1 = n /\ f[n] = g[n]
    BY <1>2, <2>1
  <2>3. f[(n + 1) - 1] = g[(n + 1) - 1] => f[n + 1] = g[n + 1]
    BY <2>2 DEF Alike
  <2> QED BY <2>2, <2>3
<1>3. Nat \subseteq Same
  <2> HIDE DEF Same
  <2> QED BY <1>1, <1>2, NatSetInduction
<1> QED BY <1>3

\* What the two rows head is what is laid under them.
LEMMA HeadsAreHeaded ==
    ASSUME NEW top \in Seq(HeaderCell), NEW bottom \in Seq(Int), NEW columns, Heads(top, bottom, columns)
    PROVE  HeadedBy(top, bottom) = columns
<1> DEFINE N == Len(top)
           Body(g) == [i \in 0..N |-> IF i = 0 THEN 0 ELSE g[i - 1] + (IF top[i].title = NoZone THEN 0 ELSE top[i].colSpan)]
           counted == CHOOSE g : g = Body(g)
           pieces == [i \in DOMAIN top |->
               IF top[i].title = NoZone THEN <<top[i].column>> ELSE SubSeq(bottom, counted[i - 1] + 1, counted[i])]
<1>1. PICK before, under : Laid(top, bottom, before, under) /\ under[N] = columns
  BY DEF Heads
<1>2. /\ before \in [0..N -> 0..Len(bottom)] /\ before[0] = 0 /\ before[N] = Len(bottom)
      /\ under \in [0..N -> Seq(Int)] /\ under[0] = << >>
      /\ \A i \in 1..N : before[i] = before[i - 1] + (IF top[i].title = NoZone THEN 0 ELSE top[i].colSpan)
      /\ \A i \in 1..N : under[i] = under[i - 1] \o Under(top[i], bottom, before[i - 1], before[i])
  BY <1>1 DEF Laid, SpanOf
<1>3. N \in Nat /\ DOMAIN top = 1..N /\ \A i \in 1..N : top[i] \in HeaderCell
  BY LenProperties, ElementOfSeq
<1>4. HeadedBy(top, bottom) = FlattenSeq(pieces)
  BY DEF HeadedBy
<1> HIDE DEF N
<1>5. before = Body(before)
  <2>1. ASSUME NEW i \in 0..N PROVE before[i] = Body(before)[i]
    <3>1. CASE i = 0
      BY <1>2, <3>1
    <3>2. CASE i # 0
      <4>1. i \in 1..N
        BY <1>3, <3>2
      <4> QED BY <1>2, <3>2, <4>1
    <3> QED BY <3>1, <3>2
  <2>2. before = [i \in 0..N |-> before[i]] /\ Body(before) = [i \in 0..N |-> Body(before)[i]]
    BY <1>2
  <2> HIDE DEF Body
  <2> QED BY <2>1, <2>2
<1>6. counted = Body(counted)
  BY <1>5
<1>7. \A i \in 0..N : counted[i] = before[i]
  <2> HIDE DEF counted
  <2>1. \A i \in 0..N : counted[i] = IF i = 0 THEN 0 ELSE counted[i - 1] + (IF top[i].title = NoZone THEN 0 ELSE top[i].colSpan)
    BY <1>6
  <2>2. counted[0] = before[0]
    BY <1>2, <1>3, <2>1
  <2>3. ASSUME NEW i \in 1..N, counted[i - 1] = before[i - 1] PROVE counted[i] = before[i]
    <3>1. i \in 0..N /\ i # 0
      BY <1>3
    <3> QED BY <1>2, <2>1, <2>3, <3>1
  <2>4. Alike(counted, before, N)
    BY <2>2, <2>3 DEF Alike
  <2> QED BY <1>3, <2>4, SameRecursion
<1> HIDE DEF counted
<1>8. \A i \in 1..N : pieces[i] = Under(top[i], bottom, before[i - 1], before[i])
  <2>1. \A i \in 1..N : i \in 0..N /\ i - 1 \in 0..N
    BY <1>3
  <2> QED BY <1>3, <1>7, <2>1 DEF Under
<1>9. DOMAIN pieces = 1..N /\ pieces = [i \in 1..N |-> pieces[i]]
  BY <1>3
<1> HIDE DEF pieces
<1>10. ASSUME NEW i \in 1..N PROVE pieces[i] \in Seq(Int)
  <2>1. top[i].column \in Int
    BY <1>3 DEF HeaderCell
  <2>2. i \in 0..N /\ i - 1 \in 0..N
    BY <1>3
  <2>3. before[i - 1] \in 0..Len(bottom) /\ before[i] \in 0..Len(bottom) /\ Len(bottom) \in Nat
    BY <1>2, <2>2, LenProperties
  <2>4. SubSeq(bottom, before[i - 1] + 1, before[i]) \in Seq(Int)
    <3>1. \A p \in (before[i - 1] + 1)..before[i] : bottom[p] \in Int
      BY <2>3, ElementOfSeq
    <3> QED BY <2>3, <3>1, SubSeqProperties
  <2>5. <<top[i].column>> \in Seq(Int)
    BY <2>1
  <2> QED BY <1>8, <2>4, <2>5 DEF Under
<1>11. pieces \in Seq(Seq(Int)) /\ Len(pieces) = N
  <2> DEFINE S == Seq(Int)
  <2>1. pieces \in [1..N -> S]
    BY <1>9, <1>10
  <2> HIDE DEF S
  <2>2. pieces \in Seq(S)
    BY <1>3, <2>1, SeqDef
  <2>3. Len(pieces) = N
    BY <1>3, <1>9, <2>2, LenProperties
  <2> QED BY <2>2, <2>3 DEF S
<1>12. PICK f \in [0..N -> Seq(Int)] : JoinedUpTo(f, pieces) /\ FlattenSeq(pieces) = f[N]
  BY <1>11, FlattenIsJoined
<1>13. f[0] = << >> /\ \A i \in 1..N : f[i] = f[i - 1] \o pieces[i]
  BY <1>11, <1>12 DEF JoinedUpTo
<1>14. \A i \in 0..N : f[i] = under[i]
  <2>1. f[0] = under[0]
    BY <1>2, <1>13
  <2>2. \A i \in 1..N : f[i - 1] = under[i - 1] => f[i] = under[i]
    BY <1>2, <1>8, <1>13
  <2>3. Alike(f, under, N)
    BY <2>1, <2>2 DEF Alike
  <2> QED BY <1>3, <2>3, SameRecursion
<1>15. f[N] = under[N]
  BY <1>3, <1>14
<1> QED BY <1>1, <1>4, <1>12, <1>15

\* A cell is over the same columns when the bottom row goes on after them,
LEMMA UnderFirst ==
    ASSUME NEW cell, NEW r \in Seq(Int), NEW s \in Seq(Int), NEW a \in 0..Len(r), NEW b \in 0..Len(r)
    PROVE  Under(cell, r \o s, a, b) = Under(cell, r, a, b)
<1>1. Len(r) \in Nat
  BY LenProperties
<1>2. CASE b < a + 1
  <2>1. SubSeq(r \o s, a + 1, b) = << >> /\ SubSeq(r, a + 1, b) = << >>
    BY <1>1, <1>2, SubSeqEmpty
  <2> QED BY <2>1 DEF Under
<1>3. CASE ~(b < a + 1)
  <2>1. a + 1 \in 1..Len(r) /\ b \in 1..Len(r)
    BY <1>1, <1>3
  <2>2. SubSeq(r \o s, a + 1, b) = SubSeq(r, a + 1, b)
    BY <2>1, SubSeqOfConcat1
  <2> QED BY <2>2 DEF Under
<1> QED BY <1>2, <1>3

\* and when it has others before them.
LEMMA UnderSecond ==
    ASSUME NEW cell, NEW r \in Seq(Int), NEW s \in Seq(Int), NEW a \in 0..Len(s), NEW b \in 0..Len(s)
    PROVE  Under(cell, r \o s, Len(r) + a, Len(r) + b) = Under(cell, s, a, b)
<1>1. Len(r) \in Nat /\ Len(s) \in Nat
  BY LenProperties
<1> DEFINE m == Len(r) + a + 1
           n == Len(r) + b
<1>2. CASE b < a + 1
  <2>1. SubSeq(r \o s, m, n) = << >> /\ SubSeq(s, a + 1, b) = << >>
    BY <1>1, <1>2, SubSeqEmpty
  <2> QED BY <2>1 DEF Under
<1>3. CASE ~(b < a + 1)
  <2>1. m \in Len(r) + 1..Len(r) + Len(s) /\ n \in Len(r) + 1..Len(r) + Len(s)
    BY <1>1, <1>3
  <2>2. m - Len(r) = a + 1 /\ n - Len(r) = b
    BY <1>1
  <2> HIDE DEF m, n
  <2>3. SubSeq(r \o s, m, n) = SubSeq(s, m - Len(r), n - Len(r))
    BY <2>1, SubSeqOfConcat2
  <2>4. SubSeq(r \o s, m, n) = SubSeq(s, a + 1, b)
    BY <2>2, <2>3
  <2> QED BY <2>4 DEF Under, m, n
<1> QED BY <1>2, <1>3

\* Joining three sequences, whichever two come first.
LEMMA JoinedAgain ==
    ASSUME NEW r \in Seq(Int), NEW s \in Seq(Int), NEW q \in Seq(Int)
    PROVE  (r \o s) \o q = r \o (s \o q)
BY ConcatAssociative

\* Two rows, and two after them.
LEMMA HeadsBoth ==
    ASSUME NEW top \in Seq(HeaderCell), NEW bottom \in Seq(Int), NEW columns, Heads(top, bottom, columns),
           NEW top2 \in Seq(HeaderCell), NEW bottom2 \in Seq(Int), NEW columns2, Heads(top2, bottom2, columns2)
    PROVE  Heads(top \o top2, bottom \o bottom2, columns \o columns2)
<1> DEFINE L == Len(top)
           M == Len(top2)
           H == Len(bottom)
           K == Len(bottom2)
           T == top \o top2
           B == bottom \o bottom2
<1>1. PICK before1, under1 : Laid(top, bottom, before1, under1) /\ under1[L] = columns
  BY DEF Heads
<1>2. PICK before2, under2 : Laid(top2, bottom2, before2, under2) /\ under2[M] = columns2
  BY DEF Heads
<1>3. L \in Nat /\ M \in Nat /\ H \in Nat /\ K \in Nat
  BY LenProperties
<1>4. Len(T) = L + M /\ Len(B) = H + K
  BY ConcatProperties
<1>5. \A i \in 1..(L + M) : T[i] = IF i <= L THEN top[i] ELSE top2[i - L]
  BY ConcatProperties
<1>6. /\ before1 \in [0..L -> 0..H] /\ before1[0] = 0 /\ before1[L] = H
      /\ under1 \in [0..L -> Seq(Int)] /\ under1[0] = << >>
      /\ \A i \in 1..L : before1[i] = before1[i - 1] + SpanOf(top[i])
      /\ \A i \in 1..L : under1[i] = under1[i - 1] \o Under(top[i], bottom, before1[i - 1], before1[i])
  BY <1>1 DEF Laid
<1>7. /\ before2 \in [0..M -> 0..K] /\ before2[0] = 0 /\ before2[M] = K
      /\ under2 \in [0..M -> Seq(Int)] /\ under2[0] = << >>
      /\ \A i \in 1..M : before2[i] = before2[i - 1] + SpanOf(top2[i])
      /\ \A i \in 1..M : under2[i] = under2[i - 1] \o Under(top2[i], bottom2, before2[i - 1], before2[i])
  BY <1>2 DEF Laid
<1>8. columns \in Seq(Int) /\ columns2 \in Seq(Int)
  <2>1. L \in 0..L /\ M \in 0..M
    BY <1>3
  <2> HIDE DEF L, M
  <2>2. under1[L] \in Seq(Int) /\ under2[M] \in Seq(Int)
    BY <1>6, <1>7, <2>1
  <2> QED BY <1>1, <1>2, <2>2
<1> DEFINE before == [i \in 0..(L + M) |-> IF i <= L THEN before1[i] ELSE H + before2[i - L]]
           under == [i \in 0..(L + M) |-> IF i <= L THEN under1[i] ELSE columns \o under2[i - L]]
<1>9. \A i \in 0..L : before[i] = before1[i] /\ under[i] = under1[i]
  <2> HIDE DEF L, M
  <2> QED BY <1>3
<1>10. ASSUME NEW i \in 0..M PROVE before[L + i] = H + before2[i] /\ under[L + i] = columns \o under2[i]
  <2> HIDE DEF L, M, H
  <2>1. L + i \in 0..(L + M) /\ (L + i) - L = i
    BY <1>3
  <2>2. CASE i = 0
    <3>1. columns \o << >> = columns
      BY <1>8, ConcatEmptySeq
    <3>2. L + i = L /\ L \in 0..L
      BY <1>3, <2>2
    <3>3. before[L + i] = before1[L] /\ under[L + i] = under1[L]
      BY <1>9, <3>2
    <3>4. before1[L] = H /\ before2[0] = 0 /\ under1[L] = columns /\ under2[0] = << >>
      BY <1>1, <1>6, <1>7
    <3>5. H + 0 = H
      BY <1>3
    <3> HIDE DEF before, under
    <3> QED BY <2>2, <3>1, <3>3, <3>4, <3>5
  <2>3. CASE i # 0
    <3>1. ~(L + i <= L)
      BY <1>3, <2>3
    <3> QED BY <2>1, <3>1
  <2> QED BY <2>2, <2>3
<1>11. \A i \in 0..(L + M) : i \in 0..L \/ \E j \in 1..M : i = L + j
  <2> HIDE DEF L, M
  <2>1. SUFFICES ASSUME NEW i \in 0..(L + M), i \notin 0..L PROVE \E j \in 1..M : i = L + j
    OBVIOUS
  <2>2. i - L \in 1..M /\ i = L + (i - L)
    BY <1>3, <2>1
  <2> QED BY <2>2
<1>12. DOMAIN before = 0..(L + M) /\ DOMAIN under = 0..(L + M)
       /\ before = [i \in 0..(L + M) |-> before[i]] /\ under = [i \in 0..(L + M) |-> under[i]]
  OBVIOUS
<1> HIDE DEF before, under, L, M, H, K, T, B
<1>13. ASSUME NEW i \in 0..(L + M) PROVE before[i] \in 0..(H + K) /\ under[i] \in Seq(Int)
  <2>1. CASE i \in 0..L
    <3>1. before1[i] \in 0..H /\ under1[i] \in Seq(Int)
      BY <1>6, <2>1
    <3>2. before[i] = before1[i] /\ under[i] = under1[i]
      BY <1>9, <2>1
    <3> QED BY <1>3, <3>1, <3>2
  <2>2. ASSUME NEW j \in 1..M, i = L + j PROVE before[i] \in 0..(H + K) /\ under[i] \in Seq(Int)
    <3>1. j \in 0..M
      BY <1>3
    <3>2. before2[j] \in 0..K /\ under2[j] \in Seq(Int)
      BY <1>7, <3>1
    <3>3. columns \o under2[j] \in Seq(Int)
      BY <1>8, <3>2, ConcatProperties
    <3>4. before[i] = H + before2[j] /\ under[i] = columns \o under2[j]
      BY <1>10, <2>2, <3>1
    <3>5. H + before2[j] \in 0..(H + K)
      BY <1>3, <3>2
    <3> QED BY <3>3, <3>4, <3>5
  <2> QED BY <1>11, <2>1, <2>2
<1>14. /\ before \in [0..(L + M) -> 0..(H + K)] /\ under \in [0..(L + M) -> Seq(Int)]
       /\ before[0] = 0 /\ before[L + M] = H + K /\ under[0] = << >> /\ under[L + M] = columns \o columns2
  <2>1. 0 \in 0..L /\ M \in 0..M
    BY <1>3
  <2>2. before \in [0..(L + M) -> 0..(H + K)] /\ under \in [0..(L + M) -> Seq(Int)]
    BY <1>12, <1>13
  <2> QED BY <1>2, <1>6, <1>7, <1>9, <1>10, <2>1, <2>2
<1>15. ASSUME NEW i \in 1..(L + M)
       PROVE  /\ before[i] = before[i - 1] + SpanOf(T[i])
              /\ under[i] = under[i - 1] \o Under(T[i], B, before[i - 1], before[i])
  <2>1. CASE i \in 1..L
    <3>1. i \in 0..L /\ i - 1 \in 0..L /\ i <= L
      BY <1>3, <2>1
    <3>2. T[i] = top[i]
      BY <1>5, <3>1
    <3>3. before1[i - 1] \in 0..H /\ before1[i] \in 0..H
      BY <1>6, <3>1
    <3>4. Under(top[i], B, before1[i - 1], before1[i]) = Under(top[i], bottom, before1[i - 1], before1[i])
      BY <3>3, UnderFirst DEF B, H
    <3>5. /\ before1[i] = before1[i - 1] + SpanOf(top[i])
          /\ under1[i] = under1[i - 1] \o Under(top[i], bottom, before1[i - 1], before1[i])
      BY <1>6, <2>1
    <3>6. before[i] = before1[i] /\ under[i] = under1[i] /\ before[i - 1] = before1[i - 1] /\ under[i - 1] = under1[i - 1]
      BY <1>9, <3>1
    <3> QED BY <3>2, <3>4, <3>5, <3>6
  <2>2. ASSUME NEW j \in 1..M, i = L + j
        PROVE  /\ before[i] = before[i - 1] + SpanOf(T[i])
               /\ under[i] = under[i - 1] \o Under(T[i], B, before[i - 1], before[i])
    <3>1. j \in 0..M /\ j - 1 \in 0..M /\ i - 1 = L + (j - 1) /\ ~(i <= L) /\ i - L = j
      BY <1>3, <2>2
    <3>2. T[i] = top2[j]
      BY <1>5, <3>1
    <3>3. before2[j - 1] \in 0..K /\ before2[j] \in 0..K
      BY <1>7, <3>1
    <3>4. Under(top2[j], B, H + before2[j - 1], H + before2[j]) = Under(top2[j], bottom2, before2[j - 1], before2[j])
      BY <3>3, UnderSecond DEF B, H, K
    <3>5. /\ before2[j] = before2[j - 1] + SpanOf(top2[j])
          /\ under2[j] = under2[j - 1] \o Under(top2[j], bottom2, before2[j - 1], before2[j])
      BY <1>7, <2>2
    <3>6. /\ before[i] = H + before2[j] /\ under[i] = columns \o under2[j]
          /\ before[i - 1] = H + before2[j - 1] /\ under[i - 1] = columns \o under2[j - 1]
      BY <1>10, <2>2, <3>1
    <3>7. before[i] = before[i - 1] + SpanOf(T[i])
      <4> DEFINE span == SpanOf(top2[j])
                 one == before2[j - 1]
                 two == before2[j]
      <4>1. two = one + span /\ one \in 0..K /\ two \in 0..K
        BY <3>3, <3>5
      <4>2. span \in Int
        <5>1. top2[j] \in HeaderCell
          BY <2>2, ElementOfSeq DEF M
        <5> QED BY <5>1 DEF SpanOf, HeaderCell
      <4>3. before[i] = H + two /\ before[i - 1] = H + one
        BY <3>6
      <4> HIDE DEF span, one, two
      <4>4. before[i] = before[i - 1] + span
        BY <1>3, <4>1, <4>2, <4>3
      <4> QED BY <3>2, <4>4 DEF span
    <3>8. under[i] = under[i - 1] \o Under(T[i], B, before[i - 1], before[i])
      <4> DEFINE piece == Under(top2[j], bottom2, before2[j - 1], before2[j])
      <4>1. piece \in Seq(Int)
        <5>1. top2[j].column \in Int
          <6>1. top2[j] \in HeaderCell
            BY <2>2, ElementOfSeq DEF M
          <6> QED BY <6>1 DEF HeaderCell
        <5>2. SubSeq(bottom2, before2[j - 1] + 1, before2[j]) \in Seq(Int)
          <6>1. \A p \in (before2[j - 1] + 1)..before2[j] : bottom2[p] \in Int
            BY <1>3, <3>3, ElementOfSeq DEF K
          <6> QED BY <1>3, <3>3, <6>1, SubSeqProperties
        <5>3. <<top2[j].column>> \in Seq(Int)
          BY <5>1
        <5> QED BY <5>2, <5>3 DEF Under
      <4> HIDE DEF piece
      <4>2. (columns \o under2[j - 1]) \o piece = columns \o (under2[j - 1] \o piece)
        <5>1. under2[j - 1] \in Seq(Int)
          BY <1>7, <3>1
        <5> DEFINE past == under2[j - 1]
        <5>2. columns \in Seq(Int) /\ past \in Seq(Int) /\ piece \in Seq(Int)
          BY <1>8, <4>1, <5>1
        <5> HIDE DEF past
        <5>3. (columns \o past) \o piece = columns \o (past \o piece)
          BY <5>2, JoinedAgain, Zenon
        <5> QED BY <5>3 DEF past
      <4>3. under2[j] = under2[j - 1] \o piece
        BY <3>5 DEF piece
      <4>4. Under(T[i], B, before[i - 1], before[i]) = piece
        BY <3>2, <3>4, <3>6 DEF piece
      <4> QED BY <3>6, <4>2, <4>3, <4>4
    <3> QED BY <3>7, <3>8
  <2>3. i \in 1..L \/ \E j \in 1..M : i = L + j
    <3>1. i \in 0..(L + M)
      BY <1>3
    <3> QED BY <1>3, <1>11, <3>1
  <2> QED BY <2>1, <2>2, <2>3
<1>16. Laid(T, B, before, under)
  BY <1>4, <1>14, <1>15 DEF Laid
<1>17. under[Len(T)] = columns \o columns2
  BY <1>4, <1>14
<1> QED BY <1>16, <1>17 DEF Heads, T, B

\* No cells are over no columns.
LEMMA HeadsNone == Heads(<< >>, << >>, << >>)
<1> DEFINE before == [i \in 0..0 |-> 0]
           under == [i \in 0..0 |-> << >>]
<1>1. Len(<< >>) = 0 /\ << >> \in Seq(Int)
  OBVIOUS
<1>2. before \in [0..0 -> 0..0] /\ before[0] = 0 /\ under \in [0..0 -> Seq(Int)] /\ under[0] = << >> /\ 1..0 = {}
  BY <1>1
<1> HIDE DEF before, under
<1>3. Laid(<< >>, << >>, before, under)
  BY <1>1, <1>2 DEF Laid
<1> QED BY <1>1, <1>2, <1>3 DEF Heads

\* The cell of a group's title.
TitleCell(id, span) == [title |-> id, column |-> NoZone, colSpan |-> span]

\* A title is over as many columns as it spans.
LEMMA HeadsTitle ==
    ASSUME NEW id \in Int, id # NoZone, NEW own \in Seq(Int)
    PROVE  Heads(<<TitleCell(id, Len(own))>>, own, own) /\ <<TitleCell(id, Len(own))>> \in Seq(HeaderCell)
<1> DEFINE n == Len(own)
           cell == TitleCell(id, n)
           row == <<cell>>
           before == [i \in 0..1 |-> IF i = 0 THEN 0 ELSE n]
           under == [i \in 0..1 |-> IF i = 0 THEN << >> ELSE own]
<1>1. n \in Nat /\ NoZone \in Int
  BY LenProperties DEF NoZone
<1>2. cell \in HeaderCell /\ cell.title = id /\ cell.colSpan = n
  BY <1>1 DEF TitleCell, HeaderCell
<1> HIDE DEF cell, n
<1>3. Len(row) = 1 /\ row[1] = cell /\ row \in Seq(HeaderCell)
  BY <1>2
<1>4. /\ before \in [0..1 -> 0..n] /\ before[0] = 0 /\ before[1] = n
      /\ under \in [0..1 -> Seq(Int)] /\ under[0] = << >> /\ under[1] = own
  BY <1>1
<1> HIDE DEF row, before, under
<1>5. SpanOf(row[1]) = n
  BY <1>2, <1>3 DEF SpanOf
<1>6. Under(row[1], own, 0, n) = own
  <2>1. SubSeq(own, 1, n) = own
    BY SubSeqFull DEF n
  <2>2. 0 + 1 = 1
    OBVIOUS
  <2> QED BY <1>2, <1>3, <2>1, <2>2 DEF Under
<1>7. Laid(row, own, before, under)
  <2>1. \A i \in 1..1 : i = 1 /\ i - 1 = 0
    OBVIOUS
  <2>2. before[1] = before[0] + SpanOf(row[1])
    BY <1>1, <1>4, <1>5
  <2>3. under[1] = under[0] \o Under(row[1], own, before[0], before[1])
    <3>1. << >> \o own = own
      BY ConcatEmptySeq
    <3> QED BY <1>4, <1>6, <3>1
  <2>4. \A i \in 1..1 : before[i] = before[i - 1] + SpanOf(row[i])
    BY <2>1, <2>2
  <2>5. \A i \in 1..1 : under[i] = under[i - 1] \o Under(row[i], own, before[i - 1], before[i])
    BY <2>1, <2>3
  <2> QED BY <1>3, <1>4, <2>4, <2>5 DEF Laid, n
<1>8. Heads(row, own, own)
  BY <1>3, <1>4, <1>7 DEF Heads
<1> QED BY <1>3, <1>8 DEF row, cell, n

\* A cell for each column, with no title.
Singles(own) == [k \in DOMAIN own |-> [title |-> NoZone, column |-> own[k], colSpan |-> 1]]

\* Columns by themselves are over themselves.
LEMMA HeadsSingles ==
    ASSUME NEW own \in Seq(Int)
    PROVE  Heads(Singles(own), << >>, own) /\ Singles(own) \in Seq(HeaderCell)
<1> DEFINE n == Len(own)
           row == Singles(own)
           before == [i \in 0..n |-> 0]
           under == [i \in 0..n |-> SubSeq(own, 1, i)]
<1>1. n \in Nat /\ DOMAIN own = 1..n /\ \A i \in 1..n : own[i] \in Int
  BY LenProperties, ElementOfSeq
<1>2. /\ DOMAIN row = 1..n /\ row = [i \in 1..n |-> row[i]]
      /\ \A i \in 1..n : row[i] = [title |-> NoZone, column |-> own[i], colSpan |-> 1]
  BY <1>1 DEF Singles
<1> HIDE DEF row
<1>3. \A i \in 1..n : row[i] \in HeaderCell /\ row[i].title = NoZone /\ row[i].column = own[i]
  <2>1. SUFFICES ASSUME NEW i \in 1..n
                 PROVE  row[i] \in HeaderCell /\ row[i].title = NoZone /\ row[i].column = own[i]
    OBVIOUS
  <2> DEFINE cell == [title |-> NoZone, column |-> own[i], colSpan |-> 1]
  <2>2. NoZone \in Int /\ own[i] \in Int /\ 1 \in Nat
    BY <1>1 DEF NoZone
  <2>3. cell \in HeaderCell /\ cell.title = NoZone /\ cell.column = own[i]
    BY <2>2 DEF HeaderCell
  <2>4. row[i] = cell
    BY <1>2
  <2> HIDE DEF cell
  <2> QED BY <2>3, <2>4
<1>4. row \in Seq(HeaderCell) /\ Len(row) = n
  <2>1. row \in [1..n -> HeaderCell]
    BY <1>2, <1>3
  <2>2. row \in Seq(HeaderCell)
    BY <1>1, <2>1, SeqDef
  <2> QED BY <1>1, <1>2, <2>2, LenProperties
<1>5. \A i \in 0..n : SubSeq(own, 1, i) \in Seq(Int)
  <2>1. SUFFICES ASSUME NEW i \in 0..n PROVE SubSeq(own, 1, i) \in Seq(Int)
    OBVIOUS
  <2>2. \A p \in 1..i : own[p] \in Int
    BY <1>1
  <2>3. 1 \in Int /\ i \in Int
    OBVIOUS
  <2> QED BY <2>2, <2>3, SubSeqProperties
<1>6. Len(<< >>) = 0
  OBVIOUS
<1>7. SubSeq(own, 1, 0) = << >> /\ SubSeq(own, 1, n) = own
  <2>1. SubSeq(own, 1, 0) = << >>
    BY SubSeqEmpty
  <2>2. SubSeq(own, 1, n) = own
    BY SubSeqFull
  <2> QED BY <2>1, <2>2
<1>8. /\ before \in [0..n -> 0..0] /\ \A i \in 0..n : before[i] = 0
      /\ under \in [0..n -> Seq(Int)] /\ \A i \in 0..n : under[i] = SubSeq(own, 1, i)
  <2>1. before \in [0..n -> 0..0] /\ \A i \in 0..n : before[i] = 0
    BY DEF before
  <2>2. \A i \in 0..n : under[i] = SubSeq(own, 1, i)
    BY DEF under
  <2>3. under \in [0..n -> Seq(Int)]
    <3> DEFINE S == Seq(Int)
               part(i) == SubSeq(own, 1, i)
    <3>1. \A i \in 0..n : part(i) \in S
      BY <1>5
    <3> HIDE DEF S, part, n
    <3>2. [i \in 0..n |-> part(i)] \in [0..n -> S]
      BY <3>1
    <3> QED BY <3>2 DEF S, part
  <2> HIDE DEF before, under, n
  <2> QED BY <2>1, <2>2, <2>3
<1> HIDE DEF before, under, n
<1>9. 0 \in 0..n /\ n \in 0..n /\ \A i \in 1..n : i \in 0..n /\ i - 1 \in 0..n
  BY <1>1
<1>10. ASSUME NEW i \in 1..n PROVE before[i] = before[i - 1] + SpanOf(row[i])
  <2>1. before[i] = 0 /\ before[i - 1] = 0
    BY <1>8, <1>9
  <2>2. SpanOf(row[i]) = 0
    BY <1>3 DEF SpanOf
  <2> QED BY <2>1, <2>2
<1>11. ASSUME NEW i \in 1..n PROVE under[i] = under[i - 1] \o Under(row[i], << >>, before[i - 1], before[i])
  <2>1. Under(row[i], << >>, before[i - 1], before[i]) = <<own[i]>>
    BY <1>3 DEF Under
  <2>2. SubSeq(own, 1, i) = SubSeq(own, 1, i - 1) \o <<own[i]>>
    <3>1. 1 \in 1..Len(own) /\ i \in 1..Len(own)
      BY <1>1 DEF n
    <3> QED BY <3>1, SubSeqRecursiveSecond
  <2> QED BY <1>8, <1>9, <2>1, <2>2
<1>12. Laid(row, << >>, before, under)
  <2>1. before[0] = 0 /\ before[n] = 0 /\ under[0] = << >>
    BY <1>7, <1>8, <1>9
  <2> QED BY <1>4, <1>6, <1>8, <1>10, <1>11, <2>1 DEF Laid
<1>13. under[n] = own
  BY <1>7, <1>8, <1>9
<1> QED BY <1>4, <1>12, <1>13 DEF Heads, row

\* Each zone's part of the top row uses up its part of the bottom row, over its
\* columns.
HeadParts(tops, bottoms, owns) ==
    /\ Len(bottoms) = Len(tops) /\ Len(owns) = Len(tops)
    /\ \A k \in 1..Len(tops) : Heads(tops[k], bottoms[k], owns[k])

\* The parts one after another are over the columns one after another.
LEMMA HeadsJoin ==
    ASSUME NEW tops \in Seq(Seq(HeaderCell)), NEW bottoms \in Seq(Seq(Int)), NEW owns \in Seq(Seq(Int)),
           HeadParts(tops, bottoms, owns)
    PROVE  Heads(FlattenSeq(tops), FlattenSeq(bottoms), FlattenSeq(owns)) /\ FlattenSeq(tops) \in Seq(HeaderCell)
<1> DEFINE N == Len(tops)
<1>1. /\ Len(bottoms) = N /\ Len(owns) = N
      /\ \A k \in 1..N : Heads(tops[k], bottoms[k], owns[k])
  BY DEF HeadParts
<1>2. /\ N \in Nat
      /\ \A k \in 1..N : tops[k] \in Seq(HeaderCell) /\ bottoms[k] \in Seq(Int) /\ owns[k] \in Seq(Int)
  <2>1. N \in Nat
    BY LenProperties
  <2>2. SUFFICES ASSUME NEW k \in 1..N
                 PROVE  tops[k] \in Seq(HeaderCell) /\ bottoms[k] \in Seq(Int) /\ owns[k] \in Seq(Int)
    BY <2>1
  <2> QED BY <1>1, ElementOfSeq
<1>3. PICK f \in [0..N -> Seq(HeaderCell)] : JoinedUpTo(f, tops) /\ FlattenSeq(tops) = f[N]
  BY FlattenIsJoined
<1>4. PICK g \in [0..N -> Seq(Int)] : JoinedUpTo(g, bottoms) /\ FlattenSeq(bottoms) = g[N]
  BY <1>1, FlattenIsJoined
<1>5. PICK h \in [0..N -> Seq(Int)] : JoinedUpTo(h, owns) /\ FlattenSeq(owns) = h[N]
  BY <1>1, FlattenIsJoined
<1>6. /\ f[0] = << >> /\ g[0] = << >> /\ h[0] = << >>
      /\ \A k \in 1..N : f[k] = f[k - 1] \o tops[k] /\ g[k] = g[k - 1] \o bottoms[k] /\ h[k] = h[k - 1] \o owns[k]
  BY <1>1, <1>3, <1>4, <1>5 DEF JoinedUpTo
<1> HIDE DEF N
<1> DEFINE Good == {k \in Nat : k <= N => Heads(f[k], g[k], h[k])}
<1>7. 0 \in Good
  BY <1>6, HeadsNone
<1>8. ASSUME NEW k \in Nat, k \in Good PROVE k + 1 \in Good
  <2>1. SUFFICES ASSUME k + 1 <= N PROVE Heads(f[k + 1], g[k + 1], h[k + 1])
    OBVIOUS
  <2>2. k \in 0..N /\ k + 1 \in 1..N /\ (k + 1) - 1 = k
    BY <1>2, <2>1
  <2>3. Heads(f[k], g[k], h[k])
    BY <1>2, <1>8, <2>1
  <2>4. f[k] \in Seq(HeaderCell) /\ g[k] \in Seq(Int) /\ h[k] \in Seq(Int)
    BY <1>3, <1>4, <1>5, <2>2
  <2>5. /\ tops[k + 1] \in Seq(HeaderCell) /\ bottoms[k + 1] \in Seq(Int) /\ owns[k + 1] \in Seq(Int)
        /\ Heads(tops[k + 1], bottoms[k + 1], owns[k + 1])
    BY <1>1, <1>2, <2>2
  <2>6. Heads(f[k] \o tops[k + 1], g[k] \o bottoms[k + 1], h[k] \o owns[k + 1])
    BY <2>3, <2>4, <2>5, HeadsBoth
  <2>7. f[k + 1] = f[k] \o tops[k + 1] /\ g[k + 1] = g[k] \o bottoms[k + 1] /\ h[k + 1] = h[k] \o owns[k + 1]
    BY <1>6, <2>2
  <2> QED BY <2>6, <2>7
<1>9. Nat \subseteq Good
  <2> HIDE DEF Good
  <2> QED BY <1>7, <1>8, NatSetInduction
<1>10. Heads(f[N], g[N], h[N])
  BY <1>2, <1>9
<1>11. f[N] \in Seq(HeaderCell)
  BY <1>2, <1>3
<1> QED BY <1>3, <1>4, <1>5, <1>10, <1>11

\* What the header of a zone is: its title, or its columns by themselves.
HeadOf(zone, own, grouped) ==
    IF own = << >> THEN << >>
    ELSE IF zone.id \in grouped THEN <<TitleCell(zone.id, Len(own))>> ELSE Singles(own)

\* The columns that are printed of each zone.
OwnColumns(t, printed) == [i \in DOMAIN t.zones |-> ColumnsOfZone(t.zones[i], printed)]

\* The columns under a title.
TitledColumns(t, printed) == {c \in ToSet(printed) : findZoneForColumn(t, c) \in t.grouped}

\* The header's rows, zone by zone.
LEMMA RowsByZone ==
    ASSUME NEW t, NEW printed
    PROVE  /\ t.grouped = {} => topRow(t, printed) = Singles(printed)
           /\ t.grouped # {} => topRow(t, printed)
                 = FlattenSeq([i \in DOMAIN t.zones |-> HeadOf(t.zones[i], OwnColumns(t, printed)[i], t.grouped)])
           /\ bottomRow(t, printed) = Only(FlattenSeq(OwnColumns(t, printed)), TitledColumns(t, printed))
<1>1. t.grouped = {} => topRow(t, printed) = Singles(printed)
  BY DEF topRow, Singles
<1>2. bottomRow(t, printed) = Only(FlattenSeq(OwnColumns(t, printed)), TitledColumns(t, printed))
  BY DEF bottomRow, OwnColumns, TitledColumns
<1>3. ASSUME t.grouped # {}
      PROVE  topRow(t, printed)
             = FlattenSeq([i \in DOMAIN t.zones |-> HeadOf(t.zones[i], OwnColumns(t, printed)[i], t.grouped)])
  <2> DEFINE heads == [i \in DOMAIN t.zones |->
                 LET own == ColumnsOfZone(t.zones[i], printed)
                 IN  IF own = << >> THEN << >>
                     ELSE IF t.zones[i].id \in t.grouped
                          THEN <<[title |-> t.zones[i].id, column |-> NoZone, colSpan |-> Len(own)]>>
                          ELSE [k \in DOMAIN own |-> [title |-> NoZone, column |-> own[k], colSpan |-> 1]]]
             heads2 == [i \in DOMAIN t.zones |-> HeadOf(t.zones[i], OwnColumns(t, printed)[i], t.grouped)]
  <2>1. topRow(t, printed) = FlattenSeq(heads)
    BY <1>3 DEF topRow
  <2>2. ASSUME NEW i \in DOMAIN t.zones PROVE heads[i] = heads2[i]
    BY DEF HeadOf, OwnColumns, TitleCell, Singles
  <2>3. heads = [i \in DOMAIN t.zones |-> heads[i]] /\ heads2 = [i \in DOMAIN t.zones |-> heads2[i]]
    OBVIOUS
  <2> HIDE DEF heads, heads2
  <2>4. heads = heads2
    BY <2>2, <2>3
  <2> QED BY <2>1, <2>4 DEF heads2
<1> QED BY <1>1, <1>2, <1>3

\* What is printed of the zones.
LEMMA OwnInOrder ==
    ASSUME NEW t \in Table, NEW printed
    PROVE  /\ OwnColumns(t, printed) \in Seq(Seq(Int)) /\ Len(OwnColumns(t, printed)) = Len(t.zones)
           /\ \A k \in 1..Len(t.zones) : OwnColumns(t, printed)[k] = Only(t.zones[k].columnIds, ToSet(printed))
           /\ FlattenSeq(OwnColumns(t, printed)) \in Seq(Int)
<1> DEFINE N == Len(t.zones)
           owns == OwnColumns(t, printed)
           S == Seq(Int)
<1>1. DOMAIN t.zones = 1..N /\ N \in Nat
  BY TableParts
<1>2. \A k \in 1..N : t.zones[k].columnIds \in S
  BY ZoneParts
<1>3. /\ \A k \in 1..N : owns[k] = Only(t.zones[k].columnIds, ToSet(printed))
      /\ owns = [k \in 1..N |-> owns[k]] /\ DOMAIN owns = 1..N
  BY <1>1 DEF OwnColumns, ColumnsOfZone
<1> HIDE DEF owns, N
<1>4. \A k \in 1..N : owns[k] \in S
  <2>1. SUFFICES ASSUME NEW k \in 1..N PROVE owns[k] \in Seq(Int)
    OBVIOUS
  <2>2. t.zones[k].columnIds \in Seq(Int)
    BY <1>2
  <2>3. Only(t.zones[k].columnIds, ToSet(printed)) \in Seq(Int)
    BY <2>2, OnlyMembers
  <2> QED BY <1>3, <2>3
<1> HIDE DEF S
<1>5. owns \in Seq(S) /\ Len(owns) = N
  <2>1. owns \in [1..N -> S]
    BY <1>3, <1>4
  <2>2. owns \in Seq(S)
    BY <1>1, <2>1, SeqDef
  <2> QED BY <1>1, <1>3, <2>2, LenProperties
<1>6. FlattenSeq(owns) \in Seq(Int)
  <2>1. PICK f \in [0..Len(owns) -> Seq(Int)] : FlattenSeq(owns) = f[Len(owns)]
    BY <1>5, FlattenIsJoined DEF S
  <2>2. Len(owns) \in 0..Len(owns)
    BY <1>1, <1>5
  <2> QED BY <2>1, <2>2
<1> QED BY <1>3, <1>5, <1>6 DEF owns, N, S

\* The header of a zone is over the columns it prints.
LEMMA HeadOfZone ==
    ASSUME NEW zone \in Zone, NEW own \in Seq(Int), NEW grouped, NoZone \notin grouped, NEW G,
           zone.id \in grouped => ToSet(own) \subseteq G, zone.id \notin grouped => ToSet(own) \cap G = {},
           Distinct(own)
    PROVE  /\ HeadOf(zone, own, grouped) \in Seq(HeaderCell)
           /\ Heads(HeadOf(zone, own, grouped), Only(own, G), own)
<1>1. zone.id \in Int
  BY DEF Zone
<1>2. CASE own = << >>
  <2>1. Only(own, G) = << >>
    <3>1. ToSet(own) \cap G = {}
      BY <1>2, MembersOf
    <3> QED BY <3>1, OnlyNone
  <2>2. HeadOf(zone, own, grouped) = << >>
    BY <1>2 DEF HeadOf
  <2>3. << >> \in Seq(HeaderCell)
    OBVIOUS
  <2> QED BY <1>2, <2>1, <2>2, <2>3, HeadsNone
<1>3. CASE own # << >> /\ zone.id \in grouped
  <2>1. Only(own, G) = own
    BY <1>3, OnlyAll
  <2>2. HeadOf(zone, own, grouped) = <<TitleCell(zone.id, Len(own))>>
    BY <1>3 DEF HeadOf
  <2>3. zone.id # NoZone
    BY <1>3
  <2> QED BY <1>1, <2>1, <2>2, <2>3, HeadsTitle
<1>4. CASE own # << >> /\ zone.id \notin grouped
  <2>1. Only(own, G) = << >>
    BY <1>4, OnlyNone
  <2>2. HeadOf(zone, own, grouped) = Singles(own)
    BY <1>4 DEF HeadOf
  <2> QED BY <2>1, <2>2, HeadsSingles
<1> QED BY <1>2, <1>3, <1>4

\* The header is over the columns it prints, whichever those are.
LEMMA HeaderCovers ==
    ASSUME NEW t, Arranged(t), NEW S
    PROVE  LET printed == Only(t.columns, S)
           IN  HeadedBy(topRow(t, printed), bottomRow(t, printed)) = printed
<1> DEFINE u == t.columns
           N == Len(t.zones)
           printed == Only(u, S)
           P == ToSet(printed)
           G == TitledColumns(t, printed)
           owns == OwnColumns(t, printed)
<1>1. /\ t \in Table /\ Distinct(u) /\ t.grouped \subseteq zoneIds(t) /\ NoZone \notin t.grouped
      /\ \A k, l \in 1..N : t.zones[k].id = t.zones[l].id => k = l
      /\ t.zones # << >> => \E zoneOf : Layout(t, zoneOf)
  BY ArrangedParts
<1>2. u \in Seq(Int) /\ DOMAIN t.zones = 1..N /\ N \in Nat /\ \A k \in 1..N : t.zones[k] \in Zone
  BY <1>1, TableParts
<1>3. printed \in Seq(Int) /\ Distinct(printed) /\ P = ToSet(u) \cap S
  BY <1>1, <1>2, OnlyMembers
<1>4. /\ owns \in Seq(Seq(Int)) /\ Len(owns) = N /\ FlattenSeq(owns) \in Seq(Int)
      /\ \A k \in 1..N : owns[k] = Only(t.zones[k].columnIds, P)
  BY <1>1, OwnInOrder
<1>5. /\ t.grouped = {} => topRow(t, printed) = Singles(printed)
      /\ t.grouped # {} => topRow(t, printed)
            = FlattenSeq([k \in DOMAIN t.zones |-> HeadOf(t.zones[k], owns[k], t.grouped)])
      /\ bottomRow(t, printed) = Only(FlattenSeq(owns), G)
  BY RowsByZone
<1>6. G = {c \in P : findZoneForColumn(t, c) \in t.grouped}
  BY DEF TitledColumns
<1> HIDE DEF owns, G
<1>7. CASE t.grouped = {}
  <2>1. bottomRow(t, printed) = << >>
    <3>1. ToSet(FlattenSeq(owns)) \cap G = {}
      BY <1>6, <1>7
    <3> QED BY <1>4, <1>5, <3>1, OnlyNone
  <2>2. topRow(t, printed) = Singles(printed)
    BY <1>5, <1>7
  <2> HIDE DEF printed
  <2>3. Heads(Singles(printed), << >>, printed) /\ Singles(printed) \in Seq(HeaderCell) /\ << >> \in Seq(Int)
    BY <1>3, HeadsSingles
  <2>4. HeadedBy(Singles(printed), << >>) = printed
    BY <2>3, HeadsAreHeaded
  <2>5. HeadedBy(topRow(t, printed), bottomRow(t, printed)) = printed
    BY <2>1, <2>2, <2>4
  <2> QED BY <2>5 DEF printed
<1>8. CASE t.grouped # {}
  <2>1. PICK zoneOf : Layout(t, zoneOf)
    <3>1. zoneIds(t) # {}
      BY <1>1, <1>8
    <3>2. t.zones # << >>
      BY <3>1 DEF zoneIds
    <3> QED BY <1>1, <3>2
  <2>2. FlattenSeq(owns) = printed
    <3>1. FlattenSeq(owns) = Only(u, P)
      BY <1>1, <1>4, <2>1, ZonesInOrderOf
    <3>2. Only(u, P) = Only(u, S)
      <4>1. ToSet(u) \cap P = ToSet(u) \cap S
        BY <1>3
      <4> HIDE DEF P, u
      <4> QED BY <1>1, <1>2, <4>1, OnlySame
    <3> QED BY <3>1, <3>2
  <2> DEFINE tops == [k \in 1..N |-> HeadOf(t.zones[k], owns[k], t.grouped)]
             bottoms == [k \in 1..N |-> Only(owns[k], G)]
  <2>3. topRow(t, printed) = FlattenSeq(tops)
    BY <1>2, <1>5, <1>8
  <2>4. ASSUME NEW k \in 1..N
        PROVE  /\ owns[k] \in Seq(Int) /\ Distinct(owns[k])
               /\ ToSet(owns[k]) = {c \in ToSet(u) : zoneOf[c] = k} \cap P
    <3>1. /\ t.zones[k].columnIds \in Seq(Int) /\ Distinct(t.zones[k].columnIds)
          /\ ToSet(t.zones[k].columnIds) = {c \in ToSet(u) : zoneOf[c] = k}
      BY <1>1, <2>1, LayoutColumns
    <3>2. owns[k] = Only(t.zones[k].columnIds, P)
      BY <1>4
    <3> DEFINE ids == t.zones[k].columnIds
    <3> HIDE DEF P, ids, u
    <3>3. Only(ids, P) \in Seq(Int) /\ Distinct(Only(ids, P)) /\ ToSet(Only(ids, P)) = ToSet(ids) \cap P
      BY <3>1, OnlyMembers DEF ids
    <3> QED BY <3>1, <3>2, <3>3 DEF ids
  <2>5. ASSUME NEW k \in 1..N, NEW c \in ToSet(owns[k])
        PROVE  c \in P /\ findZoneForColumn(t, c) = t.zones[k].id
    <3>1. c \in ToSet(u) /\ zoneOf[c] = k /\ c \in P
      BY <2>4
    <3> QED BY <1>1, <2>1, <3>1, FoundInItsZone
  <2>6. ASSUME NEW k \in 1..N
        PROVE  tops[k] \in Seq(HeaderCell) /\ Heads(tops[k], bottoms[k], owns[k])
    <3>1. t.zones[k].id \in t.grouped => ToSet(owns[k]) \subseteq G
      BY <1>6, <2>5
    <3>2. t.zones[k].id \notin t.grouped => ToSet(owns[k]) \cap G = {}
      BY <1>6, <2>5
    <3>3. t.zones[k] \in Zone /\ owns[k] \in Seq(Int) /\ Distinct(owns[k])
      BY <1>2, <2>4
    <3>4. /\ HeadOf(t.zones[k], owns[k], t.grouped) \in Seq(HeaderCell)
          /\ Heads(HeadOf(t.zones[k], owns[k], t.grouped), Only(owns[k], G), owns[k])
      BY <1>1, <3>1, <3>2, <3>3, HeadOfZone
    <3> QED BY <3>4
  <2>7. bottoms = [k \in 1..N |-> bottoms[k]] /\ DOMAIN bottoms = 1..N /\ DOMAIN tops = 1..N
        /\ tops = [k \in 1..N |-> tops[k]]
        /\ \A k \in 1..N : bottoms[k] = Only(owns[k], G)
    OBVIOUS
  <2>8. \A k \in 1..N : bottoms[k] \in Seq(Int)
    <3>1. SUFFICES ASSUME NEW k \in 1..N PROVE Only(owns[k], G) \in Seq(Int)
      BY <2>7
    <3>2. owns[k] \in Seq(Int)
      BY <2>4
    <3> QED BY <3>2, OnlyMembers
  <2> HIDE DEF tops, bottoms
  <2>9. tops \in Seq(Seq(HeaderCell)) /\ Len(tops) = N /\ bottoms \in Seq(Seq(Int)) /\ Len(bottoms) = N
    <3> DEFINE A == Seq(HeaderCell)
               B == Seq(Int)
    <3>1. (\A k \in 1..N : tops[k] \in A) /\ \A k \in 1..N : bottoms[k] \in B
      BY <2>6, <2>8
    <3>0. N \in Nat
      BY <1>2
    <3> HIDE DEF A, B, N
    <3>2. tops \in [1..N -> A] /\ bottoms \in [1..N -> B]
      BY <2>7, <3>1
    <3>3. tops \in Seq(A) /\ bottoms \in Seq(B)
      <4>1. tops \in Seq(A)
        BY <3>0, <3>2, SeqDef
      <4>2. bottoms \in Seq(B)
        BY <3>0, <3>2, SeqDef
      <4> QED BY <4>1, <4>2
    <3>4. Len(tops) = N /\ Len(bottoms) = N
      BY <2>7, <3>0, <3>3, LenProperties
    <3> QED BY <3>3, <3>4 DEF A, B
  <2>10. HeadParts(tops, bottoms, owns)
    BY <1>4, <2>6, <2>9 DEF HeadParts
  <2>11. Heads(FlattenSeq(tops), FlattenSeq(bottoms), FlattenSeq(owns)) /\ FlattenSeq(tops) \in Seq(HeaderCell)
    BY <1>4, <2>9, <2>10, HeadsJoin
  <2>12. FlattenSeq(bottoms) = bottomRow(t, printed)
    <3>1. \A k \in 1..N : bottoms[k] = Only(t.zones[k].columnIds, G)
      <4>1. SUFFICES ASSUME NEW k \in 1..N PROVE Only(owns[k], G) = Only(t.zones[k].columnIds, G)
        BY <2>7
      <4> DEFINE ids == t.zones[k].columnIds
      <4>2. ids \in Seq(Int) /\ Distinct(ids) /\ owns[k] = Only(ids, P)
        BY <1>1, <1>4, <2>1, LayoutColumns
      <4>3. P \cap G = G
        BY <1>6
      <4> HIDE DEF ids, P
      <4>4. Only(Only(ids, P), G) = Only(ids, P \cap G)
        BY <4>2, OnlyOnly
      <4> QED BY <4>2, <4>3, <4>4 DEF ids
    <3>2. FlattenSeq(bottoms) = Only(u, G)
      BY <1>1, <2>1, <2>9, <3>1, ZonesInOrderOf
    <3>3. Only(printed, G) = Only(u, G)
      <4>1. S \cap G = G
        BY <1>3, <1>6
      <4>2. Only(Only(u, S), G) = Only(u, S \cap G)
        <5> HIDE DEF u
        <5> QED BY <1>1, <1>2, OnlyOnly
      <4> QED BY <4>1, <4>2
    <3> QED BY <1>5, <2>2, <3>2, <3>3
  <2>13. Heads(topRow(t, printed), bottomRow(t, printed), printed) /\ topRow(t, printed) \in Seq(HeaderCell)
    BY <2>2, <2>3, <2>11, <2>12
  <2>14. bottomRow(t, printed) \in Seq(Int)
    <3>1. Only(FlattenSeq(owns), G) \in Seq(Int)
      BY <1>4, OnlyMembers
    <3> QED BY <1>5, <3>1
  <2> DEFINE top == topRow(t, printed)
             bottom == bottomRow(t, printed)
  <2>15. top \in Seq(HeaderCell) /\ bottom \in Seq(Int) /\ Heads(top, bottom, printed)
    BY <2>13, <2>14
  <2> HIDE DEF top, bottom, printed
  <2>16. HeadedBy(top, bottom) = printed
    BY <2>15, HeadsAreHeaded
  <2> QED BY <2>16 DEF top, bottom, printed
<1> QED BY <1>7, <1>8

\* Every header is over its own column, in the editor and in the dictamen,
\* whatever the groups and the hidden columns (HeaderRow of table-editor.tsx
\* and the rows of the printed table).
THEOREM HeadersOverColumns == TableSpec => []HeaderIsOverItsColumn
<1>1. TableInvariant => HeaderIsOverItsColumn
  <2>1. SUFFICES ASSUME TableInvariant PROVE HeaderIsOverItsColumn
    OBVIOUS
  <2> DEFINE u == table.columns
             shown == ToSet(u) \ table.hidden
  <2>2. Arranged(table)
    BY <2>1 DEF TableInvariant
  <2>3. getDisplayColumns(table) = u
    BY <2>2, ShownInOrder
  <2>4. printableColumns(table) = Only(u, shown)
    BY <2>3 DEF printableColumns
  <2>5. u = Only(u, ToSet(u))
    <3>1. u \in Seq(Int) /\ Distinct(u)
      BY <2>2, ArrangedParts, TableParts
    <3> HIDE DEF u
    <3> QED BY <3>1, OnlyAll
  <2>6. ASSUME NEW printed PROVE HeadedColumns(printed) = HeadedBy(topRow(table, printed), bottomRow(table, printed))
    BY DEF HeadedColumns, HeadedBy
  <2> HIDE DEF shown
  <2>7. HeadedColumns(Only(u, shown)) = Only(u, shown)
    BY <2>2, <2>6, HeaderCovers
  <2>8. HeadedColumns(Only(u, ToSet(u))) = Only(u, ToSet(u))
    BY <2>2, <2>6, HeaderCovers
  <2> QED BY <2>3, <2>4, <2>5, <2>7, <2>8 DEF HeaderIsOverItsColumn
<1> QED BY <1>1, TableArranged, PTL
=============================================================================
