------------------------ MODULE CalculationChain_proofs ------------------------
(***************************************************************************)
(* Proofs about the calculations of a version, for any number of           *)
(* transactions, comparables and captures: the shape of the rows, that     *)
(* each is written by one transaction at a time, which transactions may    *)
(* wait for each other, and that what is stored follows from what is       *)
(* captured.                                                               *)
(*                                                                         *)
(* Every chain but that of the precision climbs: it takes its tables, each *)
(* with the run beneath it, by rising Level, and what its transaction has  *)
(* already taken is no higher than what it has left.  Two of them that     *)
(* waited for each other would wait at one table, where each of them takes *)
(* the run before the row unless it is one of those LockOrder names.       *)
(*                                                                         *)
(* A transaction that meets nobody always has, after the place where it    *)
(* is in its chain, whatever is out of step in what it sees; at the end    *)
(* of the chain nothing is.                                                *)
(***************************************************************************)
EXTENDS CalculationChain, SequenceTheorems, FiniteSetTheorems, WellFoundedInduction, TLAPS

-----------------------------------------------------------------------------
(* The invariant *)

Rows == Tables \cup Comparables

\* The order in which every save but that of the precision takes the tables.
Level(r) ==
    CASE r = "TERRENO_VENTA" -> 1 [] r = "INMUEBLE_VENTA" -> 2
      [] r = "INMUEBLE_RENTA" -> 3 [] r = "TERRENO_RENTA" -> 4
      [] r = "construcciones" -> 5 [] r = "secciones" -> 6
      [] r = "maquinaria" -> 7 [] r = "estadistico" -> 8 [] r = "precision" -> 9
      [] r = "costos" -> 10 [] r = "ingresos" -> 11 [] r = "resumen" -> 12

Ascends(ch) == \A i, j \in 1..Len(ch) : i <= j => Level(ch[i]) <= Level(ch[j])

\* What was taken comes before what is left.
Before(m, ch) == \A r \in Tables : m[r] # Unwritten => \A i \in 1..Len(ch) : Level(r) <= Level(ch[i])

\* What a request has noted when it goes on.
NotedOK(next, n) ==
    /\ next \in {"new", "done"} => n = NoValue
    /\ next = "sections" => n \in [before : Exclusions, after : Exclusions]
    /\ next = "insert" => n \in [market : Markets, reference : Nat \ {0}]
    /\ next = "renumber" => n \in [market : Markets]

Phases == {"new", "done", "recompute", "store", "clear", "sections", "insert", "renumber"}

\* What a request has written, has left to recompute and has noted, by what it
\* does next.
OwnOK(m, next, ch, n) ==
    /\ m = [r \in Rows |-> m[r]]
    /\ \A r \in Rows : m[r] # Unwritten => RowTypeOK(r, m[r])
    /\ ch \in Seq(Recomputed)
    /\ NotedOK(next, n)
    /\ next \in {"new", "done", "sections", "insert"} => \A r \in Rows : m[r] = Unwritten
    /\ next = "renumber" => \A r \in Tables : m[r] = Unwritten
    /\ next \notin {"recompute", "store", "clear"} => ch = << >>
    /\ next = "store" => ch # << >>
    /\ m["precision"] = Unwritten => Ascends(ch) /\ Before(m, ch)

OneHolder == \A s, t \in Requests : \A r \in Rows : Holds(s, r) /\ Holds(t, r) => s = t

Histories == alone \subseteq Requests /\ overlapped \in BOOLEAN /\ repaired \in BOOLEAN

ChainInvariant ==
    /\ RowsTypeOK(rows)
    /\ phase \in [Requests -> Phases]
    /\ DOMAIN mine = Requests /\ DOMAIN chain = Requests /\ DOMAIN noted = Requests
    /\ \A t \in Requests : OwnOK(mine[t], phase[t], chain[t], noted[t])
    /\ OneHolder
    /\ Histories

-----------------------------------------------------------------------------
(* The chains *)

\* A chain that ascends between two levels.
Climbs(ch, low, high) ==
    /\ ch \in Seq(Recomputed)
    /\ Ascends(ch)
    /\ \A i \in 1..Len(ch) : low <= Level(ch[i]) /\ Level(ch[i]) <= high

\* Every table has a level.
LEMMA Levels == \A r \in Tables : Level(r) \in 1..12
BY DEF Level, Tables, Approaches, Markets, COMPARABLE_TYPES

\* Tables of one level are one table.
LEMMA LevelsDiffer ==
    ASSUME NEW q \in Tables, NEW r \in Tables, Level(q) = Level(r)
    PROVE  q = r
<1>1. \A x \in Tables :
         \/ x = "TERRENO_VENTA" \/ x = "INMUEBLE_VENTA" \/ x = "INMUEBLE_RENTA" \/ x = "TERRENO_RENTA"
         \/ x = "construcciones" \/ x = "secciones" \/ x = "maquinaria" \/ x = "estadistico"
         \/ x = "precision" \/ x = "costos" \/ x = "ingresos" \/ x = "resumen"
  BY DEF Tables, Approaches, Markets, COMPARABLE_TYPES
<1> QED BY <1>1 DEF Level

\* No chain recomputes the precision, the exclusions or the construction sections.
LEMMA RecomputedAreTables == Recomputed \subseteq Tables \ {"precision", "secciones", "construcciones"}
BY DEF Recomputed, Tables, Approaches, Markets, COMPARABLE_TYPES

\* The markets are recomputed, and come first.
LEMMA MarketLevels == \A m \in Markets : m \in Recomputed /\ Level(m) \in 1..4
BY DEF Recomputed, Markets, COMPARABLE_TYPES, Level

\* One chain after another.
LEMMA ClimbsOn ==
    ASSUME NEW a, NEW b, NEW low \in Nat, NEW mid \in Nat, NEW high \in Nat, low <= mid, mid <= high,
           Climbs(a, low, mid), Climbs(b, mid, high)
    PROVE  Climbs(a \o b, low, high)
<1>1. a \in Seq(Recomputed) /\ b \in Seq(Recomputed)
  BY DEF Climbs
<1> DEFINE ab == a \o b
<1>2. ab \in Seq(Recomputed) /\ Len(ab) = Len(a) + Len(b) /\ Len(a) \in Nat /\ Len(b) \in Nat
  BY <1>1
<1>3. \A i \in 1..Len(ab) : \/ i \in 1..Len(a) /\ ab[i] = a[i]
                            \/ i - Len(a) \in 1..Len(b) /\ ab[i] = b[i - Len(a)]
  BY <1>1
<1>4. \A i \in 1..Len(ab) : Level(ab[i]) \in 1..12
  BY <1>2, Levels, RecomputedAreTables
<1> HIDE DEF ab
<1>5. \A i \in 1..Len(a) : low <= Level(a[i]) /\ Level(a[i]) <= mid /\ Level(a[i]) \in 1..12
  BY <1>1, Levels, RecomputedAreTables DEF Climbs
<1>6. \A i \in 1..Len(b) : mid <= Level(b[i]) /\ Level(b[i]) <= high /\ Level(b[i]) \in 1..12
  BY <1>1, Levels, RecomputedAreTables DEF Climbs
<1>7. ASSUME NEW i \in 1..Len(ab) PROVE low <= Level(ab[i]) /\ Level(ab[i]) <= high
  <2>1. CASE i \in 1..Len(a) /\ ab[i] = a[i]
    BY <2>1, <1>5
  <2>2. CASE i - Len(a) \in 1..Len(b) /\ ab[i] = b[i - Len(a)]
    <3> DEFINE k == i - Len(a)
    <3>1. k \in 1..Len(b) /\ ab[i] = b[k]
      BY <2>2
    <3> HIDE DEF k
    <3>2. mid <= Level(b[k]) /\ Level(b[k]) <= high /\ Level(b[k]) \in 1..12
      BY <3>1, <1>6
    <3> DEFINE l == Level(b[k])
    <3> HIDE DEF l
    <3>3. low <= l /\ l <= high
      BY <3>2 DEF l
    <3> QED BY <3>1, <3>3 DEF l
  <2> QED BY <2>1, <2>2, <1>3
<1>8. ASSUME NEW i \in 1..Len(ab), NEW j \in 1..Len(ab), i <= j
      PROVE  Level(ab[i]) <= Level(ab[j])
  <2>1. CASE j \in 1..Len(a) /\ ab[j] = a[j]
    BY <2>1, <1>2, <1>3, <1>8 DEF Climbs, Ascends
  <2>2. CASE i \in 1..Len(a) /\ ab[i] = a[i] /\ j - Len(a) \in 1..Len(b) /\ ab[j] = b[j - Len(a)]
    <3> DEFINE k == j - Len(a)
    <3>1. i \in 1..Len(a) /\ ab[i] = a[i] /\ k \in 1..Len(b) /\ ab[j] = b[k]
      BY <2>2
    <3> HIDE DEF k
    <3>2. Level(a[i]) <= mid /\ mid <= Level(b[k]) /\ Level(a[i]) \in 1..12 /\ Level(b[k]) \in 1..12
      BY <3>1, <1>5, <1>6
    <3>3. Level(a[i]) <= Level(b[k])
      BY <3>2
    <3> QED BY <3>1, <3>3
  <2>3. CASE i - Len(a) \in 1..Len(b) /\ ab[i] = b[i - Len(a)] /\ j - Len(a) \in 1..Len(b) /\ ab[j] = b[j - Len(a)]
    BY <2>3, <1>2, <1>8 DEF Climbs, Ascends
  <2> QED BY <2>1, <2>2, <2>3, <1>3
<1> QED BY <1>2, <1>7, <1>8 DEF ab, Climbs, Ascends

\* A chain with nothing left climbs.
LEMMA EmptyClimbs == \A low, high : Climbs(<< >>, low, high)
BY DEF Climbs, Ascends

\* So does a chain of one table,
LEMMA OneClimbs == \A r \in Recomputed : Climbs(<<r>>, Level(r), Level(r))
<1>1. \A r \in Recomputed : Level(r) \in 1..12
  BY Levels, RecomputedAreTables
<1> QED BY <1>1 DEF Climbs, Ascends

\* The last tables, in the order the code takes them.
LEMMA LastLevels == Level("costos") = 10 /\ Level("ingresos") = 11 /\ Level("resumen") = 12
BY DEF Level

\* recomputeCosts climbs,
LEMMA CostsClimb == Climbs(recomputeCosts, 10, 12)
BY LastLevels DEF Climbs, Ascends, recomputeCosts, Recomputed

\* and recomputeIncome,
LEMMA IncomeClimbs == Climbs(recomputeIncome, 11, 12)
BY LastLevels DEF Climbs, Ascends, recomputeIncome, Recomputed

\* and the conclusion by itself.
LEMMA ResumenClimbs == Climbs(<<"resumen">>, 12, 12)
BY LastLevels DEF Climbs, Ascends, Recomputed

\* What climbs from one level climbs from any lower one.
LEMMA ClimbsFrom ==
    ASSUME NEW ch, NEW low \in Nat, NEW lower \in Nat, NEW high \in Nat, lower <= low, Climbs(ch, low, high)
    PROVE  Climbs(ch, lower, high)
<1>1. \A i \in 1..Len(ch) : Level(ch[i]) \in 1..12
  BY Levels, RecomputedAreTables DEF Climbs
<1> QED BY <1>1 DEF Climbs

\* The chain of what a market feeds climbs,
LEMMA DependentsClimb ==
    ASSUME NEW m \in Markets
    PROVE  Climbs(recomputeDependents(m), 10, 12)
<1> DEFINE costs == IF m = "TERRENO_VENTA" THEN recomputeCosts ELSE << >>
           income == IF m = "INMUEBLE_RENTA" THEN recomputeIncome ELSE << >>
           conclusion == IF isRentComparableType(m) THEN << >> ELSE <<"resumen">>
<1>1. Climbs(costs, 10, 12) /\ Climbs(income, 11, 12) /\ Climbs(conclusion, 12, 12)
  BY CostsClimb, IncomeClimbs, ResumenClimbs, EmptyClimbs
<1>2. CASE m = "TERRENO_VENTA"
  <2>1. Climbs(income, 12, 12)
    BY <1>2, EmptyClimbs
  <2> HIDE DEF costs, income, conclusion
  <2>2. Climbs(costs \o income, 10, 12)
    BY <1>1, <2>1, ClimbsOn
  <2>3. Climbs((costs \o income) \o conclusion, 10, 12)
    BY <1>1, <2>2, ClimbsOn
  <2> QED BY <2>3 DEF recomputeDependents, costs, income, conclusion
<1>3. CASE m # "TERRENO_VENTA"
  <2>1. Climbs(costs, 10, 11)
    BY <1>3, EmptyClimbs
  <2> HIDE DEF costs, income, conclusion
  <2>2. Climbs(costs \o income, 10, 12)
    BY <1>1, <2>1, ClimbsOn
  <2>3. Climbs((costs \o income) \o conclusion, 10, 12)
    BY <1>1, <2>2, ClimbsOn
  <2> QED BY <2>3 DEF recomputeDependents, costs, income, conclusion
<1> QED BY <1>2, <1>3

\* and the chain of the market with them.
LEMMA RecomputeClimbs ==
    ASSUME NEW m \in Markets
    PROVE  Climbs(recompute(m), Level(m), 12)
<1>1. Level(m) \in 1..4 /\ m \in Recomputed
  BY MarketLevels
<1>2. Climbs(<<m>>, Level(m), Level(m))
  BY <1>1, OneClimbs
<1>3. Climbs(recomputeDependents(m), Level(m), 12)
  BY <1>1, DependentsClimb, ClimbsFrom
<1> QED BY <1>1, <1>2, <1>3, ClimbsOn DEF recompute

\* The chain of the precision goes over the approaches again and again.
LEMMA MarketsAreChained == \A v : recomputeMarkets(v) \in Seq(Recomputed)
<1> SUFFICES ASSUME NEW v PROVE recomputeMarkets(v) \in Seq(Recomputed)
  OBVIOUS
<1> DEFINE Of(i) == IF v[COMPARABLE_TYPES[i]].capture = NoValue THEN << >> ELSE recompute(COMPARABLE_TYPES[i])
<1>1. \A i \in 1..4 : Of(i) \in Seq(Recomputed)
  <2>1. \A i \in 1..4 : COMPARABLE_TYPES[i] \in Markets
    BY DEF Markets
  <2>2. \A i \in 1..4 : recompute(COMPARABLE_TYPES[i]) \in Seq(Recomputed)
    BY <2>1, RecomputeClimbs DEF Climbs
  <2> QED BY <2>2
<1>2. recomputeCosts \in Seq(Recomputed) /\ recomputeIncome \in Seq(Recomputed)
  BY CostsClimb, IncomeClimbs DEF Climbs
<1>3. Of(1) \o Of(2) \o Of(3) \o Of(4) \o recomputeCosts \o recomputeIncome \in Seq(Recomputed)
  <2>1. Of(1) \in Seq(Recomputed) /\ Of(2) \in Seq(Recomputed) /\ Of(3) \in Seq(Recomputed) /\ Of(4) \in Seq(Recomputed)
    BY <1>1
  <2> HIDE DEF Of
  <2> QED BY <2>1, <1>2
<1> QED BY <1>3 DEF recomputeMarkets

-----------------------------------------------------------------------------
(* The rows *)

\* A table is not a comparable.
LEMMA TablesAreNoComparables == \A r \in Tables : r \in Rows /\ r \notin Comparables
BY ComparablesAssumption DEF Rows

\* What a table's row may hold.
CapturesOf(r) ==
    CASE r = "secciones" -> Exclusions [] r = "resumen" -> Lines [] OTHER -> Captures \cup {NoValue}

\* The shape of the row of a table,
LEMMA TableRowTypes ==
    ASSUME NEW r \in Tables, NEW row
    PROVE  RowTypeOK(r, row) <=> /\ DOMAIN row = {"capture", "value"}
                                 /\ row.capture \in CapturesOf(r)
                                 /\ r \in {"construcciones", "secciones", "precision"} => row.value = NoValue
BY TablesAreNoComparables DEF RowTypeOK, CapturesOf

\* and of a comparable.
LEMMA ComparableRowTypes ==
    ASSUME NEW q \in Comparables, NEW row
    PROVE  RowTypeOK(q, row) <=> row \in ComparableRow /\ (row.capture # NoValue => row.value > 0)
BY DEF RowTypeOK

\* A capture keeps the shape of a table's row,
LEMMA TableWrittenTypes ==
    ASSUME NEW r \in Tables, NEW row, RowTypeOK(r, row), NEW c \in CapturesOf(r)
    PROVE  RowTypeOK(r, [row EXCEPT !.capture = c])
<1> DEFINE new == [row EXCEPT !.capture = c]
<1>1. DOMAIN row = {"capture", "value"} /\ (r \in {"construcciones", "secciones", "precision"} => row.value = NoValue)
  BY TableRowTypes
<1>2. DOMAIN new = {"capture", "value"} /\ new.capture = c /\ new.value = row.value
  BY <1>1
<1> HIDE DEF new
<1>3. RowTypeOK(r, new)
  BY <1>1, <1>2, TableRowTypes
<1> QED BY <1>3 DEF new

\* and of a comparable's;
LEMMA ComparableWrittenTypes ==
    ASSUME NEW q \in Comparables, NEW row, RowTypeOK(q, row), row.capture # NoValue, NEW c \in Captures
    PROVE  RowTypeOK(q, [row EXCEPT !.capture = c])
<1> DEFINE new == [row EXCEPT !.capture = c]
<1>1. row \in ComparableRow /\ row.value > 0
  BY ComparableRowTypes
<1>2. new \in ComparableRow /\ new.value = row.value
  BY <1>1 DEF ComparableRow
<1> HIDE DEF new
<1>3. RowTypeOK(q, new)
  BY <1>1, <1>2, ComparableRowTypes
<1> QED BY <1>3 DEF new

\* a comparable that leaves keeps it;
LEMMA ComparableLeavesTypes ==
    ASSUME NEW q \in Comparables, NEW row, RowTypeOK(q, row)
    PROVE  RowTypeOK(q, [row EXCEPT !.capture = NoValue])
<1> DEFINE new == [row EXCEPT !.capture = NoValue]
<1>1. row \in ComparableRow
  BY ComparableRowTypes
<1>2. new \in ComparableRow /\ new.capture = NoValue
  BY <1>1 DEF ComparableRow
<1> HIDE DEF new
<1>3. RowTypeOK(q, new)
  BY <1>2, ComparableRowTypes
<1> QED BY <1>3 DEF new

\* and what a recomputation stores keeps it.
LEMMA StoredTypes ==
    ASSUME NEW r \in Recomputed, NEW row, RowTypeOK(r, row), NEW x
    PROVE  RowTypeOK(r, [row EXCEPT !.value = x, !.capture = IF r \in Markets /\ @ = NoValue THEN Default ELSE @])
<1> DEFINE new == [row EXCEPT !.value = x, !.capture = IF r \in Markets /\ @ = NoValue THEN Default ELSE @]
<1>1. r \in Tables /\ r \notin {"construcciones", "secciones", "precision"}
  BY RecomputedAreTables
<1>2. DOMAIN row = {"capture", "value"} /\ row.capture \in CapturesOf(r)
  BY <1>1, TableRowTypes
<1>3. DOMAIN new = {"capture", "value"}
      /\ new.capture = IF r \in Markets /\ row.capture = NoValue THEN Default ELSE row.capture
  BY <1>2
<1>4. r \in Markets => CapturesOf(r) = Captures \cup {NoValue}
  BY DEF Markets, COMPARABLE_TYPES, CapturesOf
<1> HIDE DEF new
<1>5. new.capture \in CapturesOf(r)
  BY <1>2, <1>3, <1>4, CapturesAssumption
<1>6. RowTypeOK(r, new)
  BY <1>1, <1>3, <1>5, TableRowTypes
<1> QED BY <1>6 DEF new

\* What a transaction sees has the shape of what is committed.
LEMMA ViewTypes ==
    ASSUME ChainInvariant, NEW t \in Requests
    PROVE  RowsTypeOK(View(t)) /\ \A r \in Rows : RowTypeOK(r, View(t)[r])
<1>1. \A r \in Rows : View(t)[r] = IF mine[t][r] = Unwritten THEN rows[r] ELSE mine[t][r]
  BY DEF View, Rows
<1>2. \A r \in Rows : mine[t][r] # Unwritten => RowTypeOK(r, mine[t][r])
  BY DEF ChainInvariant, OwnOK
<1>3. \A r \in Rows : RowTypeOK(r, rows[r])
  BY DEF ChainInvariant, RowsTypeOK, Rows
<1>4. \A r \in Rows : RowTypeOK(r, View(t)[r])
  BY <1>1, <1>2, <1>3
<1> QED BY <1>4 DEF View, Rows, RowsTypeOK

\* A row that has a shape is one that was written.
LEMMA RowIsWritten ==
    ASSUME NEW r \in Rows, NEW row, RowTypeOK(r, row)
    PROVE  row # Unwritten
<1>1. CASE r \in Comparables
  <2>1. row \in ComparableRow
    BY <1>1, ComparableRowTypes
  <2>2. DOMAIN row = {"capture", "market", "value"}
    BY <2>1 DEF ComparableRow
  <2> QED BY <2>2 DEF Unwritten
<1>2. CASE r \in Tables
  <2>1. DOMAIN row = {"capture", "value"}
    BY <1>2, TableRowTypes
  <2> QED BY <2>1 DEF Unwritten
<1> QED BY <1>1, <1>2 DEF Rows

\* The last reference of a market is a number.
LEMMA LargestNumber ==
    ASSUME NEW S, S \subseteq Nat, IsFiniteSet(S), S # {}
    PROVE  \E n \in S : \A k \in S : k <= n
<1> DEFINE Above(n) == {k \in S : k > n}
           Aboves == {Above(n) : n \in S}
           Smaller == StrictSubsetOrdering(S)
<1>1. IsWellFoundedOn(Smaller, FiniteSubsetsOf(S))
  BY FS_StrictSubsetOrderingWellFounded
<1>2. Aboves \subseteq FiniteSubsetsOf(S)
  <2>1. \A n \in S : Above(n) \in SUBSET S /\ IsFiniteSet(Above(n))
    BY FS_Subset
  <2> QED BY <2>1 DEF FiniteSubsetsOf
<1>3. PICK least \in Aboves : \A other \in Aboves : ~(<<other, least>> \in Smaller)
  <2>1. Aboves # {}
    OBVIOUS
  <2> HIDE DEF Smaller, Aboves
  <2> QED BY <1>1, <1>2, <2>1, WFMin
<1>4. PICK n \in S : least = Above(n)
  OBVIOUS
<1>5. ASSUME NEW k \in S, k > n PROVE FALSE
  <2>1. Above(k) \subseteq Above(n) /\ k \in Above(n) /\ k \notin Above(k)
    <3>1. \A x \in S : x \in Nat
      OBVIOUS
    <3>2. \A x \in S : x > k => x > n
      BY <1>5, <3>1
    <3>3. ~(k > k)
      BY <1>5, <3>1
    <3> QED BY <1>5, <3>2, <3>3
  <2>2. Above(k) \in SUBSET S /\ Above(n) \in SUBSET S /\ Above(k) # Above(n)
    BY <2>1
  <2>3. <<Above(k), Above(n)>> \in Smaller
    <3> HIDE DEF Above
    <3> QED BY <2>1, <2>2 DEF StrictSubsetOrdering
  <2> QED BY <2>3, <1>3, <1>4
<1> QED BY <1>5

\* A new comparable is numbered.
LEMMA NextReferenceIsNumber ==
    ASSUME NEW v, RowsTypeOK(v), NEW m \in Markets
    PROVE  NextReference(v, m) \in Nat \ {0}
<1>1. ComparablesOf(v, m) \subseteq Comparables
  BY DEF ComparablesOf
<1>2. IsFiniteSet(ComparablesOf(v, m))
  BY <1>1, ComparablesAssumption, FS_Subset
<1>3. IsFiniteSet(ReferencesOf(v, m))
  <2> DEFINE reference == [q \in ComparablesOf(v, m) |-> v[q].value]
  <2>1. reference \in Surjection(ComparablesOf(v, m), ReferencesOf(v, m))
    BY DEF Surjection, ReferencesOf
  <2> QED BY <1>2, <2>1, FS_Surjection
<1>4. \A q \in Comparables : v[q].value \in Nat
  BY ComparableRowTypes DEF RowsTypeOK, ComparableRow
<1>5. ReferencesOf(v, m) \subseteq Nat
  BY <1>1, <1>4 DEF ReferencesOf
<1>6. LastReference(v, m) \in Nat
  BY <1>3, <1>5, LargestNumber DEF LastReference
<1> QED BY <1>6 DEF NextReference

-----------------------------------------------------------------------------
(* One request *)

Nothing == [r \in Rows |-> Unwritten]

\* Between its transactions a request holds no row.
LEMMA HoldsNothing == ASSUME NEW next, NEW ch, NEW n, NEW m, OwnOK(m, next, ch, n),
                             next \in {"new", "done", "sections", "insert"}
                      PROVE  m = Nothing
BY DEF OwnOK, Nothing

\* The precision has a row.
LEMMA PrecisionIsTable == "precision" \in Tables /\ "precision" \in Rows
BY DEF Tables, Rows

\* At rest, or before it has written.
LEMMA RestOK ==
    ASSUME NEW next \in {"new", "done", "sections", "insert"}, NEW n, NotedOK(next, n)
    PROVE  OwnOK(Nothing, next, << >>, n)
<1>1. \A r \in Rows : Nothing[r] = Unwritten
  BY DEF Nothing
<1>2. \A r \in Tables : Nothing[r] = Unwritten
  BY <1>1, TablesAreNoComparables
<1>3. Nothing = [r \in Rows |-> Nothing[r]]
  BY DEF Nothing
<1> QED BY <1>1, <1>2, <1>3 DEF OwnOK, Ascends, Before

\* It wrote its first row and goes on with a chain.
LEMMA FirstOK ==
    ASSUME NEW r \in Rows, NEW row, RowTypeOK(r, row), NEW ch \in Seq(Recomputed), NEW n,
           NEW next \in {"recompute", "clear"},
           r # "precision" => Ascends(ch),
           r \in Tables \ {"precision"} => \A i \in 1..Len(ch) : Level(r) <= Level(ch[i]),
           r = "precision" => row # Unwritten
    PROVE  OwnOK([Nothing EXCEPT ![r] = row], next, ch, n)
<1> DEFINE m == [Nothing EXCEPT ![r] = row]
<1>1. m = [q \in Rows |-> IF q = r THEN row ELSE Unwritten]
  BY DEF Nothing
<1> HIDE DEF m
<1>2. \A q \in Rows : m[q] # Unwritten => q = r /\ m[q] = row
  BY <1>1
<1>3. m = [q \in Rows |-> m[q]]
  BY <1>1
<1>4. m["precision"] = Unwritten => r # "precision"
  BY <1>1, PrecisionIsTable
<1>5. r # "precision" => Ascends(ch) /\ Before(m, ch)
  BY <1>2, TablesAreNoComparables DEF Before
<1>6. OwnOK(m, next, ch, n)
  BY <1>2, <1>3, <1>4, <1>5 DEF OwnOK, NotedOK
<1> QED BY <1>6 DEF m

\* It wrote a comparable and goes on to number the others.
LEMMA DeletedOK ==
    ASSUME NEW q \in Comparables, NEW row, RowTypeOK(q, row), NEW n \in [market : Markets]
    PROVE  OwnOK([Nothing EXCEPT ![q] = row], "renumber", << >>, n)
<1> DEFINE m == [Nothing EXCEPT ![q] = row]
<1>1. m = [r \in Rows |-> IF r = q THEN row ELSE Unwritten]
  BY DEF Nothing
<1> HIDE DEF m
<1>2. \A r \in Rows : m[r] # Unwritten => r = q /\ m[r] = row
  BY <1>1
<1>3. m = [r \in Rows |-> m[r]]
  BY <1>1
<1>4. \A r \in Tables : m[r] = Unwritten
  BY <1>2, TablesAreNoComparables
<1>5. OwnOK(m, "renumber", << >>, n)
  BY <1>2, <1>3, <1>4 DEF OwnOK, NotedOK, Ascends, Before
<1> QED BY <1>5 DEF m

\* The rest of an ascending chain ascends.
LEMMA RestAscends ==
    ASSUME NEW ch \in Seq(Recomputed), ch # << >>
    PROVE  /\ Head(ch) \in Recomputed /\ Tail(ch) \in Seq(Recomputed)
           /\ \A i \in 1..Len(Tail(ch)) : \E j \in 2..Len(ch) : Tail(ch)[i] = ch[j]
           /\ Ascends(ch) => /\ Ascends(Tail(ch))
                             /\ \A i \in 1..Len(Tail(ch)) : Level(Head(ch)) <= Level(Tail(ch)[i])
           /\ \A m : Before(m, ch) => Before(m, Tail(ch)) /\ \A r \in Tables : m[r] # Unwritten => Level(r) <= Level(Head(ch))
<1>1. Len(ch) \in Nat /\ Len(ch) >= 1 /\ Head(ch) = ch[1] /\ Head(ch) \in Recomputed /\ Tail(ch) \in Seq(Recomputed)
      /\ Len(Tail(ch)) = Len(ch) - 1
  OBVIOUS
<1>2. \A i \in 1..Len(Tail(ch)) : Tail(ch)[i] = ch[i + 1] /\ i + 1 \in 2..Len(ch) /\ i + 1 \in 1..Len(ch)
  BY <1>1
<1> DEFINE rest == Tail(ch)
<1>3. Len(rest) = Len(ch) - 1 /\ \A i \in 1..Len(rest) : rest[i] = ch[i + 1] /\ i + 1 \in 2..Len(ch) /\ i + 1 \in 1..Len(ch)
  BY <1>1, <1>2
<1>4. Head(ch) = ch[1] /\ 1 \in 1..Len(ch)
  BY <1>1
<1> HIDE DEF rest
<1>5. ASSUME Ascends(ch) PROVE Ascends(rest)
  <2> SUFFICES ASSUME NEW i \in 1..Len(rest), NEW j \in 1..Len(rest), i <= j PROVE Level(rest[i]) <= Level(rest[j])
    BY DEF Ascends
  <2>1. i + 1 \in 1..Len(ch) /\ j + 1 \in 1..Len(ch) /\ i + 1 <= j + 1
    BY <1>3
  <2>2. Level(ch[i + 1]) <= Level(ch[j + 1])
    BY <2>1, <1>5 DEF Ascends
  <2> QED BY <2>2, <1>3
<1>6. ASSUME Ascends(ch), NEW i \in 1..Len(rest) PROVE Level(Head(ch)) <= Level(rest[i])
  <2>1. i + 1 \in 1..Len(ch) /\ 1 <= i + 1
    BY <1>3
  <2>2. Level(ch[1]) <= Level(ch[i + 1])
    BY <2>1, <1>4, <1>6 DEF Ascends
  <2> QED BY <2>2, <1>3, <1>4
<1>7. ASSUME NEW m, Before(m, ch) PROVE Before(m, rest) /\ \A r \in Tables : m[r] # Unwritten => Level(r) <= Level(Head(ch))
  <2>1. \A r \in Tables : m[r] # Unwritten => \A i \in 1..Len(rest) : Level(r) <= Level(ch[i + 1])
    BY <1>3, <1>7 DEF Before
  <2>2. Before(m, rest)
    BY <2>1, <1>3 DEF Before
  <2> QED BY <2>2, <1>4, <1>7 DEF Before
<1> QED BY <1>1, <1>3, <1>5, <1>6, <1>7 DEF rest

\* A chain that skips a table goes on in order,
LEMMA SkippedOK ==
    ASSUME NEW m, NEW ch, NEW n, OwnOK(m, "recompute", ch, n), ch # << >>
    PROVE  OwnOK(m, "recompute", Tail(ch), n)
<1>1. ch \in Seq(Recomputed)
  BY DEF OwnOK
<1>2. Tail(ch) \in Seq(Recomputed) /\ (Ascends(ch) => Ascends(Tail(ch))) /\ (Before(m, ch) => Before(m, Tail(ch)))
  BY <1>1, RestAscends
<1> QED BY <1>2 DEF OwnOK, NotedOK

\* so does one that has computed a table,
LEMMA ComputedOK ==
    ASSUME NEW m, NEW ch, NEW n, OwnOK(m, "recompute", ch, n), ch # << >>, NEW x
    PROVE  OwnOK(m, "store", ch, x)
BY DEF OwnOK, NotedOK

\* and one that has stored it.
LEMMA StoredOK ==
    ASSUME NEW m, NEW ch, NEW n, OwnOK(m, "store", ch, n), NEW row, RowTypeOK(Head(ch), row)
    PROVE  OwnOK([m EXCEPT ![Head(ch)] = row], "recompute", Tail(ch), NoValue)
<1>1. ch \in Seq(Recomputed) /\ ch # << >>
  BY DEF OwnOK
<1> DEFINE head == Head(ch)
           rest == Tail(ch)
           new == [m EXCEPT ![head] = row]
<1>2. head \in Recomputed /\ rest \in Seq(Recomputed)
  BY <1>1, RestAscends
<1>3. head \in Tables /\ head \in Rows /\ head # "precision"
  BY <1>2, RecomputedAreTables, TablesAreNoComparables
<1>4. Ascends(ch) => Ascends(rest) /\ \A i \in 1..Len(rest) : Level(head) <= Level(rest[i])
  BY <1>1, RestAscends
<1>5. Before(m, ch) => Before(m, rest)
  BY <1>1, RestAscends
<1>6. RowTypeOK(head, row)
  OBVIOUS
<1> HIDE DEF head, rest
<1>7. m = [q \in Rows |-> m[q]] /\ \A q \in Rows : m[q] # Unwritten => RowTypeOK(q, m[q])
  BY DEF OwnOK
<1>8. DOMAIN new = Rows /\ new = [q \in Rows |-> new[q]] /\ \A q \in Rows : new[q] = IF q = head THEN row ELSE m[q]
  BY <1>7
<1> HIDE DEF new
<1>9. \A q \in Rows : new[q] # Unwritten => RowTypeOK(q, new[q])
  BY <1>6, <1>7, <1>8
<1>10. new["precision"] = m["precision"]
  BY <1>3, <1>8, PrecisionIsTable
<1>11. m["precision"] = Unwritten => Ascends(rest) /\ Before(m, rest) /\ \A i \in 1..Len(rest) : Level(head) <= Level(rest[i])
  BY <1>4, <1>5 DEF OwnOK
<1>12. m["precision"] = Unwritten => Before(new, rest)
  BY <1>8, <1>11, TablesAreNoComparables DEF Before
<1>13. OwnOK(new, "recompute", rest, NoValue)
  BY <1>2, <1>8, <1>9, <1>10, <1>11, <1>12 DEF OwnOK, NotedOK
<1> QED BY <1>13 DEF new, head, rest

\* It went on under the row it wrote,
LEMMA ClearedOK ==
    ASSUME NEW m, NEW ch, NEW n, OwnOK(m, "clear", ch, n)
    PROVE  OwnOK(m, "recompute", ch, n)
BY DEF OwnOK, NotedOK

\* also with the construction types under the costs.
LEMMA TypesUnderCostsOK ==
    ASSUME NEW m, NEW ch, NEW n, OwnOK(m, "clear", ch, n), m["costos"] # Unwritten,
           NEW row, RowTypeOK("construcciones", row)
    PROVE  OwnOK([m EXCEPT !["construcciones"] = row], "recompute", ch, n)
<1> DEFINE new == [m EXCEPT !["construcciones"] = row]
<1>1. {"costos", "construcciones", "precision"} \subseteq Tables /\ "construcciones" \in Rows /\ "precision" \in Rows
  BY TablesAreNoComparables DEF Tables, Approaches
<1>2. m = [q \in Rows |-> m[q]] /\ \A q \in Rows : m[q] # Unwritten => RowTypeOK(q, m[q])
  BY DEF OwnOK
<1>3. DOMAIN new = Rows /\ new = [q \in Rows |-> new[q]]
      /\ \A q \in Rows : new[q] = IF q = "construcciones" THEN row ELSE m[q]
  BY <1>1, <1>2
<1> HIDE DEF new
<1>4. \A q \in Rows : new[q] # Unwritten => RowTypeOK(q, new[q])
  BY <1>2, <1>3
<1>5. new["precision"] = m["precision"]
  BY <1>1, <1>3
<1>6. ASSUME m["precision"] = Unwritten PROVE Ascends(ch) /\ Before(new, ch)
  <2>1. ch \in Seq(Recomputed) /\ Ascends(ch) /\ Before(m, ch)
    BY <1>6 DEF OwnOK
  <2>2. \A i \in 1..Len(ch) : Level(ch[i]) \in 1..12 /\ Level("costos") <= Level(ch[i])
    BY <1>1, <2>1, Levels, RecomputedAreTables DEF Before
  <2>3. \A i \in 1..Len(ch) : Level("construcciones") <= Level(ch[i])
    <3>1. Level("construcciones") = 5 /\ Level("costos") = 10
      BY DEF Level
    <3> QED BY <2>2, <3>1
  <2>4. \A r \in Tables : new[r] # Unwritten => r = "construcciones" \/ m[r] # Unwritten
    BY <1>3, TablesAreNoComparables
  <2> QED BY <2>1, <2>3, <2>4 DEF Before
<1>7. OwnOK(new, "recompute", ch, n)
  BY <1>3, <1>4, <1>5, <1>6 DEF OwnOK, NotedOK
<1> QED BY <1>7 DEF new

\* It numbered the comparables of a market again.
LEMMA RenumberedOK ==
    ASSUME NEW m, NEW ch, NEW n, OwnOK(m, "renumber", ch, n), NEW rest \in SUBSET Comparables, NEW market \in Markets,
           NEW new, new = [r \in Rows |-> new[r]],
           \A q \in rest : RowTypeOK(q, new[q]),
           \A r \in Rows \ rest : new[r] = m[r]
    PROVE  OwnOK(new, "recompute", recompute(market), NoValue)
<1>1. \A r \in Rows : new[r] # Unwritten => RowTypeOK(r, new[r])
  BY DEF OwnOK
<1>2. \A r \in Tables : new[r] = Unwritten
  BY TablesAreNoComparables DEF OwnOK
<1>3. recompute(market) \in Seq(Recomputed) /\ Ascends(recompute(market))
  BY RecomputeClimbs DEF Climbs
<1> QED BY <1>1, <1>2, <1>3 DEF OwnOK, NotedOK, Before

-----------------------------------------------------------------------------
(* The steps *)

\* Only t goes on.
Only(t) ==
    /\ phase' \in [Requests -> Phases]
    /\ DOMAIN mine' = Requests /\ DOMAIN chain' = Requests /\ DOMAIN noted' = Requests
    /\ \A s \in Requests \ {t} :
          mine'[s] = mine[s] /\ phase'[s] = phase[s] /\ chain'[s] = chain[s] /\ noted'[s] = noted[s]

\* It takes no row that somebody else holds.
TakesFree(t) == \A r \in Rows : mine'[t][r] # Unwritten => mine[t][r] # Unwritten \/ Free(t, r)

\* A step of one transaction on rows nobody else holds keeps the invariant.
LEMMA OneGoesOn ==
    ASSUME ChainInvariant, NEW t \in Requests, Only(t), RowsTypeOK(rows)', Histories', TakesFree(t),
           OwnOK(mine'[t], phase'[t], chain'[t], noted'[t])
    PROVE  ChainInvariant'
<1>1. \A s \in Requests : OwnOK(mine'[s], phase'[s], chain'[s], noted'[s])
  BY DEF ChainInvariant, Only
<1>2. \A s \in Requests : (OwnOK(mine[s], phase[s], chain[s], noted[s]))' <=> OwnOK(mine'[s], phase'[s], chain'[s], noted'[s])
  BY DEF OwnOK, NotedOK, Ascends, Before
<1>3. ASSUME NEW q \in Requests, NEW s \in Requests, NEW r \in Rows, mine'[q][r] # Unwritten, mine'[s][r] # Unwritten
      PROVE  q = s
  <2>1. CASE q # t /\ s # t
    BY <2>1, <1>3 DEF Only, ChainInvariant, OneHolder, Holds
  <2>2. CASE q = t /\ s # t
    <3>1. mine[s][r] # Unwritten /\ (mine[t][r] # Unwritten \/ Free(t, r))
      BY <2>2, <1>3 DEF Only, TakesFree
    <3> QED BY <3>1, <2>2 DEF ChainInvariant, OneHolder, Holds, Free
  <2>3. CASE s = t /\ q # t
    <3>1. mine[q][r] # Unwritten /\ (mine[t][r] # Unwritten \/ Free(t, r))
      BY <2>3, <1>3 DEF Only, TakesFree
    <3> QED BY <3>1, <2>3 DEF ChainInvariant, OneHolder, Holds, Free
  <2> QED BY <2>1, <2>2, <2>3
<1>4. OneHolder'
  BY <1>3 DEF OneHolder, Holds
<1> QED BY <1>1, <1>2, <1>4 DEF ChainInvariant, Only

\* The history of who met whom keeps its shape when a transaction begins.
LEMMA HistoriesBegin ==
    ASSUME ChainInvariant, NEW t \in Requests, Begins(t)
    PROVE  Histories'
<1>1. alone' \subseteq Requests
  BY DEF Begins
<1>2. overlapped' \in BOOLEAN /\ repaired' \in BOOLEAN
  BY DEF Begins, ChainInvariant, Histories
<1> QED BY <1>1, <1>2 DEF Histories

\* What it holds when it begins.
LEMMA HoldsNothingYet ==
    ASSUME ChainInvariant, NEW t \in Requests, phase[t] \in {"new", "done", "sections", "insert"}
    PROVE  mine[t] = Nothing
BY HoldsNothing DEF ChainInvariant

\* A request writes the first of its rows and goes on with a chain.
LEMMA FirstKeeps ==
    ASSUME ChainInvariant, NEW t \in Requests, phase[t] \in {"new", "sections", "insert"},
           NEW next \in {"recompute", "clear"}, NEW r \in Rows, NEW row, RowTypeOK(r, row), NEW ch \in Seq(Recomputed),
           r # "precision" => Ascends(ch),
           r \in Tables \ {"precision"} => \A i \in 1..Len(ch) : Level(r) <= Level(ch[i]),
           r = "precision" => row # Unwritten,
           Writes(t, r, row), Continues(t, next, ch),
           noted' = noted \/ noted' = [noted EXCEPT ![t] = NoValue],
           UNCHANGED rows, Histories'
    PROVE  ChainInvariant'
<1>1. mine[t] = Nothing /\ DOMAIN mine = Requests /\ DOMAIN chain = Requests /\ DOMAIN noted = Requests
      /\ phase \in [Requests -> Phases]
  BY HoldsNothingYet DEF ChainInvariant
<1>2. mine'[t] = [Nothing EXCEPT ![r] = row] /\ DOMAIN mine' = Requests
      /\ \A s \in Requests \ {t} : mine'[s] = mine[s]
  BY <1>1 DEF Writes
<1>3. phase'[t] = next /\ chain'[t] = ch /\ phase' \in [Requests -> Phases] /\ DOMAIN chain' = Requests
      /\ \A s \in Requests \ {t} : phase'[s] = phase[s] /\ chain'[s] = chain[s]
  BY <1>1 DEF Continues, Phases
<1>4. DOMAIN noted' = Requests /\ \A s \in Requests \ {t} : noted'[s] = noted[s]
  BY <1>1
<1>5. Only(t)
  BY <1>2, <1>3, <1>4 DEF Only
<1>6. OwnOK([Nothing EXCEPT ![r] = row], next, ch, noted'[t])
  BY FirstOK
<1>7. OwnOK(mine'[t], phase'[t], chain'[t], noted'[t])
  BY <1>2, <1>3, <1>6
<1>8. \A q \in Rows : [Nothing EXCEPT ![r] = row][q] # Unwritten => q = r
  BY DEF Nothing
<1>9. TakesFree(t)
  BY <1>2, <1>8 DEF TakesFree, Writes
<1>10. RowsTypeOK(rows)'
  <2>1. RowsTypeOK(rows) /\ rows' = rows
    BY DEF ChainInvariant
  <2> QED BY <2>1
<1> QED BY <1>5, <1>7, <1>9, <1>10, OneGoesOn

\* A save begins with the row it writes.
LEMMA SavesKeep ==
    ASSUME ChainInvariant, NEW t \in Requests, NEW r \in Rows, NEW row, NEW ch \in Seq(Recomputed),
           NEW next \in {"recompute", "clear"},
           RowTypeOK(r, row),
           r # "precision" => Ascends(ch),
           r \in Tables \ {"precision"} => \A i \in 1..Len(ch) : Level(r) <= Level(ch[i]),
           r = "precision" => row # Unwritten,
           FirstRow(t, r, row, next, ch)
    PROVE  ChainInvariant'
<1>1. phase[t] = "new" /\ Histories'
  BY HistoriesBegin DEF FirstRow, Begins
<1>2. Writes(t, r, row) /\ Continues(t, next, ch) /\ rows' = rows /\ noted' = noted
  BY DEF FirstRow
<1> QED BY <1>1, <1>2, FirstKeeps

\* The row of a table, with another capture.
LEMMA TableCaptures ==
    ASSUME ChainInvariant, NEW r \in Tables, NEW c \in CapturesOf(r)
    PROVE  r \in Rows /\ RowTypeOK(r, Written(r, c))
<1>1. r \in Rows /\ RowTypeOK(r, rows[r])
  BY TablesAreNoComparables DEF ChainInvariant, RowsTypeOK, Rows
<1> DEFINE row == rows[r]
<1>2. RowTypeOK(r, row)
  BY <1>1
<1> HIDE DEF row
<1>3. RowTypeOK(r, [row EXCEPT !.capture = c])
  BY <1>2, TableWrittenTypes
<1> QED BY <1>1, <1>3 DEF row, Written

\* A market is a table anybody may capture.
LEMMA MarketTables == \A m \in Markets : m \in Tables \ {"precision"} /\ Captures \subseteq CapturesOf(m)
BY DEF Markets, COMPARABLE_TYPES, Tables, Approaches, CapturesOf

\* A chain that starts at or above the level of a row comes after it.
LEMMA ClimbsAbove ==
    ASSUME NEW ch, NEW low, NEW high, Climbs(ch, low, high), NEW r, Level(r) \in Nat, low \in Nat, Level(r) <= low
    PROVE  /\ ch \in Seq(Recomputed) /\ Ascends(ch)
           /\ \A i \in 1..Len(ch) : Level(r) <= Level(ch[i])
<1>1. \A i \in 1..Len(ch) : Level(ch[i]) \in 1..12
  BY Levels, RecomputedAreTables DEF Climbs
<1> QED BY <1>1 DEF Climbs

\* Saving the settings of a market keeps the invariant.
LEMMA MarketSaveKeeps ==
    ASSUME ChainInvariant, NEW t \in Requests, NEW m \in Markets, NEW c \in Captures, saveMarketSettings(t, m, c)
    PROVE  ChainInvariant'
<1>1. m \in Tables \ {"precision"} /\ c \in CapturesOf(m) /\ Level(m) \in Nat
  BY MarketTables, MarketLevels
<1>2. m \in Rows /\ RowTypeOK(m, Written(m, c))
  BY <1>1, TableCaptures
<1>3. recompute(m) \in Seq(Recomputed) /\ Ascends(recompute(m))
      /\ \A i \in 1..Len(recompute(m)) : Level(m) <= Level(recompute(m)[i])
  BY <1>1, RecomputeClimbs, ClimbsAbove
<1> DEFINE row == Written(m, c)
<1>4. FirstRow(t, m, row, "recompute", recompute(m))
  BY DEF saveMarketSettings, SavesCapture
<1>5. RowTypeOK(m, row)
  BY <1>2
<1> HIDE DEF row
<1> QED BY <1>1, <1>2, <1>3, <1>4, <1>5, SavesKeep

\* The chains of the other saves climb,
LEMMA ShortChains ==
    /\ Climbs(recomputeCosts, 10, 12) /\ Climbs(recomputeIncome, 11, 12)
    /\ Climbs(<<"maquinaria", "resumen">>, 7, 12)
    /\ Climbs(<<"estadistico">>, 8, 8)
    /\ Climbs(<<"resumen">>, 12, 12)
<1>1. Level("maquinaria") = 7 /\ Level("estadistico") = 8 /\ Level("resumen") = 12
  BY DEF Level
<1>2. Climbs(<<"maquinaria", "resumen">>, 7, 12)
  BY <1>1 DEF Climbs, Ascends, Recomputed
<1>3. Climbs(<<"estadistico">>, 8, 8)
  BY <1>1 DEF Climbs, Ascends, Recomputed
<1> QED BY <1>2, <1>3, CostsClimb, IncomeClimbs, ResumenClimbs

\* from these levels,
LEMMA LevelsNamed ==
    /\ Level("construcciones") = 5 /\ Level("secciones") = 6 /\ Level("maquinaria") = 7 /\ Level("estadistico") = 8
    /\ Level("costos") = 10 /\ Level("ingresos") = 11 /\ Level("resumen") = 12
BY DEF Level

\* and the rows they write are tables of those captures.
LEMMA TablesNamed ==
    /\ {"costos", "construcciones", "ingresos", "maquinaria", "estadistico", "resumen", "secciones", "precision"} \subseteq Tables
    /\ \A r \in {"costos", "construcciones", "ingresos", "maquinaria", "estadistico", "precision"} : Captures \subseteq CapturesOf(r)
    /\ CapturesOf("resumen") = Lines /\ CapturesOf("secciones") = Exclusions
BY DEF Tables, Approaches, CapturesOf

\* A save of one table with a chain that is all above it.
LEMMA TableSaveKeeps ==
    ASSUME ChainInvariant, NEW t \in Requests, NEW r \in Tables \ {"precision"}, NEW c \in CapturesOf(r),
           NEW ch, NEW low \in Nat, NEW high, Climbs(ch, low, high), Level(r) <= low,
           NEW next \in {"recompute", "clear"}, FirstRow(t, r, Written(r, c), next, ch)
    PROVE  ChainInvariant'
<1>1. r \in Rows /\ RowTypeOK(r, Written(r, c))
  BY TableCaptures
<1>2. ch \in Seq(Recomputed) /\ Ascends(ch) /\ \A i \in 1..Len(ch) : Level(r) <= Level(ch[i])
  BY Levels, ClimbsAbove
<1> DEFINE row == Written(r, c)
<1>3. RowTypeOK(r, row) /\ FirstRow(t, r, row, next, ch)
  BY <1>1
<1> HIDE DEF row
<1> QED BY <1>1, <1>2, <1>3, SavesKeep

\* A change of the precision keeps the invariant,
LEMMA PrecisionKeeps ==
    ASSUME ChainInvariant, NEW t \in Requests, NEW p \in Captures, saveCalculationPrecision(t, p)
    PROVE  ChainInvariant'
<1>1. "precision" \in Rows /\ RowTypeOK("precision", Written("precision", p))
  BY TablesNamed, TableCaptures
<1>2. Written("precision", p) # Unwritten
  <2> DEFINE row == rows["precision"]
             new == [row EXCEPT !.capture = p]
  <2>1. RowTypeOK("precision", row)
    BY TablesNamed, TablesAreNoComparables DEF ChainInvariant, RowsTypeOK, Rows
  <2>2. DOMAIN row = {"capture", "value"} /\ row.value = NoValue
    BY <2>1, TablesNamed, TableRowTypes
  <2> HIDE DEF row
  <2>3. DOMAIN new = {"capture", "value"}
    BY <2>2
  <2>4. new # Unwritten
    BY <2>3 DEF Unwritten
  <2> QED BY <2>4 DEF row, Written
<1>3. recomputeMarkets(rows) \in Seq(Recomputed)
  BY MarketsAreChained
<1> DEFINE row == Written("precision", p)
           ch == recomputeMarkets(rows)
<1>4. RowTypeOK("precision", row) /\ row # Unwritten /\ ch \in Seq(Recomputed) /\ FirstRow(t, "precision", row, "recompute", ch)
  BY <1>1, <1>2, <1>3 DEF saveCalculationPrecision, SavesCapture
<1> HIDE DEF row, ch
<1> QED BY <1>1, <1>4, SavesKeep

\* and so does every save of one capture.
LEMMA SaveRequestKeeps ==
    ASSUME ChainInvariant, NEW t \in Requests, SaveRequest(t)
    PROVE  ChainInvariant'
<1> PICK c \in Captures :
        \/ \E m \in Markets : saveMarketSettings(t, m, c)
        \/ saveCostCalculation(t, c) \/ saveConstructionTypes(t, c) \/ saveIncomeCalculation(t, c)
        \/ saveMachineryCalculation(t, c) \/ saveStatisticalCalculation(t, c)
        \/ saveCalculationPrecision(t, c)
  BY DEF SaveRequest
<1>1. CASE \E m \in Markets : saveMarketSettings(t, m, c)
  BY <1>1, MarketSaveKeeps
<1>2. CASE saveCostCalculation(t, c)
  <2>1. "costos" \in Tables \ {"precision"} /\ c \in CapturesOf("costos") /\ Level("costos") <= 10
    BY TablesNamed, LevelsNamed
  <2> QED BY <1>2, <2>1, ShortChains, TableSaveKeeps DEF saveCostCalculation
<1>3. CASE saveConstructionTypes(t, c)
  <2>1. "construcciones" \in Tables \ {"precision"} /\ c \in CapturesOf("construcciones") /\ Level("construcciones") <= 10
    BY TablesNamed, LevelsNamed
  <2> QED BY <1>3, <2>1, ShortChains, TableSaveKeeps DEF saveConstructionTypes
<1>4. CASE saveIncomeCalculation(t, c)
  <2>1. "ingresos" \in Tables \ {"precision"} /\ c \in CapturesOf("ingresos") /\ Level("ingresos") <= 11
    BY TablesNamed, LevelsNamed
  <2> QED BY <1>4, <2>1, ShortChains, TableSaveKeeps DEF saveIncomeCalculation, SavesCapture
<1>5. CASE saveMachineryCalculation(t, c)
  <2>1. "maquinaria" \in Tables \ {"precision"} /\ c \in CapturesOf("maquinaria") /\ Level("maquinaria") <= 7
    BY TablesNamed, LevelsNamed
  <2> QED BY <1>5, <2>1, ShortChains, TableSaveKeeps DEF saveMachineryCalculation, SavesCapture
<1>6. CASE saveStatisticalCalculation(t, c)
  <2>1. "estadistico" \in Tables \ {"precision"} /\ c \in CapturesOf("estadistico") /\ Level("estadistico") <= 8
    BY TablesNamed, LevelsNamed
  <2> QED BY <1>6, <2>1, ShortChains, TableSaveKeeps DEF saveStatisticalCalculation, SavesCapture
<1>7. CASE saveCalculationPrecision(t, c)
  BY <1>7, PrecisionKeeps
<1> QED BY <1>1, <1>2, <1>3, <1>4, <1>5, <1>6, <1>7

\* A save that goes on under the row it wrote keeps the invariant.
LEMMA SaveGoesOnKeeps ==
    ASSUME ChainInvariant, NEW t \in Requests, SaveGoesOn(t)
    PROVE  ChainInvariant'
<1> DEFINE row == View(t)["construcciones"]
<1>1. OwnOK(mine[t], "clear", chain[t], noted[t])
  BY DEF SaveGoesOn, deleteRun, saveConstructionCosts, ChainInvariant
<1>2. /\ phase' = [phase EXCEPT ![t] = "recompute"] /\ chain' = [chain EXCEPT ![t] = chain[t]]
      /\ UNCHANGED <<rows, noted, history>>
      /\ mine' = mine \/ (Holds(t, "costos") /\ Writes(t, "construcciones", row))
  BY DEF SaveGoesOn, deleteRun, saveConstructionCosts, Recomputes, Continues
<1>3. "construcciones" \in Tables /\ "construcciones" \in Rows
  BY TablesNamed, TablesAreNoComparables
<1>4. RowTypeOK("construcciones", row)
  BY <1>3, ViewTypes
<1> HIDE DEF row
<1>5. mine[t] = [r \in Rows |-> mine[t][r]] /\ DOMAIN mine = Requests
  BY DEF ChainInvariant, OwnOK
<1>6. \/ mine' = mine
      \/ /\ mine[t]["costos"] # Unwritten /\ Free(t, "construcciones")
         /\ mine' = [mine EXCEPT ![t] = [mine[t] EXCEPT !["construcciones"] = row]]
  BY <1>2, <1>5 DEF Holds, Writes
<1>7. DOMAIN mine' = Requests /\ \A s \in Requests \ {t} : mine'[s] = mine[s]
  BY <1>5, <1>6
<1>8. Only(t) /\ phase'[t] = "recompute" /\ chain'[t] = chain[t] /\ noted'[t] = noted[t]
  BY <1>2, <1>7 DEF Only, ChainInvariant, Phases
<1>9. OwnOK(mine'[t], "recompute", chain[t], noted[t]) /\ TakesFree(t)
  <2>1. CASE mine' = mine
    BY <2>1, <1>1, ClearedOK DEF TakesFree
  <2>2. CASE /\ mine[t]["costos"] # Unwritten /\ Free(t, "construcciones")
             /\ mine' = [mine EXCEPT ![t] = [mine[t] EXCEPT !["construcciones"] = row]]
    <3>1. mine'[t] = [mine[t] EXCEPT !["construcciones"] = row]
      BY <2>2, <1>5
    <3>2. OwnOK([mine[t] EXCEPT !["construcciones"] = row], "recompute", chain[t], noted[t])
      BY <2>2, <1>1, <1>4, TypesUnderCostsOK
    <3>3. \A r \in Rows : r # "construcciones" => mine'[t][r] = mine[t][r]
      BY <3>1, <1>5
    <3> QED BY <2>2, <3>1, <3>2, <3>3 DEF TakesFree
  <2> QED BY <2>1, <2>2, <1>6
<1>10. OwnOK(mine'[t], phase'[t], chain'[t], noted'[t])
  BY <1>8, <1>9
<1>11. RowsTypeOK(rows)'
  <2>1. RowsTypeOK(rows) /\ rows' = rows
    BY <1>2 DEF ChainInvariant
  <2> QED BY <2>1
<1>12. Histories'
  BY <1>2 DEF history, ChainInvariant, Histories
<1> QED BY <1>8, <1>9, <1>10, <1>11, <1>12, OneGoesOn

\* A request that begins reads and notes something first.
LEMMA NotesKeep ==
    ASSUME ChainInvariant, NEW t \in Requests, Begins(t), NEW next \in {"sections", "insert"}, NEW n, NotedOK(next, n),
           phase' = [phase EXCEPT ![t] = next], noted' = [noted EXCEPT ![t] = n], UNCHANGED <<rows, mine, beneath, chain>>
    PROVE  ChainInvariant'
<1>1. phase[t] = "new" /\ Histories'
  BY HistoriesBegin DEF Begins
<1>2. mine[t] = Nothing /\ chain[t] = << >>
  BY <1>1, HoldsNothingYet DEF ChainInvariant, OwnOK
<1>3. Only(t) /\ phase'[t] = next /\ noted'[t] = n /\ mine'[t] = mine[t] /\ chain'[t] = chain[t]
  BY DEF ChainInvariant, Only, Phases
<1>4. OwnOK(Nothing, next, << >>, n)
  BY RestOK
<1>5. OwnOK(mine'[t], phase'[t], chain'[t], noted'[t])
  BY <1>2, <1>3, <1>4
<1>6. TakesFree(t)
  BY <1>3 DEF TakesFree
<1>7. RowsTypeOK(rows)'
  <2>1. RowsTypeOK(rows) /\ rows' = rows
    BY DEF ChainInvariant
  <2> QED BY <2>1
<1> QED BY <1>1, <1>3, <1>5, <1>6, <1>7, OneGoesOn

\* Reading the exclusions before their save keeps the invariant,
LEMMA ReadExclusionsKeeps ==
    ASSUME ChainInvariant, NEW t \in Requests, NEW excluded \in Exclusions, ReadExclusions(t, excluded)
    PROVE  ChainInvariant'
<1>1. rows["secciones"].capture \in Exclusions
  <2>1. RowTypeOK("secciones", rows["secciones"])
    BY TablesNamed, TablesAreNoComparables DEF ChainInvariant, RowsTypeOK, Rows
  <2> QED BY <2>1, TablesNamed, TableRowTypes
<1> DEFINE n == [before |-> rows["secciones"].capture, after |-> excluded]
<1>2. NotedOK("sections", n)
  BY <1>1 DEF NotedOK
<1>3. Begins(t) /\ phase' = [phase EXCEPT ![t] = "sections"] /\ noted' = [noted EXCEPT ![t] = n]
      /\ UNCHANGED <<rows, mine, beneath, chain>>
  BY DEF ReadExclusions
<1> HIDE DEF n
<1> QED BY <1>2, <1>3, NotesKeep

\* saving them does,
LEMMA SaveExclusionsKeeps ==
    ASSUME ChainInvariant, NEW t \in Requests, saveExclusions(t)
    PROVE  ChainInvariant'
<1>1. phase[t] = "sections" /\ noted[t] \in [before : Exclusions, after : Exclusions]
  BY DEF saveExclusions, ChainInvariant, OwnOK, NotedOK
<1> DEFINE row == Written("secciones", noted[t].after)
           ch == IF noted[t].before # noted[t].after THEN <<"resumen">> ELSE << >>
<1>2. "secciones" \in Tables /\ noted[t].after \in CapturesOf("secciones") /\ "secciones" # "precision"
  BY <1>1, TablesNamed
<1>3. "secciones" \in Rows /\ RowTypeOK("secciones", row)
  BY <1>2, TableCaptures
<1>4. Climbs(ch, 12, 12)
  BY ShortChains, EmptyClimbs
<1>5. Writes(t, "secciones", row) /\ Continues(t, "recompute", ch) /\ noted' = [noted EXCEPT ![t] = NoValue] /\ rows' = rows
  BY DEF saveExclusions, Recomputes
<1>6. Histories'
  BY DEF saveExclusions, history, ChainInvariant, Histories
<1> HIDE DEF row, ch
<1>7. ch \in Seq(Recomputed) /\ Ascends(ch) /\ \A k \in 1..Len(ch) : Level("secciones") <= Level(ch[k])
  BY <1>4, LevelsNamed, ClimbsAbove
<1> QED BY <1>1, <1>2, <1>3, <1>5, <1>6, <1>7, FirstKeeps

\* and so does every request of the document.
LEMMA DocumentRequestKeeps ==
    ASSUME ChainInvariant, NEW t \in Requests, DocumentRequest(t)
    PROVE  ChainInvariant'
<1>1. ASSUME NEW line \in Lines, saveConclusionSettings(t, line) PROVE ChainInvariant'
  <2>1. "resumen" \in Tables \ {"precision"} /\ line \in CapturesOf("resumen") /\ Level("resumen") <= 12
    BY TablesNamed, LevelsNamed
  <2> QED BY <1>1, <2>1, ShortChains, TableSaveKeeps DEF saveConclusionSettings, SavesCapture
<1> QED BY <1>1, ReadExclusionsKeeps, SaveExclusionsKeeps DEF DocumentRequest

\* Deleting a market keeps the invariant.
LEMMA DeleteMarketKeeps ==
    ASSUME ChainInvariant, NEW t \in Requests, NEW m \in Markets, deleteMarket(t, m)
    PROVE  ChainInvariant'
<1> DEFINE row == [capture |-> NoValue, value |-> NoValue]
           ch == recomputeDependents(m)
<1>1. m \in Tables \ {"precision"} /\ m \in Rows /\ Level(m) \in 1..4
  BY MarketTables, MarketLevels, TablesAreNoComparables
<1>2. CapturesOf(m) = Captures \cup {NoValue}
  BY DEF Markets, COMPARABLE_TYPES, CapturesOf
<1>3. RowTypeOK(m, row)
  BY <1>1, <1>2, TableRowTypes, MarketTables DEF Markets, COMPARABLE_TYPES
<1>4. ch \in Seq(Recomputed) /\ Ascends(ch) /\ \A k \in 1..Len(ch) : Level(m) <= Level(ch[k])
  BY <1>1, DependentsClimb, ClimbsAbove
<1>5. phase[t] = "new" /\ Histories' /\ FirstRow(t, m, row, "clear", ch)
  BY HistoriesBegin DEF deleteMarket, FirstRow, Begins
<1> HIDE DEF row, ch
<1> QED BY <1>1, <1>3, <1>4, <1>5, SavesKeep

\* Taking the number of a new comparable keeps the invariant.
LEMMA NumberComparableKeeps ==
    ASSUME ChainInvariant, NEW t \in Requests, NEW m \in Markets, NumberComparable(t, m)
    PROVE  ChainInvariant'
<1> DEFINE n == [market |-> m, reference |-> NextReference(rows, m)]
<1>1. NotedOK("insert", n)
  BY NextReferenceIsNumber DEF NotedOK, ChainInvariant
<1>2. Begins(t) /\ phase' = [phase EXCEPT ![t] = "insert"] /\ noted' = [noted EXCEPT ![t] = n]
      /\ UNCHANGED <<rows, mine, beneath, chain>>
  BY DEF NumberComparable
<1> HIDE DEF n
<1> QED BY <1>1, <1>2, NotesKeep

\* A comparable has a row that is no table.
LEMMA ComparablesAreRows == \A q \in Comparables : q \in Rows /\ q \notin Tables /\ q # "precision"
BY ComparablesAssumption, TablesNamed DEF Rows

\* The chain of a market rises.
LEMMA MarketChains == \A m \in Markets : recompute(m) \in Seq(Recomputed) /\ Ascends(recompute(m))
BY RecomputeClimbs DEF Climbs

\* Inserting a comparable keeps the invariant,
LEMMA InsertKeeps ==
    ASSUME ChainInvariant, NEW t \in Requests, NEW q \in Comparables, NEW c \in Captures, insertComparable(t, q, c)
    PROVE  ChainInvariant'
<1>1. phase[t] = "insert" /\ noted[t] \in [market : Markets, reference : Nat \ {0}]
  BY DEF insertComparable, ChainInvariant, OwnOK, NotedOK
<1> DEFINE row == [capture |-> c, market |-> noted[t].market, value |-> noted[t].reference]
           ch == recompute(noted[t].market)
<1>2. row \in ComparableRow /\ row.value > 0
  BY <1>1 DEF ComparableRow
<1>3. RowTypeOK(q, row)
  BY <1>2, ComparableRowTypes
<1>4. ch \in Seq(Recomputed) /\ Ascends(ch)
  BY <1>1, MarketChains
<1>5. Writes(t, q, row) /\ Continues(t, "recompute", ch) /\ noted' = [noted EXCEPT ![t] = NoValue] /\ rows' = rows
  BY DEF insertComparable, Recomputes
<1>6. Histories'
  BY DEF insertComparable, history, ChainInvariant, Histories
<1> HIDE DEF row, ch
<1> QED BY <1>1, <1>3, <1>4, <1>5, <1>6, ComparablesAreRows, FirstKeeps

\* changing one does,
LEMMA UpdateKeeps ==
    ASSUME ChainInvariant, NEW t \in Requests, NEW q \in Comparables, NEW c \in Captures, updateComparable(t, q, c)
    PROVE  ChainInvariant'
<1>1. RowTypeOK(q, rows[q]) /\ rows[q].capture # NoValue
  BY ComparablesAreRows DEF updateComparable, ChainInvariant, RowsTypeOK, Rows
<1>2. rows[q].market \in Markets
  BY <1>1, ComparableRowTypes DEF ComparableRow
<1>3. RowTypeOK(q, Written(q, c))
  <2> DEFINE row == rows[q]
  <2>1. RowTypeOK(q, row) /\ row.capture # NoValue
    BY <1>1
  <2> HIDE DEF row
  <2>2. RowTypeOK(q, [row EXCEPT !.capture = c])
    BY <2>1, ComparableWrittenTypes
  <2> QED BY <2>2 DEF row, Written
<1> DEFINE ch == recompute(rows[q].market)
           row == Written(q, c)
<1>4. ch \in Seq(Recomputed) /\ Ascends(ch) /\ RowTypeOK(q, row) /\ FirstRow(t, q, row, "recompute", ch)
  BY <1>2, <1>3, MarketChains DEF updateComparable, SavesCapture
<1> HIDE DEF ch, row
<1> QED BY <1>4, ComparablesAreRows, SavesKeep

\* and deleting one, which locks those it numbers again.
LEMMA DeleteKeeps ==
    ASSUME ChainInvariant, NEW t \in Requests, NEW q \in Comparables, deleteComparable(t, q)
    PROVE  ChainInvariant'
<1>1. phase[t] = "new" /\ Histories'
  BY HistoriesBegin DEF deleteComparable, Begins
<1>2. mine[t] = Nothing /\ chain[t] = << >>
  BY <1>1, HoldsNothingYet DEF ChainInvariant, OwnOK
<1>3. q \in Rows /\ RowTypeOK(q, rows[q])
  BY ComparablesAreRows DEF ChainInvariant, RowsTypeOK, Rows
<1>4. rows[q].market \in Markets
  BY <1>3, ComparableRowTypes DEF ComparableRow
<1> DEFINE row == rows[q]
           left == [row EXCEPT !.capture = NoValue]
           n == [market |-> rows[q].market]
<1>5. RowTypeOK(q, left)
  <2>1. RowTypeOK(q, row)
    BY <1>3
  <2> HIDE DEF row
  <2> QED BY <2>1, ComparableLeavesTypes
<1>6. n \in [market : Markets]
  BY <1>4
<1>7. Writes(t, q, left) /\ phase' = [phase EXCEPT ![t] = "renumber"] /\ noted' = [noted EXCEPT ![t] = n]
      /\ rows' = rows /\ chain' = chain
  BY DEF deleteComparable
<1> HIDE DEF left, n, row
<1>8. mine'[t] = [Nothing EXCEPT ![q] = left] /\ DOMAIN mine' = Requests
      /\ \A s \in Requests \ {t} : mine'[s] = mine[s]
  BY <1>2, <1>7 DEF Writes, ChainInvariant
<1>9. Only(t) /\ phase'[t] = "renumber" /\ noted'[t] = n /\ chain'[t] = << >>
  BY <1>2, <1>7, <1>8 DEF ChainInvariant, Only, Phases
<1>10. OwnOK([Nothing EXCEPT ![q] = left], "renumber", << >>, n)
  BY <1>5, <1>6, DeletedOK
<1>11. OwnOK(mine'[t], phase'[t], chain'[t], noted'[t])
  BY <1>8, <1>9, <1>10
<1>12. \A r \in Rows : [Nothing EXCEPT ![q] = left][r] # Unwritten => r = q
  BY DEF Nothing
<1>13. TakesFree(t)
  BY <1>7, <1>8, <1>12 DEF TakesFree, Writes
<1>14. RowsTypeOK(rows)'
  <2>1. RowsTypeOK(rows)
    BY DEF ChainInvariant
  <2> QED BY <2>1, <1>7
<1> QED BY <1>1, <1>9, <1>11, <1>13, <1>14, OneGoesOn

\* The others of the market are numbered from 1.
LEMMA RenumberKeeps ==
    ASSUME ChainInvariant, NEW t \in Requests, Renumber(t)
    PROVE  ChainInvariant'
<1> DEFINE v == View(t)
           market == noted[t].market
           rest == ComparablesOf(v, market)
<1>1. phase[t] = "renumber" /\ market \in Markets
  BY DEF Renumber, ChainInvariant, OwnOK, NotedOK
<1>2. rest \in SUBSET Comparables /\ IsFiniteSet(rest)
  <2>1. rest \subseteq Comparables
    BY DEF ComparablesOf
  <2> QED BY <2>1, ComparablesAssumption, FS_Subset
<1>3. \A r \in Rows : RowTypeOK(r, v[r])
  BY ViewTypes
<1>4. Cardinality(rest) \in Nat
  BY <1>2, FS_CardinalityType
<1> DEFINE m == mine[t]
           Numbered(place) == [r \in Rows |-> IF r \in rest THEN [v[r] EXCEPT !.value = place[r]] ELSE m[r]]
<1>5. PICK place \in Numberings(v, market) :
         mine' = [mine EXCEPT ![t] = [r \in Tables \cup Comparables |->
                    IF r \in rest THEN [v[r] EXCEPT !.value = place[r]] ELSE @[r]]]
  BY DEF Renumber
<1> DEFINE new == Numbered(place)
<1>6. mine'[t] = new /\ DOMAIN mine' = Requests /\ \A s \in Requests \ {t} : mine'[s] = mine[s]
  BY <1>5 DEF ChainInvariant, Rows
<1>7. place \in [rest -> 1..Cardinality(rest)]
  BY DEF Numberings
<1>8. ASSUME NEW q \in rest PROVE RowTypeOK(q, new[q])
  <2> DEFINE row == v[q]
             n == place[q]
             then == [row EXCEPT !.value = n]
  <2>1. row \in ComparableRow /\ n \in Nat /\ n > 0
    BY <1>2, <1>3, <1>4, <1>7, <1>8, ComparablesAreRows, ComparableRowTypes
  <2>2. new[q] = then
    BY <1>2, <1>8, ComparablesAreRows
  <2> HIDE DEF row, n
  <2>3. then \in ComparableRow /\ then.value = n
    BY <2>1 DEF ComparableRow
  <2> HIDE DEF then, new
  <2>4. RowTypeOK(q, then)
    BY <1>2, <1>8, <2>1, <2>3, ComparableRowTypes
  <2> QED BY <2>2, <2>4
<1>9. new = [r \in Rows |-> new[r]] /\ \A r \in Rows \ rest : new[r] = m[r]
  OBVIOUS
<1> HIDE DEF new, v, rest
<1>10. OwnOK(m, "renumber", chain[t], noted[t])
  BY <1>1 DEF ChainInvariant
<1>11. OwnOK(new, "recompute", recompute(market), NoValue)
  BY <1>1, <1>2, <1>8, <1>9, <1>10, RenumberedOK
<1>12. phase' = [phase EXCEPT ![t] = "recompute"] /\ chain' = [chain EXCEPT ![t] = recompute(market)]
       /\ noted' = [noted EXCEPT ![t] = NoValue] /\ rows' = rows /\ UNCHANGED history
       /\ \A q \in rest : Free(t, q)
  BY DEF Renumber, Recomputes, Continues, v, rest
<1>13. Only(t) /\ phase'[t] = "recompute" /\ chain'[t] = recompute(market) /\ noted'[t] = NoValue
  BY <1>6, <1>12 DEF ChainInvariant, Only, Phases
<1>14. OwnOK(mine'[t], phase'[t], chain'[t], noted'[t])
  BY <1>6, <1>11, <1>13
<1>15. TakesFree(t)
  BY <1>6, <1>9, <1>12 DEF TakesFree
<1>16. RowsTypeOK(rows)'
  <2>1. RowsTypeOK(rows)
    BY DEF ChainInvariant
  <2> QED BY <2>1, <1>12
<1>17. Histories'
  BY <1>12 DEF history, ChainInvariant, Histories
<1> QED BY <1>13, <1>14, <1>15, <1>16, <1>17, OneGoesOn

\* Every request about a comparable keeps the invariant.
LEMMA ComparableRequestKeeps ==
    ASSUME ChainInvariant, NEW t \in Requests, ComparableRequest(t)
    PROVE  ChainInvariant'
BY RenumberKeeps, NumberComparableKeeps, DeleteMarketKeeps, DeleteKeeps, InsertKeeps, UpdateKeeps DEF ComparableRequest

\* A chain that finds nothing captured keeps the invariant,
LEMMA SkipKeeps ==
    ASSUME ChainInvariant, NEW t \in Requests, Skip(t)
    PROVE  ChainInvariant'
<1>1. phase[t] = "recompute" /\ chain[t] # << >> /\ OwnOK(mine[t], "recompute", chain[t], noted[t])
  BY DEF Skip, ChainInvariant
<1>2. OwnOK(mine[t], "recompute", Tail(chain[t]), noted[t])
  BY <1>1, SkippedOK
<1>3. Only(t) /\ phase'[t] = phase[t] /\ chain'[t] = Tail(chain[t]) /\ noted'[t] = noted[t] /\ mine'[t] = mine[t]
  BY DEF Skip, Only, ChainInvariant
<1>4. OwnOK(mine'[t], phase'[t], chain'[t], noted'[t])
  BY <1>1, <1>2, <1>3
<1>5. TakesFree(t)
  BY <1>3 DEF TakesFree
<1>6. RowsTypeOK(rows)'
  <2>1. RowsTypeOK(rows) /\ rows' = rows
    BY DEF ChainInvariant, Skip
  <2> QED BY <2>1
<1>7. Histories'
  BY DEF Skip, history, ChainInvariant, Histories
<1> QED BY <1>3, <1>4, <1>5, <1>6, <1>7, OneGoesOn

\* one that computes does,
LEMMA ComputeKeeps ==
    ASSUME ChainInvariant, NEW t \in Requests, Compute(t)
    PROVE  ChainInvariant'
<1> DEFINE x == Computed(View(t), Head(chain[t]))
<1>1. phase[t] = "recompute" /\ chain[t] # << >> /\ OwnOK(mine[t], "recompute", chain[t], noted[t])
  BY DEF Compute, ChainInvariant
<1>2. noted' = [noted EXCEPT ![t] = x] /\ phase' = [phase EXCEPT ![t] = "store"] /\ UNCHANGED <<rows, mine, chain, history>>
  BY DEF Compute
<1> HIDE DEF x
<1>3. OwnOK(mine[t], "store", chain[t], x)
  BY <1>1, ComputedOK
<1>4. Only(t) /\ phase'[t] = "store" /\ chain'[t] = chain[t] /\ noted'[t] = x /\ mine'[t] = mine[t]
  BY <1>2 DEF Only, ChainInvariant, Phases
<1>5. OwnOK(mine'[t], phase'[t], chain'[t], noted'[t])
  BY <1>3, <1>4
<1>6. TakesFree(t)
  BY <1>4 DEF TakesFree
<1>7. RowsTypeOK(rows)'
  <2>1. RowsTypeOK(rows) /\ rows' = rows
    BY <1>2 DEF ChainInvariant
  <2> QED BY <2>1
<1>8. Histories'
  BY <1>2 DEF history, ChainInvariant, Histories
<1> QED BY <1>4, <1>5, <1>6, <1>7, <1>8, OneGoesOn

\* and one that stores.
LEMMA StoreKeeps ==
    ASSUME ChainInvariant, NEW t \in Requests, Store(t)
    PROVE  ChainInvariant'
<1> DEFINE r == Head(chain[t])
           row == View(t)[r]
           x == noted[t]
           new == [row EXCEPT !.value = x, !.capture = IF r \in Markets /\ @ = NoValue THEN Default ELSE @]
<1>1. phase[t] = "store" /\ OwnOK(mine[t], "store", chain[t], x)
  BY DEF Store, ChainInvariant
<1>2. r \in Recomputed /\ r \in Rows
  BY <1>1, RestAscends, RecomputedAreTables, TablesAreNoComparables DEF OwnOK
<1>3. RowTypeOK(r, row)
  BY <1>2, ViewTypes
<1>4. Writes(t, r, new) /\ phase' = [phase EXCEPT ![t] = "recompute"] /\ chain' = [chain EXCEPT ![t] = Tail(chain[t])]
      /\ noted' = [noted EXCEPT ![t] = NoValue] /\ UNCHANGED <<rows, history>>
  BY DEF Store
<1>5. RowTypeOK(r, new)
  <2> HIDE DEF r, row, x
  <2> QED BY <1>2, <1>3, StoredTypes
<1> HIDE DEF new
<1>6. OwnOK([mine[t] EXCEPT ![r] = new], "recompute", Tail(chain[t]), NoValue)
  BY <1>1, <1>5, StoredOK
<1> HIDE DEF r
<1>7. mine'[t] = [mine[t] EXCEPT ![r] = new] /\ DOMAIN mine' = Requests /\ \A s \in Requests \ {t} : mine'[s] = mine[s]
  BY <1>4 DEF Writes, ChainInvariant
<1>8. Only(t) /\ phase'[t] = "recompute" /\ chain'[t] = Tail(chain[t]) /\ noted'[t] = NoValue
  BY <1>4, <1>7 DEF Only, ChainInvariant, Phases
<1>9. OwnOK(mine'[t], phase'[t], chain'[t], noted'[t])
  BY <1>6, <1>7, <1>8
<1>10. TakesFree(t)
  BY <1>4, <1>7 DEF TakesFree, Writes
<1>11. RowsTypeOK(rows)'
  <2>1. RowsTypeOK(rows) /\ rows' = rows
    BY <1>4 DEF ChainInvariant
  <2> QED BY <2>1
<1>12. Histories'
  BY <1>4 DEF history, ChainInvariant, Histories
<1> QED BY <1>8, <1>9, <1>10, <1>11, <1>12, OneGoesOn

\* The end of a transaction keeps the invariant, whichever it is.
LEMMA FinishesKeeps ==
    ASSUME ChainInvariant, NEW t \in Requests, Finishes(t), RowsTypeOK(rows)', overlapped' \in BOOLEAN, repaired' \in BOOLEAN
    PROVE  ChainInvariant'
<1>1. mine'[t] = Nothing /\ Only(t) /\ phase'[t] = "done" /\ chain'[t] = << >> /\ noted'[t] = NoValue
  BY DEF Finishes, Only, ChainInvariant, Phases, Nothing, Rows
<1>2. OwnOK(Nothing, "done", << >>, NoValue)
  BY RestOK DEF NotedOK
<1>3. OwnOK(mine'[t], phase'[t], chain'[t], noted'[t])
  BY <1>1, <1>2
<1>4. TakesFree(t)
  BY <1>1 DEF TakesFree, Nothing
<1>5. Histories'
  BY DEF Finishes, ChainInvariant, Histories
<1> QED BY <1>1, <1>3, <1>4, <1>5, OneGoesOn

\* Every step of a chain keeps the invariant.
LEMMA ChainStepKeeps ==
    ASSUME ChainInvariant, NEW t \in Requests, ChainStep(t)
    PROVE  ChainInvariant'
<1>1. CASE Commit(t)
  <2>1. RowsTypeOK(View(t)) /\ rows' = View(t)
    BY <1>1, ViewTypes DEF Commit
  <2>2. RowsTypeOK(rows)'
    BY <2>1
  <2>3. overlapped' \in BOOLEAN /\ repaired' \in BOOLEAN
    BY <1>1 DEF Commit, ChainInvariant, Histories
  <2> QED BY <1>1, <2>2, <2>3, FinishesKeeps DEF Commit
<1>2. CASE Rollback(t)
  <2>1. RowsTypeOK(rows) /\ rows' = rows
    BY <1>2 DEF Rollback, ChainInvariant
  <2>2. RowsTypeOK(rows)'
    BY <2>1
  <2>3. overlapped' \in BOOLEAN /\ repaired' \in BOOLEAN
    BY <1>2 DEF Rollback, ChainInvariant, Histories
  <2> QED BY <1>2, <2>2, <2>3, FinishesKeeps DEF Rollback
<1> QED BY <1>1, <1>2, SkipKeeps, ComputeKeeps, StoreKeeps DEF ChainStep

\* A step of somebody else keeps the invariant.
LEMMA CalculationStutters ==
    ASSUME ChainInvariant, UNCHANGED calculationVars
    PROVE  ChainInvariant'
<1>1. rows' = rows /\ mine' = mine /\ phase' = phase /\ chain' = chain /\ noted' = noted
      /\ alone' = alone /\ overlapped' = overlapped /\ repaired' = repaired
  BY DEF calculationVars, history
<1>2. RowsTypeOK(rows)'
  <2>1. RowsTypeOK(rows)
    BY DEF ChainInvariant
  <2> QED BY <2>1, <1>1
<1> QED BY <1>1, <1>2 DEF ChainInvariant, OwnOK, NotedOK, Ascends, Before, OneHolder, Holds, Histories

\* A new version satisfies the invariant.
LEMMA ChainStarts == CalculationInit => ChainInvariant
<1> SUFFICES ASSUME CalculationInit PROVE ChainInvariant
  OBVIOUS
<1>1. \A t \in Requests : mine[t] = Nothing /\ phase[t] = "new" /\ chain[t] = << >> /\ noted[t] = NoValue
  BY DEF CalculationInit, CalculationRest, Nothing, Rows
<1>2. OwnOK(Nothing, "new", << >>, NoValue)
  BY RestOK DEF NotedOK
<1>3. \A t \in Requests : OwnOK(mine[t], phase[t], chain[t], noted[t])
  BY <1>1, <1>2
<1>4. OneHolder
  BY <1>1 DEF OneHolder, Holds, Nothing
<1>5. phase \in [Requests -> Phases] /\ DOMAIN mine = Requests /\ DOMAIN chain = Requests /\ DOMAIN noted = Requests
  BY DEF CalculationInit, CalculationRest, Phases
<1>6. Histories
  BY DEF CalculationInit, CalculationRest, Histories
<1>7. RowsTypeOK(rows)
  BY DEF CalculationInit
<1> QED BY <1>3, <1>4, <1>5, <1>6, <1>7 DEF ChainInvariant

-----------------------------------------------------------------------------
(* Beneath the rows *)

\* What was taken beneath a table comes before what is left.
Under(r, ch) == \A i \in 1..Len(ch) : Level(r) <= Level(ch[i])

\* What a request has taken beneath its rows, by what it holds and has left.
UnderOK(m, next, ch, b) ==
    /\ b \subseteq Beneath
    /\ next \notin {"recompute", "store", "clear"} => b = {}
    /\ "construcciones" \in b => m["costos"] # Unwritten \/ m["construcciones"] # Unwritten
    /\ m["precision"] = Unwritten => \A r \in b \ {"construcciones"} : Under(r, ch)

OneTaker == \A s, t \in Requests : \A r \in Beneath : r \in beneath[s] /\ r \in beneath[t] => s = t

BeneathInvariant ==
    /\ beneath \in [Requests -> SUBSET Beneath]
    /\ \A t \in Requests : UnderOK(mine[t], phase[t], chain[t], beneath[t])
    /\ OneTaker

\* The others stay where they are.
OthersStay(t) ==
    \A s \in Requests \ {t} : mine'[s] = mine[s] /\ phase'[s] = phase[s] /\ chain'[s] = chain[s]

\* What holds of all that may be found holds of what is.
LEMMA FoundOK ==
    ASSUME NEW m, NEW next, NEW ch, NEW b, NEW some \in SUBSET b, UnderOK(m, next, ch, b)
    PROVE  UnderOK(m, next, ch, some)
BY DEF UnderOK

\* A transaction that takes what nobody else has keeps the order beneath.
LEMMA OneTakes ==
    ASSUME BeneathInvariant, NEW t \in Requests, OthersStay(t), NEW tables, TakesBeneath(t, tables),
           UnderOK(mine'[t], phase'[t], chain'[t], beneath[t] \cup tables)
    PROVE  BeneathInvariant'
<1>1. PICK found \in SUBSET tables :
         /\ \A s \in Requests \ {t} : found \cap beneath[s] = {}
         /\ beneath' = [beneath EXCEPT ![t] = beneath[t] \cup found]
  BY DEF TakesBeneath
<1>2. beneath \in [Requests -> SUBSET Beneath]
  BY DEF BeneathInvariant
<1>3. beneath'[t] = beneath[t] \cup found /\ \A s \in Requests \ {t} : beneath'[s] = beneath[s]
  BY <1>1, <1>2
<1>4. beneath[t] \cup found \in SUBSET (beneath[t] \cup tables)
  BY <1>1
<1>5. UnderOK(mine'[t], phase'[t], chain'[t], beneath'[t])
  BY <1>3, <1>4, FoundOK
<1>6. beneath' \in [Requests -> SUBSET Beneath]
  <2>1. beneath'[t] \subseteq Beneath
    BY <1>5 DEF UnderOK
  <2> QED BY <1>1, <1>2, <1>3, <2>1
<1>7. \A s \in Requests : UnderOK(mine'[s], phase'[s], chain'[s], beneath'[s])
  BY <1>3, <1>5 DEF OthersStay, BeneathInvariant
<1>8. ASSUME NEW q \in Requests, NEW s \in Requests, NEW r \in Beneath, r \in beneath'[q], r \in beneath'[s]
      PROVE  q = s
  <2>1. CASE q # t /\ s # t
    BY <2>1, <1>3, <1>8 DEF BeneathInvariant, OneTaker
  <2>2. CASE q = t /\ s # t
    <3>1. r \in beneath[t]
      BY <2>2, <1>1, <1>3, <1>8
    <3> QED BY <3>1, <2>2, <1>3, <1>8 DEF BeneathInvariant, OneTaker
  <2>3. CASE s = t /\ q # t
    <3>1. r \in beneath[t]
      BY <2>3, <1>1, <1>3, <1>8
    <3> QED BY <3>1, <2>3, <1>3, <1>8 DEF BeneathInvariant, OneTaker
  <2> QED BY <2>1, <2>2, <2>3
<1>9. \A s \in Requests : UnderOK(mine[s], phase[s], chain[s], beneath[s])' <=> UnderOK(mine'[s], phase'[s], chain'[s], beneath'[s])
  BY DEF UnderOK, Under
<1> QED BY <1>6, <1>7, <1>8, <1>9 DEF BeneathInvariant, OneTaker

\* A transaction that takes nothing more keeps the order beneath,
LEMMA OneKeeps ==
    ASSUME BeneathInvariant, NEW t \in Requests, OthersStay(t), UNCHANGED beneath,
           UnderOK(mine'[t], phase'[t], chain'[t], beneath[t])
    PROVE  BeneathInvariant'
<1>1. \A s \in Requests : UnderOK(mine'[s], phase'[s], chain'[s], beneath[s])
  BY DEF OthersStay, BeneathInvariant
<1>2. \A s \in Requests : UnderOK(mine[s], phase[s], chain[s], beneath[s])' <=> UnderOK(mine'[s], phase'[s], chain'[s], beneath'[s])
  BY DEF UnderOK, Under
<1> QED BY <1>1, <1>2 DEF BeneathInvariant, OneTaker

\* and so does one that had taken nothing,
LEMMA EmptyHanded ==
    ASSUME BeneathInvariant, NEW t \in Requests, OthersStay(t), UNCHANGED beneath,
           phase[t] \notin {"recompute", "store", "clear"}
    PROVE  BeneathInvariant'
<1>1. beneath[t] = {}
  BY DEF BeneathInvariant, UnderOK
<1>2. UnderOK(mine'[t], phase'[t], chain'[t], {})
  BY DEF UnderOK
<1> QED BY <1>1, <1>2, OneKeeps

\* and one that ends.
LEMMA EndsBeneath ==
    ASSUME ChainInvariant, BeneathInvariant, NEW t \in Requests, Finishes(t)
    PROVE  BeneathInvariant'
<1>1. OthersStay(t) /\ beneath' = [beneath EXCEPT ![t] = {}]
  BY DEF Finishes, OthersStay, ChainInvariant
<1>2. beneath \in [Requests -> SUBSET Beneath]
  BY DEF BeneathInvariant
<1>3. beneath'[t] = {} /\ beneath' \in [Requests -> SUBSET Beneath] /\ \A s \in Requests \ {t} : beneath'[s] = beneath[s]
  BY <1>1, <1>2
<1>4. UnderOK(mine'[t], phase'[t], chain'[t], {})
  BY DEF UnderOK
<1>5. \A s \in Requests : UnderOK(mine'[s], phase'[s], chain'[s], beneath'[s])
  BY <1>1, <1>3, <1>4 DEF OthersStay, BeneathInvariant
<1>6. OneTaker'
  BY <1>3 DEF BeneathInvariant, OneTaker
<1>7. \A s \in Requests : UnderOK(mine[s], phase[s], chain[s], beneath[s])' <=> UnderOK(mine'[s], phase'[s], chain'[s], beneath'[s])
  BY DEF UnderOK, Under
<1> QED BY <1>3, <1>5, <1>6, <1>7 DEF BeneathInvariant

\* A row that is written and a chain that goes on are of one transaction.
LEMMA OnesWrites ==
    ASSUME ChainInvariant, NEW t \in Requests
    PROVE  /\ \A r, row : Writes(t, r, row) => \A s \in Requests \ {t} : mine'[s] = mine[s]
           /\ \A next, ch : Continues(t, next, ch) =>
                 \A s \in Requests \ {t} : phase'[s] = phase[s] /\ chain'[s] = chain[s]
BY DEF ChainInvariant, Writes, Continues

\* A save of the first row takes nothing beneath it,
LEMMA FirstTakesNothing ==
    ASSUME ChainInvariant, BeneathInvariant, NEW t \in Requests, NEW r, NEW row, NEW next, NEW ch,
           FirstRow(t, r, row, next, ch), UNCHANGED beneath
    PROVE  BeneathInvariant'
<1>1. OthersStay(t) /\ phase[t] = "new"
  BY OnesWrites DEF FirstRow, Begins, OthersStay
<1> QED BY <1>1, EmptyHanded

\* but the types, which take the costs of those they remove.
LEMMA TypesTake ==
    ASSUME ChainInvariant, BeneathInvariant, NEW t \in Requests, NEW c \in Captures, saveConstructionTypes(t, c)
    PROVE  BeneathInvariant'
<1> DEFINE row == Written("construcciones", c)
<1>1. /\ FirstRow(t, "construcciones", row, "recompute", recomputeCosts)
      /\ TakesBeneath(t, {"construcciones"})
  BY DEF saveConstructionTypes
<1>2. "construcciones" \in Rows /\ RowTypeOK("construcciones", row)
  BY TablesNamed, TableCaptures
<1>3. row # Unwritten
  BY <1>2, RowIsWritten
<1>4. mine[t] = [q \in Rows |-> mine[t][q]] /\ DOMAIN mine = Requests
  BY DEF ChainInvariant, OwnOK
<1> HIDE DEF row
<1>5. mine'[t]["construcciones"] = row
  BY <1>1, <1>2, <1>4 DEF FirstRow, Writes
<1>6. OthersStay(t) /\ phase[t] = "new" /\ phase'[t] = "recompute"
  BY <1>1, OnesWrites DEF FirstRow, Begins, OthersStay, Continues, ChainInvariant
<1>7. beneath[t] = {}
  BY <1>6 DEF BeneathInvariant, UnderOK
<1>8. UnderOK(mine'[t], phase'[t], chain'[t], beneath[t] \cup {"construcciones"})
  BY <1>3, <1>5, <1>6, <1>7 DEF UnderOK, Beneath
<1> QED BY <1>1, <1>6, <1>8, OneTakes

\* Every save that begins keeps the order beneath,
LEMMA SavesBeneath ==
    ASSUME ChainInvariant, BeneathInvariant, NEW t \in Requests, SaveRequest(t)
    PROVE  BeneathInvariant'
<1>1. \/ \E c \in Captures : saveConstructionTypes(t, c)
      \/ \E r, row, next, ch : FirstRow(t, r, row, next, ch) /\ UNCHANGED beneath
  BY DEF SaveRequest, saveMarketSettings, saveCostCalculation, saveIncomeCalculation, saveMachineryCalculation,
         saveStatisticalCalculation, saveCalculationPrecision, SavesCapture
<1> QED BY <1>1, TypesTake, FirstTakesNothing

\* and so does the document,
LEMMA DocumentsBeneath ==
    ASSUME ChainInvariant, BeneathInvariant, NEW t \in Requests, DocumentRequest(t)
    PROVE  BeneathInvariant'
<1>1. ASSUME NEW line \in Lines, saveConclusionSettings(t, line) PROVE BeneathInvariant'
  BY <1>1, FirstTakesNothing DEF saveConclusionSettings, SavesCapture
<1>2. ASSUME NEW excluded \in Exclusions, ReadExclusions(t, excluded) PROVE BeneathInvariant'
  <2>1. OthersStay(t) /\ phase[t] = "new" /\ UNCHANGED beneath
    BY <1>2 DEF ReadExclusions, Begins, OthersStay, ChainInvariant
  <2> QED BY <2>1, EmptyHanded
<1>3. ASSUME saveExclusions(t) PROVE BeneathInvariant'
  <2>1. OthersStay(t) /\ phase[t] = "sections" /\ UNCHANGED beneath
    BY <1>3, OnesWrites DEF saveExclusions, Recomputes, OthersStay
  <2> QED BY <2>1, EmptyHanded
<1> QED BY <1>1, <1>2, <1>3 DEF DocumentRequest

\* every request about a comparable,
LEMMA ComparablesBeneath ==
    ASSUME ChainInvariant, BeneathInvariant, NEW t \in Requests, ComparableRequest(t)
    PROVE  BeneathInvariant'
<1>1. ASSUME Renumber(t) PROVE BeneathInvariant'
  <2>1. OthersStay(t) /\ phase[t] = "renumber" /\ UNCHANGED beneath
    BY <1>1, OnesWrites DEF Renumber, Recomputes, OthersStay, ChainInvariant
  <2> QED BY <2>1, EmptyHanded
<1>2. ASSUME NEW m \in Markets, NumberComparable(t, m) PROVE BeneathInvariant'
  <2>1. OthersStay(t) /\ phase[t] = "new" /\ UNCHANGED beneath
    BY <1>2 DEF NumberComparable, Begins, OthersStay, ChainInvariant
  <2> QED BY <2>1, EmptyHanded
<1>3. ASSUME NEW m \in Markets, deleteMarket(t, m) PROVE BeneathInvariant'
  BY <1>3, FirstTakesNothing DEF deleteMarket
<1>4. ASSUME NEW q \in Comparables, deleteComparable(t, q) PROVE BeneathInvariant'
  <2>1. OthersStay(t) /\ phase[t] = "new" /\ UNCHANGED beneath
    BY <1>4, OnesWrites DEF deleteComparable, Begins, OthersStay, ChainInvariant
  <2> QED BY <2>1, EmptyHanded
<1>5. ASSUME NEW q \in Comparables, NEW c \in Captures, insertComparable(t, q, c) PROVE BeneathInvariant'
  <2>1. OthersStay(t) /\ phase[t] = "insert" /\ UNCHANGED beneath
    BY <1>5, OnesWrites DEF insertComparable, Recomputes, OthersStay
  <2> QED BY <2>1, EmptyHanded
<1>6. ASSUME NEW q \in Comparables, NEW c \in Captures, updateComparable(t, q, c) PROVE BeneathInvariant'
  BY <1>6, FirstTakesNothing DEF updateComparable, SavesCapture
<1> QED BY <1>1, <1>2, <1>3, <1>4, <1>5, <1>6 DEF ComparableRequest

\* A market that was taken out takes its run, which comes before its chain,
LEMMA RunGoes ==
    ASSUME ChainInvariant, BeneathInvariant, NEW t \in Requests, deleteRun(t)
    PROVE  BeneathInvariant'
<1>1. PICK m \in Markets : Holds(t, m) /\ TakesBeneath(t, {m})
  BY DEF deleteRun
<1>2. phase[t] = "clear" /\ phase'[t] = "recompute" /\ chain'[t] = chain[t] /\ mine' = mine /\ OthersStay(t)
  BY DEF deleteRun, Recomputes, Continues, OthersStay, ChainInvariant
<1>3. m \in Tables /\ m \in Beneath /\ m # "construcciones"
  BY MarketLevels, RecomputedAreTables DEF Beneath
<1>4. mine[t]["precision"] = Unwritten => Under(m, chain[t])
  <2>1. mine[t]["precision"] = Unwritten => Before(mine[t], chain[t])
    BY DEF ChainInvariant, OwnOK
  <2> QED BY <1>1, <1>3, <2>1 DEF Before, Under, Holds
<1>5. UnderOK(mine[t], "clear", chain[t], beneath[t])
  BY <1>2 DEF BeneathInvariant
<1>6. UnderOK(mine[t], "recompute", chain[t], beneath[t] \cup {m})
  BY <1>3, <1>4, <1>5 DEF UnderOK
<1>7. UnderOK(mine'[t], phase'[t], chain'[t], beneath[t] \cup {m})
  BY <1>2, <1>6
<1> QED BY <1>1, <1>2, <1>7, OneTakes

\* and the costs take those of the constructions under their own row.
LEMMA ConstructionsGo ==
    ASSUME ChainInvariant, BeneathInvariant, NEW t \in Requests, saveConstructionCosts(t)
    PROVE  BeneathInvariant'
<1> DEFINE row == View(t)["construcciones"]
<1>1. mine[t] = [q \in Rows |-> mine[t][q]] /\ DOMAIN mine = Requests
  BY DEF ChainInvariant, OwnOK
<1>2. /\ mine[t]["costos"] # Unwritten /\ TakesBeneath(t, {"costos", "construcciones"})
      /\ mine' = mine \/ Writes(t, "construcciones", row)
  BY DEF saveConstructionCosts, Holds
<1>3. phase[t] = "clear" /\ phase'[t] = "recompute" /\ chain'[t] = chain[t] /\ OthersStay(t)
  <2>1. \A s \in Requests \ {t} : mine'[s] = mine[s]
    BY <1>2, OnesWrites
  <2> QED BY <2>1 DEF saveConstructionCosts, Recomputes, Continues, OthersStay, ChainInvariant
<1> HIDE DEF row
<1>4. "costos" \in Tables /\ "costos" \in Rows /\ "precision" \in Rows /\ "construcciones" \in Rows
  BY TablesNamed, TablesAreNoComparables
<1>5. mine'[t]["costos"] = mine[t]["costos"] /\ mine'[t]["precision"] = mine[t]["precision"]
  BY <1>1, <1>2, <1>4 DEF Writes
<1>6. mine[t]["precision"] = Unwritten => Under("costos", chain[t])
  <2>1. mine[t]["precision"] = Unwritten => Before(mine[t], chain[t])
    BY DEF ChainInvariant, OwnOK
  <2> QED BY <1>2, <1>4, <2>1 DEF Before, Under
<1>7. UnderOK(mine[t], "clear", chain[t], beneath[t])
  BY <1>3 DEF BeneathInvariant
<1>8. {"costos", "construcciones"} \subseteq Beneath
  BY DEF Beneath, Recomputed
<1>9. UnderOK(mine'[t], "recompute", chain[t], beneath[t] \cup {"costos", "construcciones"})
  BY <1>2, <1>5, <1>6, <1>7, <1>8 DEF UnderOK
<1>10. UnderOK(mine'[t], phase'[t], chain'[t], beneath[t] \cup {"costos", "construcciones"})
  BY <1>3, <1>9
<1> QED BY <1>2, <1>3, <1>10, OneTakes

\* A chain leaves behind what it has passed.
LEMMA UnderRest ==
    ASSUME NEW ch \in Seq(Recomputed), ch # << >>, NEW r, Under(r, ch)
    PROVE  Under(r, Tail(ch))
<1>1. \A i \in 1..Len(Tail(ch)) : \E j \in 2..Len(ch) : Tail(ch)[i] = ch[j]
  BY RestAscends
<1> DEFINE rest == Tail(ch)
<1>2. \A i \in 1..Len(rest) : \E j \in 1..Len(ch) : rest[i] = ch[j]
  BY <1>1
<1> HIDE DEF rest
<1>3. Under(r, rest)
  BY <1>2 DEF Under
<1> QED BY <1>3 DEF rest

\* One that skips a table keeps the order beneath,
LEMMA SkipsBeneath ==
    ASSUME ChainInvariant, BeneathInvariant, NEW t \in Requests, Skip(t)
    PROVE  BeneathInvariant'
<1>1. phase[t] = "recompute" /\ chain[t] # << >> /\ chain[t] \in Seq(Recomputed)
  BY DEF Skip, ChainInvariant, OwnOK
<1>2. phase' = phase /\ mine' = mine /\ chain'[t] = Tail(chain[t]) /\ beneath' = beneath /\ OthersStay(t)
  BY DEF Skip, OthersStay, ChainInvariant
<1>3. \A r : Under(r, chain[t]) => Under(r, Tail(chain[t]))
  BY <1>1, UnderRest
<1>4. UnderOK(mine[t], phase[t], chain[t], beneath[t])
  BY DEF BeneathInvariant
<1>5. UnderOK(mine[t], phase[t], Tail(chain[t]), beneath[t])
  BY <1>3, <1>4 DEF UnderOK
<1>6. UnderOK(mine'[t], phase'[t], chain'[t], beneath[t])
  BY <1>2, <1>5
<1> QED BY <1>2, <1>6, OneKeeps

\* one that computes takes the run of the table it is at,
LEMMA ComputesBeneath ==
    ASSUME ChainInvariant, BeneathInvariant, NEW t \in Requests, Compute(t)
    PROVE  BeneathInvariant'
<1> DEFINE ch == chain[t]
           r == Head(ch)
<1>1. phase[t] = "recompute" /\ ch # << >> /\ ch \in Seq(Recomputed)
      /\ (mine[t]["precision"] = Unwritten => Ascends(ch))
  BY DEF Compute, ChainInvariant, OwnOK
<1>2. phase'[t] = "store" /\ mine' = mine /\ chain' = chain /\ OthersStay(t) /\ TakesBeneath(t, {r})
  BY DEF Compute, OthersStay, ChainInvariant
<1>3. UnderOK(mine[t], "recompute", ch, beneath[t])
  BY <1>1 DEF BeneathInvariant
<1>4. r \in Recomputed /\ r = ch[1] /\ 1 \in 1..Len(ch) /\ \A i \in 1..Len(ch) : 1 <= i
  <2> HIDE DEF ch
  <2> QED BY <1>1
<1>5. r \in Beneath /\ r # "construcciones"
  BY <1>4, RecomputedAreTables DEF Beneath
<1> HIDE DEF ch, r
<1>6. Ascends(ch) => Under(r, ch)
  BY <1>4 DEF Ascends, Under
<1>7. UnderOK(mine[t], "store", ch, beneath[t] \cup {r})
  BY <1>1, <1>3, <1>5, <1>6 DEF UnderOK
<1>8. UnderOK(mine'[t], phase'[t], chain'[t], beneath[t] \cup {r})
  BY <1>2, <1>7 DEF ch
<1> QED BY <1>2, <1>8, OneTakes

\* and one that stores the costs, those of each construction.
LEMMA StoresBeneath ==
    ASSUME ChainInvariant, BeneathInvariant, NEW t \in Requests, Store(t)
    PROVE  BeneathInvariant'
<1> DEFINE r == Head(chain[t])
           row == View(t)[r]
           x == noted[t]
           new == [row EXCEPT !.value = x, !.capture = IF r \in Markets /\ @ = NoValue THEN Default ELSE @]
           tables == IF r = "costos" THEN {"construcciones"} ELSE {}
<1>1. phase[t] = "store" /\ chain[t] # << >> /\ chain[t] \in Seq(Recomputed)
  BY DEF Store, ChainInvariant, OwnOK
<1>2. r \in Recomputed /\ r \in Rows
  BY <1>1, RestAscends, RecomputedAreTables, TablesAreNoComparables
<1>3. RowTypeOK(r, row)
  BY <1>2, ViewTypes
<1>4. Writes(t, r, new) /\ TakesBeneath(t, tables) /\ phase' = [phase EXCEPT ![t] = "recompute"]
      /\ chain' = [chain EXCEPT ![t] = Tail(chain[t])]
  BY DEF Store
<1>5. RowTypeOK(r, new)
  <2> HIDE DEF r, row, x
  <2> QED BY <1>2, <1>3, StoredTypes
<1> HIDE DEF new
<1>6. new # Unwritten
  BY <1>2, <1>5, RowIsWritten
<1>7. \A y : Under(y, chain[t]) => Under(y, Tail(chain[t]))
  BY <1>1, UnderRest
<1>8. r \in Tables \ {"precision"} /\ "precision" \in Rows /\ "costos" \in Rows /\ "construcciones" \in Rows
  BY <1>2, RecomputedAreTables, TablesNamed, TablesAreNoComparables
<1> HIDE DEF r
<1>9. mine[t] = [q \in Rows |-> mine[t][q]] /\ DOMAIN mine = Requests
  BY DEF ChainInvariant, OwnOK
<1>10. mine'[t] = [mine[t] EXCEPT ![r] = new]
  BY <1>4, <1>9 DEF Writes
<1>11. \A q \in Rows : mine'[t][q] = IF q = r THEN new ELSE mine[t][q]
  BY <1>2, <1>9, <1>10
<1>12. phase'[t] = "recompute" /\ chain'[t] = Tail(chain[t]) /\ OthersStay(t)
  BY <1>4, OnesWrites DEF OthersStay, ChainInvariant
<1>13. UnderOK(mine[t], "store", chain[t], beneath[t])
  BY <1>1 DEF BeneathInvariant
<1>14. UnderOK(mine'[t], "recompute", Tail(chain[t]), beneath[t] \cup tables)
  <2>1. mine'[t]["precision"] = mine[t]["precision"]
    BY <1>8, <1>11
  <2>2. \A q \in {"costos", "construcciones"} : mine[t][q] # Unwritten => mine'[t][q] # Unwritten
    BY <1>6, <1>8, <1>11
  <2>3. r = "costos" => mine'[t]["costos"] # Unwritten
    BY <1>6, <1>8, <1>11
  <2>4. tables \subseteq {"construcciones"} /\ tables \subseteq Beneath /\ ("construcciones" \in tables => r = "costos")
    BY DEF Beneath
  <2> HIDE DEF tables
  <2> QED BY <1>7, <1>13, <2>1, <2>2, <2>3, <2>4 DEF UnderOK
<1>15. UnderOK(mine'[t], phase'[t], chain'[t], beneath[t] \cup tables)
  BY <1>12, <1>14
<1> QED BY <1>4, <1>12, <1>15, OneTakes

\* Every step keeps the order beneath the rows.
LEMMA BeneathKeeps ==
    ASSUME ChainInvariant, BeneathInvariant, [CalculationNext]_calculationVars
    PROVE  BeneathInvariant'
<1>1. ASSUME UNCHANGED calculationVars PROVE BeneathInvariant'
  <2>1. mine' = mine /\ phase' = phase /\ chain' = chain /\ beneath' = beneath
    BY <1>1 DEF calculationVars
  <2> QED BY <2>1 DEF BeneathInvariant, UnderOK, Under, OneTaker
<1>2. ASSUME NEW t \in Requests, ChainStep(t) PROVE BeneathInvariant'
  <2>1. CASE Commit(t) \/ Rollback(t)
    BY <2>1, EndsBeneath DEF Commit, Rollback
  <2> QED BY <1>2, <2>1, SkipsBeneath, ComputesBeneath, StoresBeneath DEF ChainStep
<1> QED BY <1>1, <1>2, SavesBeneath, RunGoes, ConstructionsGo, DocumentsBeneath, ComparablesBeneath
        DEF CalculationNext, SaveGoesOn

\* Nothing is taken beneath the rows of a version at rest.
LEMMA BeneathStarts == CalculationInit => BeneathInvariant
BY DEF CalculationInit, CalculationRest, BeneathInvariant, UnderOK, OneTaker

\* What a request holds and has left to take is in order, a row has one holder,
\* and so has what lies beneath it.
THEOREM ChainsInOrder == CalculationSpec => [](ChainInvariant /\ BeneathInvariant)
<1>1. ChainInvariant /\ [CalculationNext]_calculationVars => ChainInvariant'
  BY SaveRequestKeeps, SaveGoesOnKeeps, DocumentRequestKeeps, ComparableRequestKeeps, ChainStepKeeps, CalculationStutters
  DEF CalculationNext
<1> QED BY <1>1, BeneathKeeps, ChainStarts, BeneathStarts, PTL DEF CalculationSpec

\* The invariant says what the type of the calculations counts.
LEMMA OneHolderCounted ==
    ASSUME ChainInvariant, NEW r \in Rows
    PROVE  Cardinality({t \in Requests : mine[t][r] # Unwritten}) <= 1
<1> DEFINE holders == {t \in Requests : mine[t][r] # Unwritten}
<1>1. CASE holders = {}
  <2>1. Cardinality({}) = 0
    BY FS_EmptySet
  <2> HIDE DEF holders
  <2>2. Cardinality(holders) <= 1
    BY <1>1, <2>1
  <2> QED BY <2>2 DEF holders
<1>2. CASE holders # {}
  <2>1. PICK t \in Requests : holders = {t}
    BY <1>2 DEF ChainInvariant, OneHolder, Holds
  <2>2. Cardinality({t}) = 1
    BY FS_Singleton
  <2> HIDE DEF holders
  <2>3. Cardinality(holders) <= 1
    BY <2>1, <2>2
  <2> QED BY <2>3 DEF holders
<1> QED BY <1>1, <1>2

\* So is what lies beneath a row.
LEMMA OneTakerCounted ==
    ASSUME BeneathInvariant, NEW r \in Beneath
    PROVE  Cardinality({t \in Requests : r \in beneath[t]}) <= 1
<1> DEFINE takers == {t \in Requests : r \in beneath[t]}
<1>1. CASE takers = {}
  <2>1. Cardinality({}) = 0
    BY FS_EmptySet
  <2> HIDE DEF takers
  <2>2. Cardinality(takers) <= 1
    BY <1>1, <2>1
  <2> QED BY <2>2 DEF takers
<1>2. CASE takers # {}
  <2>1. PICK t \in Requests : takers = {t}
    BY <1>2 DEF BeneathInvariant, OneTaker
  <2>2. Cardinality({t}) = 1
    BY FS_Singleton
  <2> HIDE DEF takers
  <2>3. Cardinality(takers) <= 1
    BY <2>1, <2>2
  <2> QED BY <2>3 DEF takers
<1> QED BY <1>1, <1>2

\* The rows keep their shape and each has one writer, whatever saves at once.
THEOREM CalculationTyped == CalculationSpec => []CalculationTypeOK
<1>1. ASSUME ChainInvariant, BeneathInvariant PROVE CalculationTypeOK
  <2>1. \A t \in Requests : ~Busy(t) => chain[t] = << >> /\ noted[t] = NoValue /\ beneath[t] = {}
    BY <1>1 DEF Busy, ChainInvariant, OwnOK, NotedOK, BeneathInvariant, UnderOK
  <2>2. \A r \in Tables \cup Comparables : Cardinality({t \in Requests : Holds(t, r)}) <= 1
    BY <1>1, OneHolderCounted DEF Rows, Holds
  <2>3. RowsTypeOK(rows)
    BY <1>1 DEF ChainInvariant
  <2>4. phase \in [Requests -> {"new", "done", "recompute", "store", "clear", "sections", "insert", "renumber"}]
    BY <1>1 DEF ChainInvariant, Phases
  <2>5. alone \subseteq Requests /\ {overlapped, repaired} \subseteq BOOLEAN
    BY <1>1 DEF ChainInvariant, Histories
  <2>6. beneath \in [Requests -> SUBSET Beneath] /\ \A r \in Beneath : Cardinality({t \in Requests : r \in beneath[t]}) <= 1
    BY <1>1, OneTakerCounted DEF BeneathInvariant
  <2> QED BY <2>1, <2>2, <2>3, <2>4, <2>5, <2>6 DEF CalculationTypeOK
<1> QED BY <1>1, ChainsInOrder, PTL

\* What a transaction that took nothing out of the order waits for: the row of
\* the table it is at, or the run beneath a row it does not hold.
AtRow(s, t) == phase[s] = "store" /\ Holds(t, Head(chain[s]))

AtRun(s, t) ==
    /\ phase[s] = "recompute" /\ chain[s] # << >>
    /\ Head(chain[s]) \in beneath[t] /\ ~Holds(s, Head(chain[s]))

\* A request that holds nothing is not waited for beneath a row, nor at a table.
LEMMA HoldsNoTable ==
    ASSUME ChainInvariant, BeneathInvariant, NEW t \in Requests, phase[t] \in {"sections", "renumber"}
    PROVE  /\ beneath[t] = {} /\ \A r \in Tables : ~Holds(t, r)
           /\ phase[t] = "sections" => \A r \in Rows : ~Holds(t, r)
BY TablesAreNoComparables DEF ChainInvariant, OwnOK, BeneathInvariant, UnderOK, Holds

\* A request that stores is at a table.
LEMMA AtTable ==
    ASSUME ChainInvariant, NEW t \in Requests, phase[t] = "store" \/ (phase[t] = "recompute" /\ chain[t] # << >>)
    PROVE  /\ Head(chain[t]) \in Recomputed /\ Head(chain[t]) \in Tables /\ Head(chain[t]) # "construcciones"
           /\ 1 \in 1..Len(chain[t]) /\ Head(chain[t]) = chain[t][1]
<1> DEFINE ch == chain[t]
<1>1. ch \in Seq(Recomputed) /\ ch # << >>
  BY DEF ChainInvariant, OwnOK
<1> HIDE DEF ch
<1>2. Head(ch) \in Recomputed /\ 1 \in 1..Len(ch) /\ Head(ch) = ch[1]
  BY <1>1
<1> QED BY <1>2, RecomputedAreTables DEF ch

\* When two requests wait for each other and are not among the exceptions, each is
\* at the row of what it computed, held by the other, or at a run beneath it.
LEMMA WaitsAtHead ==
    ASSUME ChainInvariant, BeneathInvariant, NEW s \in Requests, NEW t \in Requests, WaitsFor(s, t), WaitsFor(t, s),
           ~RowBeforeRun(s), ~RowBeforeRun(t), ~Holds(t, "construcciones"),
           phase[s] # "renumber" \/ phase[t] # "renumber"
    PROVE  AtRow(s, t) \/ AtRun(s, t)
<1>1. phase[s] # "clear" /\ phase[t] # "clear"
  BY DEF RowBeforeRun
<1>2. CASE phase[s] = "store"
  <2>1. Awaited(s) = {Head(chain[s])} /\ AwaitedBeneath(s) = IF Head(chain[s]) = "costos" THEN {"construcciones"} ELSE {}
    BY <1>2 DEF Awaited, AwaitedBeneath
  <2>2. CASE Holds(t, Head(chain[s]))
    BY <2>2, <1>2 DEF AtRow
  <2>3. CASE Head(chain[s]) = "costos" /\ "construcciones" \in beneath[t]
    <3>1. UnderOK(mine[t], phase[t], chain[t], beneath[t])
      BY DEF BeneathInvariant
    <3>2. Holds(t, "costos")
      BY <2>3, <3>1 DEF UnderOK, Holds
    <3> QED BY <1>2, <2>3, <3>2 DEF AtRow
  <2> QED BY <2>1, <2>2, <2>3 DEF WaitsFor
<1>3. CASE phase[s] = "recompute"
  <2>1. Awaited(s) = {} /\ AwaitedBeneath(s) = IF chain[s] = << >> THEN {} ELSE {Head(chain[s])}
    BY <1>3 DEF Awaited, AwaitedBeneath
  <2>2. chain[s] # << >> /\ Head(chain[s]) \in beneath[t]
    BY <2>1 DEF WaitsFor
  <2> QED BY <1>3, <2>2 DEF AtRun, RowBeforeRun
<1>4. CASE phase[s] = "sections"
  <2>1. Awaited(t) \subseteq Rows
    <3>1. phase[t] = "store" => Awaited(t) = {Head(chain[t])}
      BY DEF Awaited
    <3>2. phase[t] = "sections" => Awaited(t) = {"secciones"}
      BY DEF Awaited
    <3>3. phase[t] = "renumber" => Awaited(t) \subseteq Comparables
      BY DEF Awaited, ComparablesOf
    <3>4. phase[t] \notin {"store", "sections", "renumber"} => Awaited(t) = {}
      BY <1>1 DEF Awaited
    <3> QED BY <3>1, <3>2, <3>3, <3>4, AtTable, TablesNamed, TablesAreNoComparables DEF Rows
  <2>2. beneath[s] = {} /\ \A r \in Rows : ~Holds(s, r)
    BY <1>4, HoldsNoTable
  <2> QED BY <2>1, <2>2 DEF WaitsFor
<1>5. CASE phase[s] = "renumber"
  <2>1. Awaited(t) \subseteq Tables
    <3>1. phase[t] = "store" => Awaited(t) = {Head(chain[t])}
      BY DEF Awaited
    <3>2. phase[t] = "sections" => Awaited(t) = {"secciones"}
      BY DEF Awaited
    <3>3. phase[t] \notin {"store", "sections"} => Awaited(t) = {}
      BY <1>1, <1>5 DEF Awaited
    <3> QED BY <3>1, <3>2, <3>3, AtTable, TablesNamed
  <2>2. beneath[s] = {} /\ \A r \in Tables : ~Holds(s, r)
    BY <1>5, HoldsNoTable
  <2> QED BY <2>1, <2>2 DEF WaitsFor
<1>6. CASE phase[s] \notin {"store", "recompute", "sections", "renumber"}
  <2>1. Awaited(s) = {} /\ AwaitedBeneath(s) = {}
    BY <1>1, <1>6 DEF Awaited, AwaitedBeneath
  <2> QED BY <2>1 DEF WaitsFor
<1> QED BY <1>2, <1>3, <1>4, <1>5, <1>6

\* What one waits for is no later than what the other has left.
LEMMA WaitsBelow ==
    ASSUME ChainInvariant, BeneathInvariant, NEW s \in Requests, NEW t \in Requests, AtRow(s, t) \/ AtRun(s, t),
           phase[t] = "store" \/ (phase[t] = "recompute" /\ chain[t] # << >>), ~Holds(t, "precision")
    PROVE  Level(Head(chain[s])) <= Level(Head(chain[t]))
<1> DEFINE q == Head(chain[s])
<1>1. q \in Tables /\ q # "construcciones"
  BY AtTable DEF AtRow, AtRun
<1>2. Head(chain[t]) = chain[t][1] /\ 1 \in 1..Len(chain[t])
  BY AtTable
<1>3. Before(mine[t], chain[t]) /\ \A r \in beneath[t] \ {"construcciones"} : Under(r, chain[t])
  BY DEF ChainInvariant, OwnOK, BeneathInvariant, UnderOK, Holds
<1>4. Holds(t, q) \/ q \in beneath[t]
  BY DEF AtRow, AtRun
<1> HIDE DEF q
<1>5. Level(q) <= Level(chain[t][1])
  BY <1>1, <1>2, <1>3, <1>4 DEF Before, Under, Holds
<1> QED BY <1>2, <1>5 DEF q

\* Two that wait for each other would be at one table, each holding it against
\* the other.
LEMMA NoCrossing ==
    ASSUME ChainInvariant, BeneathInvariant, NEW s \in Requests, NEW t \in Requests, s # t,
           WaitsFor(s, t), WaitsFor(t, s),
           ~RowBeforeRun(s), ~RowBeforeRun(t),
           ~Holds(s, "precision"), ~Holds(t, "precision"),
           ~Holds(s, "construcciones"), ~Holds(t, "construcciones"),
           phase[s] # "renumber" \/ phase[t] # "renumber"
    PROVE  FALSE
<1>1. (AtRow(s, t) \/ AtRun(s, t)) /\ (AtRow(t, s) \/ AtRun(t, s))
  BY WaitsAtHead
<1> DEFINE q == Head(chain[s])
           r == Head(chain[t])
<1>2. q \in Recomputed /\ q \in Tables /\ r \in Recomputed /\ r \in Tables
  BY <1>1, AtTable DEF AtRow, AtRun
<1>3. Level(q) <= Level(r) /\ Level(r) <= Level(q)
  <2>1. \A u \in {s, t} : phase[u] = "store" \/ (phase[u] = "recompute" /\ chain[u] # << >>)
    BY <1>1 DEF AtRow, AtRun
  <2> QED BY <1>1, <2>1, WaitsBelow
<1>4. q = r
  <2> HIDE DEF q, r
  <2>1. Level(q) = Level(r)
    BY <1>2, <1>3, Levels
  <2> QED BY <1>2, <2>1, LevelsDiffer
<1>5. q \in Rows /\ q \in Beneath
  BY <1>2, TablesAreNoComparables DEF Beneath
<1> QED BY <1>1, <1>4, <1>5 DEF AtRow, AtRun, ChainInvariant, OneHolder, BeneathInvariant, OneTaker

\* However many save at once: two wait for each other only when one has the row
\* before its run, when one changes the precision or the construction types, or
\* when both number comparables.
THEOREM LocksAlwaysInOrder == CalculationSpec => []LockOrder
<1>1. ASSUME ChainInvariant, BeneathInvariant PROVE LockOrder
  BY <1>1, NoCrossing DEF LockOrder
<1> QED BY <1>1, ChainsInOrder, PTL

-----------------------------------------------------------------------------
(* In step with what is captured                                           *)
(*                                                                         *)
(* A value is in step with the view it is in, or its recomputation is      *)
(* still in the chain; a chain has, after each of its steps, what that     *)
(* step puts out of step.  This is so of what a request sees while it      *)
(* meets nobody, and so of what it commits; the chain of the precision     *)
(* brings it about whatever was stored before.                             *)

\* What is recomputed from other rows,
Fed == Markets \cup {"costos", "ingresos"}

\* what is recomputed from its own capture,
Own == {"maquinaria", "estadistico"}

\* and what a chain finds or leaves alone.
Kept == {"costos", "ingresos", "maquinaria"}

InChain(a, ch) == \E i \in 1..Len(ch) : ch[i] = a

\* What is not in step is still to be recomputed,
Told(v, ch) ==
    /\ \A a \in Fed : v[a].value = Computed(v, a) \/ InChain(a, ch)
    /\ Unchained(v) \/ ConclusionInStep(v) \/ InChain("resumen", ch)

\* and so is what each recomputation puts out of step.
After(i, ch, a) == \E j \in 1..Len(ch) : i < j /\ ch[j] = a

Closed(ch) ==
    \A i \in 1..Len(ch) :
        /\ ch[i] = "TERRENO_VENTA" => After(i, ch, "costos")
        /\ ch[i] = "INMUEBLE_RENTA" => After(i, ch, "ingresos")
        /\ ch[i] \in {"TERRENO_VENTA", "INMUEBLE_VENTA", "INMUEBLE_RENTA"} \cup Kept => After(i, ch, "resumen")

\* What a request that met nobody sees and has noted, by what it does next.
Follows(v, next, ch, n) ==
    /\ next \in {"recompute", "store", "clear"} => Told(v, ch) /\ Closed(ch)
    /\ next = "store" => n = Computed(v, Head(ch))
    /\ next \in {"sections", "insert"} => Told(v, << >>)
    /\ next = "sections" => n.before = v["secciones"].capture
    /\ next = "renumber" => Told(v, recompute(n.market))

NumberedIn(v, m) == ReferencesOf(v, m) = 1..Cardinality(ComparablesOf(v, m))

\* The markets are numbered from 1, but one that is about to be.
NumbersFollow(v, next, n) ==
    /\ next = "insert" => n.reference = NextReference(v, n.market)
    /\ \A m \in Markets : NumberedIn(v, m) \/ (next = "renumber" /\ m = n.market)

ValueOf(c) == IF c \in Complete THEN <<c>> ELSE NoValue

\* What is not captured has no value.
Bare(row) == row.capture = NoValue => row.value = NoValue

\* What a request wrote is captured, and what it wrote of machinery and
\* statistics is in step or in its chain, also when it meets others: nobody else
\* writes those rows until it ends.
OwnLast(m, next, ch, n) ==
    /\ \A r \in Fed : m[r] # Unwritten => Bare(m[r])
    /\ \A r \in Kept : m[r] # Unwritten => m[r].capture # NoValue
    /\ \A a \in Own :
          /\ InChain(a, ch) => m[a] # Unwritten
          /\ m[a] # Unwritten => InChain(a, ch) \/ m[a].value = ValueOf(m[a].capture)
          /\ next = "store" /\ Head(ch) = a => n = ValueOf(m[a].capture)

\* Nobody met anybody since the version was opened, or since the precision was
\* changed alone.
Reliable == overlapped => repaired

\* Who is at work alone is the only one at work, and while what is stored is
\* reliable nobody is at work otherwise.
Meeting ==
    /\ \A t \in alone : Busy(t) /\ \A s \in Requests \ {t} : ~Busy(s)
    /\ Reliable => \A t \in Requests : Busy(t) => t \in alone

StepInvariant ==
    /\ \A r \in Fed : Bare(rows[r])
    /\ OwnInStep(rows)
    /\ \A t \in Requests : OwnLast(mine[t], phase[t], chain[t], noted[t])
    /\ \A t \in Requests : phase[t] = "store" /\ Head(chain[t]) \in Kept => View(t)[Head(chain[t])].capture # NoValue
    /\ Meeting
    /\ Reliable => Told(rows, << >>)
    /\ ~overlapped => NumberedFromOne(rows)
    /\ \A t \in alone : Reliable \/ Holds(t, "precision") => Follows(View(t), phase[t], chain[t], noted[t])
    /\ \A t \in alone : ~overlapped => NumbersFollow(View(t), phase[t], noted[t])

-----------------------------------------------------------------------------
(* What a value is computed from *)

SameOffers(v, w, m) == ComparablesOf(w, m) = ComparablesOf(v, m) /\ Offers(w, m) = Offers(v, m)

\* What the value of an approach is computed from.
SameInputs(v, w, a) ==
    /\ w["precision"].capture = v["precision"].capture
    /\ w[a].capture = v[a].capture
    /\ a \in Markets => SameOffers(v, w, a)
    /\ a = "costos" => /\ w["construcciones"].capture = v["construcciones"].capture
                       /\ w["TERRENO_VENTA"].value = v["TERRENO_VENTA"].value
    /\ a = "ingresos" => /\ w["INMUEBLE_RENTA"].value = v["INMUEBLE_RENTA"].value
                         /\ w["INMUEBLE_RENTA"].capture = v["INMUEBLE_RENTA"].capture
                         /\ SameOffers(v, w, "INMUEBLE_RENTA")

\* What the concluded value is computed from, whatever the line.
SameValues(v, w) ==
    /\ \A r \in {"secciones", "resumen", "maquinaria"} : w[r].capture = v[r].capture
    /\ \A r \in {"maquinaria", "costos", "ingresos", "TERRENO_VENTA", "INMUEBLE_VENTA", "INMUEBLE_RENTA"} :
          w[r].value = v[r].value

\* The approaches fed by other rows, by name.
LEMMA FedNamed ==
    /\ Markets = {"TERRENO_VENTA", "INMUEBLE_VENTA", "INMUEBLE_RENTA", "TERRENO_RENTA"}
    /\ Fed = {"TERRENO_VENTA", "INMUEBLE_VENTA", "INMUEBLE_RENTA", "TERRENO_RENTA", "costos", "ingresos"}
<1>1. Markets = {"TERRENO_VENTA", "INMUEBLE_VENTA", "INMUEBLE_RENTA", "TERRENO_RENTA"}
  BY DEF Markets, COMPARABLE_TYPES
<1> QED BY <1>1 DEF Fed

\* What each approach is computed by.
LEMMA ComputedByKind ==
    ASSUME NEW v
    PROVE  /\ \A m \in Markets : Computed(v, m) = MarketValue(v, m)
           /\ Computed(v, "costos") = CostValue(v) /\ Computed(v, "ingresos") = IncomeValue(v)
           /\ \A a \in Own : Computed(v, a) = OwnValue(v, a)
           /\ Computed(v, "resumen") = conclusionInput(v)
BY FedNamed DEF Computed, Own

\* An approach whose inputs are the same is computed the same.
LEMMA SameInputsCompute ==
    ASSUME NEW v, NEW w, NEW a \in Fed, SameInputs(v, w, a)
    PROVE  Computed(w, a) = Computed(v, a)
<1>1. CASE a \in Markets
  <2>1. MarketValue(w, a) = MarketValue(v, a)
    BY <1>1 DEF SameInputs, SameOffers, MarketValue
  <2> QED BY <1>1, <2>1, ComputedByKind
<1>2. CASE a = "costos"
  <2>1. CostValue(w) = CostValue(v)
    BY <1>2 DEF SameInputs, CostValue
  <2> QED BY <1>2, <2>1, ComputedByKind
<1>3. CASE a = "ingresos"
  <2>1. IncomeValue(w) = IncomeValue(v)
    BY <1>3 DEF SameInputs, SameOffers, IncomeValue
  <2> QED BY <1>3, <2>1, ComputedByKind
<1> QED BY <1>1, <1>2, <1>3 DEF Fed

\* The regression, the goal program and the land rents are only lines, and a
\* change of theirs leaves the version unchained or as it was.
LEMMA SameValuesConclude ==
    ASSUME NEW v, NEW w, SameValues(v, w), v["resumen"].capture \in Lines, ~Unchained(w)
    PROVE  conclusionInput(w) = conclusionInput(v) /\ ~Unchained(v)
<1> DEFINE line == v["resumen"].capture
<1>1. w["resumen"].capture = line
  BY DEF SameValues
<1>2. approachValues(w) = approachValues(v)
  BY DEF SameValues, approachValues, Included, marketLeftOut
<1>3. ~Unchained(v)
  BY DEF SameValues, Unchained
<1>4. line = NoValue \/ line \in {"costos", "mercado-inmuebles", "mercado-terrenos", "ingresos", "mercado-rentas", "regresion", "metas"}
  BY DocumentsAssumption DEF SummarySources, ReportApproaches
<1>5. line # NoValue => availableValue(w, line) = availableValue(v, line)
  <2>1. line \notin {"regresion", "metas"}
    BY <1>1 DEF Unchained
  <2>2. CASE line = "costos"
    BY <2>2 DEF SameValues, availableValue, Included
  <2>3. CASE line = "mercado-inmuebles"
    BY <2>3 DEF SameValues, availableValue, Included
  <2>4. CASE line = "mercado-terrenos"
    BY <2>4 DEF SameValues, availableValue, Included
  <2>5. CASE line = "ingresos"
    BY <2>5 DEF SameValues, availableValue, Included
  <2>6. CASE line = "mercado-rentas"
    <3>1. w["INMUEBLE_RENTA"].value # NoValue /\ v["INMUEBLE_RENTA"].value = w["INMUEBLE_RENTA"].value
      BY <1>1, <2>6 DEF Unchained, SameValues
    <3> QED BY <2>6, <3>1 DEF SameValues, availableValue, Included, OrElse
  <2> QED BY <1>4, <2>1, <2>2, <2>3, <2>4, <2>5, <2>6
<1> QED BY <1>1, <1>2, <1>3, <1>5 DEF conclusionInput

-----------------------------------------------------------------------------
(* What the chains contain *)

\* What is in a chain made of two is in one of them.
LEMMA InEither ==
    ASSUME NEW x \in Seq(Recomputed), NEW y \in Seq(Recomputed), NEW a
    PROVE  InChain(a, x \o y) <=> InChain(a, x) \/ InChain(a, y)
<1> DEFINE xy == x \o y
<1>1. Len(xy) = Len(x) + Len(y) /\ Len(x) \in Nat /\ Len(y) \in Nat
  OBVIOUS
<1>2. \A i \in 1..Len(x) : i \in 1..Len(xy) /\ xy[i] = x[i]
  OBVIOUS
<1>3. \A i \in 1..Len(y) : Len(x) + i \in 1..Len(xy) /\ xy[Len(x) + i] = y[i]
  OBVIOUS
<1>4. \A i \in 1..Len(xy) : i \in 1..Len(x) \/ i - Len(x) \in 1..Len(y)
  BY <1>1
<1>5. \A i \in 1..Len(xy) : i - Len(x) \in 1..Len(y) => xy[i] = y[i - Len(x)]
  OBVIOUS
<1> HIDE DEF xy
<1>6. InChain(a, xy) => InChain(a, x) \/ InChain(a, y)
  BY <1>2, <1>4, <1>5 DEF InChain
<1>7. InChain(a, x) \/ InChain(a, y) => InChain(a, xy)
  BY <1>2, <1>3 DEF InChain
<1> QED BY <1>6, <1>7 DEF xy

\* What is in a chain of one,
LEMMA OneInChain == \A r, a : InChain(a, <<r>>) <=> a = r
BY DEF InChain

\* in none,
LEMMA NoneInChain == \A a : ~InChain(a, << >>)
BY DEF InChain

\* and in a chain of two.
LEMMA TwoInChain == \A r, s, a : InChain(a, <<r, s>>) <=> a = r \/ a = s
BY DEF InChain

\* What comes after the first of a chain is in the rest of it.
LEMMA InRest ==
    ASSUME NEW ch \in Seq(Recomputed), ch # << >>
    PROVE  \A a : /\ InChain(a, ch) <=> a = Head(ch) \/ InChain(a, Tail(ch))
                  /\ After(1, ch, a) => InChain(a, Tail(ch))
<1> DEFINE rest == Tail(ch)
<1>1. Len(ch) \in Nat /\ Len(ch) >= 1 /\ Len(rest) = Len(ch) - 1 /\ Head(ch) = ch[1]
  OBVIOUS
<1>2. \A i \in 1..Len(rest) : rest[i] = ch[i + 1] /\ i + 1 \in 1..Len(ch)
  BY <1>1
<1>3. \A j \in 1..Len(ch) : 1 < j => j - 1 \in 1..Len(rest) /\ rest[j - 1] = ch[j]
  BY <1>1
<1>4. 1 \in 1..Len(ch) /\ \A j \in 1..Len(ch) : j = 1 \/ 1 < j
  BY <1>1
<1> HIDE DEF rest
<1>5. \A a : After(1, ch, a) => InChain(a, rest)
  BY <1>3 DEF InChain, After
<1>6. \A a : InChain(a, ch) => a = Head(ch) \/ InChain(a, rest)
  BY <1>1, <1>4, <1>5 DEF InChain, After
<1>7. \A a : a = Head(ch) \/ InChain(a, rest) => InChain(a, ch)
  BY <1>1, <1>2, <1>4 DEF InChain
<1> QED BY <1>5, <1>6, <1>7 DEF rest

\* What a recomputation of r puts out of step is in the chain.
Followed(r, ch) ==
    /\ r = "TERRENO_VENTA" => InChain("costos", ch)
    /\ r = "INMUEBLE_RENTA" => InChain("ingresos", ch)
    /\ r \in {"TERRENO_VENTA", "INMUEBLE_VENTA", "INMUEBLE_RENTA"} \cup Kept => InChain("resumen", ch)

\* The first step of a closed chain is followed by what it puts out of step, and the rest is closed.
LEMMA ClosedRest ==
    ASSUME NEW ch \in Seq(Recomputed), ch # << >>, Closed(ch)
    PROVE  Followed(Head(ch), Tail(ch)) /\ Closed(Tail(ch))
<1> DEFINE rest == Tail(ch)
<1>1. Len(ch) \in Nat /\ Len(ch) >= 1 /\ Len(rest) = Len(ch) - 1 /\ Head(ch) = ch[1] /\ 1 \in 1..Len(ch)
  OBVIOUS
<1>2. \A i \in 1..Len(rest) : rest[i] = ch[i + 1] /\ i + 1 \in 1..Len(ch)
  BY <1>1
<1>3. \A j \in 1..Len(ch), i \in 1..Len(rest) : i + 1 < j => j - 1 \in 1..Len(rest) /\ i < j - 1 /\ rest[j - 1] = ch[j]
  BY <1>1
<1>4. \A a : After(1, ch, a) => InChain(a, rest)
  BY InRest
<1> HIDE DEF rest
<1>5. Followed(Head(ch), rest)
  BY <1>1, <1>4 DEF Closed, Followed
<1>6. ASSUME NEW i \in 1..Len(rest), NEW a, After(i + 1, ch, a) PROVE After(i, rest, a)
  BY <1>3, <1>6 DEF After
<1>7. Closed(rest)
  BY <1>2, <1>6 DEF Closed
<1> QED BY <1>5, <1>7 DEF rest

\* A step followed by what it puts out of step can come before a closed chain.
LEMMA ClosedFirst ==
    ASSUME NEW r \in Recomputed, NEW ch \in Seq(Recomputed), Followed(r, ch), Closed(ch)
    PROVE  Closed(<<r>> \o ch)
<1> DEFINE rch == <<r>> \o ch
<1>1. Len(rch) = 1 + Len(ch) /\ Len(ch) \in Nat /\ rch[1] = r
  OBVIOUS
<1>2. \A i \in 1..Len(rch) : i = 1 \/ (i - 1 \in 1..Len(ch) /\ rch[i] = ch[i - 1])
  <2>1. \A i \in 1..Len(rch) : i = 1 \/ i - 1 \in 1..Len(ch)
    BY <1>1
  <2>2. \A i \in 1..Len(rch) : i - 1 \in 1..Len(ch) => rch[i] = ch[i - 1]
    OBVIOUS
  <2> QED BY <2>1, <2>2
<1>3. \A j \in 1..Len(ch) : j + 1 \in 1..Len(rch) /\ 1 < j + 1 /\ rch[j + 1] = ch[j]
  OBVIOUS
<1>4. \A i \in 1..Len(rch), j \in 1..Len(ch) : i - 1 < j => i < j + 1
  BY <1>1
<1> HIDE DEF rch
<1>5. \A a : InChain(a, ch) => After(1, rch, a)
  BY <1>3 DEF InChain, After
<1>6. ASSUME NEW i \in 1..Len(rch), NEW a, After(i - 1, ch, a) PROVE After(i, rch, a)
  BY <1>3, <1>4, <1>6 DEF After
<1>7. Closed(rch)
  BY <1>1, <1>2, <1>5, <1>6 DEF Closed, Followed
<1> QED BY <1>7 DEF rch

\* Two closed chains, one after the other, are closed.
LEMMA ClosedOn ==
    ASSUME NEW x \in Seq(Recomputed), NEW y \in Seq(Recomputed), Closed(x), Closed(y)
    PROVE  Closed(x \o y)
<1> DEFINE xy == x \o y
<1>1. Len(xy) = Len(x) + Len(y) /\ Len(x) \in Nat /\ Len(y) \in Nat
  OBVIOUS
<1>2. \A i \in 1..Len(x) : i \in 1..Len(xy) /\ xy[i] = x[i]
  OBVIOUS
<1>3. \A i \in 1..Len(y) : Len(x) + i \in 1..Len(xy) /\ xy[Len(x) + i] = y[i]
  OBVIOUS
<1>4. \A i \in 1..Len(xy) : i \in 1..Len(x) \/ (i - Len(x) \in 1..Len(y) /\ xy[i] = y[i - Len(x)])
  <2>1. \A i \in 1..Len(xy) : i \in 1..Len(x) \/ i - Len(x) \in 1..Len(y)
    BY <1>1
  <2>2. \A i \in 1..Len(xy) : i - Len(x) \in 1..Len(y) => xy[i] = y[i - Len(x)]
    OBVIOUS
  <2> QED BY <2>1, <2>2
<1>5. \A i \in 1..Len(xy), j \in 1..Len(y) : i - Len(x) < j => i < Len(x) + j
  BY <1>1
<1> HIDE DEF xy
<1>6. ASSUME NEW i \in 1..Len(x), NEW a, After(i, x, a) PROVE After(i, xy, a)
  BY <1>2, <1>6 DEF After
<1>7. ASSUME NEW i \in 1..Len(xy), NEW a, After(i - Len(x), y, a) PROVE After(i, xy, a)
  BY <1>3, <1>5, <1>7 DEF After
<1>8. ASSUME NEW i \in 1..Len(xy)
      PROVE  /\ xy[i] = "TERRENO_VENTA" => After(i, xy, "costos")
             /\ xy[i] = "INMUEBLE_RENTA" => After(i, xy, "ingresos")
             /\ xy[i] \in {"TERRENO_VENTA", "INMUEBLE_VENTA", "INMUEBLE_RENTA"} \cup Kept => After(i, xy, "resumen")
  <2>1. CASE i \in 1..Len(x)
    BY <2>1, <1>2, <1>6 DEF Closed
  <2>2. CASE i - Len(x) \in 1..Len(y) /\ xy[i] = y[i - Len(x)]
    BY <2>2, <1>7 DEF Closed
  <2> QED BY <2>1, <2>2, <1>4
<1> QED BY <1>8 DEF xy, Closed

-----------------------------------------------------------------------------
(* The chains of the saves *)

\* A chain with nothing left is closed,
LEMMA NoneClosed == Closed(<< >>)
BY DEF Closed

\* and one that feeds nothing,
LEMMA OneClosed == \A r \in {"resumen", "estadistico", "TERRENO_RENTA"} : Closed(<<r>>)
BY DEF Closed, Kept, After

\* and one that feeds only the conclusion.
LEMMA TwoClosed == \A r \in Kept : Closed(<<r, "resumen">>)
<1> SUFFICES ASSUME NEW r \in Kept PROVE Closed(<<r, "resumen">>)
  OBVIOUS
<1> DEFINE ch == <<r, "resumen">>
<1>1. Len(ch) = 2 /\ ch[1] = r /\ ch[2] = "resumen"
  OBVIOUS
<1> HIDE DEF ch
<1>2. After(1, ch, "resumen")
  BY <1>1 DEF After
<1>3. \A i \in 1..Len(ch) : i = 1 \/ i = 2
  BY <1>1
<1>4. Closed(ch)
  BY <1>1, <1>2, <1>3 DEF Closed, Kept
<1> QED BY <1>4 DEF ch

\* What recomputeCosts and recomputeIncome recompute, each closed.
LEMMA CostsInChain ==
    /\ recomputeCosts \in Seq(Recomputed) /\ recomputeIncome \in Seq(Recomputed)
    /\ \A a : InChain(a, recomputeCosts) <=> a \in {"costos", "resumen"}
    /\ \A a : InChain(a, recomputeIncome) <=> a \in {"ingresos", "resumen"}
    /\ Closed(recomputeCosts) /\ Closed(recomputeIncome)
<1>1. recomputeCosts \in Seq(Recomputed) /\ recomputeIncome \in Seq(Recomputed)
  BY CostsClimb, IncomeClimbs DEF Climbs
<1>2. (\A a : InChain(a, recomputeCosts) <=> a \in {"costos", "resumen"})
      /\ \A a : InChain(a, recomputeIncome) <=> a \in {"ingresos", "resumen"}
  BY TwoInChain DEF recomputeCosts, recomputeIncome
<1>3. Closed(recomputeCosts) /\ Closed(recomputeIncome)
  BY TwoClosed DEF Kept, recomputeCosts, recomputeIncome
<1> QED BY <1>1, <1>2, <1>3

\* What follows from a market is in the chain of its dependents.
LEMMA DependentsInChain ==
    ASSUME NEW m \in Markets
    PROVE  /\ recomputeDependents(m) \in Seq(Recomputed)
           /\ Followed(m, recomputeDependents(m))
           /\ \A a : InChain(a, recomputeDependents(m)) => a \in {"costos", "ingresos", "resumen"}
           /\ Closed(recomputeDependents(m))
<1> DEFINE costs == IF m = "TERRENO_VENTA" THEN recomputeCosts ELSE << >>
           income == IF m = "INMUEBLE_RENTA" THEN recomputeIncome ELSE << >>
           last == IF isRentComparableType(m) THEN << >> ELSE <<"resumen">>
           both == costs \o income
           all == both \o last
<1>1. costs \in Seq(Recomputed) /\ income \in Seq(Recomputed) /\ last \in Seq(Recomputed)
  <2>1. "resumen" \in Recomputed
    BY DEF Recomputed
  <2>2. <<"resumen">> \in Seq(Recomputed) /\ << >> \in Seq(Recomputed)
    BY <2>1
  <2> QED BY <2>2, CostsInChain
<1>2. Closed(costs) /\ Closed(income) /\ Closed(last)
  BY CostsInChain, NoneClosed, OneClosed
<1>3. \A a : /\ InChain(a, costs) <=> m = "TERRENO_VENTA" /\ a \in {"costos", "resumen"}
             /\ InChain(a, income) <=> m = "INMUEBLE_RENTA" /\ a \in {"ingresos", "resumen"}
             /\ InChain(a, last) <=> ~isRentComparableType(m) /\ a = "resumen"
  BY CostsInChain, NoneInChain, OneInChain
<1> HIDE DEF costs, income, last
<1>4. both \in Seq(Recomputed) /\ Closed(both) /\ \A a : InChain(a, both) <=> InChain(a, costs) \/ InChain(a, income)
  BY <1>1, <1>2, InEither, ClosedOn
<1> HIDE DEF both
<1>5. all \in Seq(Recomputed) /\ Closed(all) /\ \A a : InChain(a, all) <=> InChain(a, both) \/ InChain(a, last)
  BY <1>1, <1>2, <1>4, InEither, ClosedOn
<1> HIDE DEF all
<1>6. \A a : InChain(a, all) => a \in {"costos", "ingresos", "resumen"}
  BY <1>3, <1>4, <1>5
<1>7. Followed(m, all)
  BY <1>3, <1>4, <1>5, FedNamed DEF Followed, isRentComparableType, Kept
<1> QED BY <1>5, <1>6, <1>7 DEF all, both, costs, income, last, recomputeDependents

\* What the chain of a market recomputes, closed.
LEMMA MarketInChain ==
    ASSUME NEW m \in Markets
    PROVE  /\ recompute(m) \in Seq(Recomputed) /\ Closed(recompute(m))
           /\ InChain(m, recompute(m)) /\ Followed(m, recompute(m))
           /\ \A a : InChain(a, recompute(m)) => a \in {m, "costos", "ingresos", "resumen"}
<1> DEFINE deps == recomputeDependents(m)
<1>1. deps \in Seq(Recomputed) /\ Followed(m, deps) /\ Closed(deps)
      /\ \A a : InChain(a, deps) => a \in {"costos", "ingresos", "resumen"}
  BY DependentsInChain
<1> HIDE DEF deps
<1>2. m \in Recomputed /\ <<m>> \in Seq(Recomputed)
  BY MarketLevels
<1> DEFINE ch == <<m>> \o deps
<1>3. ch \in Seq(Recomputed) /\ Closed(ch) /\ \A a : InChain(a, ch) <=> a = m \/ InChain(a, deps)
  <2>1. ch \in Seq(Recomputed)
    BY <1>1, <1>2
  <2>2. Closed(ch)
    BY <1>1, <1>2, ClosedFirst
  <2>3. \A a : InChain(a, ch) <=> InChain(a, <<m>>) \/ InChain(a, deps)
    BY <1>1, <1>2, InEither
  <2> HIDE DEF ch
  <2> QED BY <2>1, <2>2, <2>3, OneInChain
<1> HIDE DEF ch
<1>4. Followed(m, ch)
  BY <1>1, <1>3 DEF Followed
<1> QED BY <1>1, <1>3, <1>4 DEF recompute, ch, deps

\* A change of the precision recomputes every market that is captured.
LEMMA PrecisionInChain ==
    ASSUME NEW v
    PROVE  /\ recomputeMarkets(v) \in Seq(Recomputed) /\ Closed(recomputeMarkets(v))
           /\ \A m \in Markets : v[m].capture # NoValue => InChain(m, recomputeMarkets(v))
           /\ \A a \in {"costos", "ingresos", "resumen"} : InChain(a, recomputeMarkets(v))
           /\ \A a : InChain(a, recomputeMarkets(v)) => a \in Fed \cup {"resumen"}
<1> DEFINE Of(i) == IF v[COMPARABLE_TYPES[i]].capture = NoValue THEN << >> ELSE recompute(COMPARABLE_TYPES[i])
           Fits(x) == x \in Seq(Recomputed) /\ Closed(x) /\ \A a : InChain(a, x) => a \in Fed \cup {"resumen"}
<1>1. \A i \in 1..4 : COMPARABLE_TYPES[i] \in Markets
  BY DEF Markets
<1>2. \A m \in Markets : \E i \in 1..4 : COMPARABLE_TYPES[i] = m
  BY DEF Markets
<1>3. << >> \in Seq(Recomputed) /\ Closed(<< >>) /\ \A a : ~InChain(a, << >>)
  BY NoneClosed, NoneInChain
<1>4. \A m \in Markets : recompute(m) \in Seq(Recomputed) /\ Closed(recompute(m)) /\ InChain(m, recompute(m))
                         /\ \A a : InChain(a, recompute(m)) => a \in Fed \cup {"resumen"}
  BY MarketInChain DEF Fed
<1>5. \A i \in 1..4 : Fits(Of(i))
  BY <1>1, <1>3, <1>4
<1>6. \A i \in 1..4 : v[COMPARABLE_TYPES[i]].capture # NoValue => InChain(COMPARABLE_TYPES[i], Of(i))
  BY <1>1, <1>4
<1>7. Fits(recomputeCosts) /\ Fits(recomputeIncome)
  BY CostsInChain DEF Fed
<1> DEFINE o1 == Of(1) o2 == Of(2) o3 == Of(3) o4 == Of(4)
           s2 == o1 \o o2 s3 == s2 \o o3 s4 == s3 \o o4 s5 == s4 \o recomputeCosts s6 == s5 \o recomputeIncome
<1>8. Fits(o1) /\ Fits(o2) /\ Fits(o3) /\ Fits(o4)
  BY <1>5
<1>9. recomputeMarkets(v) = s6
  BY DEF recomputeMarkets
<1>10. \A m \in Markets : v[m].capture # NoValue => InChain(m, o1) \/ InChain(m, o2) \/ InChain(m, o3) \/ InChain(m, o4)
  <2> SUFFICES ASSUME NEW m \in Markets, v[m].capture # NoValue
               PROVE  InChain(m, o1) \/ InChain(m, o2) \/ InChain(m, o3) \/ InChain(m, o4)
    OBVIOUS
  <2>1. PICK i \in 1..4 : COMPARABLE_TYPES[i] = m
    BY <1>2
  <2>2. InChain(m, Of(i))
    BY <2>1, <1>6
  <2>3. i = 1 \/ i = 2 \/ i = 3 \/ i = 4
    OBVIOUS
  <2> HIDE DEF Of
  <2> QED BY <2>2, <2>3
<1> HIDE DEF Of, o1, o2, o3, o4
<1>11. ASSUME NEW x, NEW y, Fits(x), Fits(y)
       PROVE  Fits(x \o y) /\ \A a : InChain(a, x \o y) <=> InChain(a, x) \/ InChain(a, y)
  <2>1. x \o y \in Seq(Recomputed)
    BY <1>11
  <2> QED BY <1>11, <2>1, InEither, ClosedOn
<1> HIDE DEF Fits
<1>12. Fits(s2) /\ \A a : InChain(a, s2) <=> InChain(a, o1) \/ InChain(a, o2)
  BY <1>8, <1>11
<1> HIDE DEF s2
<1>13. Fits(s3) /\ \A a : InChain(a, s3) <=> InChain(a, s2) \/ InChain(a, o3)
  BY <1>8, <1>11, <1>12
<1> HIDE DEF s3
<1>14. Fits(s4) /\ \A a : InChain(a, s4) <=> InChain(a, s3) \/ InChain(a, o4)
  BY <1>8, <1>11, <1>13
<1> HIDE DEF s4
<1>15. Fits(s5) /\ \A a : InChain(a, s5) <=> InChain(a, s4) \/ InChain(a, recomputeCosts)
  BY <1>7, <1>11, <1>14
<1> HIDE DEF s5
<1>16. Fits(s6) /\ \A a : InChain(a, s6) <=> InChain(a, s5) \/ InChain(a, recomputeIncome)
  BY <1>7, <1>11, <1>15
<1> HIDE DEF s6
<1>17. \A m \in Markets : v[m].capture # NoValue => InChain(m, s6)
  BY <1>10, <1>12, <1>13, <1>14, <1>15, <1>16
<1>18. \A a \in {"costos", "ingresos", "resumen"} : InChain(a, s6)
  BY <1>15, <1>16, CostsInChain
<1> QED BY <1>9, <1>16, <1>17, <1>18 DEF Fits

-----------------------------------------------------------------------------
(* What stays in step *)

\* Only the row of r changes.
Changes(v, w, r, row) == \A q \in Rows : w[q] = IF q = r THEN row ELSE v[q]

LineOK(v) == v["resumen"].capture \in Lines

AllTold(v) == Told(v, << >>)

Pending(ch) == ch \in Seq(Recomputed) /\ ch # << >>

Holding(row, c, x) == row.capture = c /\ row.value = x

\* What a chain stores in the row of r.
Stores(v, r, row) ==
    Holding(row, IF r \in Markets /\ v[r].capture = NoValue THEN Default ELSE v[r].capture, Computed(v, r))

SameTables(v, w) == \A r \in Tables : w[r] = v[r]

SameComparables(v, w) == \A q \in Comparables : w[q] = v[q]

\* The offers of a market and their numbers depend on its comparables alone.
LEMMA ComparablesKeepOffers ==
    ASSUME NEW v, NEW w, SameComparables(v, w), NEW m
    PROVE  SameOffers(v, w, m) /\ ReferencesOf(w, m) = ReferencesOf(v, m)
<1>1. ComparablesOf(w, m) = ComparablesOf(v, m)
  BY DEF SameComparables, ComparablesOf
<1>2. ComparablesOf(v, m) \subseteq Comparables
  BY DEF ComparablesOf
<1>3. Offers(w, m) = Offers(v, m)
  BY <1>1, <1>2 DEF SameComparables, Offers
<1>4. ReferencesOf(w, m) = ReferencesOf(v, m)
  BY <1>1, <1>2 DEF SameComparables, ReferencesOf
<1> QED BY <1>1, <1>3, <1>4 DEF SameOffers

\* A change of one table leaves the others and every comparable as they were.
LEMMA TableChanges ==
    ASSUME NEW v, NEW w, NEW r \in Tables, NEW row, Changes(v, w, r, row)
    PROVE  /\ w[r] = row /\ \A q \in Tables : q # r => w[q] = v[q]
           /\ SameComparables(v, w)
           /\ \A m : SameOffers(v, w, m) /\ ReferencesOf(w, m) = ReferencesOf(v, m)
<1>1. w[r] = row /\ \A q \in Tables : q # r => w[q] = v[q]
  BY TablesAreNoComparables DEF Changes
<1>2. SameComparables(v, w)
  BY TablesAreNoComparables DEF Changes, SameComparables, Rows
<1> QED BY <1>1, <1>2, ComparablesKeepOffers

\* What is not touched stays in step, what is touched is computed or is still to
\* be recomputed.
LEMMA ToldMoves ==
    ASSUME NEW v, NEW w, NEW ch, NEW new, Told(v, ch), LineOK(v),
           \A a \in Fed : \/ InChain(a, new) \/ w[a].value = Computed(w, a)
                          \/ SameInputs(v, w, a) /\ w[a].value = v[a].value /\ ~InChain(a, ch),
           \/ InChain("resumen", new) \/ ConclusionInStep(w)
           \/ SameValues(v, w) /\ w["resumen"].value = v["resumen"].value /\ ~InChain("resumen", ch)
    PROVE  Told(w, new)
<1>1. ASSUME NEW a \in Fed PROVE w[a].value = Computed(w, a) \/ InChain(a, new)
  BY SameInputsCompute DEF Told
<1>2. Unchained(w) \/ ConclusionInStep(w) \/ InChain("resumen", new)
  <2> SUFFICES ASSUME ~Unchained(w), SameValues(v, w), w["resumen"].value = v["resumen"].value, ~InChain("resumen", ch)
               PROVE  ConclusionInStep(w)
    OBVIOUS
  <2>1. conclusionInput(w) = conclusionInput(v) /\ ~Unchained(v)
    BY SameValuesConclude DEF LineOK
  <2> QED BY <2>1 DEF Told, ConclusionInStep
<1> QED BY <1>1, <1>2 DEF Told

\* What is fed is recomputed, and is none of the rows only captured.
LEMMA FedAreTables ==
    /\ Fed \subseteq Tables \ {"precision", "construcciones", "secciones", "resumen", "maquinaria", "estadistico"}
    /\ Fed \subseteq Recomputed
    /\ {"precision", "construcciones", "secciones", "resumen", "maquinaria", "estadistico"} \subseteq Tables
BY DEF Fed, Recomputed, Markets, COMPARABLE_TYPES, Tables, Approaches

\* Another capture or another value in a table other than the precision.
LEMMA TableMoves ==
    ASSUME NEW v, NEW w, NEW r \in Tables \ {"precision"}, NEW row, Changes(v, w, r, row),
           NEW ch, NEW new, Told(v, ch), LineOK(v),
           r \in Fed => InChain(r, new) \/ row.value = Computed(w, r),
           r = "TERRENO_VENTA" => InChain("costos", new) \/ row.value = v[r].value,
           r = "construcciones" => InChain("costos", new),
           r = "INMUEBLE_RENTA" => InChain("ingresos", new),
           \/ InChain("resumen", new)
           \/ r = "resumen" /\ row.value = conclusionInput(w)
           \/ /\ r # "resumen"
              /\ r \in {"secciones", "maquinaria"} => row.capture = v[r].capture
              /\ r \in {"maquinaria", "costos", "ingresos", "TERRENO_VENTA", "INMUEBLE_VENTA", "INMUEBLE_RENTA"} =>
                    row.value = v[r].value,
           \A a \in Fed \cup {"resumen"} : a # r /\ InChain(a, ch) => InChain(a, new)
    PROVE  Told(w, new)
<1>1. w[r] = row /\ (\A q \in Tables : q # r => w[q] = v[q]) /\ \A m : SameOffers(v, w, m)
  BY TableChanges
<1>2. ASSUME NEW a \in Fed, a # r, ~InChain(a, new) PROVE SameInputs(v, w, a) /\ w[a].value = v[a].value
  <2>1. w[a] = v[a] /\ w["precision"] = v["precision"]
    BY <1>1, <1>2, FedAreTables
  <2>2. a = "costos" => w["construcciones"] = v["construcciones"] /\ w["TERRENO_VENTA"].value = v["TERRENO_VENTA"].value
    BY <1>1, <1>2, FedAreTables, FedNamed
  <2>3. a = "ingresos" => w["INMUEBLE_RENTA"] = v["INMUEBLE_RENTA"]
    BY <1>1, <1>2, FedAreTables, FedNamed
  <2> QED BY <1>1, <2>1, <2>2, <2>3 DEF SameInputs
<1>3. ASSUME NEW a \in Fed
      PROVE  \/ InChain(a, new) \/ w[a].value = Computed(w, a)
             \/ SameInputs(v, w, a) /\ w[a].value = v[a].value /\ ~InChain(a, ch)
  <2>1. CASE a = r
    BY <2>1, <1>1
  <2>2. CASE a # r
    BY <2>2, <1>2
  <2> QED BY <2>1, <2>2
<1>4. \/ InChain("resumen", new) \/ ConclusionInStep(w)
      \/ SameValues(v, w) /\ w["resumen"].value = v["resumen"].value /\ ~InChain("resumen", ch)
  <2>1. CASE InChain("resumen", new)
    BY <2>1
  <2>2. CASE r = "resumen" /\ row.value = conclusionInput(w)
    BY <2>2, <1>1 DEF ConclusionInStep
  <2>3. CASE /\ r # "resumen"
             /\ r \in {"secciones", "maquinaria"} => row.capture = v[r].capture
             /\ r \in {"maquinaria", "costos", "ingresos", "TERRENO_VENTA", "INMUEBLE_VENTA", "INMUEBLE_RENTA"} =>
                    row.value = v[r].value
    <3>1. \A q \in {"secciones", "resumen", "maquinaria"} : w[q].capture = v[q].capture
      BY <2>3, <1>1, FedAreTables
    <3>2. \A q \in {"maquinaria", "costos", "ingresos", "TERRENO_VENTA", "INMUEBLE_VENTA", "INMUEBLE_RENTA"} :
             w[q].value = v[q].value
      BY <2>3, <1>1, FedAreTables, FedNamed
    <3>3. w["resumen"] = v["resumen"]
      BY <2>3, <1>1, FedAreTables
    <3> QED BY <2>3, <3>1, <3>2, <3>3 DEF SameValues
  <2> QED BY <2>1, <2>2, <2>3
<1> QED BY <1>3, <1>4, ToldMoves

\* The comparables of one market change.
LEMMA ComparablesMove ==
    ASSUME NEW v, NEW w, NEW k \in Markets, SameTables(v, w), \A m \in Markets : m # k => SameOffers(v, w, m),
           NEW ch, NEW new, Told(v, ch), LineOK(v),
           InChain(k, new), k = "INMUEBLE_RENTA" => InChain("ingresos", new),
           \A a \in Fed \cup {"resumen"} : InChain(a, ch) => InChain(a, new)
    PROVE  Told(w, new)
<1>1. ASSUME NEW a \in Fed, ~InChain(a, new) PROVE SameInputs(v, w, a) /\ w[a].value = v[a].value
  <2>1. w[a] = v[a] /\ w["precision"] = v["precision"] /\ w["construcciones"] = v["construcciones"]
        /\ w["TERRENO_VENTA"] = v["TERRENO_VENTA"] /\ w["INMUEBLE_RENTA"] = v["INMUEBLE_RENTA"]
    BY <1>1, FedAreTables, FedNamed DEF SameTables
  <2>2. a \in Markets => SameOffers(v, w, a)
    BY <1>1
  <2>3. a = "ingresos" => SameOffers(v, w, "INMUEBLE_RENTA")
    BY <1>1, FedNamed
  <2> QED BY <2>1, <2>2, <2>3 DEF SameInputs
<1>2. SameValues(v, w) /\ w["resumen"].value = v["resumen"].value
  BY FedAreTables, FedNamed DEF SameTables, SameValues
<1>3. \A a \in Fed : \/ InChain(a, new) \/ w[a].value = Computed(w, a)
                     \/ SameInputs(v, w, a) /\ w[a].value = v[a].value /\ ~InChain(a, ch)
  BY <1>1
<1>4. \/ InChain("resumen", new) \/ ConclusionInStep(w)
      \/ SameValues(v, w) /\ w["resumen"].value = v["resumen"].value /\ ~InChain("resumen", ch)
  BY <1>2
<1> QED BY <1>3, <1>4, ToldMoves

\* What is not captured is computed to nothing.
LEMMA NothingComputed ==
    ASSUME NEW v, NEW a \in Fed, v[a].capture = NoValue
    PROVE  Computed(v, a) = NoValue
<1>1. NoValue \notin Complete
  BY CapturesAssumption, NamesAssumption
<1>2. a \in Markets => MarketValue(v, a) = NoValue
  BY <1>1 DEF MarketValue
<1>3. a = "costos" => CostValue(v) = NoValue
  BY <1>1 DEF CostValue
<1>4. a = "ingresos" => IncomeValue(v) = NoValue
  BY <1>1 DEF IncomeValue
<1> QED BY <1>2, <1>3, <1>4, ComputedByKind DEF Fed

\* Another precision: what the chain leaves out is not captured.
LEMMA PrecisionMoves ==
    ASSUME NEW v, NEW w, NEW row, Changes(v, w, "precision", row), \A a \in Fed : Bare(v[a])
    PROVE  Told(w, recomputeMarkets(v)) /\ Closed(recomputeMarkets(v))
<1> DEFINE ch == recomputeMarkets(v)
<1>1. Closed(ch) /\ (\A m \in Markets : v[m].capture # NoValue => InChain(m, ch))
      /\ \A a \in {"costos", "ingresos", "resumen"} : InChain(a, ch)
  BY PrecisionInChain
<1> HIDE DEF ch
<1>2. \A q \in Fed : w[q] = v[q]
  BY TableChanges, FedAreTables
<1>3. ASSUME NEW a \in Fed, ~InChain(a, ch) PROVE w[a].value = Computed(w, a)
  <2>1. v[a].capture = NoValue
    BY <1>1, <1>3 DEF Fed
  <2> QED BY <2>1, <1>2, NothingComputed DEF Bare
<1> QED BY <1>1, <1>3 DEF Told, ch

\* Nothing to do for what is not captured.
LEMMA SkipMoves ==
    ASSUME NEW v, NEW ch, Pending(ch), Told(v, ch), Closed(ch),
           Head(ch) \in Kept, v[Head(ch)].capture = NoValue, \A a \in Fed : Bare(v[a])
    PROVE  Told(v, Tail(ch)) /\ Closed(Tail(ch))
<1> DEFINE r == Head(ch)
           rest == Tail(ch)
<1>1. Closed(rest) /\ \A a : InChain(a, ch) <=> a = r \/ InChain(a, rest)
  BY ClosedRest, InRest DEF Pending
<1>2. r \in Fed => v[r].value = Computed(v, r)
  BY NothingComputed DEF Bare
<1>3. r # "resumen"
  BY DEF Kept
<1> HIDE DEF r, rest
<1>4. Told(v, rest)
  BY <1>1, <1>2, <1>3 DEF Told
<1> QED BY <1>1, <1>4 DEF rest

\* What is stored is what was computed; what it puts out of step is still in
\* the chain.
LEMMA StoreMoves ==
    ASSUME NEW v, NEW w, NEW ch, Pending(ch), NEW row, Changes(v, w, Head(ch), row),
           Told(v, ch), Closed(ch), LineOK(v),
           Stores(v, Head(ch), row)
    PROVE  Told(w, Tail(ch)) /\ Closed(Tail(ch))
<1> DEFINE r == Head(ch)
           rest == Tail(ch)
           capture == IF r \in Markets /\ v[r].capture = NoValue THEN Default ELSE v[r].capture
<1>1. Closed(rest) /\ Followed(r, rest) /\ \A a : InChain(a, ch) <=> a = r \/ InChain(a, rest)
  BY ClosedRest, InRest DEF Pending
<1>2. r \in Recomputed
  BY RestAscends DEF Pending
<1>9. Changes(v, w, r, row)
  OBVIOUS
<1>10. Stores(v, r, row)
  OBVIOUS
<1> HIDE DEF r, rest
<1>4. r \in Tables \ {"precision"} /\ r \notin {"construcciones", "secciones"}
  BY <1>2, RecomputedAreTables
<1>5. w[r] = row /\ (\A q \in Tables : q # r => w[q] = v[q]) /\ \A m : SameOffers(v, w, m)
  BY <1>4, <1>9, TableChanges
<1>3. row.value = Computed(v, r) /\ row.capture = capture
  BY <1>10 DEF Holding, Stores
<1>6. ASSUME r \in Fed PROVE Computed(w, r) = row.value
  <2>1. CASE r \in Markets /\ v[r].capture = NoValue
    <3>1. NoValue \notin Complete /\ Default \notin Complete
      BY CapturesAssumption, NamesAssumption
    <3>2. MarketValue(v, r) = NoValue /\ MarketValue(w, r) = NoValue
      BY <2>1, <3>1, <1>3, <1>5 DEF MarketValue
    <3> QED BY <2>1, <3>2, <1>3, ComputedByKind
  <2>2. CASE ~(r \in Markets /\ v[r].capture = NoValue)
    <3>1. w[r].capture = v[r].capture /\ w["precision"] = v["precision"] /\ \A m : SameOffers(v, w, m)
      BY <2>2, <1>3, <1>4, <1>5, FedAreTables
    <3>2. r = "costos" => w["construcciones"] = v["construcciones"] /\ w["TERRENO_VENTA"] = v["TERRENO_VENTA"]
      BY <1>5, FedAreTables, FedNamed
    <3>3. r = "ingresos" => w["INMUEBLE_RENTA"] = v["INMUEBLE_RENTA"]
      BY <1>5, FedAreTables, FedNamed
    <3>4. SameInputs(v, w, r)
      BY <3>1, <3>2, <3>3 DEF SameInputs
    <3> QED BY <3>4, <1>3, <1>6, SameInputsCompute
  <2> QED BY <2>1, <2>2
<1>7. ASSUME r = "resumen" PROVE row.value = conclusionInput(w)
  <2>1. row.capture = v[r].capture
    BY <1>3, <1>7, FedNamed
  <2>2. \A q \in Tables : q # "resumen" => w[q] = v[q]
    BY <1>5, <1>7
  <2>3. \A q \in {"secciones", "maquinaria", "estadistico", "costos", "ingresos", "TERRENO_VENTA", "INMUEBLE_VENTA",
                  "INMUEBLE_RENTA", "TERRENO_RENTA"} : w[q] = v[q]
    BY <2>2, FedAreTables, FedNamed
  <2>4. approachValues(w) = approachValues(v)
    BY <2>3 DEF approachValues, Included, marketLeftOut
  <2>5. \A source : availableValue(w, source) = availableValue(v, source)
    BY <2>3 DEF availableValue, Included
  <2>6. w["resumen"].capture = v["resumen"].capture
    BY <1>5, <1>7, <2>1
  <2>7. conclusionInput(w) = conclusionInput(v)
    BY <2>4, <2>5, <2>6 DEF conclusionInput
  <2> QED BY <2>7, <1>3, <1>7, ComputedByKind
<1>8. Told(w, rest)
  <2>1. \A a \in Fed \cup {"resumen"} : a # r /\ InChain(a, ch) => InChain(a, rest)
    BY <1>1
  <2>2. r \in Fed => InChain(r, rest) \/ row.value = Computed(w, r)
    BY <1>6
  <2>3. /\ r = "TERRENO_VENTA" => InChain("costos", rest) \/ row.value = v[r].value
        /\ r = "construcciones" => InChain("costos", rest)
        /\ r = "INMUEBLE_RENTA" => InChain("ingresos", rest)
    BY <1>1, <1>4 DEF Followed
  <2>4. \/ InChain("resumen", rest)
        \/ r = "resumen" /\ row.value = conclusionInput(w)
        \/ /\ r # "resumen"
           /\ r \in {"secciones", "maquinaria"} => row.capture = v[r].capture
           /\ r \in {"maquinaria", "costos", "ingresos", "TERRENO_VENTA", "INMUEBLE_VENTA", "INMUEBLE_RENTA"} =>
                 row.value = v[r].value
    BY <1>1, <1>4, <1>7 DEF Followed, Kept
  <2> QED BY <1>9, <1>4, <2>1, <2>2, <2>3, <2>4, TableMoves
<1> QED BY <1>1, <1>8 DEF rest

\* A market without comparables is taken out with the value it had.
LEMMA DeleteMarketMoves ==
    ASSUME NEW v, NEW w, NEW m \in Markets, NEW row, Changes(v, w, m, row),
           Holding(row, NoValue, NoValue), AllTold(v), LineOK(v)
    PROVE  Told(w, recomputeDependents(m)) /\ Closed(recomputeDependents(m))
<1> DEFINE ch == recomputeDependents(m)
<1>1. Followed(m, ch) /\ Closed(ch)
  BY DependentsInChain
<1>2. m \in Fed /\ m \in Tables \ {"precision"} /\ m \notin {"resumen", "construcciones", "secciones", "maquinaria"}
  BY MarketTables, FedAreTables DEF Fed
<1> HIDE DEF ch
<1>3. row.value = Computed(w, m)
  <2>1. w[m] = row
    BY <1>2, TableChanges
  <2> QED BY <1>2, <2>1, NothingComputed DEF Holding
<1>5. /\ m = "TERRENO_VENTA" => InChain("costos", ch) \/ row.value = v[m].value
      /\ m = "construcciones" => InChain("costos", ch)
      /\ m = "INMUEBLE_RENTA" => InChain("ingresos", ch)
  BY <1>1, <1>2 DEF Followed
<1>6. \/ InChain("resumen", ch)
      \/ m = "resumen" /\ row.value = conclusionInput(w)
      \/ /\ m # "resumen"
         /\ m \in {"secciones", "maquinaria"} => row.capture = v[m].capture
         /\ m \in {"maquinaria", "costos", "ingresos", "TERRENO_VENTA", "INMUEBLE_VENTA", "INMUEBLE_RENTA"} =>
               row.value = v[m].value
  BY <1>1, <1>2, FedNamed DEF Followed, Kept
<1>7. Told(w, ch)
  BY <1>2, <1>3, <1>5, <1>6, NoneInChain, TableMoves DEF AllTold
<1> QED BY <1>1, <1>7 DEF ch

-----------------------------------------------------------------------------
(* The comparables *)

InMarket(row, m) == row.capture # NoValue /\ row.market = m

\* The comparables of a market, one by one.
LEMMA InMarkets == \A v, m : ComparablesOf(v, m) = {q \in Comparables : InMarket(v[q], m)}
BY DEF ComparablesOf, InMarket

\* A change of one comparable leaves the others and every table as they were.
LEMMA ComparableChanges ==
    ASSUME NEW v, NEW w, NEW q \in Comparables, NEW row, Changes(v, w, q, row)
    PROVE  /\ w[q] = row /\ \A o \in Comparables : o # q => w[o] = v[o]
           /\ SameTables(v, w)
<1>1. w[q] = row /\ \A o \in Comparables : o # q => w[o] = v[o]
  BY DEF Changes, Rows
<1>2. SameTables(v, w)
  BY TablesAreNoComparables DEF Changes, SameTables
<1> QED BY <1>1, <1>2

\* A market the comparable is in neither before nor after keeps its comparables.
LEMMA OtherMarkets ==
    ASSUME NEW v, NEW w, NEW q \in Comparables, NEW row, Changes(v, w, q, row),
           NEW m, ~InMarket(v[q], m), ~InMarket(row, m)
    PROVE  SameOffers(v, w, m) /\ ReferencesOf(w, m) = ReferencesOf(v, m)
<1>1. w[q] = row /\ \A o \in Comparables : o # q => w[o] = v[o]
  BY ComparableChanges
<1>2. ComparablesOf(w, m) = ComparablesOf(v, m) /\ ComparablesOf(v, m) \subseteq Comparables \ {q}
  BY <1>1, InMarkets
<1>3. \A o \in ComparablesOf(v, m) : w[o] = v[o]
  BY <1>1, <1>2
<1>4. Offers(w, m) = Offers(v, m)
  BY <1>2, <1>3 DEF Offers
<1>5. ReferencesOf(w, m) = ReferencesOf(v, m)
  BY <1>2, <1>3 DEF ReferencesOf
<1> QED BY <1>2, <1>4, <1>5 DEF SameOffers

\* One that stays in its market keeps its reference there.
LEMMA Stays ==
    ASSUME NEW v, NEW w, NEW q \in Comparables, NEW row, Changes(v, w, q, row),
           NEW m, InMarket(v[q], m), InMarket(row, m), row.value = v[q].value
    PROVE  ComparablesOf(w, m) = ComparablesOf(v, m) /\ ReferencesOf(w, m) = ReferencesOf(v, m)
<1>1. w[q] = row /\ \A o \in Comparables : o # q => w[o] = v[o]
  BY ComparableChanges
<1>2. ComparablesOf(w, m) = ComparablesOf(v, m) /\ ComparablesOf(v, m) \subseteq Comparables
  BY <1>1, InMarkets
<1>3. \A o \in ComparablesOf(v, m) : w[o].value = v[o].value
  BY <1>1, <1>2
<1> QED BY <1>2, <1>3 DEF ReferencesOf

\* The next reference of a market numbered from 1.
LEMMA NextOfNumbered ==
    ASSUME NEW v, NEW m, NumberedIn(v, m)
    PROVE  /\ Cardinality(ComparablesOf(v, m)) \in Nat
           /\ NextReference(v, m) = Cardinality(ComparablesOf(v, m)) + 1
<1> DEFINE n == Cardinality(ComparablesOf(v, m))
           refs == ReferencesOf(v, m)
<1>1. n \in Nat
  <2>1. ComparablesOf(v, m) \in SUBSET Comparables
    BY DEF ComparablesOf
  <2>2. IsFiniteSet(ComparablesOf(v, m))
    BY <2>1, ComparablesAssumption, FS_Subset
  <2> QED BY <2>2, FS_CardinalityType
<1>2. refs = 1..n
  BY DEF NumberedIn
<1> HIDE DEF n, refs
<1>3. CASE n = 0
  <2>1. refs = {}
    BY <1>2, <1>3
  <2> QED BY <2>1, <1>1, <1>3 DEF NextReference, LastReference, n, refs
<1>4. CASE n # 0
  <2>1. n \in refs /\ (\A k \in refs : k <= n) /\ refs # {}
    BY <1>1, <1>2, <1>4
  <2>2. \A j \in refs : (\A k \in refs : k <= j) => j = n
    BY <1>1, <1>2, <2>1
  <2>3. (CHOOSE j \in refs : \A k \in refs : k <= j) = n
    BY <2>1, <2>2
  <2>4. LastReference(v, m) = n
    BY <2>1, <2>3 DEF LastReference, refs
  <2> QED BY <2>4, <1>1 DEF NextReference, n
<1> QED BY <1>3, <1>4

\* One more, with the next reference.
LEMMA Joins ==
    ASSUME NEW v, NEW w, NEW q \in Comparables, NEW row, Changes(v, w, q, row),
           NEW m, ~InMarket(v[q], m), InMarket(row, m), row.value = NextReference(v, m), NumberedIn(v, m)
    PROVE  NumberedIn(w, m)
<1> DEFINE before == ComparablesOf(v, m)
           after == ComparablesOf(w, m)
           n == Cardinality(before)
<1>1. w[q] = row /\ \A o \in Comparables : o # q => w[o] = v[o]
  BY ComparableChanges
<1>2. after = before \cup {q} /\ q \notin before /\ before \subseteq Comparables
  BY <1>1, InMarkets
<1>3. IsFiniteSet(before)
  <2>1. before \in SUBSET Comparables
    BY <1>2
  <2> QED BY <2>1, ComparablesAssumption, FS_Subset
<1>4. n \in Nat /\ w[q].value = n + 1 /\ {v[o].value : o \in before} = 1..n
  BY <1>1, NextOfNumbered DEF NumberedIn, ReferencesOf
<1>5. Cardinality(after) = n + 1
  <2> HIDE DEF before, after
  <2>1. Cardinality(before \cup {q}) = Cardinality(before) + 1
    BY <1>2, <1>3, FS_AddElement
  <2> QED BY <2>1, <1>2
<1>6. \A o \in before : w[o].value = v[o].value
  BY <1>1, <1>2
<1> HIDE DEF before, after, n
<1>7. {w[o].value : o \in after} = {v[o].value : o \in before} \cup {w[q].value}
  BY <1>2, <1>6
<1>8. {w[o].value : o \in after} = 1..(n + 1)
  <2>1. 1..(n + 1) = (1..n) \cup {n + 1}
    BY <1>4
  <2> QED BY <2>1, <1>4, <1>7
<1> QED BY <1>5, <1>8 DEF NumberedIn, ReferencesOf, after

\* Only the numbers of one market change.
Renumbers(v, w, m, place) ==
    /\ \A q \in Comparables \ ComparablesOf(v, m) : w[q] = v[q]
    /\ \A q \in ComparablesOf(v, m) :
          w[q].capture = v[q].capture /\ w[q].market = v[q].market /\ w[q].value = place[q]

\* The numberings of a market give its comparables the numbers from 1.
LEMMA Renumbered ==
    ASSUME NEW v, NEW w, NEW m, NEW place \in Numberings(v, m), Renumbers(v, w, m, place)
    PROVE  /\ NumberedIn(w, m)
           /\ \A k : SameOffers(v, w, k) /\ (k # m => ReferencesOf(w, k) = ReferencesOf(v, k))
<1> DEFINE rest == ComparablesOf(v, m)
           n == Cardinality(rest)
<1>1. rest \subseteq Comparables /\ \A q \in rest : v[q].market = m
  BY DEF ComparablesOf
<1>2. IsFiniteSet(rest)
  <2>1. rest \in SUBSET Comparables
    BY <1>1
  <2> QED BY <2>1, ComparablesAssumption, FS_Subset
<1>3. n \in Nat
  BY <1>2, FS_CardinalityType
<1>4. place \in [rest -> 1..n] /\ \A q, o \in rest : q # o => place[q] # place[o]
  BY DEF Numberings
<1>5. \A q \in Comparables : w[q].capture = v[q].capture /\ w[q].market = v[q].market
  BY DEF ComparablesOf, Renumbers
<1>6. \A k : ComparablesOf(w, k) = ComparablesOf(v, k)
  BY <1>5 DEF ComparablesOf
<1>7. \A k : Offers(w, k) = Offers(v, k)
  <2> TAKE k
  <2>1. ComparablesOf(v, k) \subseteq Comparables
    BY DEF ComparablesOf
  <2> QED BY <2>1, <1>5, <1>6 DEF Offers
<1>8. ASSUME NEW k, k # m PROVE ReferencesOf(w, k) = ReferencesOf(v, k)
  <2>1. \A q \in ComparablesOf(v, k) : q \in Comparables \ rest
    BY <1>1, <1>8 DEF ComparablesOf
  <2>2. \A q \in ComparablesOf(v, k) : w[q] = v[q]
    BY <2>1 DEF Renumbers
  <2> QED BY <2>2, <1>6 DEF ReferencesOf
<1>9. {place[q] : q \in rest} = 1..n
  <2> HIDE DEF rest
  <2>1. place \in Injection(rest, 1..n)
    BY <1>4 DEF Injection, IsInjective
  <2>2. IsFiniteSet(1..n) /\ Cardinality(1..n) = n
    BY <1>3, FS_Interval
  <2>3. place \in Surjection(rest, 1..n)
    BY <2>1, <2>2, FS_Injection
  <2> QED BY <2>3, <1>4 DEF Surjection
<1>10. ReferencesOf(w, m) = {place[q] : q \in rest}
  BY <1>6 DEF ReferencesOf, Renumbers
<1>11. NumberedIn(w, m)
  BY <1>6, <1>9, <1>10 DEF NumberedIn
<1> QED BY <1>6, <1>7, <1>8, <1>11 DEF SameOffers

\* A market with the same comparables and numbers is numbered the same.
LEMMA SameNumbers ==
    ASSUME NEW v, NEW w, NEW m, ComparablesOf(w, m) = ComparablesOf(v, m), ReferencesOf(w, m) = ReferencesOf(v, m)
    PROVE  (NumberedIn(w, m) <=> NumberedIn(v, m)) /\ NextReference(w, m) = NextReference(v, m)
BY DEF NumberedIn, NextReference, LastReference

-----------------------------------------------------------------------------
(* One request at work *)

\* A transaction sees what it wrote and, for the rest, what is committed.
LEMMA ViewOf ==
    ASSUME NEW t
    PROVE  /\ \A r \in Rows : View(t)[r] = IF mine[t][r] = Unwritten THEN rows[r] ELSE mine[t][r]
           /\ \A r \in Rows : View(t)'[r] = IF mine'[t][r] = Unwritten THEN rows'[r] ELSE mine'[t][r]
BY DEF View, Rows

\* What is written is seen.
LEMMA ViewWrites ==
    ASSUME ChainInvariant, NEW t \in Requests, NEW r \in Rows, NEW row, RowTypeOK(r, row),
           Writes(t, r, row), UNCHANGED rows
    PROVE  Changes(View(t), View(t)', r, row) /\ \A q \in Rows : mine'[t][q] = IF q = r THEN row ELSE mine[t][q]
<1>1. mine[t] = [q \in Rows |-> mine[t][q]] /\ DOMAIN mine = Requests
  BY DEF ChainInvariant, OwnOK
<1>2. mine'[t] = [mine[t] EXCEPT ![r] = row]
  BY <1>1 DEF Writes
<1>3. \A q \in Rows : mine'[t][q] = IF q = r THEN row ELSE mine[t][q]
  BY <1>1, <1>2
<1>4. row # Unwritten
  BY RowIsWritten
<1> QED BY <1>3, <1>4, ViewOf DEF Changes

\* What t leaves of its work: with its own rows in step, and with its view in
\* step with its chain when it met nobody.
LeavesInStep(t, view) ==
    /\ OwnLast(mine'[t], phase'[t], chain'[t], noted'[t])
    /\ phase'[t] = "store" /\ Head(chain'[t]) \in Kept => view[Head(chain'[t])].capture # NoValue
    /\ t \in alone' /\ ((overlapped' => repaired') \/ mine'[t]["precision"] # Unwritten) =>
          Follows(view, phase'[t], chain'[t], noted'[t])
    /\ t \in alone' /\ ~overlapped' => NumbersFollow(view, phase'[t], noted'[t])

\* A request begins, or goes on without anybody beginning.
GoesOn(t) == phase[t] # "done" /\ (Begins(t) \/ (Busy(t) /\ UNCHANGED history))

\* The parts of the invariant, one step later, speak of the variables one step later.
LEMMA PrimesInside ==
    ASSUME NEW t
    PROVE  /\ OwnLast(mine[t], phase[t], chain[t], noted[t])' <=> OwnLast(mine'[t], phase'[t], chain'[t], noted'[t])
           /\ Follows(View(t), phase[t], chain[t], noted[t])' <=> Follows(View(t)', phase'[t], chain'[t], noted'[t])
           /\ NumbersFollow(View(t), phase[t], noted[t])' <=> NumbersFollow(View(t)', phase'[t], noted'[t])
BY DEF OwnLast, Follows, NumbersFollow

\* A step inside a transaction that leaves its own view in step keeps the invariant.
LEMMA WorkGoesOn ==
    ASSUME StepInvariant, NEW t \in Requests, Only(t), GoesOn(t), phase \in [Requests -> Phases],
           phase'[t] \notin {"new", "done"},
           UNCHANGED rows, LeavesInStep(t, View(t)')
    PROVE  StepInvariant'
<1>1. \A s \in Requests \ {t} : mine'[s] = mine[s] /\ phase'[s] = phase[s] /\ chain'[s] = chain[s] /\ noted'[s] = noted[s]
  BY DEF Only
<1>2. \A s \in Requests \ {t} : View(s)' = View(s)
  BY <1>1 DEF View
<1>3. \A s \in Requests \ {t} : Busy(s)' <=> Busy(s)
  BY <1>1 DEF Busy
<1>4. Busy(t)'
  BY DEF Busy
<1>5. /\ alone' \subseteq {t}
      /\ Reliable' => Reliable
      /\ overlapped => overlapped'
      /\ t \in alone' \/ Reliable' => Others(t) = {}
      /\ Reliable' => t \in alone'
  <2>1. CASE Begins(t)
    <3>1. ~Busy(t) /\ alone' = (IF Others(t) = {} THEN {t} ELSE {}) /\ overlapped' = (overlapped \/ Others(t) # {})
          /\ repaired' = (repaired /\ Others(t) = {})
      BY <2>1 DEF Begins, Busy
    <3> QED BY <3>1 DEF Reliable
  <2>2. CASE Busy(t) /\ UNCHANGED history
    <3>1. alone' = alone /\ overlapped' = overlapped /\ repaired' = repaired
      BY <2>2 DEF history
    <3>2. Meeting
      BY DEF StepInvariant
    <3>3. \A s \in alone : s = t
      <4> TAKE s \in alone
      <4>1. s \notin Requests \/ s = t
        BY <3>2, <2>2 DEF Meeting
      <4> QED BY <4>1, <2>2, <3>2 DEF Meeting
    <3>4. t \in alone => Others(t) = {}
      BY <3>2 DEF Meeting, Others
    <3>5. Reliable => t \in alone
      BY <2>2, <3>2 DEF Meeting
    <3> QED BY <3>1, <3>3, <3>4, <3>5 DEF Reliable
  <2> QED BY <2>1, <2>2 DEF GoesOn
<1>6. Meeting'
  <2>1. \A s \in alone' : Busy(s)' /\ \A q \in Requests \ {s} : ~Busy(q)'
    BY <1>3, <1>4, <1>5 DEF Others
  <2>2. Reliable' => \A s \in Requests : Busy(s)' => s \in alone'
    BY <1>3, <1>5 DEF Others
  <2> QED BY <2>1, <2>2 DEF Meeting
<1>7. \A s \in Requests : OwnLast(mine'[s], phase'[s], chain'[s], noted'[s])
  BY <1>1 DEF StepInvariant, LeavesInStep
<1>8. \A s \in Requests : phase'[s] = "store" /\ Head(chain'[s]) \in Kept => View(s)'[Head(chain'[s])].capture # NoValue
  BY <1>1, <1>2 DEF StepInvariant, LeavesInStep
<1>9. \A s \in alone' : Reliable' \/ Holds(s, "precision")' => Follows(View(s)', phase'[s], chain'[s], noted'[s])
  BY <1>5 DEF LeavesInStep, Reliable, Holds
<1>10. \A s \in alone' : ~overlapped' => NumbersFollow(View(s)', phase'[s], noted'[s])
  BY <1>5 DEF LeavesInStep
<1>11. /\ \A r \in Fed : Bare(rows'[r])
       /\ OwnInStep(rows')
       /\ Reliable' => Told(rows', << >>)
       /\ ~overlapped' => NumberedFromOne(rows')
  BY <1>5 DEF StepInvariant
<1> HIDE DEF Meeting, Reliable
<1> QED BY <1>6, <1>7, <1>8, <1>9, <1>10, <1>11, PrimesInside DEF StepInvariant

-----------------------------------------------------------------------------
(* The first row of a request *)

\* t met nobody it had to meet before it could leave its rows in step,
MetNobody(t) == t \in alone' /\ ((overlapped' => repaired') \/ mine'[t]["precision"] # Unwritten)

\* and nobody ever met anybody.
NeverMet(t) == t \in alone' /\ ~overlapped'

\* What is told depends only on the rows.
LEMMA SameRows ==
    ASSUME NEW v, NEW w, \A r \in Rows : w[r] = v[r], NEW ch, Told(v, ch), LineOK(v)
    PROVE  Told(w, ch)
<1>1. (\A r \in Tables : w[r] = v[r]) /\ SameComparables(v, w)
  BY DEF Rows, SameComparables
<1>2. \A m : SameOffers(v, w, m)
  BY <1>1, ComparablesKeepOffers
<1>3. ASSUME NEW a \in Fed PROVE SameInputs(v, w, a) /\ w[a].value = v[a].value
  <2>1. w[a] = v[a] /\ w["precision"] = v["precision"] /\ w["construcciones"] = v["construcciones"]
        /\ w["TERRENO_VENTA"] = v["TERRENO_VENTA"] /\ w["INMUEBLE_RENTA"] = v["INMUEBLE_RENTA"]
    BY <1>1, FedAreTables, FedNamed
  <2> QED BY <1>2, <2>1 DEF SameInputs
<1>4. SameValues(v, w) /\ w["resumen"].value = v["resumen"].value
  BY <1>1, FedAreTables, FedNamed DEF SameValues
<1> QED BY <1>3, <1>4, ToldMoves

\* The line of the conclusion is one of the captures, in what is stored and in what each one sees.
LEMMA LinesAreOK ==
    ASSUME ChainInvariant, NEW t \in Requests
    PROVE  LineOK(rows) /\ LineOK(View(t))
<1>1. RowTypeOK("resumen", rows["resumen"]) /\ RowTypeOK("resumen", View(t)["resumen"])
  BY ViewTypes, TablesNamed DEF ChainInvariant, RowsTypeOK, Rows
<1> QED BY <1>1, TablesNamed, TableRowTypes DEF LineOK

\* What a request that has written nothing sees is in step if nobody met.
LEMMA StartsInStep ==
    ASSUME ChainInvariant, StepInvariant, NEW t \in Requests, GoesOn(t), phase[t] \in {"new", "sections", "insert"}
    PROVE  /\ mine[t] = Nothing
           /\ \A r \in Rows : View(t)[r] = rows[r]
           /\ t \in alone' /\ (overlapped' => repaired') => Told(View(t), << >>)
           /\ NeverMet(t) => \A m \in Markets : NumberedIn(View(t), m)
<1>1. mine[t] = Nothing
  BY HoldsNothingYet
<1>2. \A r \in Rows : View(t)[r] = rows[r]
  BY <1>1, ViewOf DEF Nothing
<1>3. CASE Begins(t)
  <2>1. ASSUME t \in alone', overlapped' => repaired' PROVE Told(View(t), << >>)
    <3>1. Others(t) = {} /\ (overlapped => repaired)
      BY <1>3, <2>1 DEF Begins
    <3>2. Told(rows, << >>)
      BY <3>1 DEF StepInvariant, Reliable
    <3> QED BY <1>2, <3>2, SameRows, LinesAreOK
  <2>2. ASSUME NeverMet(t), NEW m \in Markets PROVE NumberedIn(View(t), m)
    <3>1. ~overlapped
      BY <1>3, <2>2 DEF Begins, NeverMet
    <3>2. NumberedIn(rows, m)
      BY <3>1 DEF StepInvariant, NumberedFromOne, NumberedIn
    <3>3. SameComparables(rows, View(t))
      BY <1>2 DEF SameComparables, Rows
    <3> QED BY <3>2, <3>3, ComparablesKeepOffers, SameNumbers DEF SameOffers
  <2> QED BY <1>1, <1>2, <2>1, <2>2
<1>4. CASE Busy(t) /\ UNCHANGED history
  <2>1. alone' = alone /\ overlapped' = overlapped /\ repaired' = repaired /\ phase[t] \in {"sections", "insert"}
    BY <1>4 DEF history, Busy
  <2>2. ASSUME t \in alone', overlapped' => repaired' PROVE Told(View(t), << >>)
    <3>1. Follows(View(t), phase[t], chain[t], noted[t])
      BY <2>1, <2>2 DEF StepInvariant, Reliable
    <3> QED BY <2>1, <3>1 DEF Follows
  <2>3. ASSUME NeverMet(t), NEW m \in Markets PROVE NumberedIn(View(t), m)
    <3>1. NumbersFollow(View(t), phase[t], noted[t])
      BY <2>1, <2>3 DEF StepInvariant, NeverMet
    <3> QED BY <2>1, <3>1 DEF NumbersFollow
  <2> QED BY <1>1, <1>2, <2>2, <2>3
<1> QED BY <1>3, <1>4 DEF GoesOn

\* The first write of a transaction leaves its view in step with the chain it opens.
LEMMA FirstLeaves ==
    ASSUME NEW t \in Requests, mine[t] = Nothing, NEW r \in Rows, NEW row,
           \A q \in Rows : mine'[t][q] = IF q = r THEN row ELSE mine[t][q],
           NEW next \in {"recompute", "clear"}, NEW ch, phase'[t] = next, chain'[t] = ch, Closed(ch),
           MetNobody(t) => Told(View(t)', ch),
           NeverMet(t) => \A m \in Markets : NumberedIn(View(t)', m),
           r \in Fed => Bare(row), r \in Kept => row.capture # NoValue,
           row # Unwritten, \A a \in Own : InChain(a, ch) <=> a = r
    PROVE  LeavesInStep(t, View(t)')
<1>1. \A q \in Rows : mine'[t][q] = IF q = r THEN row ELSE Unwritten
  BY DEF Nothing
<1>2. Fed \subseteq Rows /\ Kept \subseteq Rows /\ Own \subseteq Rows
  BY FedAreTables, FedNamed DEF Kept, Own, Rows
<1>3. OwnLast(mine'[t], phase'[t], ch, noted'[t])
  <2>1. \A q \in Fed : mine'[t][q] # Unwritten => Bare(mine'[t][q])
    BY <1>1, <1>2
  <2>2. \A q \in Kept : mine'[t][q] # Unwritten => mine'[t][q].capture # NoValue
    BY <1>1, <1>2
  <2>3. \A a \in Own : (mine'[t][a] # Unwritten <=> a = r)
    BY <1>1, <1>2
  <2> QED BY <2>1, <2>2, <2>3 DEF OwnLast
<1>4. MetNobody(t) => Follows(View(t)', phase'[t], ch, noted'[t])
  BY DEF Follows
<1>5. NeverMet(t) => NumbersFollow(View(t)', phase'[t], noted'[t])
  BY DEF NumbersFollow
<1> QED BY <1>3, <1>4, <1>5 DEF LeavesInStep, MetNobody, NeverMet

\* The row a save captures, as the others see it.
LEMMA CapturedRow ==
    ASSUME ChainInvariant, NEW r \in Tables, NEW c
    PROVE  Written(r, c).capture = c /\ Written(r, c).value = rows[r].value
<1> DEFINE row == rows[r]
<1>1. RowTypeOK(r, row)
  BY TablesAreNoComparables DEF ChainInvariant, RowsTypeOK, Rows
<1>2. DOMAIN row = {"capture", "value"}
  BY <1>1, TableRowTypes
<1> HIDE DEF row
<1>3. [row EXCEPT !.capture = c].capture = c /\ [row EXCEPT !.capture = c].value = row.value
  BY <1>2
<1> QED BY <1>3 DEF row, Written

\* A save writes one row, opens a chain and leaves the other requests alone.
LEMMA SavesOnly ==
    ASSUME ChainInvariant, NEW t \in Requests, phase[t] # "done", NEW r \in Rows, NEW row, RowTypeOK(r, row),
           NEW next \in {"recompute", "clear"}, NEW ch, Writes(t, r, row), Continues(t, next, ch),
           noted' = noted \/ noted' = [noted EXCEPT ![t] = NoValue], UNCHANGED rows
    PROVE  /\ Only(t) /\ phase'[t] = next /\ chain'[t] = ch /\ phase \in [Requests -> Phases]
           /\ Changes(View(t), View(t)', r, row)
           /\ \A q \in Rows : mine'[t][q] = IF q = r THEN row ELSE mine[t][q]
<1>1. DOMAIN mine = Requests /\ DOMAIN chain = Requests /\ DOMAIN noted = Requests /\ phase \in [Requests -> Phases]
  BY DEF ChainInvariant
<1>2. mine' = [mine EXCEPT ![t][r] = row] /\ phase' = [phase EXCEPT ![t] = next] /\ chain' = [chain EXCEPT ![t] = ch]
  BY DEF Writes, Continues
<1>3. Only(t)
  <2>1. phase' \in [Requests -> Phases] /\ DOMAIN mine' = Requests /\ DOMAIN chain' = Requests /\ DOMAIN noted' = Requests
    BY <1>1, <1>2 DEF Phases
  <2>2. \A s \in Requests \ {t} : mine'[s] = mine[s] /\ phase'[s] = phase[s] /\ chain'[s] = chain[s]
    BY <1>1, <1>2
  <2>3. \A s \in Requests \ {t} : noted'[s] = noted[s]
    BY <1>1
  <2> QED BY <2>1, <2>2, <2>3 DEF Only
<1>4. phase'[t] = next /\ chain'[t] = ch
  BY <1>1, <1>2
<1>5. Changes(View(t), View(t)', r, row) /\ \A q \in Rows : mine'[t][q] = IF q = r THEN row ELSE mine[t][q]
  BY ViewWrites
<1> QED BY <1>1, <1>3, <1>4, <1>5

\* A save of a table other than the precision.
LEMMA TableSaveFollows ==
    ASSUME ChainInvariant, StepInvariant, NEW t \in Requests, NEW r \in Tables \ {"precision"}, NEW c \in CapturesOf(r),
           NEW next \in {"recompute", "clear"}, NEW ch, FirstRow(t, r, Written(r, c), next, ch), Closed(ch),
           r \in Fed => InChain(r, ch),
           r = "construcciones" => InChain("costos", ch),
           r = "INMUEBLE_RENTA" => InChain("ingresos", ch),
           r \in {"resumen", "secciones", "maquinaria"} => InChain("resumen", ch),
           r \in Fed \cup Kept => c # NoValue,
           \A a \in Own : InChain(a, ch) <=> a = r
    PROVE  StepInvariant'
<1> DEFINE row == Written(r, c)
<1>1. r \in Rows /\ RowTypeOK(r, row) /\ row.capture = c /\ row.value = rows[r].value
  BY TableCaptures, CapturedRow
<1>2. Begins(t) /\ phase[t] = "new" /\ GoesOn(t) /\ Writes(t, r, row) /\ Continues(t, next, ch) /\ UNCHANGED <<rows, noted>>
  BY DEF FirstRow, GoesOn, Begins
<1> HIDE DEF row
<1>3. /\ mine[t] = Nothing
      /\ \A q \in Rows : View(t)[q] = rows[q]
      /\ t \in alone' /\ (overlapped' => repaired') => Told(View(t), << >>)
      /\ NeverMet(t) => \A m \in Markets : NumberedIn(View(t), m)
  BY <1>2, StartsInStep
<1>4. /\ Only(t) /\ phase'[t] = next /\ chain'[t] = ch /\ phase \in [Requests -> Phases]
      /\ Changes(View(t), View(t)', r, row)
      /\ \A q \in Rows : mine'[t][q] = IF q = r THEN row ELSE mine[t][q]
  BY <1>1, <1>2, SavesOnly
<1>5. ASSUME MetNobody(t) PROVE Told(View(t)', ch)
  <2> DEFINE v == View(t)
             w == View(t)'
  <2>1. mine'[t]["precision"] = Unwritten
    BY <1>3, <1>4, PrecisionIsTable DEF Nothing
  <2>2. Told(v, << >>)
    BY <1>3, <1>5, <2>1 DEF MetNobody
  <2>3. row.value = v[r].value
    BY <1>1, <1>3
  <2>4. Changes(v, w, r, row) /\ LineOK(v)
    BY <1>4, LinesAreOK
  <2> HIDE DEF v, w
  <2> QED BY <2>2, <2>3, <2>4, NoneInChain, TableMoves DEF w
<1>6. NeverMet(t) => \A m \in Markets : NumberedIn(View(t)', m)
  <2>1. \A m : SameOffers(View(t), View(t)', m) /\ ReferencesOf(View(t)', m) = ReferencesOf(View(t), m)
    BY <1>4, TableChanges
  <2> QED BY <1>3, <2>1, SameNumbers DEF SameOffers
<1>7. row # Unwritten
  BY <1>1, RowIsWritten
<1>8. LeavesInStep(t, View(t)')
  BY <1>1, <1>3, <1>4, <1>5, <1>6, <1>7, FirstLeaves DEF Bare
<1>9. phase'[t] \notin {"new", "done"}
  BY <1>4
<1> QED BY <1>2, <1>4, <1>8, <1>9, WorkGoesOn

-----------------------------------------------------------------------------
(* The saves *)

\* No row is of two kinds.
LEMMA KindsApart ==
    /\ \A m \in Markets : m \in Fed /\ m \notin Own \cup Kept \cup {"construcciones", "resumen", "secciones", "precision"}
    /\ "costos" \in Fed /\ "ingresos" \in Fed
    /\ Own \cap Fed = {} /\ Own \subseteq Tables \ {"precision"} /\ Kept \subseteq Tables \ {"precision"}
    /\ "construcciones" \notin Fed \cup Kept \cup Own /\ "secciones" \notin Fed \cup Kept \cup Own
    /\ "resumen" \notin Fed \cup Kept \cup Own /\ "precision" \notin Fed \cup Kept \cup Own
BY FedNamed, TablesNamed DEF Own, Kept

\* A save of an approach keeps the values in step or in its chain,
LEMMA SaveRequestFollows ==
    ASSUME ChainInvariant, StepInvariant, NEW t \in Requests, NEW c \in Captures,
           \/ \E m \in Markets : saveMarketSettings(t, m, c)
           \/ saveCostCalculation(t, c) \/ saveConstructionTypes(t, c) \/ saveIncomeCalculation(t, c)
           \/ saveMachineryCalculation(t, c) \/ saveStatisticalCalculation(t, c)
    PROVE  StepInvariant'
<1>1. c # NoValue
  BY NamesAssumption
<1>2. CASE \E m \in Markets : saveMarketSettings(t, m, c)
  <2>1. PICK m \in Markets : FirstRow(t, m, Written(m, c), "recompute", recompute(m))
    BY <1>2 DEF saveMarketSettings, SavesCapture
  <2>2. m \in Tables \ {"precision"} /\ c \in CapturesOf(m) /\ m \in Fed
        /\ m \notin Own \cup Kept \cup {"construcciones", "resumen", "secciones", "precision"}
    BY MarketTables, KindsApart
  <2>3. Closed(recompute(m)) /\ InChain(m, recompute(m)) /\ (m = "INMUEBLE_RENTA" => InChain("ingresos", recompute(m)))
        /\ \A a : InChain(a, recompute(m)) => a \in {m, "costos", "ingresos", "resumen"}
    BY MarketInChain DEF Followed
  <2>4. \A a \in Own : InChain(a, recompute(m)) <=> a = m
    BY <2>2, <2>3 DEF Own
  <2> QED BY <1>1, <2>1, <2>2, <2>3, <2>4, TableSaveFollows DEF Kept
<1>3. CASE saveCostCalculation(t, c) \/ saveConstructionTypes(t, c)
  <2>1. PICK r \in {"costos", "construcciones"}, next \in {"recompute", "clear"} :
           FirstRow(t, r, Written(r, c), next, recomputeCosts)
    BY <1>3 DEF saveCostCalculation, saveConstructionTypes
  <2>2. r \in Tables \ {"precision"} /\ c \in CapturesOf(r)
    BY TablesNamed
  <2>3. Closed(recomputeCosts) /\ InChain("costos", recomputeCosts) /\ \A a \in Own : InChain(a, recomputeCosts) <=> a = r
    BY CostsInChain DEF Own
  <2>4. r \in Fed => r = "costos"
    BY KindsApart
  <2>5. r \notin {"INMUEBLE_RENTA", "resumen", "secciones", "maquinaria"}
    OBVIOUS
  <2> QED BY <1>1, <2>1, <2>2, <2>3, <2>4, <2>5, TableSaveFollows
<1>4. CASE saveIncomeCalculation(t, c)
  <2>1. FirstRow(t, "ingresos", Written("ingresos", c), "recompute", recomputeIncome)
    BY <1>4 DEF saveIncomeCalculation, SavesCapture
  <2>2. "ingresos" \in Tables \ {"precision"} /\ c \in CapturesOf("ingresos")
    BY TablesNamed
  <2>3. Closed(recomputeIncome) /\ InChain("ingresos", recomputeIncome) /\ \A a \in Own : InChain(a, recomputeIncome) <=> a = "ingresos"
    BY CostsInChain DEF Own
  <2> QED BY <1>1, <2>1, <2>2, <2>3, TableSaveFollows
<1>5. CASE saveMachineryCalculation(t, c)
  <2>1. FirstRow(t, "maquinaria", Written("maquinaria", c), "recompute", <<"maquinaria", "resumen">>)
    BY <1>5 DEF saveMachineryCalculation, SavesCapture
  <2>2. "maquinaria" \in Tables \ {"precision"} /\ c \in CapturesOf("maquinaria")
    BY TablesNamed
  <2>3. Closed(<<"maquinaria", "resumen">>) /\ InChain("resumen", <<"maquinaria", "resumen">>)
    BY TwoClosed, TwoInChain DEF Kept
  <2>4. \A a \in Own : InChain(a, <<"maquinaria", "resumen">>) <=> a = "maquinaria"
    BY TwoInChain DEF Own
  <2>5. "maquinaria" \notin Fed
    BY KindsApart DEF Own
  <2> DEFINE ch == <<"maquinaria", "resumen">>
  <2>6. FirstRow(t, "maquinaria", Written("maquinaria", c), "recompute", ch) /\ Closed(ch) /\ InChain("resumen", ch) /\ \A a \in Own : InChain(a, ch) <=> a = "maquinaria"
    BY <2>1, <2>3, <2>4
  <2> HIDE DEF ch
  <2> QED BY <1>1, <2>2, <2>5, <2>6, TableSaveFollows
<1>6. CASE saveStatisticalCalculation(t, c)
  <2> DEFINE ch == <<"estadistico">>
  <2>1. FirstRow(t, "estadistico", Written("estadistico", c), "recompute", ch)
    BY <1>6 DEF saveStatisticalCalculation, SavesCapture
  <2>2. "estadistico" \in Tables \ {"precision"} /\ c \in CapturesOf("estadistico")
    BY TablesNamed
  <2>3. Closed(ch) /\ \A a : InChain(a, ch) <=> a = "estadistico"
    BY OneClosed, OneInChain
  <2>5. "estadistico" \notin Fed
    BY KindsApart DEF Own
  <2> HIDE DEF ch
  <2> QED BY <1>1, <2>1, <2>2, <2>3, <2>5, TableSaveFollows
<1> QED BY <1>2, <1>3, <1>4, <1>5, <1>6

\* the choice of the line of the conclusion does,
LEMMA ConclusionSaveFollows ==
    ASSUME ChainInvariant, StepInvariant, NEW t \in Requests, NEW line \in Lines, saveConclusionSettings(t, line)
    PROVE  StepInvariant'
<1> DEFINE ch == <<"resumen">>
<1>1. FirstRow(t, "resumen", Written("resumen", line), "recompute", ch)
  BY DEF saveConclusionSettings, SavesCapture
<1>2. "resumen" \in Tables \ {"precision"} /\ line \in CapturesOf("resumen")
  BY TablesNamed
<1>3. Closed(ch) /\ \A a : InChain(a, ch) <=> a = "resumen"
  BY OneClosed, OneInChain
<1>4. "resumen" \notin Fed \cup Kept \cup Own
  BY KindsApart
<1> HIDE DEF ch
<1> QED BY <1>1, <1>2, <1>3, <1>4, TableSaveFollows

\* The precision puts everything in step that is captured, whatever was stored.
LEMMA PrecisionFollows ==
    ASSUME ChainInvariant, StepInvariant, NEW t \in Requests, NEW p \in Captures, saveCalculationPrecision(t, p)
    PROVE  StepInvariant'
<1> DEFINE row == Written("precision", p)
           ch == recomputeMarkets(rows)
<1>1. "precision" \in Rows /\ RowTypeOK("precision", row)
  BY TablesNamed, TableCaptures
<1>2. Begins(t) /\ phase[t] = "new" /\ GoesOn(t) /\ Writes(t, "precision", row) /\ Continues(t, "recompute", ch) /\ UNCHANGED <<rows, noted>>
  BY DEF saveCalculationPrecision, SavesCapture, FirstRow, GoesOn, Begins
<1>3. Closed(ch) /\ \A a \in Own : ~InChain(a, ch)
  <2>1. \A a \in Own : a \notin Fed \cup {"resumen"}
    BY KindsApart DEF Own
  <2> QED BY <2>1, PrecisionInChain
<1> HIDE DEF row, ch
<1>4. /\ mine[t] = Nothing
      /\ \A q \in Rows : View(t)[q] = rows[q]
      /\ NeverMet(t) => \A m \in Markets : NumberedIn(View(t), m)
  BY <1>2, StartsInStep
<1>5. /\ Only(t) /\ phase'[t] = "recompute" /\ chain'[t] = ch /\ phase \in [Requests -> Phases]
      /\ Changes(View(t), View(t)', "precision", row)
      /\ \A q \in Rows : mine'[t][q] = IF q = "precision" THEN row ELSE mine[t][q]
  BY <1>1, <1>2, SavesOnly
<1>6. Told(View(t)', ch)
  <2>1. Changes(rows, View(t)', "precision", row)
    BY <1>4, <1>5 DEF Changes
  <2>2. \A a \in Fed : Bare(rows[a])
    BY DEF StepInvariant
  <2> QED BY <2>1, <2>2, PrecisionMoves DEF ch
<1>7. NeverMet(t) => \A m \in Markets : NumberedIn(View(t)', m)
  <2>1. \A m : SameOffers(View(t), View(t)', m) /\ ReferencesOf(View(t)', m) = ReferencesOf(View(t), m)
    BY <1>5, TableChanges, PrecisionIsTable
  <2> QED BY <1>4, <2>1, SameNumbers DEF SameOffers
<1>8. row # Unwritten /\ "precision" \notin Fed \cup Kept \cup Own
  BY <1>1, RowIsWritten, KindsApart
<1>9. LeavesInStep(t, View(t)')
  BY <1>1, <1>3, <1>4, <1>5, <1>6, <1>7, <1>8, FirstLeaves
<1>10. phase'[t] \notin {"new", "done"}
  BY <1>5
<1> QED BY <1>2, <1>5, <1>9, <1>10, WorkGoesOn

\* and so does every save of one capture.
LEMMA SavesFollow ==
    ASSUME ChainInvariant, StepInvariant, NEW t \in Requests, SaveRequest(t)
    PROVE  StepInvariant'
BY SaveRequestFollows, PrecisionFollows DEF SaveRequest

\* A save that goes on under its row leaves what it sees as it was.
LEMMA SaveGoesOnFollows ==
    ASSUME ChainInvariant, StepInvariant, NEW t \in Requests, SaveGoesOn(t)
    PROVE  StepInvariant'
<1> DEFINE v == View(t)
           row == v["construcciones"]
<1>1. /\ phase[t] = "clear" /\ phase' = [phase EXCEPT ![t] = "recompute"] /\ chain' = [chain EXCEPT ![t] = chain[t]]
      /\ UNCHANGED <<rows, noted, history>>
      /\ mine' = mine \/ Writes(t, "construcciones", row)
  BY DEF SaveGoesOn, deleteRun, saveConstructionCosts, Recomputes, Continues
<1>2. "construcciones" \in Rows /\ "precision" \in Rows
  BY TablesNamed, TablesAreNoComparables
<1>3. RowTypeOK("construcciones", row)
  BY <1>2, ViewTypes
<1>4. DOMAIN mine = Requests /\ mine[t] = [r \in Rows |-> mine[t][r]]
  BY DEF ChainInvariant, OwnOK
<1>5. /\ \A r \in Rows : View(t)'[r] = v[r] /\ (r # "construcciones" => mine'[t][r] = mine[t][r])
      /\ DOMAIN mine' = Requests /\ \A s \in Requests \ {t} : mine'[s] = mine[s]
  <2>1. CASE mine' = mine
    BY <2>1, <1>1, <1>4 DEF View
  <2>2. CASE Writes(t, "construcciones", row)
    <3> HIDE DEF row
    <3>1. Changes(View(t), View(t)', "construcciones", row)
          /\ \A q \in Rows : mine'[t][q] = IF q = "construcciones" THEN row ELSE mine[t][q]
      BY <2>2, <1>1, <1>2, <1>3, ViewWrites
    <3>2. DOMAIN mine' = Requests /\ \A s \in Requests \ {t} : mine'[s] = mine[s]
      BY <2>2, <1>4 DEF Writes
    <3> QED BY <3>1, <3>2 DEF Changes, row
  <2> QED BY <2>1, <2>2, <1>1
<1>6. View(t)' = v
  BY <1>5 DEF View, Rows
<1>7. Only(t) /\ phase'[t] = "recompute" /\ chain'[t] = chain[t] /\ noted'[t] = noted[t] /\ GoesOn(t)
      /\ phase \in [Requests -> Phases]
  BY <1>1, <1>5 DEF Only, ChainInvariant, Phases, GoesOn, Busy
<1>8. OwnLast(mine'[t], "recompute", chain[t], noted[t])
  <2>1. OwnLast(mine[t], "clear", chain[t], noted[t])
    BY <1>1 DEF StepInvariant
  <2>2. \A r \in Fed \cup Kept \cup Own : mine'[t][r] = mine[t][r]
    <3>1. Fed \subseteq Rows /\ Kept \subseteq Rows /\ Own \subseteq Rows
      BY FedAreTables, FedNamed DEF Kept, Own, Rows
    <3> QED BY <3>1, <1>5, KindsApart
  <2> QED BY <2>1, <2>2 DEF OwnLast
<1>9. alone' = alone /\ overlapped' = overlapped /\ repaired' = repaired
  BY <1>1 DEF history
<1> HIDE DEF v
<1>10. MetNobody(t) => Follows(v, "recompute", chain[t], noted[t])
  <2> SUFFICES ASSUME MetNobody(t) PROVE Follows(v, "recompute", chain[t], noted[t])
    OBVIOUS
  <2>1. mine'[t]["precision"] = mine[t]["precision"]
    BY <1>2, <1>5
  <2>2. Follows(v, "clear", chain[t], noted[t])
    BY <1>1, <1>9, <2>1 DEF StepInvariant, Reliable, MetNobody, Holds, v
  <2> QED BY <2>2 DEF Follows
<1>11. NeverMet(t) => NumbersFollow(v, "recompute", noted[t])
  <2> SUFFICES ASSUME NeverMet(t) PROVE NumbersFollow(v, "recompute", noted[t])
    OBVIOUS
  <2>1. NumbersFollow(v, "clear", noted[t])
    BY <1>1, <1>9 DEF StepInvariant, NeverMet, v
  <2> QED BY <2>1 DEF NumbersFollow
<1>12. LeavesInStep(t, v)
  BY <1>7, <1>8, <1>10, <1>11 DEF LeavesInStep, MetNobody, NeverMet
<1>13. LeavesInStep(t, View(t)') /\ phase'[t] \notin {"new", "done"} /\ UNCHANGED rows
  BY <1>1, <1>6, <1>7, <1>12 DEF v
<1> QED BY <1>7, <1>13, WorkGoesOn

-----------------------------------------------------------------------------
(* The sections *)

\* A request that begins and notes what it reads sees what is committed.
LEMMA NotesFollow ==
    ASSUME ChainInvariant, StepInvariant, NEW t \in Requests, Begins(t), NEW next \in {"sections", "insert"}, NEW n,
           phase' = [phase EXCEPT ![t] = next], noted' = [noted EXCEPT ![t] = n], UNCHANGED <<rows, mine, chain>>,
           next = "sections" => n.before = rows["secciones"].capture,
           next = "insert" => n.reference = NextReference(rows, n.market)
    PROVE  StepInvariant'
<1>1. phase[t] = "new" /\ GoesOn(t) /\ phase \in [Requests -> Phases]
  BY DEF GoesOn, Begins, ChainInvariant
<1>2. /\ mine[t] = Nothing
      /\ \A q \in Rows : View(t)[q] = rows[q]
      /\ t \in alone' /\ (overlapped' => repaired') => Told(View(t), << >>)
      /\ NeverMet(t) => \A m \in Markets : NumberedIn(View(t), m)
  BY <1>1, StartsInStep
<1>3. chain[t] = << >>
  BY <1>1 DEF ChainInvariant, OwnOK
<1>4. Only(t) /\ phase'[t] = next /\ noted'[t] = n /\ mine'[t] = mine[t] /\ chain'[t] = << >>
  BY <1>3 DEF ChainInvariant, Only, Phases
<1>5. View(t)' = View(t)
  BY <1>4 DEF View
<1>6. OwnLast(Nothing, next, << >>, n)
  <2>1. Fed \subseteq Rows /\ Kept \subseteq Rows /\ Own \subseteq Rows
    BY FedAreTables, FedNamed DEF Kept, Own, Rows
  <2> QED BY <2>1, NoneInChain DEF OwnLast, Nothing
<1>7. MetNobody(t) => Follows(View(t), next, << >>, n)
  <2> SUFFICES ASSUME MetNobody(t) PROVE Follows(View(t), next, << >>, n)
    OBVIOUS
  <2>1. mine'[t]["precision"] = Unwritten
    BY <1>2, <1>4, PrecisionIsTable DEF Nothing
  <2>2. Told(View(t), << >>)
    BY <1>2, <2>1 DEF MetNobody
  <2>3. next = "sections" => n.before = View(t)["secciones"].capture
    BY <1>2, TablesNamed DEF Rows
  <2> QED BY <2>2, <2>3 DEF Follows
<1>8. NeverMet(t) => NumbersFollow(View(t), next, n)
  <2> SUFFICES ASSUME NeverMet(t) PROVE NumbersFollow(View(t), next, n)
    OBVIOUS
  <2>1. SameComparables(rows, View(t))
    BY <1>2 DEF SameComparables, Rows
  <2>2. \A m : NextReference(View(t), m) = NextReference(rows, m)
    BY <2>1, ComparablesKeepOffers, SameNumbers DEF SameOffers
  <2> QED BY <1>2, <2>2 DEF NumbersFollow
<1>9. LeavesInStep(t, View(t)')
  <2>1. OwnLast(mine'[t], phase'[t], chain'[t], noted'[t])
    BY <1>2, <1>4, <1>6
  <2>2. MetNobody(t) => Follows(View(t)', phase'[t], chain'[t], noted'[t])
    BY <1>4, <1>5, <1>7
  <2>3. NeverMet(t) => NumbersFollow(View(t)', phase'[t], noted'[t])
    BY <1>4, <1>5, <1>8
  <2>4. phase'[t] # "store"
    BY <1>4
  <2> QED BY <2>1, <2>2, <2>3, <2>4 DEF LeavesInStep, MetNobody, NeverMet
<1>10. phase'[t] \notin {"new", "done"}
  BY <1>4
<1> QED BY <1>1, <1>4, <1>9, <1>10, WorkGoesOn

\* Reading the exclusions keeps what is in step,
LEMMA ReadExclusionsFollows ==
    ASSUME ChainInvariant, StepInvariant, NEW t \in Requests, NEW excluded \in Exclusions, ReadExclusions(t, excluded)
    PROVE  StepInvariant'
<1> DEFINE n == [before |-> rows["secciones"].capture, after |-> excluded]
<1>1. Begins(t) /\ phase' = [phase EXCEPT ![t] = "sections"] /\ noted' = [noted EXCEPT ![t] = n] /\ UNCHANGED <<rows, mine, chain>>
  BY DEF ReadExclusions
<1>2. n.before = rows["secciones"].capture
  OBVIOUS
<1> HIDE DEF n
<1> QED BY <1>1, <1>2, NotesFollow

\* and so does taking the number of a new comparable,
LEMMA NumberFollows ==
    ASSUME ChainInvariant, StepInvariant, NEW t \in Requests, NEW m \in Markets, NumberComparable(t, m)
    PROVE  StepInvariant'
<1> DEFINE n == [market |-> m, reference |-> NextReference(rows, m)]
<1>1. Begins(t) /\ phase' = [phase EXCEPT ![t] = "insert"] /\ noted' = [noted EXCEPT ![t] = n] /\ UNCHANGED <<rows, mine, chain>>
  BY DEF NumberComparable
<1>2. n.reference = NextReference(rows, n.market)
  OBVIOUS
<1> HIDE DEF n
<1> QED BY <1>1, <1>2, NotesFollow

\* The sections are written as they were read, or the conclusion goes again.
LEMMA SaveExclusionsFollows ==
    ASSUME ChainInvariant, StepInvariant, NEW t \in Requests, saveExclusions(t)
    PROVE  StepInvariant'
<1> DEFINE after == noted[t].after
           before == noted[t].before
           row == Written("secciones", after)
           ch == IF before # after THEN <<"resumen">> ELSE << >>
<1>1. phase[t] = "sections" /\ noted[t] \in [before : Exclusions, after : Exclusions]
  BY DEF saveExclusions, ChainInvariant, OwnOK, NotedOK
<1>2. "secciones" \in Tables \ {"precision"} /\ after \in CapturesOf("secciones") /\ "secciones" \in Rows
  BY <1>1, TablesNamed, TablesAreNoComparables
<1>3. RowTypeOK("secciones", row) /\ row.capture = after /\ row.value = rows["secciones"].value
  BY <1>2, TableCaptures, CapturedRow
<1>4. GoesOn(t) /\ Writes(t, "secciones", row) /\ Continues(t, "recompute", ch)
      /\ noted' = [noted EXCEPT ![t] = NoValue] /\ UNCHANGED <<rows, history>>
  BY <1>1 DEF saveExclusions, Recomputes, GoesOn, Busy
<1>5. Closed(ch) /\ (before # after => InChain("resumen", ch)) /\ \A a \in Own : ~InChain(a, ch)
  BY OneClosed, NoneClosed, OneInChain, NoneInChain DEF Own
<1> HIDE DEF row, ch, after, before
<1>6. /\ mine[t] = Nothing
      /\ \A q \in Rows : View(t)[q] = rows[q]
      /\ t \in alone' /\ (overlapped' => repaired') => Told(View(t), << >>)
      /\ NeverMet(t) => \A m \in Markets : NumberedIn(View(t), m)
  BY <1>1, <1>4, StartsInStep
<1>7. /\ Only(t) /\ phase'[t] = "recompute" /\ chain'[t] = ch /\ phase \in [Requests -> Phases]
      /\ Changes(View(t), View(t)', "secciones", row)
      /\ \A q \in Rows : mine'[t][q] = IF q = "secciones" THEN row ELSE mine[t][q]
  BY <1>1, <1>2, <1>3, <1>4, SavesOnly
<1>8. "secciones" \notin Fed \cup Kept \cup Own
  BY KindsApart
<1>9. ASSUME MetNobody(t) PROVE Told(View(t)', ch)
  <2> DEFINE v == View(t)
             w == View(t)'
  <2>1. mine'[t]["precision"] = Unwritten
    BY <1>6, <1>7, PrecisionIsTable DEF Nothing
  <2>2. Told(v, << >>)
    BY <1>6, <1>9, <2>1 DEF MetNobody
  <2>3. before = v["secciones"].capture
    <3>1. alone' = alone /\ overlapped' = overlapped /\ repaired' = repaired
      BY <1>4 DEF history
    <3>2. Follows(v, phase[t], chain[t], noted[t])
      BY <1>9, <2>1, <3>1 DEF StepInvariant, Reliable, MetNobody
    <3> QED BY <1>1, <3>2 DEF Follows, before
  <2>4. Changes(v, w, "secciones", row) /\ LineOK(v)
    BY <1>7, LinesAreOK
  <2>5. row.value = v["secciones"].value
    BY <1>2, <1>3, <1>6
  <2>6. InChain("resumen", ch) \/ row.capture = v["secciones"].capture
    BY <1>3, <1>5, <2>3
  <2> HIDE DEF v, w
  <2> QED BY <1>2, <1>8, <2>2, <2>4, <2>5, <2>6, NoneInChain, TableMoves DEF w
<1>10. NeverMet(t) => \A m \in Markets : NumberedIn(View(t)', m)
  <2>1. \A m : SameOffers(View(t), View(t)', m) /\ ReferencesOf(View(t)', m) = ReferencesOf(View(t), m)
    BY <1>2, <1>7, TableChanges
  <2> QED BY <1>6, <2>1, SameNumbers DEF SameOffers
<1>11. row # Unwritten
  BY <1>2, <1>3, RowIsWritten
<1>12. LeavesInStep(t, View(t)')
  BY <1>2, <1>5, <1>6, <1>7, <1>8, <1>9, <1>10, <1>11, FirstLeaves
<1>13. phase'[t] \notin {"new", "done"}
  BY <1>7
<1> QED BY <1>4, <1>7, <1>12, <1>13, WorkGoesOn

\* and every request of the document.
LEMMA DocumentsFollow ==
    ASSUME ChainInvariant, StepInvariant, NEW t \in Requests, DocumentRequest(t)
    PROVE  StepInvariant'
BY ConclusionSaveFollows, ReadExclusionsFollows, SaveExclusionsFollows DEF DocumentRequest

-----------------------------------------------------------------------------
(* The comparables *)

\* Deleting a market keeps the values in step or in its chain.
LEMMA DeleteMarketFollows ==
    ASSUME ChainInvariant, StepInvariant, NEW t \in Requests, NEW m \in Markets, deleteMarket(t, m)
    PROVE  StepInvariant'
<1> DEFINE row == [capture |-> NoValue, value |-> NoValue]
           ch == recomputeDependents(m)
<1>1. m \in Tables \ {"precision"} /\ m \in Rows /\ m \in Fed /\ m \notin Own \cup Kept
  BY MarketTables, TablesAreNoComparables, KindsApart
<1>2. RowTypeOK(m, row)
  <2>1. CapturesOf(m) = Captures \cup {NoValue}
    BY DEF Markets, COMPARABLE_TYPES, CapturesOf
  <2> QED BY <1>1, <2>1, TableRowTypes, MarketTables DEF Markets, COMPARABLE_TYPES
<1>3. Holding(row, NoValue, NoValue)
  BY DEF Holding
<1>4. GoesOn(t) /\ phase[t] = "new" /\ Writes(t, m, row) /\ Continues(t, "clear", ch) /\ UNCHANGED <<rows, noted>>
  BY DEF deleteMarket, FirstRow, GoesOn, Begins
<1>5. Closed(ch) /\ \A a \in Own : ~InChain(a, ch)
  BY DependentsInChain DEF Own
<1> HIDE DEF row, ch
<1>6. /\ mine[t] = Nothing
      /\ t \in alone' /\ (overlapped' => repaired') => Told(View(t), << >>)
      /\ NeverMet(t) => \A k \in Markets : NumberedIn(View(t), k)
  BY <1>4, StartsInStep
<1>7. /\ Only(t) /\ phase'[t] = "clear" /\ chain'[t] = ch /\ phase \in [Requests -> Phases]
      /\ Changes(View(t), View(t)', m, row)
      /\ \A q \in Rows : mine'[t][q] = IF q = m THEN row ELSE mine[t][q]
  BY <1>1, <1>2, <1>4, SavesOnly
<1>8. ASSUME MetNobody(t) PROVE Told(View(t)', ch)
  <2> DEFINE v == View(t)
             w == View(t)'
  <2>1. mine'[t]["precision"] = Unwritten
    BY <1>1, <1>6, <1>7, PrecisionIsTable DEF Nothing
  <2>2. AllTold(v)
    BY <1>6, <1>8, <2>1 DEF MetNobody, AllTold
  <2>3. Changes(v, w, m, row) /\ LineOK(v)
    BY <1>7, LinesAreOK
  <2> HIDE DEF v, w
  <2> QED BY <1>3, <2>2, <2>3, DeleteMarketMoves DEF ch, w
<1>9. NeverMet(t) => \A k \in Markets : NumberedIn(View(t)', k)
  <2>1. \A k : SameOffers(View(t), View(t)', k) /\ ReferencesOf(View(t)', k) = ReferencesOf(View(t), k)
    BY <1>1, <1>7, TableChanges
  <2> QED BY <1>6, <2>1, SameNumbers DEF SameOffers
<1>10. row # Unwritten /\ Bare(row)
  BY <1>1, <1>2, <1>3, RowIsWritten DEF Bare, Holding
<1>11. LeavesInStep(t, View(t)')
  BY <1>1, <1>5, <1>6, <1>7, <1>8, <1>9, <1>10, FirstLeaves
<1>12. phase'[t] \notin {"new", "done"}
  BY <1>7
<1> QED BY <1>4, <1>7, <1>11, <1>12, WorkGoesOn

\* A comparable is of no other kind.
LEMMA ComparablesApart == \A q \in Comparables : q \notin Fed \cup Kept \cup Own /\ q # "precision"
BY ComparablesAreRows, FedAreTables, KindsApart

\* One comparable is written, and its market is recomputed.
LEMMA ComparableFollows ==
    ASSUME ChainInvariant, StepInvariant, NEW t \in Requests, GoesOn(t), phase[t] \in {"new", "insert"},
           NEW q \in Comparables, NEW row, RowTypeOK(q, row), NEW m \in Markets,
           Writes(t, q, row), Continues(t, "recompute", recompute(m)), UNCHANGED rows,
           noted' = noted \/ noted' = [noted EXCEPT ![t] = NoValue],
           \A k \in Markets : k # m => ~InMarket(View(t)[q], k) /\ ~InMarket(row, k),
           NeverMet(t) /\ NumberedIn(View(t), m) => NumberedIn(View(t)', m)
    PROVE  StepInvariant'
<1> DEFINE ch == recompute(m)
<1>1. q \in Rows /\ q \notin Fed \cup Kept \cup Own /\ q # "precision"
  BY ComparablesAreRows, ComparablesApart
<1>2. Closed(ch) /\ InChain(m, ch) /\ (m = "INMUEBLE_RENTA" => InChain("ingresos", ch)) /\ \A a \in Own : ~InChain(a, ch)
  <2>1. \A a \in Own : a \notin {m, "costos", "ingresos", "resumen"}
    BY KindsApart DEF Own
  <2> QED BY <2>1, MarketInChain DEF Followed
<1>3. Continues(t, "recompute", ch)
  OBVIOUS
<1> HIDE DEF ch
<1>4. /\ mine[t] = Nothing
      /\ t \in alone' /\ (overlapped' => repaired') => Told(View(t), << >>)
      /\ NeverMet(t) => \A k \in Markets : NumberedIn(View(t), k)
  BY StartsInStep
<1>5. /\ Only(t) /\ phase'[t] = "recompute" /\ chain'[t] = ch /\ phase \in [Requests -> Phases]
      /\ Changes(View(t), View(t)', q, row)
      /\ \A r \in Rows : mine'[t][r] = IF r = q THEN row ELSE mine[t][r]
  BY <1>1, <1>3, SavesOnly
<1>6. \A k \in Markets : k # m => SameOffers(View(t), View(t)', k) /\ ReferencesOf(View(t)', k) = ReferencesOf(View(t), k)
  BY <1>5, OtherMarkets
<1>7. ASSUME MetNobody(t) PROVE Told(View(t)', ch)
  <2> DEFINE v == View(t)
             w == View(t)'
  <2>1. mine'[t]["precision"] = Unwritten
    BY <1>1, <1>4, <1>5, PrecisionIsTable DEF Nothing
  <2>2. Told(v, << >>)
    BY <1>4, <1>7, <2>1 DEF MetNobody
  <2>3. SameTables(v, w) /\ LineOK(v) /\ \A k \in Markets : k # m => SameOffers(v, w, k)
    BY <1>5, <1>6, ComparableChanges, LinesAreOK
  <2> HIDE DEF v, w
  <2> QED BY <1>2, <2>2, <2>3, NoneInChain, ComparablesMove DEF w
<1>8. NeverMet(t) => \A k \in Markets : NumberedIn(View(t)', k)
  <2> SUFFICES ASSUME NeverMet(t), NEW k \in Markets PROVE NumberedIn(View(t)', k)
    OBVIOUS
  <2>1. CASE k = m
    BY <2>1, <1>4
  <2>2. CASE k # m
    BY <2>2, <1>4, <1>6, SameNumbers DEF SameOffers
  <2> QED BY <2>1, <2>2
<1>9. row # Unwritten
  BY <1>1, RowIsWritten
<1>10. LeavesInStep(t, View(t)')
  BY <1>1, <1>2, <1>4, <1>5, <1>7, <1>8, <1>9, FirstLeaves
<1>11. phase'[t] \notin {"new", "done"}
  BY <1>5
<1> QED BY <1>5, <1>10, <1>11, WorkGoesOn

\* Inserting a comparable under the number taken keeps the values in step or in its chain,
LEMMA InsertFollows ==
    ASSUME ChainInvariant, StepInvariant, NEW t \in Requests, NEW q \in Comparables, NEW c \in Captures, insertComparable(t, q, c)
    PROVE  StepInvariant'
<1> DEFINE m == noted[t].market
           reference == noted[t].reference
           row == [capture |-> c, market |-> m, value |-> reference]
<1>1. phase[t] = "insert" /\ noted[t] \in [market : Markets, reference : Nat \ {0}]
  BY DEF insertComparable, ChainInvariant, OwnOK, NotedOK
<1>2. m \in Markets /\ reference \in Nat \ {0} /\ c # NoValue
  BY <1>1, NamesAssumption
<1>3. GoesOn(t) /\ rows[q].capture = NoValue /\ Writes(t, q, row) /\ UNCHANGED <<rows, history>>
      /\ Continues(t, "recompute", recompute(m)) /\ noted' = [noted EXCEPT ![t] = NoValue]
  BY <1>1 DEF insertComparable, Recomputes, GoesOn, Busy
<1>4. row \in ComparableRow /\ row.value > 0 /\ row.value = reference /\ row.capture # NoValue /\ row.market = m
  <2> HIDE DEF m, reference
  <2> QED BY <1>2 DEF ComparableRow
<1> HIDE DEF row
<1>5. RowTypeOK(q, row)
  BY <1>4, ComparableRowTypes
<1>6. mine[t] = Nothing /\ \A r \in Rows : View(t)[r] = rows[r]
  BY <1>1, <1>3, StartsInStep
<1>7. \A k : ~InMarket(View(t)[q], k)
  BY <1>3, <1>6, ComparablesAreRows DEF InMarket
<1>8. InMarket(row, m) /\ \A k : k # m => ~InMarket(row, k)
  BY <1>4 DEF InMarket
<1>9. Changes(View(t), View(t)', q, row)
  BY <1>1, <1>3, <1>5, ComparablesAreRows, ViewWrites
<1>10. NeverMet(t) /\ NumberedIn(View(t), m) => NumberedIn(View(t)', m)
  <2> SUFFICES ASSUME NeverMet(t), NumberedIn(View(t), m) PROVE NumberedIn(View(t)', m)
    OBVIOUS
  <2>1. alone' = alone /\ overlapped' = overlapped
    BY <1>3 DEF history
  <2>2. NumbersFollow(View(t), phase[t], noted[t])
    BY <2>1 DEF StepInvariant, NeverMet
  <2>3. row.value = NextReference(View(t), m)
    BY <1>1, <1>4, <2>2 DEF NumbersFollow
  <2> DEFINE v == View(t)
             w == View(t)'
  <2>4. Changes(v, w, q, row) /\ ~InMarket(v[q], m) /\ row.value = NextReference(v, m) /\ NumberedIn(v, m)
    BY <1>7, <1>9, <2>3
  <2> HIDE DEF v, w, m
  <2> QED BY <1>8, <2>4, Joins DEF w
<1> HIDE DEF m
<1> QED BY <1>1, <1>2, <1>3, <1>5, <1>7, <1>8, <1>10, ComparableFollows

\* changing one does,
LEMMA UpdateFollows ==
    ASSUME ChainInvariant, StepInvariant, NEW t \in Requests, NEW q \in Comparables, NEW c \in Captures, updateComparable(t, q, c)
    PROVE  StepInvariant'
<1> DEFINE before == rows[q]
           m == rows[q].market
           row == Written(q, c)
<1>1. RowTypeOK(q, before) /\ before.capture # NoValue /\ c # NoValue
  BY ComparablesAreRows, NamesAssumption DEF updateComparable, ChainInvariant, RowsTypeOK, Rows
<1>2. before \in ComparableRow /\ m \in Markets
  BY <1>1, ComparableRowTypes DEF ComparableRow
<1>3. GoesOn(t) /\ phase[t] = "new" /\ Writes(t, q, row) /\ Continues(t, "recompute", recompute(m))
      /\ UNCHANGED <<rows, noted>>
  BY DEF updateComparable, SavesCapture, FirstRow, GoesOn, Begins
<1>4. RowTypeOK(q, row) /\ row.capture = c /\ row.market = m /\ row.value = before.value
  <2> DEFINE new == [before EXCEPT !.capture = c]
  <2>1. row = new /\ m = before.market
    BY DEF Written
  <2> HIDE DEF before
  <2>2. RowTypeOK(q, new)
    BY <1>1, ComparableWrittenTypes
  <2>3. new.capture = c /\ new.market = before.market /\ new.value = before.value
    BY <1>2 DEF ComparableRow
  <2> QED BY <2>1, <2>2, <2>3
<1>5. \A r \in Rows : View(t)[r] = rows[r]
  BY <1>3, StartsInStep
<1>6. View(t)[q] = before
  BY <1>5, ComparablesAreRows
<1>7. InMarket(View(t)[q], m) /\ InMarket(row, m) /\ row.value = View(t)[q].value
  BY <1>1, <1>4, <1>6 DEF InMarket
<1>8. \A k : k # m => ~InMarket(View(t)[q], k) /\ ~InMarket(row, k)
  BY <1>4, <1>6 DEF InMarket
<1> HIDE DEF row, m, before
<1>9. Changes(View(t), View(t)', q, row)
  BY <1>3, <1>4, ComparablesAreRows, SavesOnly
<1>10. NumberedIn(View(t), m) => NumberedIn(View(t)', m)
  <2>1. ComparablesOf(View(t)', m) = ComparablesOf(View(t), m) /\ ReferencesOf(View(t)', m) = ReferencesOf(View(t), m)
    BY <1>7, <1>9, Stays
  <2> QED BY <2>1, SameNumbers
<1> QED BY <1>2, <1>3, <1>4, <1>8, <1>10, ComparableFollows

\* One is taken out; the others of its market are still to be numbered.
LEMMA DeleteFollows ==
    ASSUME ChainInvariant, StepInvariant, NEW t \in Requests, NEW q \in Comparables, deleteComparable(t, q)
    PROVE  StepInvariant'
<1> DEFINE before == rows[q]
           m == rows[q].market
           row == [before EXCEPT !.capture = NoValue]
           n == [market |-> m]
<1>1. RowTypeOK(q, before) /\ q \in Rows /\ q \notin Fed \cup Kept \cup Own /\ q # "precision"
  BY ComparablesAreRows, ComparablesApart DEF ChainInvariant, RowsTypeOK, Rows
<1>2. before \in ComparableRow /\ m \in Markets
  BY <1>1, ComparableRowTypes DEF ComparableRow
<1>3. GoesOn(t) /\ phase[t] = "new" /\ Writes(t, q, row) /\ phase' = [phase EXCEPT ![t] = "renumber"]
      /\ noted' = [noted EXCEPT ![t] = n] /\ UNCHANGED <<rows, chain>>
  BY DEF deleteComparable, GoesOn, Begins
<1>4. RowTypeOK(q, row) /\ row.capture = NoValue
  <2>1. RowTypeOK(q, before) /\ before \in ComparableRow
    BY <1>1, <1>2
  <2> HIDE DEF before
  <2>2. row.capture = NoValue
    BY <2>1 DEF ComparableRow
  <2> QED BY <2>1, <2>2, ComparableLeavesTypes
<1>5. n.market = m
  OBVIOUS
<1>6. /\ mine[t] = Nothing
      /\ \A r \in Rows : View(t)[r] = rows[r]
      /\ t \in alone' /\ (overlapped' => repaired') => Told(View(t), << >>)
      /\ NeverMet(t) => \A k \in Markets : NumberedIn(View(t), k)
  BY <1>3, StartsInStep
<1>7. \A k : k # m => ~InMarket(View(t)[q], k) /\ ~InMarket(row, k)
  BY <1>1, <1>4, <1>6 DEF InMarket
<1> HIDE DEF row, n, m, before
<1>8. chain[t] = << >>
  BY <1>3 DEF ChainInvariant, OwnOK
<1>9. Changes(View(t), View(t)', q, row) /\ \A r \in Rows : mine'[t][r] = IF r = q THEN row ELSE mine[t][r]
  BY <1>1, <1>3, <1>4, ViewWrites
<1>10. Only(t) /\ phase'[t] = "renumber" /\ noted'[t] = n /\ chain'[t] = << >> /\ phase \in [Requests -> Phases]
  <2>1. DOMAIN mine' = Requests /\ \A s \in Requests \ {t} : mine'[s] = mine[s]
    BY <1>3 DEF Writes, ChainInvariant
  <2> QED BY <1>3, <1>8, <2>1 DEF ChainInvariant, Only, Phases
<1>11. \A k \in Markets : k # m => SameOffers(View(t), View(t)', k) /\ ReferencesOf(View(t)', k) = ReferencesOf(View(t), k)
  BY <1>7, <1>9, OtherMarkets
<1>12. ASSUME MetNobody(t) PROVE Told(View(t)', recompute(m))
  <2> DEFINE v == View(t)
             w == View(t)'
             ch == recompute(m)
  <2>1. mine'[t]["precision"] = Unwritten
    BY <1>1, <1>6, <1>9, PrecisionIsTable DEF Nothing
  <2>2. Told(v, << >>)
    BY <1>6, <1>12, <2>1 DEF MetNobody
  <2>3. SameTables(v, w) /\ LineOK(v) /\ \A k \in Markets : k # m => SameOffers(v, w, k)
    BY <1>9, <1>11, ComparableChanges, LinesAreOK
  <2>4. InChain(m, ch) /\ (m = "INMUEBLE_RENTA" => InChain("ingresos", ch))
    BY <1>2, MarketInChain DEF Followed
  <2> HIDE DEF v, w, ch
  <2>5. Told(w, ch)
    BY <1>2, <2>2, <2>3, <2>4, NoneInChain, ComparablesMove
  <2> QED BY <2>5 DEF w, ch
<1>13. OwnLast(mine'[t], "renumber", << >>, n)
  <2>1. Fed \subseteq Rows /\ Kept \subseteq Rows /\ Own \subseteq Rows
    BY FedAreTables, FedNamed DEF Kept, Own, Rows
  <2>2. \A r \in Fed \cup Kept \cup Own : mine'[t][r] = Unwritten
    BY <1>1, <1>6, <1>9, <2>1 DEF Nothing
  <2> QED BY <2>2, NoneInChain DEF OwnLast
<1>14. NeverMet(t) => NumbersFollow(View(t)', "renumber", n)
  <2> SUFFICES ASSUME NeverMet(t), NEW k \in Markets, k # m PROVE NumberedIn(View(t)', k)
    BY <1>5 DEF NumbersFollow
  <2> QED BY <1>6, <1>11, SameNumbers DEF SameOffers
<1>15. MetNobody(t) => Follows(View(t)', "renumber", << >>, n)
  BY <1>5, <1>12 DEF Follows
<1>16. LeavesInStep(t, View(t)')
  BY <1>10, <1>13, <1>14, <1>15 DEF LeavesInStep, MetNobody, NeverMet
<1>17. phase'[t] \notin {"new", "done"}
  BY <1>10
<1> QED BY <1>3, <1>10, <1>16, <1>17, WorkGoesOn

\* The others of the market are numbered from 1, and offer what they offered.
LEMMA RenumberFollows ==
    ASSUME ChainInvariant, StepInvariant, NEW t \in Requests, Renumber(t)
    PROVE  StepInvariant'
<1> DEFINE v == View(t)
           w == View(t)'
           market == noted[t].market
           rest == ComparablesOf(v, market)
           ch == recompute(market)
<1>1. phase[t] = "renumber" /\ market \in Markets
  BY DEF Renumber, ChainInvariant, OwnOK, NotedOK
<1>2. rest \subseteq Comparables /\ rest \subseteq Rows
  BY ComparablesAreRows DEF ComparablesOf
<1>3. PICK place \in Numberings(v, market) :
         mine' = [mine EXCEPT ![t] = [r \in Tables \cup Comparables |->
                    IF r \in rest THEN [v[r] EXCEPT !.value = place[r]] ELSE @[r]]]
  BY DEF Renumber
<1>4. phase' = [phase EXCEPT ![t] = "recompute"] /\ chain' = [chain EXCEPT ![t] = ch]
      /\ noted' = [noted EXCEPT ![t] = NoValue] /\ UNCHANGED <<rows, history>> /\ GoesOn(t)
  BY <1>1 DEF Renumber, Recomputes, Continues, GoesOn, Busy
<1>5. DOMAIN mine' = Requests /\ (\A s \in Requests \ {t} : mine'[s] = mine[s])
      /\ \A r \in Rows : mine'[t][r] = IF r \in rest THEN [v[r] EXCEPT !.value = place[r]] ELSE mine[t][r]
  BY <1>3 DEF ChainInvariant, Rows
<1>6. Only(t) /\ phase'[t] = "recompute" /\ noted'[t] = NoValue /\ chain'[t] = ch /\ phase \in [Requests -> Phases]
  BY <1>4, <1>5 DEF ChainInvariant, Only, Phases
<1>7. \A r \in Rows : RowTypeOK(r, v[r])
  BY ViewTypes
<1>8. (\A r \in Rows : v[r] = IF mine[t][r] = Unwritten THEN rows[r] ELSE mine[t][r])
      /\ \A r \in Rows : w[r] = IF mine'[t][r] = Unwritten THEN rows[r] ELSE mine'[t][r]
  BY <1>4, ViewOf
<1> HIDE DEF v, w, market, rest, ch
<1>9. ASSUME NEW q \in rest
      PROVE  mine'[t][q] # Unwritten /\ mine'[t][q].capture = v[q].capture /\ mine'[t][q].market = v[q].market
             /\ mine'[t][q].value = place[q]
  <2> DEFINE row == v[q]
             x == place[q]
             new == [row EXCEPT !.value = x]
  <2>1. row \in ComparableRow
    BY <1>2, <1>7, ComparableRowTypes
  <2>2. mine'[t][q] = new
    BY <1>2, <1>5
  <2> HIDE DEF row, x
  <2>3. DOMAIN new = {"capture", "market", "value"} /\ new.capture = row.capture /\ new.market = row.market /\ new.value = x
    BY <2>1 DEF ComparableRow
  <2>4. new # Unwritten
    BY <2>3 DEF Unwritten
  <2> HIDE DEF new
  <2> QED BY <2>2, <2>3, <2>4 DEF row, x
<1>10. \A q \in Rows \ rest : w[q] = v[q]
  BY <1>5, <1>8
<1>11. \A q \in rest : w[q].capture = v[q].capture /\ w[q].market = v[q].market /\ w[q].value = place[q]
  BY <1>2, <1>8, <1>9
<1>12. NumberedIn(w, market) /\ \A k : SameOffers(v, w, k) /\ (k # market => ReferencesOf(w, k) = ReferencesOf(v, k))
  <2>1. \A q \in Comparables \ ComparablesOf(v, market) : w[q] = v[q]
    BY <1>10, ComparablesAreRows DEF rest
  <2>2. \A q \in ComparablesOf(v, market) : /\ w[q].capture = v[q].capture /\ w[q].market = v[q].market
                                            /\ w[q].value = place[q]
    BY <1>11 DEF rest
  <2>3. place \in Numberings(v, market) /\ Renumbers(v, w, market, place)
    BY <1>3, <2>1, <2>2 DEF Renumbers
  <2> QED BY <2>3, Renumbered
<1>13. SameTables(v, w)
  BY <1>2, <1>10, TablesAreNoComparables DEF SameTables
<1>14. Closed(ch) /\ InChain(market, ch) /\ (market = "INMUEBLE_RENTA" => InChain("ingresos", ch)) /\ \A a \in Own : ~InChain(a, ch)
  <2>1. \A a \in Own : a \notin {market, "costos", "ingresos", "resumen"}
    BY <1>1, KindsApart DEF Own
  <2> QED BY <1>1, <2>1, MarketInChain DEF Followed, ch
<1>15. \A r \in Tables : mine[t][r] = Unwritten /\ mine'[t][r] = Unwritten
  <2>1. \A r \in Tables : mine[t][r] = Unwritten
    BY <1>1 DEF ChainInvariant, OwnOK
  <2> QED BY <1>2, <1>5, <2>1, TablesAreNoComparables
<1>16. alone' = alone /\ overlapped' = overlapped /\ repaired' = repaired
  BY <1>4 DEF history
<1>17. ASSUME MetNobody(t) PROVE Told(w, ch)
  <2>1. Follows(View(t), phase[t], chain[t], noted[t])
    BY <1>15, <1>16, <1>17, PrecisionIsTable DEF StepInvariant, Reliable, MetNobody
  <2>2. Told(v, ch)
    BY <1>1, <2>1 DEF Follows, v, ch, market
  <2>3. LineOK(v)
    BY LinesAreOK DEF v
  <2> QED BY <1>1, <1>12, <1>13, <1>14, <2>2, <2>3, ComparablesMove
<1>18. ASSUME NeverMet(t), NEW k \in Markets PROVE NumberedIn(w, k)
  <2>1. NumbersFollow(View(t), phase[t], noted[t])
    BY <1>16, <1>18 DEF StepInvariant, NeverMet
  <2>2. k # market => NumberedIn(v, k)
    BY <2>1 DEF NumbersFollow, v, market
  <2> QED BY <1>12, <2>2, SameNumbers DEF SameOffers
<1>19. OwnLast(mine'[t], "recompute", ch, NoValue)
  <2>1. \A r \in Fed \cup Kept \cup Own : mine'[t][r] = Unwritten
    BY <1>15, FedAreTables, KindsApart
  <2> QED BY <1>14, <2>1 DEF OwnLast
<1>20. MetNobody(t) => Follows(w, "recompute", ch, NoValue)
  BY <1>14, <1>17 DEF Follows
<1>21. NeverMet(t) => NumbersFollow(w, "recompute", NoValue)
  BY <1>18 DEF NumbersFollow
<1>22. LeavesInStep(t, w)
  BY <1>6, <1>19, <1>20, <1>21 DEF LeavesInStep, MetNobody, NeverMet
<1>23. LeavesInStep(t, View(t)')
  BY <1>22 DEF w
<1>24. phase'[t] \notin {"new", "done"}
  BY <1>6
<1> QED BY <1>4, <1>6, <1>23, <1>24, WorkGoesOn

\* and so does every request about a comparable.
LEMMA ComparablesFollow ==
    ASSUME ChainInvariant, StepInvariant, NEW t \in Requests, ComparableRequest(t)
    PROVE  StepInvariant'
BY RenumberFollows, NumberFollows, DeleteMarketFollows, DeleteFollows, InsertFollows, UpdateFollows DEF ComparableRequest

-----------------------------------------------------------------------------
(* The chain steps *)

\* What a request at work on its chain knows.
LEMMA WorkInStep ==
    ASSUME ChainInvariant, StepInvariant, NEW t \in Requests, phase[t] \in {"recompute", "store"}, chain[t] # << >>,
           UNCHANGED <<rows, history>>
    PROVE  /\ Pending(chain[t]) /\ Head(chain[t]) \in Recomputed /\ Head(chain[t]) \in Rows
           /\ GoesOn(t) /\ phase \in [Requests -> Phases]
           /\ OwnLast(mine[t], phase[t], chain[t], noted[t])
           /\ \A a \in Fed : Bare(View(t)[a])
           /\ MetNobody(t) /\ mine'[t]["precision"] = mine[t]["precision"] =>
                 /\ Told(View(t), chain[t]) /\ Closed(chain[t])
                 /\ phase[t] = "store" => noted[t] = Computed(View(t), Head(chain[t]))
           /\ NeverMet(t) => \A m \in Markets : NumberedIn(View(t), m)
<1> DEFINE ch == chain[t]
<1>1. ch \in Seq(Recomputed) /\ ch # << >>
  BY DEF ChainInvariant, OwnOK
<1> HIDE DEF ch
<1>2. Pending(ch) /\ Head(ch) \in Recomputed
  BY <1>1, RestAscends DEF Pending
<1>3. Head(ch) \in Rows
  BY <1>2, RecomputedAreTables, TablesAreNoComparables
<1>4. GoesOn(t) /\ phase \in [Requests -> Phases]
  BY DEF GoesOn, Busy, ChainInvariant
<1>5. OwnLast(mine[t], phase[t], chain[t], noted[t])
  BY DEF StepInvariant
<1>6. \A a \in Fed : Bare(View(t)[a])
  <2>1. \A a \in Fed : a \in Rows
    BY FedAreTables DEF Rows
  <2>2. \A a \in Fed : Bare(rows[a]) /\ (mine[t][a] # Unwritten => Bare(mine[t][a]))
    BY <1>5 DEF StepInvariant, OwnLast
  <2> QED BY <2>1, <2>2, ViewOf
<1>7. alone' = alone /\ overlapped' = overlapped /\ repaired' = repaired
  BY DEF history
<1>8. ASSUME MetNobody(t), mine'[t]["precision"] = mine[t]["precision"]
      PROVE  Follows(View(t), phase[t], chain[t], noted[t])
  BY <1>7, <1>8 DEF StepInvariant, Reliable, MetNobody, Holds
<1>9. NeverMet(t) => NumbersFollow(View(t), phase[t], noted[t])
  BY <1>7 DEF StepInvariant, NeverMet
<1> QED BY <1>2, <1>3, <1>4, <1>5, <1>6, <1>8, <1>9 DEF ch, Follows, NumbersFollow

\* A chain that finds nothing captured leaves nothing out of step.
LEMMA SkipFollows ==
    ASSUME ChainInvariant, StepInvariant, NEW t \in Requests, Skip(t)
    PROVE  StepInvariant'
<1> DEFINE v == View(t)
           ch == chain[t]
           rest == Tail(ch)
<1>1. phase[t] = "recompute" /\ ch # << >> /\ UNCHANGED <<rows, history>> /\ UNCHANGED <<mine, phase, noted>>
      /\ chain' = [chain EXCEPT ![t] = rest]
  BY DEF Skip
<1>2. /\ Pending(ch) /\ Head(ch) \in Recomputed /\ Head(ch) \in Rows
      /\ GoesOn(t) /\ phase \in [Requests -> Phases]
      /\ OwnLast(mine[t], phase[t], ch, noted[t])
      /\ \A a \in Fed : Bare(v[a])
      /\ MetNobody(t) => Told(v, ch) /\ Closed(ch)
      /\ NeverMet(t) => \A m \in Markets : NumberedIn(v, m)
  BY <1>1, WorkInStep
<1>3. Head(ch) \in Kept /\ v[Head(ch)].capture = NoValue
  BY DEF Skip, Absent, Kept
<1>4. Only(t) /\ phase'[t] = "recompute" /\ chain'[t] = rest /\ noted'[t] = noted[t] /\ mine'[t] = mine[t]
  BY <1>1 DEF Only, ChainInvariant
<1>5. View(t)' = v
  BY <1>1 DEF View
<1>6. v[Head(ch)] = IF mine[t][Head(ch)] = Unwritten THEN rows[Head(ch)] ELSE mine[t][Head(ch)]
  BY <1>2, ViewOf
<1>7. \A a : InChain(a, ch) <=> a = Head(ch) \/ InChain(a, rest)
  BY <1>2, InRest DEF Pending
<1>8. Told(v, ch) /\ Closed(ch) => Told(v, rest) /\ Closed(rest)
  <2> HIDE DEF v, ch
  <2> QED BY <1>2, <1>3, SkipMoves
<1> HIDE DEF v, ch, rest
\* The machinery a chain is to recompute was captured by its request.
<1>9. \A a \in Own : InChain(a, rest) <=> InChain(a, ch)
  <2> SUFFICES ASSUME NEW a \in Own, a = Head(ch) PROVE FALSE
    BY <1>7
  <2>1. mine[t][a] # Unwritten
    BY <1>2, <1>7 DEF OwnLast
  <2> QED BY <2>1, <1>2, <1>3, <1>6 DEF OwnLast
<1>10. OwnLast(mine[t], "recompute", rest, noted[t])
  BY <1>2, <1>9 DEF OwnLast
<1>11. MetNobody(t) => Follows(v, "recompute", rest, noted[t])
  BY <1>2, <1>8 DEF Follows
<1>12. NeverMet(t) => NumbersFollow(v, "recompute", noted[t])
  BY <1>2 DEF NumbersFollow
<1>13. LeavesInStep(t, v)
  BY <1>4, <1>10, <1>11, <1>12 DEF LeavesInStep, MetNobody, NeverMet
<1>14. LeavesInStep(t, View(t)') /\ phase'[t] \notin {"new", "done"} /\ UNCHANGED rows
  BY <1>1, <1>4, <1>5, <1>13
<1> QED BY <1>2, <1>4, <1>14, WorkGoesOn

\* What a chain computes is what it will find in step when it stores it.
LEMMA ComputeFollows ==
    ASSUME ChainInvariant, StepInvariant, NEW t \in Requests, Compute(t)
    PROVE  StepInvariant'
<1> DEFINE v == View(t)
           ch == chain[t]
           x == Computed(v, Head(ch))
<1>1. phase[t] = "recompute" /\ ch # << >> /\ UNCHANGED <<rows, history>> /\ UNCHANGED <<mine, chain>>
      /\ noted' = [noted EXCEPT ![t] = x] /\ phase' = [phase EXCEPT ![t] = "store"]
  BY DEF Compute
<1>2. /\ Pending(ch) /\ Head(ch) \in Recomputed /\ Head(ch) \in Rows
      /\ GoesOn(t) /\ phase \in [Requests -> Phases]
      /\ OwnLast(mine[t], phase[t], ch, noted[t])
      /\ MetNobody(t) => Told(v, ch) /\ Closed(ch)
      /\ NeverMet(t) => \A m \in Markets : NumberedIn(v, m)
  BY <1>1, WorkInStep
<1>3. Head(ch) \in Kept => v[Head(ch)].capture # NoValue
  BY DEF Compute, Absent, Kept
<1> HIDE DEF x
<1>4. Only(t) /\ phase'[t] = "store" /\ chain'[t] = ch /\ noted'[t] = x /\ mine'[t] = mine[t]
  BY <1>1 DEF Only, ChainInvariant, Phases
<1>5. View(t)' = v
  BY <1>1 DEF View
<1>6. v[Head(ch)] = IF mine[t][Head(ch)] = Unwritten THEN rows[Head(ch)] ELSE mine[t][Head(ch)]
  BY <1>2, ViewOf
<1>7. InChain(Head(ch), ch)
  BY <1>2, InRest DEF Pending
<1> HIDE DEF v, ch
<1>8. \A a \in Own : Head(ch) = a => x = ValueOf(mine[t][a].capture)
  <2> SUFFICES ASSUME NEW a \in Own, Head(ch) = a PROVE x = ValueOf(mine[t][a].capture)
    OBVIOUS
  <2>1. v[a] = mine[t][a]
    BY <1>2, <1>6, <1>7 DEF OwnLast
  <2>2. x = OwnValue(v, a)
    BY ComputedByKind DEF x
  <2> QED BY <2>1, <2>2 DEF OwnValue, ValueOf
<1>9. OwnLast(mine[t], "store", ch, x)
  BY <1>2, <1>8 DEF OwnLast
<1>10. MetNobody(t) => Follows(v, "store", ch, x)
  BY <1>2 DEF Follows, x
<1>11. NeverMet(t) => NumbersFollow(v, "store", x)
  BY <1>2 DEF NumbersFollow
<1>12. LeavesInStep(t, v)
  BY <1>3, <1>4, <1>9, <1>10, <1>11 DEF LeavesInStep, MetNobody, NeverMet
<1>13. LeavesInStep(t, View(t)') /\ phase'[t] \notin {"new", "done"} /\ UNCHANGED rows
  BY <1>1, <1>4, <1>5, <1>12
<1> QED BY <1>2, <1>4, <1>13, WorkGoesOn

\* The row a chain stores.
LEMMA StoredRow ==
    ASSUME NEW r \in Recomputed, NEW row, RowTypeOK(r, row), NEW x, NEW new,
           new = [row EXCEPT !.value = x, !.capture = IF r \in Markets /\ @ = NoValue THEN Default ELSE @]
    PROVE  Holding(new, IF r \in Markets /\ row.capture = NoValue THEN Default ELSE row.capture, x) /\ RowTypeOK(r, new)
<1>1. DOMAIN row = {"capture", "value"}
  BY RecomputedAreTables, TableRowTypes
<1>2. new.value = x /\ new.capture = IF r \in Markets /\ row.capture = NoValue THEN Default ELSE row.capture
  BY <1>1
<1>3. RowTypeOK(r, new)
  BY StoredTypes
<1> QED BY <1>2, <1>3 DEF Holding

\* Storing puts one value in step, and what that puts out of step is in the rest of the chain.
LEMMA StoreFollows ==
    ASSUME ChainInvariant, StepInvariant, NEW t \in Requests, Store(t)
    PROVE  StepInvariant'
<1> DEFINE v == View(t)
           w == View(t)'
           ch == chain[t]
           r == Head(ch)
           rest == Tail(ch)
           row == v[r]
           x == noted[t]
           new == [row EXCEPT !.value = x, !.capture = IF r \in Markets /\ @ = NoValue THEN Default ELSE @]
<1>1. phase[t] = "store" /\ ch # << >>
  BY DEF Store, ChainInvariant, OwnOK
<1>2. Writes(t, r, new) /\ UNCHANGED <<rows, history>> /\ UNCHANGED rows
      /\ phase' = [phase EXCEPT ![t] = "recompute"] /\ chain' = [chain EXCEPT ![t] = rest] /\ noted' = [noted EXCEPT ![t] = NoValue]
  BY DEF Store
<1>3. /\ Pending(ch) /\ r \in Recomputed /\ r \in Rows
      /\ GoesOn(t) /\ phase \in [Requests -> Phases]
      /\ OwnLast(mine[t], phase[t], ch, x)
      /\ MetNobody(t) /\ mine'[t]["precision"] = mine[t]["precision"] => Told(v, ch) /\ Closed(ch) /\ x = Computed(v, r)
      /\ NeverMet(t) => \A m \in Markets : NumberedIn(v, m)
  BY <1>1, <1>2, WorkInStep
<1>4. r \in Kept => row.capture # NoValue
  BY <1>1 DEF StepInvariant
<1>5. RowTypeOK(r, row)
  BY <1>3, ViewTypes
<1>6. Holding(new, IF r \in Markets /\ row.capture = NoValue THEN Default ELSE row.capture, x) /\ RowTypeOK(r, new)
  <2> HIDE DEF r, row, x, new
  <2> QED BY <1>3, <1>5, StoredRow DEF new
<1> HIDE DEF new
<1>7. Changes(v, w, r, new) /\ \A q \in Rows : mine'[t][q] = IF q = r THEN new ELSE mine[t][q]
  <2> HIDE DEF r
  <2> QED BY <1>2, <1>3, <1>6, ViewWrites
<1>8. Only(t) /\ phase'[t] = "recompute" /\ chain'[t] = rest /\ noted'[t] = NoValue
  <2>1. DOMAIN mine' = Requests /\ \A s \in Requests \ {t} : mine'[s] = mine[s]
    BY <1>2 DEF Writes, ChainInvariant
  <2> QED BY <1>2, <2>1 DEF ChainInvariant, Only, Phases
<1>9. \A a : InChain(a, ch) <=> a = r \/ InChain(a, rest)
  BY <1>3, InRest DEF Pending
<1>10. v[r] = (IF mine[t][r] = Unwritten THEN rows[r] ELSE mine[t][r]) /\ v[r] = row
  BY <1>3, ViewOf
<1>11. LineOK(v)
  BY LinesAreOK
<1>12. new # Unwritten
  BY <1>3, <1>6, RowIsWritten
<1>13. r \in Tables \ {"precision"}
  BY <1>3, RecomputedAreTables
<1>14. Stores(v, r, new) <=> Holding(new, IF r \in Markets /\ row.capture = NoValue THEN Default ELSE row.capture, Computed(v, r))
  BY DEF Stores
<1>15. Told(v, ch) /\ Closed(ch) /\ x = Computed(v, r) => Told(w, rest) /\ Closed(rest)
  <2> SUFFICES ASSUME Told(v, ch), Closed(ch), x = Computed(v, r) PROVE Told(w, rest) /\ Closed(rest)
    OBVIOUS
  <2>1. Stores(v, Head(ch), new) /\ Changes(v, w, Head(ch), new)
    BY <1>6, <1>7, <1>14
  <2> HIDE DEF v, w, ch, x
  <2> QED BY <1>3, <1>11, <2>1, StoreMoves DEF rest
<1> HIDE DEF v, w, ch, r, rest, row, x
<1>16. mine'[t]["precision"] = mine[t]["precision"]
  BY <1>7, <1>13, PrecisionIsTable
<1>17. MetNobody(t) => Follows(w, "recompute", rest, NoValue)
  BY <1>3, <1>15, <1>16 DEF Follows
<1>18. NeverMet(t) => NumbersFollow(w, "recompute", NoValue)
  <2> SUFFICES ASSUME NeverMet(t), NEW m \in Markets PROVE NumberedIn(w, m)
    BY DEF NumbersFollow
  <2>1. SameOffers(v, w, m) /\ ReferencesOf(w, m) = ReferencesOf(v, m)
    BY <1>7, <1>13, TableChanges
  <2> QED BY <1>3, <2>1, SameNumbers DEF SameOffers
<1>19. OwnLast(mine'[t], "recompute", rest, NoValue)
  <2>1. Fed \subseteq Rows /\ Kept \subseteq Rows /\ Own \subseteq Rows /\ Own \cap Fed = {} /\ Own \cap Markets = {} /\ Kept \cap Markets = {}
    BY FedAreTables, FedNamed, KindsApart DEF Kept, Own, Rows
  <2>2. r \in Fed => Bare(new)
    <3> SUFFICES ASSUME r \in Fed PROVE new.capture # NoValue
      BY DEF Bare
    <3>1. r \in Markets \/ r \in Kept
      BY DEF Fed, Kept
    <3>2. Default # NoValue
      BY CapturesAssumption, NamesAssumption
    <3> QED BY <3>1, <3>2, <1>4, <1>6 DEF Holding
  <2>3. r \in Kept => new.capture # NoValue
    BY <1>4, <1>6, <2>1 DEF Holding
  <2>4. ASSUME NEW a \in Own
        PROVE  /\ InChain(a, rest) => mine'[t][a] # Unwritten
               /\ mine'[t][a] # Unwritten => InChain(a, rest) \/ mine'[t][a].value = ValueOf(mine'[t][a].capture)
    <3>1. CASE a = r
      <4>1. mine[t][a] # Unwritten /\ x = ValueOf(mine[t][a].capture)
        BY <3>1, <1>1, <1>3, <1>9 DEF OwnLast, r, ch
      <4>2. new.value = x /\ new.capture = mine[t][a].capture
        BY <3>1, <4>1, <1>6, <1>10, <2>1 DEF Holding
      <4>3. mine'[t][a] = new
        BY <3>1, <1>7, <2>1
      <4> QED BY <4>1, <4>2, <4>3, <1>12
    <3>2. CASE a # r
      <4>1. mine'[t][a] = mine[t][a] /\ (InChain(a, rest) <=> InChain(a, ch))
        BY <3>2, <1>7, <1>9, <2>1
      <4> QED BY <4>1, <1>3 DEF OwnLast
    <3> QED BY <3>1, <3>2
  <2>5. \A q \in Fed : mine'[t][q] # Unwritten => Bare(mine'[t][q])
    BY <1>3, <1>7, <2>1, <2>2 DEF OwnLast
  <2>6. \A q \in Kept : mine'[t][q] # Unwritten => mine'[t][q].capture # NoValue
    BY <1>3, <1>7, <2>1, <2>3 DEF OwnLast
  <2> QED BY <2>4, <2>5, <2>6 DEF OwnLast
<1>20. LeavesInStep(t, w)
  BY <1>8, <1>17, <1>18, <1>19 DEF LeavesInStep, MetNobody, NeverMet
<1>21. LeavesInStep(t, View(t)') /\ phase'[t] \notin {"new", "done"}
  BY <1>8, <1>20 DEF w
<1> QED BY <1>2, <1>3, <1>8, <1>21, WorkGoesOn

-----------------------------------------------------------------------------
(* The end of a request *)

\* Nobody is at work alone once t, which was, has ended; and whoever was at work
\* beside another was not alone.
LEMMA EndsAlone ==
    ASSUME ChainInvariant, StepInvariant, NEW t \in Requests, Busy(t), Finishes(t)
    PROVE  /\ Only(t) /\ mine'[t] = Nothing /\ phase'[t] = "done" /\ chain'[t] = << >> /\ ~Busy(t)'
           /\ alone' = {}
           /\ t \in alone \/ Reliable => \A s \in Requests : ~Busy(s)'
           /\ Reliable => t \in alone
           /\ \A s \in Requests : OwnLast(mine'[s], phase'[s], chain'[s], noted'[s])
<1>1. mine'[t] = Nothing /\ Only(t) /\ phase'[t] = "done" /\ chain'[t] = << >> /\ noted'[t] = NoValue
  BY DEF Finishes, Only, ChainInvariant, Phases, Nothing, Rows
<1>2. Meeting
  BY DEF StepInvariant
<1>3. alone' = {}
  <2> SUFFICES ASSUME NEW s \in alone, s # t PROVE FALSE
    BY DEF Finishes
  <2> QED BY <1>2 DEF Meeting
<1>4. ~Busy(t)' /\ \A s \in Requests \ {t} : Busy(s)' <=> Busy(s)
  BY <1>1 DEF Only, Busy
<1>5. Reliable => t \in alone
  BY <1>2 DEF Meeting
<1>6. t \in alone => \A s \in Requests : ~Busy(s)'
  BY <1>2, <1>4 DEF Meeting
<1>7. OwnLast(Nothing, "done", << >>, NoValue)
  <2>1. Fed \subseteq Rows /\ Kept \subseteq Rows /\ Own \subseteq Rows
    BY FedAreTables, FedNamed DEF Kept, Own, Rows
  <2> QED BY <2>1, NoneInChain DEF OwnLast, Nothing
<1>8. \A s \in Requests : OwnLast(mine'[s], phase'[s], chain'[s], noted'[s])
  BY <1>1, <1>7 DEF StepInvariant, Only
<1> QED BY <1>1, <1>3, <1>4, <1>5, <1>6, <1>8

\* A transaction that ends with the rows in step keeps the invariant.
LEMMA EndsInStep ==
    ASSUME ChainInvariant, StepInvariant, NEW t \in Requests, Busy(t), Finishes(t),
           \A r \in Fed : Bare(rows'[r]), OwnInStep(rows'),
           \A s \in Requests : phase'[s] = "store" /\ Head(chain'[s]) \in Kept => View(s)'[Head(chain'[s])].capture # NoValue,
           Reliable' => t \in alone \/ Reliable,
           Reliable' => Told(rows', << >>),
           ~overlapped' => NumberedFromOne(rows')
    PROVE  StepInvariant'
<1>1. /\ alone' = {}
      /\ t \in alone \/ Reliable => \A s \in Requests : ~Busy(s)'
      /\ \A s \in Requests : OwnLast(mine'[s], phase'[s], chain'[s], noted'[s])
  BY EndsAlone
<1>2. Meeting'
  BY <1>1 DEF Meeting
<1> HIDE DEF Meeting, Reliable
<1> QED BY <1>1, <1>2, PrimesInside DEF StepInvariant

\* A transaction rolled back leaves the rows as they were.
LEMMA RollbackFollows ==
    ASSUME ChainInvariant, StepInvariant, NEW t \in Requests, Rollback(t)
    PROVE  StepInvariant'
<1>1. Busy(t) /\ Finishes(t) /\ rows' = rows /\ overlapped' = overlapped /\ repaired' = repaired
  BY DEF Rollback
<1>2. Only(t) /\ phase'[t] = "done"
  BY <1>1, EndsAlone
<1>3. ASSUME NEW s \in Requests, phase'[s] = "store", Head(chain'[s]) \in Kept
      PROVE  View(s)'[Head(chain'[s])].capture # NoValue
  <2>1. s # t /\ mine'[s] = mine[s] /\ phase'[s] = phase[s] /\ chain'[s] = chain[s]
    BY <1>2, <1>3 DEF Only
  <2>2. View(s)' = View(s)
    BY <1>1, <2>1 DEF View
  <2> QED BY <1>3, <2>1, <2>2 DEF StepInvariant
<1>4. /\ \A r \in Fed : Bare(rows'[r])
      /\ OwnInStep(rows')
      /\ Reliable' => Reliable /\ Told(rows', << >>)
      /\ ~overlapped' => NumberedFromOne(rows')
  BY <1>1 DEF StepInvariant, Reliable
<1> HIDE DEF Reliable
<1> QED BY <1>1, <1>3, <1>4, EndsInStep

\* What a request leaves in step is what is then committed.
LEMMA CommitFollows ==
    ASSUME ChainInvariant, StepInvariant, NEW t \in Requests, Commit(t)
    PROVE  StepInvariant'
<1> DEFINE v == View(t)
<1>1. phase[t] = "recompute" /\ chain[t] = << >> /\ Busy(t) /\ Finishes(t) /\ rows' = v /\ overlapped' = overlapped
      /\ repaired' = (repaired \/ (t \in alone /\ mine[t]["precision"] # Unwritten))
  BY DEF Commit, Busy
<1>2. Only(t) /\ phase'[t] = "done" /\ (Reliable => t \in alone)
  BY <1>1, EndsAlone
<1>3. OwnLast(mine[t], phase[t], chain[t], noted[t])
  BY DEF StepInvariant
<1>4. \A r \in Rows : v[r] = IF mine[t][r] = Unwritten THEN rows[r] ELSE mine[t][r]
  BY ViewOf
<1>5. Fed \subseteq Rows /\ Kept \subseteq Rows /\ Own \subseteq Rows /\ Kept \subseteq Tables
  BY FedAreTables, FedNamed, KindsApart DEF Kept, Own, Rows
<1> HIDE DEF v
<1>6. \A r \in Fed : Bare(v[r])
  <2>1. \A r \in Fed : Bare(rows[r]) /\ (mine[t][r] # Unwritten => Bare(mine[t][r]))
    BY <1>3 DEF StepInvariant, OwnLast
  <2> QED BY <1>4, <1>5, <2>1
<1>7. OwnInStep(v)
  <2> SUFFICES ASSUME NEW a \in Own PROVE v[a].value = OwnValue(v, a)
    BY DEF OwnInStep, Own
  <2>1. CASE mine[t][a] = Unwritten
    <3>1. rows[a].value = OwnValue(rows, a)
      BY DEF StepInvariant, OwnInStep, Own
    <3>2. v[a] = rows[a]
      BY <2>1, <1>4, <1>5
    <3> QED BY <3>1, <3>2 DEF OwnValue
  <2>2. CASE mine[t][a] # Unwritten
    <3>1. mine[t][a].value = ValueOf(mine[t][a].capture)
      BY <2>2, <1>1, <1>3, NoneInChain DEF OwnLast
    <3>2. v[a] = mine[t][a]
      BY <2>2, <1>4, <1>5
    <3> QED BY <3>1, <3>2 DEF OwnValue, ValueOf
  <2> QED BY <2>1, <2>2
<1>8. ASSUME NEW s \in Requests, phase'[s] = "store", Head(chain'[s]) \in Kept
      PROVE  View(s)'[Head(chain'[s])].capture # NoValue
  <2> DEFINE r == Head(chain[s])
  <2>1. s # t /\ mine'[s] = mine[s] /\ phase'[s] = phase[s] /\ chain'[s] = chain[s]
    BY <1>2, <1>8 DEF Only
  <2>2. r \in Kept /\ r \in Rows /\ View(s)[r].capture # NoValue
    BY <1>5, <1>8, <2>1 DEF StepInvariant
  <2>3. Head(chain'[s]) = r
    BY <2>1
  <2> HIDE DEF r
  <2>4. /\ View(s)[r] = IF mine[s][r] = Unwritten THEN rows[r] ELSE mine[s][r]
        /\ View(s)'[r] = IF mine'[s][r] = Unwritten THEN rows'[r] ELSE mine'[s][r]
    BY <2>2, ViewOf
  <2>5. CASE mine[s][r] # Unwritten
    BY <2>1, <2>2, <2>3, <2>4, <2>5
  <2>6. CASE mine[s][r] = Unwritten
    <3>1. mine[t][r] # Unwritten => mine[t][r].capture # NoValue
      BY <1>3, <2>2 DEF OwnLast
    <3>2. rows[r].capture # NoValue
      BY <2>2, <2>4, <2>6
    <3>3. v[r].capture # NoValue
      BY <1>4, <2>2, <3>1, <3>2
    <3>4. View(s)'[r] = v[r]
      BY <1>1, <2>1, <2>4, <2>6
    <3> QED BY <2>3, <3>3, <3>4
  <2> QED BY <2>5, <2>6
<1>9. Reliable' => t \in alone /\ (Reliable \/ Holds(t, "precision"))
  BY <1>1, <1>2 DEF Reliable, Holds
<1>10. Reliable' => Told(v, << >>)
  <2> SUFFICES ASSUME Reliable' PROVE Told(v, << >>)
    OBVIOUS
  <2>1. Follows(View(t), phase[t], chain[t], noted[t])
    BY <1>9 DEF StepInvariant
  <2> QED BY <1>1, <2>1 DEF Follows, v
<1>11. ~overlapped' => NumberedFromOne(v)
  <2> SUFFICES ASSUME ~overlapped' PROVE NumberedFromOne(v)
    OBVIOUS
  <2>1. ~overlapped /\ t \in alone
    BY <1>1, <1>2 DEF Reliable
  <2>2. NumbersFollow(View(t), phase[t], noted[t])
    BY <2>1 DEF StepInvariant
  <2> QED BY <1>1, <2>2 DEF NumbersFollow, NumberedIn, NumberedFromOne, v
<1>12. Reliable' => t \in alone \/ Reliable
  BY <1>9
<1> HIDE DEF Reliable
<1>13. /\ \A r \in Fed : Bare(rows'[r])
       /\ OwnInStep(rows')
       /\ Reliable' => Told(rows', << >>)
       /\ ~overlapped' => NumberedFromOne(rows')
  BY <1>1, <1>6, <1>7, <1>10, <1>11
<1> QED BY <1>1, <1>8, <1>12, <1>13, EndsInStep

-----------------------------------------------------------------------------
(* What is stored follows from what is captured *)

\* A step of somebody else keeps the invariant.
LEMMA StepStutters ==
    ASSUME StepInvariant, UNCHANGED calculationVars
    PROVE  StepInvariant'
<1>1. rows' = rows /\ mine' = mine /\ phase' = phase /\ chain' = chain /\ noted' = noted
      /\ alone' = alone /\ overlapped' = overlapped /\ repaired' = repaired
  BY DEF calculationVars, history
<1>2. \A t : View(t)' = View(t)
  BY <1>1 DEF View
<1>3. Meeting' <=> Meeting
  BY <1>1 DEF Meeting, Busy, Reliable
<1>4. Reliable' <=> Reliable
  BY <1>1 DEF Reliable
<1>5. \A t : Holds(t, "precision")' <=> Holds(t, "precision")
  BY <1>1 DEF Holds
<1> HIDE DEF Meeting, Reliable, Holds
<1> QED BY <1>1, <1>2, <1>3, <1>4, <1>5, PrimesInside DEF StepInvariant

\* A new version has nothing out of step.
LEMMA StepStarts == CalculationInit => StepInvariant
<1> SUFFICES ASSUME CalculationInit PROVE StepInvariant
  OBVIOUS
<1>1. \A t \in Requests : mine[t] = Nothing /\ phase[t] = "new" /\ chain[t] = << >> /\ noted[t] = NoValue
  BY DEF CalculationInit, CalculationRest, Nothing, Rows
<1>2. \A r \in Fed : Bare(rows[r])
  <2>1. Fed \subseteq Approaches
    BY DEF Fed, Approaches
  <2> QED BY <2>1 DEF CalculationInit, Captured, Bare
<1>3. OwnLast(Nothing, "new", << >>, NoValue)
  <2>1. Fed \subseteq Rows /\ Kept \subseteq Rows /\ Own \subseteq Rows
    BY FedAreTables, FedNamed DEF Kept, Own, Rows
  <2> QED BY <2>1, NoneInChain DEF OwnLast, Nothing
<1>4. Meeting
  BY <1>1 DEF Meeting, Busy, CalculationInit, CalculationRest
<1>5. Reliable => ~overlapped
  BY DEF Reliable, CalculationInit, CalculationRest
<1>6. ~overlapped => Told(rows, << >>)
  <2> SUFFICES ASSUME ~overlapped PROVE Told(rows, << >>)
    OBVIOUS
  <2>1. InStep(rows) /\ (Unchained(rows) \/ ConclusionInStep(rows))
    BY DEF CalculationInit
  <2>2. \A m \in Markets : rows[m].value = Computed(rows, m)
    <3> TAKE m \in Markets
    <3>1. CASE Captured(rows, m)
      BY <3>1, <2>1, ComputedByKind DEF InStep
    <3>2. CASE ~Captured(rows, m)
      BY <3>2, <2>1, NothingComputed DEF InStep, Captured, Fed
    <3> QED BY <3>1, <3>2
  <2>3. rows["costos"].value = Computed(rows, "costos") /\ rows["ingresos"].value = Computed(rows, "ingresos")
    BY <2>1, ComputedByKind DEF InStep
  <2> QED BY <2>1, <2>2, <2>3 DEF Told, Fed
<1>7. alone = {} /\ OwnInStep(rows) /\ (~overlapped => NumberedFromOne(rows))
  BY DEF CalculationInit, CalculationRest
<1> HIDE DEF Meeting, Reliable
<1> QED BY <1>1, <1>2, <1>3, <1>4, <1>5, <1>6, <1>7 DEF StepInvariant

\* What a transaction that met nobody sees is in step with what is captured or
\* still in its chain, in every state a version can reach.
THEOREM StepInvariance == CalculationSpec => []StepInvariant
<1>1. ChainInvariant /\ StepInvariant /\ [CalculationNext]_calculationVars => StepInvariant'
  BY SavesFollow, SaveGoesOnFollows, DocumentsFollow, ComparablesFollow, SkipFollows, ComputeFollows, StoreFollows, CommitFollows,
     RollbackFollows, StepStutters DEF CalculationNext, ChainStep
<1> QED BY <1>1, StepStarts, ChainsInOrder, PTL DEF CalculationSpec

\* At rest, what is in step is in step with what is captured.
LEMMA RestsInStep ==
    ASSUME StepInvariant
    PROVE  StepsWithCaptures
<1>1. ASSUME InOrder PROVE Told(rows, << >>)
  BY <1>1 DEF InOrder, StepInvariant, Reliable
<1>2. ASSUME InOrder PROVE InStep(rows)
  <2>1. \A a \in Fed : rows[a].value = Computed(rows, a) /\ Bare(rows[a])
    BY <1>1, <1>2, NoneInChain DEF Told, StepInvariant
  <2>2. \A m \in Markets : rows[m].value = (IF Captured(rows, m) THEN MarketValue(rows, m) ELSE NoValue)
    BY <2>1, ComputedByKind DEF Fed, Bare, Captured
  <2>3. rows["costos"].value = CostValue(rows) /\ rows["ingresos"].value = IncomeValue(rows)
    BY <2>1, ComputedByKind DEF Fed
  <2> QED BY <2>2, <2>3 DEF InStep
<1>3. InOrder => Unchained(rows) \/ ConclusionInStep(rows)
  BY <1>1, NoneInChain DEF Told
<1>4. OwnInStep(rows) /\ (~overlapped => NumberedFromOne(rows))
  BY DEF StepInvariant
<1> QED BY <1>2, <1>3, <1>4 DEF StepsWithCaptures, ApproachesInStep, OwnValuesInStep, ConclusionFollowsChain, ReferencesInOrder

\* However many save at once: at rest the values follow from what is captured
\* unless transactions met since the precision was last changed alone, those of
\* the machinery and the statistics always do, and the references are 1..n until
\* transactions meet.
THEOREM CapturesAreFollowed == CalculationSpec => []StepsWithCaptures
BY StepInvariance, RestsInStep, PTL
=============================================================================
