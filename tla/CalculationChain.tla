-------------------------- MODULE CalculationChain --------------------------
(***************************************************************************)
(* The calculations of one version of a valuation                          *)
(* (features/valuations/calculation/*.service.ts): what is captured in     *)
(* each approach, the values the server stores for it and the concluded    *)
(* value, recomputed along a chain in the transaction that changes a       *)
(* capture.                                                                *)
(*                                                                         *)
(* Transactions are READ COMMITTED: a request reads what is committed and  *)
(* what it wrote itself, a row it writes is its own until it ends, and two *)
(* chains may read each other's past.  A value is the term of all it was   *)
(* computed from, so that two values are equal only when nothing they      *)
(* depend on differs; the arithmetic of the engine, the formulas typed in  *)
(* the fields, photographs and reviews are left out.  That a concluded     *)
(* version refuses every change is ValuationLifecycle's.                   *)
(*                                                                         *)
(* Of the rows a transaction locks, the model has those two chains can     *)
(* meet on: the captures and results, the runs (EjecucionCalculo) and the  *)
(* construction costs.  The children a save replaces under the row of its  *)
(* approach are locked with that row, and the rows of one kind that one    *)
(* statement after another goes over count as one.  The ratings of the     *)
(* comparables (FactorHomologacion) and the rows of the firm's base are    *)
(* left out.                                                               *)
(***************************************************************************)
EXTENDS Integers, FiniteSets, Sequences

CONSTANTS
    Requests,       \* transactions, each served once
    Captures,       \* what a capture may hold
    Complete,       \* captures an approach can be computed from
    Default,        \* what an approach starts with
    Comparables,    \* rows of ComparableAvaluo
    Exclusions,     \* what a document may leave out of the dictamen
    Lines,          \* the line the summary may be reduced to, or NoValue
    Traced,         \* a bound: the tables beneath which something may be found
    NoValue         \* a value that is NULL, a row that is not there

ASSUME CapturesAssumption == Complete \subseteq Captures /\ Default \in Captures \ Complete
ASSUME NamesAssumption == NoValue \notin Captures /\ NoValue \notin Comparables

VARIABLES
    rows,           \* what is committed
    mine,           \* what each transaction has written
    beneath,        \* what it has locked beneath the rows
    phase,          \* what each request does next
    chain,          \* what it has left to recompute, in order
    noted,          \* what it has read or computed
    alone,          \* history: those at work that met no other
    overlapped,     \* history: two were at work at once
    repaired        \* history: and the precision was changed alone since

history == <<alone, overlapped, repaired>>

calculationVars == <<rows, mine, beneath, phase, chain, noted, history>>

-----------------------------------------------------------------------------
(* Rows *)

COMPARABLE_TYPES == <<"TERRENO_VENTA", "INMUEBLE_VENTA", "INMUEBLE_RENTA", "TERRENO_RENTA">>

Markets == {COMPARABLE_TYPES[i] : i \in 1..4}

isRentComparableType(m) == m \in {"INMUEBLE_RENTA", "TERRENO_RENTA"}

Approaches == Markets \cup {"costos", "ingresos", "maquinaria", "estadistico"}

\* One row each: the approaches, the types of the construction section, the
\* sections of the document, the version's precision and the ResumenValor.
Tables == Approaches \cup {"construcciones", "secciones", "precision", "resumen"}

\* What chains recompute.
Recomputed == Markets \cup {"costos", "ingresos", "maquinaria", "estadistico", "resumen"}

\* What may be locked beneath a table: the run that left its value, of the costs
\* also the land they valued (CostoTerreno), and under the construction types the
\* costs captured for them (CostoConstruccion).
Beneath == Recomputed \cup {"construcciones"}

ReportApproaches == {"costos", "mercado-inmuebles", "mercado-terrenos", "mercado-rentas", "ingresos"}

ASSUME ComparablesAssumption == IsFiniteSet(Comparables) /\ Comparables \cap Tables = {}

SummarySources == ReportApproaches \cup {"regresion", "metas"}

ASSUME DocumentsAssumption ==
    Exclusions \subseteq SUBSET ReportApproaches /\ Lines \subseteq SummarySources \cup {NoValue}

\* The machinery row is there in a valuation of machinery only.
Machinery == rows["maquinaria"].capture # NoValue

\* A row the transaction has not written.
Unwritten == [written |-> FALSE]

Written(r, c) == [rows[r] EXCEPT !.capture = c]

Busy(t) == phase[t] \notin {"new", "done"}

\* What a transaction sees.
View(t) == [r \in Tables \cup Comparables |-> IF mine[t][r] = Unwritten THEN rows[r] ELSE mine[t][r]]

Holds(t, r) == mine[t][r] # Unwritten

\* Nobody else holds the row.
Free(t, r) == \A s \in Requests \ {t} : mine[s][r] = Unwritten

OrElse(v, w) == IF v # NoValue THEN v ELSE w

-----------------------------------------------------------------------------
(* Values, of what a view holds *)

\* The comparables of a market with what they carry.
ComparablesOf(v, m) == {q \in Comparables : v[q].capture # NoValue /\ v[q].market = m}

Offers(v, m) == [q \in ComparablesOf(v, m) |-> v[q].capture]

MarketValue(v, m) ==
    IF v[m].capture \in Complete /\ ComparablesOf(v, m) # {}
      THEN <<v[m].capture, Offers(v, m), v["precision"].capture>>
      ELSE NoValue

\* The land takes the unit value of its market.
CostValue(v) ==
    IF v["costos"].capture \in Complete
      THEN <<v["costos"].capture, v["construcciones"].capture, v["TERRENO_VENTA"].value, v["precision"].capture>>
      ELSE NoValue

\* The rent takes the adopted unit rent and homologates its comparables again.
IncomeValue(v) ==
    IF v["ingresos"].capture \in Complete
      THEN <<v["ingresos"].capture, v["INMUEBLE_RENTA"].value, v["INMUEBLE_RENTA"].capture,
             Offers(v, "INMUEBLE_RENTA"), v["precision"].capture>>
      ELSE NoValue

OwnValue(v, a) == IF v[a].capture \in Complete THEN <<v[a].capture>> ELSE NoValue

Included(v, report, value) == IF report \in v["secciones"].capture THEN NoValue ELSE value

marketLeftOut(v) == {"mercado-inmuebles", "mercado-terrenos"} \subseteq v["secciones"].capture

approachValues(v) ==
    IF v["maquinaria"].capture # NoValue
      THEN [costos |-> Included(v, "costos", v["maquinaria"].value),
            mercado |-> IF marketLeftOut(v) THEN NoValue ELSE v["maquinaria"].value,
            ingresos |-> NoValue]
      ELSE [costos |-> Included(v, "costos", v["costos"].value),
            mercado |-> OrElse(Included(v, "mercado-inmuebles", v["INMUEBLE_VENTA"].value),
                               Included(v, "mercado-terrenos", v["TERRENO_VENTA"].value)),
            ingresos |-> Included(v, "ingresos", v["ingresos"].value)]

availableValue(v, source) ==
    CASE source = "costos" -> Included(v, source, v["costos"].value)
      [] source = "mercado-inmuebles" -> Included(v, source, v["INMUEBLE_VENTA"].value)
      [] source = "mercado-terrenos" -> Included(v, source, v["TERRENO_VENTA"].value)
      [] source = "mercado-rentas" -> Included(v, source, OrElse(v["INMUEBLE_RENTA"].value, v["TERRENO_RENTA"].value))
      [] source = "ingresos" -> Included(v, source, v["ingresos"].value)
      [] source \in {"regresion", "metas"} -> v["estadistico"].value

\* With one line in the summary the concluded value is the value of that line.
conclusionInput(v) ==
    LET line == v["resumen"].capture
    IN  [values |-> approachValues(v),
         line |-> IF line = NoValue THEN NoValue ELSE availableValue(v, line)]

\* What a row's value is computed to from a view.
Computed(v, r) ==
    CASE r \in Markets -> MarketValue(v, r)
      [] r = "costos" -> CostValue(v)
      [] r = "ingresos" -> IncomeValue(v)
      [] r \in {"maquinaria", "estadistico"} -> OwnValue(v, r)
      [] r = "resumen" -> conclusionInput(v)

-----------------------------------------------------------------------------
(* Transactions *)

Others(t) == {s \in Requests \ {t} : Busy(s)}

\* The first statement of a transaction that waits for nobody.
Begins(t) ==
    /\ phase[t] = "new"
    /\ alone' = IF Others(t) = {} THEN {t} ELSE {}
    /\ overlapped' = (overlapped \/ Others(t) # {})
    /\ repaired' = (repaired /\ Others(t) = {})

Writes(t, r, value) ==
    /\ Free(t, r)
    /\ mine' = [mine EXCEPT ![t][r] = value]

\* Deletes or rewrites what it finds beneath these tables.  A run is there when
\* the last computation had a result, and one that it waited for may be gone.
TakesBeneath(t, tables) ==
    \E found \in SUBSET (tables \cap Traced) :
        /\ \A s \in Requests \ {t} : found \cap beneath[s] = {}
        /\ beneath' = [beneath EXCEPT ![t] = @ \cup found]

Continues(t, next, targets) ==
    /\ phase' = [phase EXCEPT ![t] = next]
    /\ chain' = [chain EXCEPT ![t] = targets]

Recomputes(t, targets) == Continues(t, "recompute", targets)

Finishes(t) ==
    /\ phase' = [phase EXCEPT ![t] = "done"]
    /\ chain' = [chain EXCEPT ![t] = << >>]
    /\ noted' = [noted EXCEPT ![t] = NoValue]
    /\ mine' = [mine EXCEPT ![t] = [r \in Tables \cup Comparables |-> Unwritten]]
    /\ beneath' = [beneath EXCEPT ![t] = {}]
    /\ alone' = alone \ {t}

\* The first row a transaction writes, what it does next and what it is to
\* recompute.
FirstRow(t, r, row, next, targets) ==
    /\ Begins(t)
    /\ Writes(t, r, row)
    /\ Continues(t, next, targets)
    /\ UNCHANGED <<rows, noted>>

\* Stores a capture and recomputes what follows from it.
SavesCapture(t, r, c, targets) ==
    /\ FirstRow(t, r, Written(r, c), "recompute", targets)
    /\ UNCHANGED beneath

-----------------------------------------------------------------------------
(* The chains *)

recomputeCosts == <<"costos", "resumen">>

recomputeIncome == <<"ingresos", "resumen">>

\* Mutants: the land feeds no costs, and the conclusion goes first.
DependentsWithoutCosts(m) ==
    (IF m = "INMUEBLE_RENTA" THEN recomputeIncome ELSE << >>)
    \o (IF isRentComparableType(m) THEN << >> ELSE <<"resumen">>)

ConclusionFirst(m) ==
    (IF isRentComparableType(m) THEN << >> ELSE <<"resumen">>)
    \o (IF m = "TERRENO_VENTA" THEN recomputeCosts ELSE << >>)
    \o (IF m = "INMUEBLE_RENTA" THEN recomputeIncome ELSE << >>)

recomputeDependents(m) ==
    (IF m = "TERRENO_VENTA" THEN recomputeCosts ELSE << >>)
    \o (IF m = "INMUEBLE_RENTA" THEN recomputeIncome ELSE << >>)
    \o (IF isRentComparableType(m) THEN << >> ELSE <<"resumen">>)

recompute(m) == <<m>> \o recomputeDependents(m)

\* Every market captured so far, the costs and the income.
recomputeMarkets(v) ==
    LET Of(i) == IF v[COMPARABLE_TYPES[i]].capture = NoValue THEN << >> ELSE recompute(COMPARABLE_TYPES[i])
    IN  Of(1) \o Of(2) \o Of(3) \o Of(4) \o recomputeCosts \o recomputeIncome

\* What a recomputation of costs or income finds nothing to do for.
Absent(v, r) == r \in {"costos", "ingresos", "maquinaria"} /\ v[r].capture = NoValue

Skip(t) ==
    /\ phase[t] = "recompute" /\ chain[t] # << >>
    /\ Absent(View(t), Head(chain[t]))
    /\ chain' = [chain EXCEPT ![t] = Tail(@)]
    /\ UNCHANGED <<rows, mine, beneath, phase, noted, history>>

\* Reads the inputs, deletes the run of the last computation and computes,
Compute(t) ==
    /\ phase[t] = "recompute" /\ chain[t] # << >>
    /\ ~Absent(View(t), Head(chain[t]))
    /\ noted' = [noted EXCEPT ![t] = Computed(View(t), Head(chain[t]))]
    /\ TakesBeneath(t, {Head(chain[t])})
    /\ phase' = [phase EXCEPT ![t] = "store"]
    /\ UNCHANGED <<rows, mine, chain, history>>

\* and stores what it computed, in a row that may have changed since; a market
\* without a row gets one.  The costs go down to those of each construction
\* (cost.service.ts:381-397).
Store(t) ==
    /\ phase[t] = "store"
    /\ LET r == Head(chain[t])
           row == View(t)[r]
       IN  Writes(t, r, [row EXCEPT !.value = noted[t],
                                    !.capture = IF r \in Markets /\ @ = NoValue THEN Default ELSE @])
           /\ TakesBeneath(t, IF r = "costos" THEN {"construcciones"} ELSE {})
    /\ phase' = [phase EXCEPT ![t] = "recompute"]
    /\ chain' = [chain EXCEPT ![t] = Tail(@)]
    /\ noted' = [noted EXCEPT ![t] = NoValue]
    /\ UNCHANGED <<rows, history>>

Commit(t) ==
    /\ phase[t] = "recompute" /\ chain[t] = << >>
    /\ rows' = View(t)
    /\ Finishes(t)
    /\ repaired' = (repaired \/ (t \in alone /\ mine[t]["precision"] # Unwritten))
    /\ UNCHANGED overlapped

Rollback(t) ==
    /\ Busy(t)
    /\ Finishes(t)
    /\ UNCHANGED <<rows, overlapped, repaired>>

-----------------------------------------------------------------------------
(* Saves *)

saveMarketSettings(t, m, c) == SavesCapture(t, m, c, recompute(m))

\* Only an empty market is taken out, with the value it had,
deleteMarket(t, m) ==
    /\ ComparablesOf(rows, m) = {}
    /\ FirstRow(t, m, [capture |-> NoValue, value |-> NoValue], "clear", recomputeDependents(m))
    /\ UNCHANGED beneath

\* and then its run.
deleteRun(t) ==
    /\ phase[t] = "clear"
    /\ \E m \in Markets : Holds(t, m) /\ TakesBeneath(t, {m})
    /\ Recomputes(t, chain[t])
    /\ UNCHANGED <<rows, mine, noted, history>>

saveCostCalculation(t, c) ==
    /\ FirstRow(t, "costos", Written("costos", c), "clear", recomputeCosts)
    /\ UNCHANGED beneath

\* The captured constructions and the land are replaced before the costs are
\* recomputed, and the types named by a construction get its progress.
saveConstructionCosts(t) ==
    /\ phase[t] = "clear" /\ Holds(t, "costos")
    /\ TakesBeneath(t, {"costos", "construcciones"})
    /\ Writes(t, "construcciones", View(t)["construcciones"]) \/ UNCHANGED mine
    /\ Recomputes(t, chain[t])
    /\ UNCHANGED <<rows, noted, history>>

\* A removed type takes its cost row with it.
saveConstructionTypes(t, c) ==
    /\ FirstRow(t, "construcciones", Written("construcciones", c), "recompute", recomputeCosts)
    /\ TakesBeneath(t, {"construcciones"})

saveIncomeCalculation(t, c) == SavesCapture(t, "ingresos", c, recomputeIncome)

saveMachineryCalculation(t, c) == Machinery /\ SavesCapture(t, "maquinaria", c, <<"maquinaria", "resumen">>)

\* The statistical methods change no approach: the chain ends with their value.
saveStatisticalCalculation(t, c) == SavesCapture(t, "estadistico", c, <<"estadistico">>)

saveConclusionSettings(t, line) == SavesCapture(t, "resumen", line, <<"resumen">>)

saveCalculationPrecision(t, p) == SavesCapture(t, "precision", p, recomputeMarkets(rows))

\* saveValuationSections reads what the document leaves out of the dictamen
\* before it writes it, and concludes again when that changed.
ReadExclusions(t, excluded) ==
    /\ Begins(t)
    /\ phase' = [phase EXCEPT ![t] = "sections"]
    /\ noted' = [noted EXCEPT ![t] = [before |-> rows["secciones"].capture, after |-> excluded]]
    /\ UNCHANGED <<rows, mine, beneath, chain>>

saveExclusions(t) ==
    /\ phase[t] = "sections"
    /\ Writes(t, "secciones", Written("secciones", noted[t].after))
    /\ Recomputes(t, IF noted[t].before # noted[t].after THEN <<"resumen">> ELSE << >>)
    /\ noted' = [noted EXCEPT ![t] = NoValue]
    /\ UNCHANGED <<rows, beneath, history>>

-----------------------------------------------------------------------------
(* Comparables *)

ReferencesOf(v, m) == {v[q].value : q \in ComparablesOf(v, m)}

LastReference(v, m) ==
    IF ReferencesOf(v, m) = {} THEN 0 ELSE CHOOSE n \in ReferencesOf(v, m) : \A k \in ReferencesOf(v, m) : k <= n

NextReference(v, m) == LastReference(v, m) + 1

\* createComparable, reuseComparable and importComparables read the last
\* reference of the market,
NumberComparable(t, m) ==
    /\ Begins(t)
    /\ phase' = [phase EXCEPT ![t] = "insert"]
    /\ noted' = [noted EXCEPT ![t] = [market |-> m, reference |-> NextReference(rows, m)]]
    /\ UNCHANGED <<rows, mine, beneath, chain>>

\* and insert the next, after taking a number of the firm's base.
insertComparable(t, q, c) ==
    /\ phase[t] = "insert"
    /\ rows[q].capture = NoValue
    /\ Writes(t, q, [capture |-> c, market |-> noted[t].market, value |-> noted[t].reference])
    /\ Recomputes(t, recompute(noted[t].market))
    /\ noted' = [noted EXCEPT ![t] = NoValue]
    /\ UNCHANGED <<rows, beneath, history>>

updateComparable(t, q, c) ==
    /\ rows[q].capture # NoValue
    /\ SavesCapture(t, q, c, recompute(rows[q].market))

deleteComparable(t, q) ==
    /\ rows[q].capture # NoValue
    /\ Begins(t)
    /\ Writes(t, q, [rows[q] EXCEPT !.capture = NoValue])
    /\ phase' = [phase EXCEPT ![t] = "renumber"]
    /\ noted' = [noted EXCEPT ![t] = [market |-> rows[q].market]]
    /\ UNCHANGED <<rows, beneath, chain>>

\* The numberings of a market in its order; two that were inserted at once
\* share a reference, and the one with the lower key comes first.
Numberings(v, m) ==
    LET rest == ComparablesOf(v, m)
    IN  {place \in [rest -> 1..Cardinality(rest)] :
            \A q, o \in rest : q # o => place[q] # place[o] /\ (v[q].value < v[o].value => place[q] < place[o])}

\* Then the others of the market are numbered from 1.
Renumber(t) ==
    LET v == View(t)
        rest == ComparablesOf(v, noted[t].market)
    IN  /\ phase[t] = "renumber"
        /\ \A q \in rest : Free(t, q)
        /\ \E place \in Numberings(v, noted[t].market) :
              mine' = [mine EXCEPT ![t] = [r \in Tables \cup Comparables |->
                          IF r \in rest THEN [v[r] EXCEPT !.value = place[r]] ELSE @[r]]]
        /\ Recomputes(t, recompute(noted[t].market))
        /\ noted' = [noted EXCEPT ![t] = NoValue]
        /\ UNCHANGED <<rows, beneath, history>>

-----------------------------------------------------------------------------
(* The specification *)

Captured(v, r) == v[r].capture # NoValue

InStep(v) ==
    /\ \A m \in Markets : v[m].value = (IF Captured(v, m) THEN MarketValue(v, m) ELSE NoValue)
    /\ v["costos"].value = CostValue(v)
    /\ v["ingresos"].value = IncomeValue(v)

OwnInStep(v) == \A a \in {"maquinaria", "estadistico"} : v[a].value = OwnValue(v, a)

ConclusionInStep(v) == v["resumen"].value = conclusionInput(v)

\* A version at rest, in step.
Stored(captures, comparables, excluded, line) ==
    LET base == [r \in Tables \cup Comparables |->
                   IF r \in Comparables THEN comparables[r]
                   ELSE [capture |-> CASE r = "secciones" -> excluded [] r = "resumen" -> line
                                       [] OTHER -> captures[r],
                         value |-> NoValue]]
        own == [r \in Tables \cup Comparables |->
                   IF r \in Markets \cup {"maquinaria", "estadistico"}
                     THEN [base[r] EXCEPT !.value = Computed(base, r)] ELSE base[r]]
        fed == [r \in Tables \cup Comparables |->
                   IF r \in {"costos", "ingresos"}
                     THEN [own[r] EXCEPT !.value = Computed(own, r)] ELSE own[r]]
    IN  [fed EXCEPT !["resumen"].value = conclusionInput(fed)]

CalculationRest ==
    /\ mine = [t \in Requests |-> [r \in Tables \cup Comparables |-> Unwritten]]
    /\ beneath = [t \in Requests |-> {}]
    /\ phase = [t \in Requests |-> "new"]
    /\ chain = [t \in Requests |-> << >>]
    /\ noted = [t \in Requests |-> NoValue]
    /\ alone = {}
    /\ repaired = FALSE

\* The comparables of each market numbered from 1.
NumberedFromOne(v) ==
    \A m \in Markets : ReferencesOf(v, m) = 1..Cardinality(ComparablesOf(v, m))

ComparableRow == [capture : Captures \cup {NoValue}, market : Markets, value : Nat]

\* A row of each table, and a comparable, which has a number while it is in the
\* calculation.
RowTypeOK(r, row) ==
    IF r \in Comparables
      THEN row \in ComparableRow /\ (row.capture # NoValue => row.value > 0)
      ELSE /\ DOMAIN row = {"capture", "value"}
           /\ row.capture \in (CASE r = "secciones" -> Exclusions [] r = "resumen" -> Lines
                                [] OTHER -> Captures \cup {NoValue})
           /\ r \in {"construcciones", "secciones", "precision"} => row.value = NoValue

RowsTypeOK(v) == DOMAIN v = Tables \cup Comparables /\ \A r \in Tables \cup Comparables : RowTypeOK(r, v[r])

\* What changes without concluding again: the regression and the goal program,
\* and the land rent market, which the summary may list as the rents.
Unchained(v) ==
    \/ v["resumen"].capture \in {"regresion", "metas"}
    \/ v["resumen"].capture = "mercado-rentas" /\ v["INMUEBLE_RENTA"].value = NoValue

\* A version opens in step, or as transactions that overlapped left it: what is
\* not captured has no value.
CalculationInit ==
    /\ CalculationRest
    /\ RowsTypeOK(rows)
    /\ \A a \in Approaches : ~Captured(rows, a) => rows[a].value = NoValue
    /\ OwnInStep(rows)
    /\ overlapped \in BOOLEAN
    /\ ~overlapped => InStep(rows) /\ (Unchained(rows) \/ ConclusionInStep(rows)) /\ NumberedFromOne(rows)

SaveRequest(t) ==
    \E c \in Captures :
        \/ \E m \in Markets : saveMarketSettings(t, m, c)
        \/ saveCostCalculation(t, c) \/ saveConstructionTypes(t, c) \/ saveIncomeCalculation(t, c)
        \/ saveMachineryCalculation(t, c) \/ saveStatisticalCalculation(t, c)
        \/ saveCalculationPrecision(t, c)

SaveGoesOn(t) == deleteRun(t) \/ saveConstructionCosts(t)

DocumentRequest(t) ==
    \/ \E line \in Lines : saveConclusionSettings(t, line)
    \/ \E excluded \in Exclusions : ReadExclusions(t, excluded)
    \/ saveExclusions(t)

ComparableRequest(t) ==
    \/ Renumber(t)
    \/ \E m \in Markets : NumberComparable(t, m) \/ deleteMarket(t, m)
    \/ \E q \in Comparables :
          \/ deleteComparable(t, q)
          \/ \E c \in Captures : insertComparable(t, q, c) \/ updateComparable(t, q, c)

ChainStep(t) == Skip(t) \/ Compute(t) \/ Store(t) \/ Commit(t) \/ Rollback(t)

CalculationNext ==
    \E t \in Requests :
        SaveRequest(t) \/ SaveGoesOn(t) \/ DocumentRequest(t) \/ ComparableRequest(t) \/ ChainStep(t)

CalculationSpec == CalculationInit /\ [][CalculationNext]_calculationVars

-----------------------------------------------------------------------------
(* Properties *)

Quiet == \A t \in Requests : ~Busy(t)

\* Nobody at work, and nobody met another since the precision was changed.
InOrder == Quiet /\ (overlapped => repaired)

\* The rows keep their shape, each is locked by one transaction at a time, and
\* no chain outlives its transaction.
CalculationTypeOK ==
    /\ RowsTypeOK(rows)
    /\ phase \in [Requests -> {"new", "done", "recompute", "store", "clear", "sections", "insert", "renumber"}]
    /\ beneath \in [Requests -> SUBSET Beneath]
    /\ \A t \in Requests : ~Busy(t) => chain[t] = << >> /\ noted[t] = NoValue /\ beneath[t] = {}
    /\ \A r \in Tables \cup Comparables : Cardinality({t \in Requests : Holds(t, r)}) <= 1
    /\ \A r \in Beneath : Cardinality({t \in Requests : r \in beneath[t]}) <= 1
    /\ alone \subseteq Requests /\ {overlapped, repaired} \subseteq BOOLEAN

\* Once no transaction is at work, the values of the four markets, the costs
\* and the income are those of what is captured now, unless transactions
\* overlapped; and after an overlap, a change of the precision made alone puts
\* everything in step again (the chain of market.service.ts:446-464).
ApproachesInStep == InOrder => InStep(rows)

\* Machinery and the statistical methods are in step also when transactions
\* overlap: their rows are locked before they are read.
OwnValuesInStep == Quiet => OwnInStep(rows)

\* Unless transactions overlapped, the stored conclusion is the one the stored
\* values give, for every approach and line of the summary the chain reaches.
ConclusionFollowsChain == InOrder /\ ~Unchained(rows) => ConclusionInStep(rows)

\* "Los cambios se encadenan en el servidor: [...] cada enfoque recalcula la
\* conclusión": the stored conclusion is the one the stored values give.
ConclusionFollows == InOrder => ConclusionInStep(rows)

\* The rows a request cannot go on without,
Awaited(t) ==
    CASE phase[t] = "store" -> {Head(chain[t])}
      [] phase[t] = "clear" -> IF Holds(t, "costos") THEN {"construcciones"} ELSE {}
      [] phase[t] = "sections" -> {"secciones"}
      [] phase[t] = "renumber" -> ComparablesOf(View(t), noted[t].market)
      [] OTHER -> {}

\* and what it has to take beneath them.
AwaitedBeneath(t) ==
    CASE phase[t] = "recompute" -> IF chain[t] = << >> THEN {} ELSE {Head(chain[t])}
      [] phase[t] = "store" -> IF Head(chain[t]) = "costos" THEN {"construcciones"} ELSE {}
      [] phase[t] = "clear" -> {r \in Beneath : r = "construcciones" \/ Holds(t, r)}
      [] OTHER -> {}

WaitsFor(s, t) == (\E r \in Awaited(s) : Holds(t, r)) \/ AwaitedBeneath(s) \cap beneath[t] # {}

\* A transaction that holds the row of what it recomputes before the run: a save
\* stores its capture first, and the land market concludes twice.
RowBeforeRun(t) ==
    \/ phase[t] = "clear"
    \/ phase[t] = "recompute" /\ chain[t] # << >> /\ Holds(t, Head(chain[t]))

\* Chains take the run before the row of each approach, and the approaches in
\* one order, so two transactions wait for each other only when one has the row
\* before the run, when one changes the precision or the construction types, or
\* when both number a market again; the database ends one of them.
LockOrder ==
    \A s, t \in Requests :
        s # t /\ WaitsFor(s, t) /\ WaitsFor(t, s) =>
            \/ phase[s] = "renumber" /\ phase[t] = "renumber"
            \/ \E u \in {s, t} : RowBeforeRun(u) \/ Holds(u, "precision") \/ Holds(u, "construcciones")

\* The references of the comparables are 1..n, as the dictamen numbers them,
\* unless transactions overlapped since the version was opened.
ReferencesInOrder == Quiet /\ ~overlapped => NumberedFromOne(rows)

\* What is stored for a version always follows from what is captured in it: its
\* values along every chain, its concluded value and the numbers of its
\* comparables, after any saves, failures and repairs.
StepsWithCaptures == ApproachesInStep /\ OwnValuesInStep /\ ConclusionFollowsChain /\ ReferencesInOrder
=============================================================================
