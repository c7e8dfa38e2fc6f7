---------------------- MODULE ValuationLifecycle_proofs ----------------------
(***************************************************************************)
(* Proofs about the workflow, for any number of valuations, versions and   *)
(* requests.  A request writes on the strength of rows it read earlier; it *)
(* is safe because those rows only grow: version numbers rise, versions    *)
(* are not removed, and a final version stays final (Grown).  What each    *)
(* request may still rely on (Relies) survives the steps of the others.    *)
(***************************************************************************)
EXTENDS ValuationLifecycle, TLAPS

\* The theorems of the ledger, cited for the one of the workflow.
Proved == INSTANCE CreditLedger_proofs

-----------------------------------------------------------------------------
(* One valuation: its row and its versions *)

\* What LockedIffNoDraft and VersionsChained say of one valuation, and what
\* they need: drafts and finals exist, and only an existing version is final.
Sound(row, vs) ==
    /\ row.BBloqueado <=> row.IdVersionTrabajo = Null /\ \E n \in Numbers : vs[n].exists
    /\ row.IdVersionTrabajo \in {Null, row.INumeroVersionActual}
    /\ row.IdVersionTrabajo # Null => vs[row.IdVersionTrabajo].exists
    /\ row.IdVersionFinal # Null => vs[row.IdVersionFinal].hash # NoHash
    /\ \A n \in Numbers :
          /\ vs[n].hash # NoHash => vs[n].exists
          /\ vs[n].exists => n <= row.INumeroVersionActual
          /\ 1 < n /\ n <= row.INumeroVersionActual =>
                /\ vs[n].exists
                /\ vs[n].IdVersionOrigen \in 1..(n - 1)
                /\ vs[vs[n].IdVersionOrigen].hash # NoHash

\* A later state of the same valuation: what only grows.
Grows(row, vs, row2, vs2) ==
    /\ row.INumeroVersionActual <= row2.INumeroVersionActual
    /\ \A n \in Numbers : /\ vs[n].exists => vs2[n].exists
                          /\ vs[n].hash # NoHash => vs2[n].hash # NoHash

\* A new valuation is sound, with its first version or without any.
LEMMA SoundAtFirst ==
    ASSUME NEW row \in {Registered, Unversioned}
    PROVE  Sound(row, [n \in Numbers |-> IF n = row.IdVersionTrabajo THEN FirstVersion ELSE NoVersion])
BY MaxVersionsAssumption
DEF Sound, Registered, Unversioned, FirstVersion, NoVersion, NewVersion, Numbers, Null

\* writeVersionSections: the document of a version does not bear on any of it.
LEMMA SoundWrite ==
    ASSUME NEW row \in Avaluo, NEW vs \in [Numbers -> Version], Sound(row, vs),
           NEW n \in Numbers, NEW c \in Contents
    PROVE  LET vs2 == [vs EXCEPT ![n].content = c]
           IN  /\ vs2 \in [Numbers -> Version]
               /\ Sound(row, vs2) /\ Grows(row, vs, row, vs2)
BY DEF Sound, Grows, Version, Avaluo, Numbers, Null

\* WriteNewVersion: a missing version up to the current number is the first.
LEMMA SoundCreate ==
    ASSUME NEW row \in Avaluo, NEW vs \in [Numbers -> Version], Sound(row, vs),
           NEW n \in Numbers, NEW c \in Contents, n <= row.INumeroVersionActual, ~vs[n].exists
    PROVE  LET row2 == [row EXCEPT !.IdVersionTrabajo = n]
               vs2 == [vs EXCEPT ![n] = NewVersion(c, Null)]
           IN  /\ row2 \in Avaluo /\ vs2 \in [Numbers -> Version]
               /\ Sound(row2, vs2) /\ Grows(row, vs, row2, vs2)
<1> USE DEF Numbers, Null
<1>1. n = 1
  BY DEF Sound
<1>2. row.INumeroVersionActual = 1
  <2>1. CASE row.INumeroVersionActual > 1
    <3>1. 2 \in Numbers /\ 2 <= row.INumeroVersionActual
      BY <2>1, MaxVersionsAssumption DEF Avaluo
    <3>2. vs[2].IdVersionOrigen = 1
      BY <3>1 DEF Sound
    <3>3. vs[1].exists
      BY <3>1, <3>2 DEF Sound
    <3> QED BY <1>1, <3>3
  <2> QED BY <2>1 DEF Avaluo
<1>3. \A k \in Numbers : ~vs[k].exists
  BY <1>1, <1>2 DEF Sound
<1>4. ~row.BBloqueado
  BY <1>3 DEF Sound, Avaluo
<1>5. NewVersion(c, Null) \in Version
  BY DEF NewVersion, Version
<1>6. [row EXCEPT !.IdVersionTrabajo = n] \in Avaluo /\ [vs EXCEPT ![n] = NewVersion(c, Null)] \in [Numbers -> Version]
  BY <1>5 DEF Avaluo
<1>7. row.IdVersionFinal = Null
  BY <1>3 DEF Sound, Avaluo
<1> QED BY <1>1, <1>2, <1>3, <1>4, <1>6, <1>7 DEF Sound, Grows, NewVersion, Avaluo

\* concludeValuation: the version it read becomes final and the draft is gone.
LEMMA SoundConclude ==
    ASSUME NEW row \in Avaluo, NEW vs \in [Numbers -> Version], Sound(row, vs),
           NEW v \in Numbers, NEW c \in Contents, vs[v].exists
    PROVE  LET row2 == Concluded(row, v)
               vs2 == [vs EXCEPT ![v].hash = c]
           IN  /\ row2 \in Avaluo /\ vs2 \in [Numbers -> Version]
               /\ Sound(row2, vs2) /\ Grows(row, vs, row2, vs2)
<1> USE NoHashAssumption DEF Numbers, Null
<1>1. Concluded(row, v) \in Avaluo
  BY DEF Concluded, Avaluo, Estados
<1>2. [vs EXCEPT ![v].hash = c] \in [Numbers -> Version]
  BY DEF Version
<1> QED BY <1>1, <1>2 DEF Sound, Grows, Concluded, Version, Avaluo

\* reopenValuation: the number it read is the next one unless it was taken.
LEMMA SoundReopen ==
    ASSUME NEW row \in Avaluo, NEW vs \in [Numbers -> Version], Sound(row, vs),
           NEW n \in Numbers, NEW c \in Contents, NEW f \in 1..(n - 1),
           n <= row.INumeroVersionActual + 1, ~vs[n].exists, vs[f].hash # NoHash
    PROVE  LET row2 == Reopened(row, n)
               vs2 == [vs EXCEPT ![n] = NewVersion(c, f)]
           IN  /\ row2 \in Avaluo /\ vs2 \in [Numbers -> Version]
               /\ Sound(row2, vs2) /\ Grows(row, vs, row2, vs2)
<1> USE MaxVersionsAssumption DEF Numbers, Null
<1>1. n = row.INumeroVersionActual + 1
  BY DEF Sound, Avaluo
<1>2. Reopened(row, n) \in Avaluo
  BY DEF Reopened, Avaluo, Estados
<1>3. [vs EXCEPT ![n] = NewVersion(c, f)] \in [Numbers -> Version]
  BY DEF NewVersion, Version
<1> QED BY <1>1, <1>2, <1>3 DEF Sound, Grows, Reopened, NewVersion, Avaluo

\* advanceToEditing and softDeleteValuation change nothing a version rests on.
LEMMA SoundOtherwise ==
    ASSUME NEW row \in Avaluo, NEW vs, Sound(row, vs), NEW row2 \in Avaluo,
           \A f \in {"IdVersionTrabajo", "IdVersionFinal", "INumeroVersionActual", "BBloqueado"} :
              row2[f] = row[f]
    PROVE  Sound(row2, vs) /\ Grows(row, vs, row2, vs)
BY DEF Sound, Grows, Avaluo, Numbers

-----------------------------------------------------------------------------
(* The invariant of the workflow *)

\* The rows and the locals have their shapes; the ledger's are its own.
Shapes ==
    /\ avaluo \in [Valuations -> Avaluo]
    /\ version \in [Valuations -> [Numbers -> Version]]
    /\ historial \in [Valuations -> Seq(EstadoAvaluoHistorial)]
    /\ step \in [Tx -> {"idle", "ensure", "write", "create", "metadata", "check", "charge", "reopen"}]
    /\ read \in [Tx -> Locals]

AllSound == \A a \in Valuations : Sound(avaluo[a], version[a])

\* What request t read that is still good enough for what it does next.
Relies(t) ==
    LET a == read[t].a
        n == read[t].target
        f == read[t].row.IdVersionFinal
    IN  /\ step[t] # "idle" => a \in Valuations
        /\ step[t] \in {"write", "create", "check", "charge", "reopen"} => n \in Numbers
        /\ step[t] = "create" => n <= avaluo[a].INumeroVersionActual
        /\ step[t] \in {"check", "charge"} => version[a][n].exists
        /\ step[t] = "reopen" =>
              f \in 1..(n - 1) /\ n <= avaluo[a].INumeroVersionActual + 1 /\ version[a][f].hash # NoHash

\* A request is in the ledger only to charge what it concludes, or for a
\* movement that is no conclusion.
Charges(t) ==
    /\ step[t] = "charge" => pc[t] # "idle" /\ intent[t] = Ledger!Consumption(read[t].a)
    /\ step[t] \notin {"idle", "charge"} => pc[t] = "idle"
    /\ step[t] = "idle" /\ pc[t] # "idle" => intent[t] \in Uncharged

WorkInvariant ==
    /\ Shapes
    /\ AllSound
    /\ \A t \in Tx : Relies(t)
    /\ \A t \in Tx : Charges(t)

\* The rows of the valuations only grow.
Grown == \A a \in Valuations : Grows(avaluo[a], version[a], avaluo'[a], version'[a])

\* Rows that stay as they are have grown, by nothing.
LEMMA GrownIfUnchanged == ASSUME Shapes, UNCHANGED <<avaluo, version>> PROVE Grown
BY DEF Shapes, Grown, Grows, Avaluo, Numbers

\* A request that does not move may still rely on what it read.
LEMMA ReliesKept ==
    ASSUME Shapes, Shapes', Grown, NEW t \in Tx, Relies(t), step'[t] = step[t], read'[t] = read[t]
    PROVE  Relies(t)'
<1> DEFINE a == read[t].a
           n == read[t].target
<1>1. /\ a' = a /\ n' = n /\ read[t] \in Locals
      /\ read'[t].row = read[t].row
  BY DEF Shapes
<1>2. CASE step[t] = "idle"
  BY <1>2 DEF Relies
<1>3. CASE step[t] # "idle"
  <2>1. a \in Valuations
    BY <1>3 DEF Relies
  <2>2. Grows(avaluo[a], version[a], avaluo'[a], version'[a])
    BY <2>1 DEF Grown
  <2>3. avaluo[a] \in Avaluo /\ avaluo'[a] \in Avaluo
    BY <2>1 DEF Shapes
  <2> QED BY <1>1, <2>1, <2>2, <2>3, MaxVersionsAssumption DEF Relies, Grows, Avaluo, Numbers, Null
<1> QED BY <1>2, <1>3

\* A request that has ended relies on nothing.
LEMMA EndsKeeps ==
    ASSUME Shapes, NEW t \in Tx, Ends(t), Shapes', Grown, \A s \in Tx : Relies(s)
    PROVE  \A s \in Tx : Relies(s)'
<1> TAKE s \in Tx
<1>1. CASE s = t
  BY <1>1 DEF Ends, Relies, Shapes
<1>2. CASE s # t
  BY <1>2, ReliesKept DEF Ends, Shapes
<1> QED BY <1>1, <1>2

\* The shapes of the locals a request leaves.
LEMMA EndsShapes ==
    ASSUME Shapes, NEW t \in Tx, Ends(t)
    PROVE  /\ step' \in [Tx -> {"idle", "ensure", "write", "create", "metadata", "check", "charge", "reopen"}]
           /\ read' \in [Tx -> Locals]
<1>1. NothingRead \in Locals
  BY ContentsAssumption, MaxVersionsAssumption
  DEF NothingRead, Locals, Avaluo, Registered, Estados, Numbers, Null
<1> QED BY <1>1 DEF Ends, Shapes

\* A request that ends outside the ledger leaves the charges as they were.
LEMMA EndsCharges ==
    ASSUME Shapes, Proved!TypeOK, NEW t \in Tx, Ends(t), step[t] # "idle", step[t] # "charge",
           UNCHANGED <<pc, intent>>, \A s \in Tx : Charges(s)
    PROVE  \A s \in Tx : Charges(s)'
BY DEF Ends, Shapes, Charges, Proved!TypeOK

\* A request reads a valuation: its locals hold rows as they are.
LEMMA ReadsKeeps ==
    ASSUME WorkInvariant, NEW t \in Tx, NEW a \in Valuations,
           NEW next \in {"ensure", "write", "metadata", "check", "reopen"},
           NEW target \in Numbers \cup {Null},
           Reads(t, a, next, target),
           next \in {"write", "check", "reopen"} => target \in Numbers,
           next = "check" => version[a][target].exists,
           next = "reopen" => /\ avaluo[a].IdVersionFinal \in 1..(target - 1)
                              /\ target <= avaluo[a].INumeroVersionActual + 1
                              /\ version[a][avaluo[a].IdVersionFinal].hash # NoHash
    PROVE  WorkInvariant'
<1> DEFINE row == avaluo[a]
           content == IF row.IdVersionTrabajo = Null THEN Blank ELSE version[a][row.IdVersionTrabajo].content
           local == [a |-> a, row |-> row, target |-> target, content |-> content]
<1>1. /\ step[t] = "idle" /\ pc[t] = "idle"
      /\ step' = [step EXCEPT ![t] = next] /\ read' = [read EXCEPT ![t] = local]
      /\ UNCHANGED <<ledgerVars, avaluo, version, historial>>
  BY DEF Reads
<1>2. local \in Locals
  <2>1. row \in Avaluo
    BY DEF WorkInvariant, Shapes
  <2>2. content \in Contents
    BY <2>1, ContentsAssumption DEF WorkInvariant, Shapes, Avaluo, Version
  <2> QED BY <2>1, <2>2 DEF Locals
<1>3. Shapes'
  <2> HIDE DEF local
  <2> QED BY <1>1, <1>2 DEF WorkInvariant, Shapes
<1>4. Grown
  BY <1>1, GrownIfUnchanged DEF WorkInvariant
<1>5. ASSUME NEW s \in Tx PROVE Relies(s)'
  <2>1. CASE s = t
    <3>1. row \in Avaluo
      BY DEF WorkInvariant, Shapes
    <3>2. read'[t] = local /\ step'[t] = next
      BY <1>1 DEF WorkInvariant, Shapes
    <3> QED BY <1>1, <2>1, <3>1, <3>2 DEF Relies, Avaluo
  <2>2. CASE s # t
    BY <1>1, <1>3, <1>4, <2>2, ReliesKept DEF WorkInvariant, Shapes
  <2> QED BY <2>1, <2>2
<1>6. \A s \in Tx : Charges(s)'
  <2> HIDE DEF local
  <2> QED BY <1>1 DEF WorkInvariant, Shapes, Charges, ledgerVars
<1>7. AllSound'
  BY <1>1 DEF WorkInvariant, AllSound
<1> QED BY <1>3, <1>5, <1>6, <1>7 DEF WorkInvariant

\* One valuation changes and stays sound: all are, and all have grown.
LEMMA OneChanges ==
    ASSUME Shapes, AllSound, NEW a \in Valuations, NEW row \in Avaluo, NEW vs \in [Numbers -> Version],
           avaluo' = [avaluo EXCEPT ![a] = row], version' = [version EXCEPT ![a] = vs],
           Sound(row, vs), Grows(avaluo[a], version[a], row, vs)
    PROVE  /\ avaluo' \in [Valuations -> Avaluo] /\ version' \in [Valuations -> [Numbers -> Version]]
           /\ AllSound' /\ Grown
<1>1. avaluo' \in [Valuations -> Avaluo] /\ version' \in [Valuations -> [Numbers -> Version]]
  BY DEF Shapes
<1>2. ASSUME NEW b \in Valuations
      PROVE  Sound(avaluo'[b], version'[b]) /\ Grows(avaluo[b], version[b], avaluo'[b], version'[b])
  <2>1. CASE b = a
    BY <2>1 DEF Shapes
  <2>2. CASE b # a
    <3>1. avaluo'[b] = avaluo[b] /\ version'[b] = version[b]
      BY <2>2 DEF Shapes
    <3>2. Grows(avaluo[b], version[b], avaluo[b], version[b])
      BY DEF Shapes, Grows, Avaluo, Numbers
    <3> QED BY <3>1, <3>2 DEF AllSound
  <2> QED BY <2>1, <2>2
<1> QED BY <1>1, <1>2 DEF AllSound, Grown

\* The request of t ends, having changed the rows of one valuation or none: it
\* keeps the invariant if the row it leaves is sound.
LEMMA EndsInvariant ==
    ASSUME WorkInvariant, Proved!TypeOK, NEW t \in Tx, Ends(t), AllSound', Grown,
           avaluo' \in [Valuations -> Avaluo], version' \in [Valuations -> [Numbers -> Version]],
           historial' \in [Valuations -> Seq(EstadoAvaluoHistorial)],
           \A s \in Tx : Charges(s)'
    PROVE  WorkInvariant'
<1>1. Shapes'
  BY EndsShapes DEF WorkInvariant, Shapes
<1>2. \A s \in Tx : Relies(s)'
  BY <1>1, EndsKeeps DEF WorkInvariant
<1> QED BY <1>1, <1>2 DEF WorkInvariant

\* A refused request outside the ledger has changed nothing.
LEMMA RefusedInvariant ==
    ASSUME WorkInvariant, Proved!TypeOK, NEW t \in Tx, Refused(t), step[t] # "idle", step[t] # "charge"
    PROVE  WorkInvariant'
<1>1. Ends(t) /\ UNCHANGED <<ledgerVars, avaluo, version, historial>>
  BY DEF Refused
<1>2. \A s \in Tx : Charges(s)'
  BY <1>1, EndsCharges DEF WorkInvariant, ledgerVars
<1>3. Grown /\ AllSound'
  BY <1>1, GrownIfUnchanged DEF WorkInvariant, AllSound
<1> QED BY <1>1, <1>2, <1>3, EndsInvariant DEF WorkInvariant, Shapes

\* The request of t goes on to another step; nobody else moves.
LEMMA LocalStep ==
    ASSUME WorkInvariant, NEW t \in Tx, UNCHANGED <<avaluo, version, historial>>,
           NEW next \in {"write", "create", "charge"}, NEW target \in Numbers,
           step' = [step EXCEPT ![t] = next], read' = [read EXCEPT ![t].target = target],
           step[t] # "idle", next = "create" => target <= avaluo[read[t].a].INumeroVersionActual,
           next = "charge" => version[read[t].a][target].exists
    PROVE  Shapes' /\ AllSound' /\ \A s \in Tx : Relies(s)'
<1>1. Shapes'
  BY DEF WorkInvariant, Shapes, Locals
<1>2. Grown
  BY GrownIfUnchanged DEF WorkInvariant
<1>3. ASSUME NEW s \in Tx PROVE Relies(s)'
  <2>1. CASE s = t
    BY <2>1 DEF WorkInvariant, Relies, Shapes, Locals
  <2>2. CASE s # t
    BY <1>1, <1>2, <2>2, ReliesKept DEF WorkInvariant, Shapes
  <2> QED BY <2>1, <2>2
<1> QED BY <1>1, <1>3 DEF WorkInvariant, AllSound

-----------------------------------------------------------------------------
(* The steps of the workflow *)

\* The document of a version is written (writeVersionSections).
LEMMA WriteKeeps ==
    ASSUME WorkInvariant, Proved!TypeOK, NEW t \in Tx, NEW c \in Contents, writeVersionSections(t, c)
    PROVE  WorkInvariant'
<1> DEFINE a == read[t].a
           n == read[t].target
           vs == [version[a] EXCEPT ![n].content = c]
<1>1. /\ step[t] = "write" /\ Ends(t) /\ UNCHANGED <<ledgerVars, avaluo, historial>>
      /\ version' = [version EXCEPT ![a] = vs]
  BY DEF writeVersionSections
<1>2. a \in Valuations /\ n \in Numbers
  BY <1>1 DEF WorkInvariant, Relies
<1>3. avaluo[a] \in Avaluo /\ version[a] \in [Numbers -> Version] /\ Sound(avaluo[a], version[a])
  BY <1>2 DEF WorkInvariant, Shapes, AllSound
<1>4. vs \in [Numbers -> Version] /\ Sound(avaluo[a], vs) /\ Grows(avaluo[a], version[a], avaluo[a], vs)
  BY <1>2, <1>3, SoundWrite
<1>5. avaluo' = [avaluo EXCEPT ![a] = avaluo[a]]
  BY <1>1 DEF WorkInvariant, Shapes
<1>6. /\ avaluo' \in [Valuations -> Avaluo] /\ version' \in [Valuations -> [Numbers -> Version]]
      /\ AllSound' /\ Grown
  <2> HIDE DEF vs, a
  <2> QED BY <1>1, <1>2, <1>3, <1>4, <1>5, OneChanges DEF WorkInvariant
<1>7. \A s \in Tx : Charges(s)'
  BY <1>1, EndsCharges DEF WorkInvariant, ledgerVars
<1> QED BY <1>1, <1>6, <1>7, EndsInvariant DEF WorkInvariant, Shapes

\* A version is created by the save that writes it (WriteNewVersion).
LEMMA CreateKeeps ==
    ASSUME WorkInvariant, Proved!TypeOK, NEW t \in Tx, NEW c \in Contents, WriteNewVersion(t, c)
    PROVE  WorkInvariant'
<1> DEFINE a == read[t].a
           n == read[t].target
           row == [avaluo[a] EXCEPT !.IdVersionTrabajo = n]
           vs == [version[a] EXCEPT ![n] = NewVersion(c, Null)]
<1>1. step[t] = "create"
  BY DEF WriteNewVersion
<1>2. CASE Refused(t)
  BY <1>1, <1>2, RefusedInvariant
<1>3. CASE /\ ~version[a][n].exists
           /\ version' = [version EXCEPT ![a][n] = NewVersion(c, Null)]
           /\ avaluo' = [avaluo EXCEPT ![a].IdVersionTrabajo = n]
           /\ Ends(t) /\ UNCHANGED <<ledgerVars, historial>>
  <2>1. a \in Valuations /\ n \in Numbers /\ n <= avaluo[a].INumeroVersionActual
    BY <1>1 DEF WorkInvariant, Relies
  <2>2. avaluo[a] \in Avaluo /\ version[a] \in [Numbers -> Version] /\ Sound(avaluo[a], version[a])
    BY <2>1 DEF WorkInvariant, Shapes, AllSound
  <2>3. /\ row \in Avaluo /\ vs \in [Numbers -> Version]
        /\ Sound(row, vs) /\ Grows(avaluo[a], version[a], row, vs)
    BY <1>3, <2>1, <2>2, SoundCreate
  <2>4. avaluo' = [avaluo EXCEPT ![a] = row] /\ version' = [version EXCEPT ![a] = vs]
    BY <1>3
  <2>5. /\ avaluo' \in [Valuations -> Avaluo] /\ version' \in [Valuations -> [Numbers -> Version]]
        /\ AllSound' /\ Grown
    <3> HIDE DEF row, vs, a
    <3> QED BY <2>1, <2>3, <2>4, OneChanges DEF WorkInvariant
  <2>6. \A s \in Tx : Charges(s)'
    BY <1>1, <1>3, EndsCharges DEF WorkInvariant, ledgerVars
  <2> QED BY <1>3, <2>5, <2>6, EndsInvariant DEF WorkInvariant, Shapes
<1> QED BY <1>2, <1>3 DEF WriteNewVersion

\* The second read of a save (ensureWorkingVersion).
LEMMA EnsureKeeps ==
    ASSUME WorkInvariant, Proved!TypeOK, NEW t \in Tx, ensureWorkingVersion(t)
    PROVE  WorkInvariant'
<1> DEFINE a == read[t].a
           working == avaluo[a].IdVersionTrabajo
           number == avaluo[a].INumeroVersionActual
<1>1. step[t] = "ensure"
  BY DEF ensureWorkingVersion
<1>2. a \in Valuations /\ working \in Numbers \cup {Null} /\ number \in Numbers
  BY <1>1 DEF WorkInvariant, Relies, Shapes, Avaluo
<1>3. CASE Refused(t)
  BY <1>1, <1>3, RefusedInvariant
<1>4. ASSUME NEW next \in {"write", "create"}, NEW target \in Numbers,
             step' = [step EXCEPT ![t] = next], read' = [read EXCEPT ![t].target = target],
             UNCHANGED <<ledgerVars, avaluo, version, historial>>,
             next = "create" => target <= number
      PROVE  WorkInvariant'
  <2>1. Shapes' /\ AllSound' /\ \A s \in Tx : Relies(s)'
    BY <1>1, <1>4, LocalStep
  <2>2. \A s \in Tx : Charges(s)'
    BY <1>1, <1>4 DEF WorkInvariant, Shapes, Charges, ledgerVars
  <2> QED BY <2>1, <2>2 DEF WorkInvariant
<1>5. number <= number
  BY <1>2 DEF Numbers
<1> QED BY <1>2, <1>3, <1>4, <1>5 DEF ensureWorkingVersion

\* The first edit of a valuation shows in its row and its history (advanceToEditing).
LEMMA AdvanceKeeps ==
    ASSUME WorkInvariant, Proved!TypeOK, NEW t \in Tx, advanceToEditing(t)
    PROVE  WorkInvariant'
<1> DEFINE a == read[t].a
           row == [avaluo[a] EXCEPT !.IdEstadoAvaluo = "EN_EDICION"]
<1>1. step[t] = "metadata" /\ Ends(t) /\ UNCHANGED <<ledgerVars, version>>
  BY DEF advanceToEditing
<1>2. \A s \in Tx : Charges(s)'
  BY <1>1, EndsCharges DEF WorkInvariant, ledgerVars
<1>3. CASE UNCHANGED <<avaluo, historial>>
  <2>1. Grown /\ AllSound'
    BY <1>1, <1>3, GrownIfUnchanged DEF WorkInvariant, AllSound
  <2> QED BY <1>1, <1>2, <1>3, <2>1, EndsInvariant DEF WorkInvariant, Shapes
<1>4. CASE /\ read[t].row.IdVersionTrabajo # Null
           /\ avaluo' = [avaluo EXCEPT ![a].IdEstadoAvaluo = "EN_EDICION"]
           /\ historial' = [historial EXCEPT ![a] =
                  Append(@, Entry(read[t].row.IdVersionTrabajo, read[t].row.IdEstadoAvaluo, "EN_EDICION"))]
  <2>1. a \in Valuations
    BY <1>1 DEF WorkInvariant, Relies
  <2>2. avaluo[a] \in Avaluo /\ version[a] \in [Numbers -> Version] /\ Sound(avaluo[a], version[a])
    BY <2>1 DEF WorkInvariant, Shapes, AllSound
  <2>3. row \in Avaluo
    BY <2>2 DEF Avaluo, Estados
  <2>4. Sound(row, version[a]) /\ Grows(avaluo[a], version[a], row, version[a])
    BY <2>2, <2>3, SoundOtherwise DEF Avaluo
  <2>5. avaluo' = [avaluo EXCEPT ![a] = row] /\ version' = [version EXCEPT ![a] = version[a]]
    BY <1>1, <1>4 DEF WorkInvariant, Shapes
  <2>6. /\ avaluo' \in [Valuations -> Avaluo] /\ version' \in [Valuations -> [Numbers -> Version]]
        /\ AllSound' /\ Grown
    <3> HIDE DEF row, a
    <3> QED BY <2>1, <2>2, <2>3, <2>4, <2>5, OneChanges DEF WorkInvariant
  <2>7. Entry(read[t].row.IdVersionTrabajo, read[t].row.IdEstadoAvaluo, "EN_EDICION") \in EstadoAvaluoHistorial
    BY <1>4 DEF WorkInvariant, Shapes, Locals, Avaluo, Entry, EstadoAvaluoHistorial, Estados
  <2>8. historial' \in [Valuations -> Seq(EstadoAvaluoHistorial)]
    BY <1>4, <2>1, <2>7 DEF WorkInvariant, Shapes
  <2> QED BY <1>1, <1>2, <2>6, <2>8, EndsInvariant
<1> QED BY <1>3, <1>4 DEF advanceToEditing

\* A conclusion that may go on asks for its charge (ConcludeCheck).
LEMMA CheckKeeps ==
    ASSUME WorkInvariant, Proved!TypeOK, NEW t \in Tx, ConcludeCheck(t)
    PROVE  WorkInvariant'
<1> DEFINE a == read[t].a
           n == read[t].target
<1>1. step[t] = "check"
  BY DEF ConcludeCheck
<1>2. CASE Refused(t)
  BY <1>1, <1>2, RefusedInvariant
<1>3. CASE /\ Ledger!Begin(t, Ledger!Consumption(a))
           /\ step' = [step EXCEPT ![t] = "charge"]
           /\ UNCHANGED <<avaluo, version, historial, read>>
  <2>1. n \in Numbers /\ version[a][n].exists
    BY <1>1 DEF WorkInvariant, Relies
  <2>2. read' = [read EXCEPT ![t].target = n]
    BY <1>3 DEF WorkInvariant, Shapes, Locals
  <2>3. Shapes' /\ AllSound' /\ \A s \in Tx : Relies(s)'
    BY <1>1, <1>3, <2>1, <2>2, LocalStep
  <2>4. /\ pc' = [pc EXCEPT ![t] = "waiting"]
        /\ intent' = [intent EXCEPT ![t] = Ledger!Consumption(a)]
    BY <1>3 DEF Ledger!Begin
  <2>5. \A s \in Tx : Charges(s)'
    BY <1>3, <2>4 DEF WorkInvariant, Shapes, Charges, Proved!TypeOK
  <2> QED BY <2>3, <2>5 DEF WorkInvariant
<1> QED BY <1>2, <1>3 DEF ConcludeCheck

\* The commit of a conclusion, charged or blocked (concludeValuation).
LEMMA ConcludeKeeps ==
    ASSUME WorkInvariant, Proved!TypeOK, NEW t \in Tx, concludeValuation(t)
    PROVE  WorkInvariant'
<1> DEFINE a == read[t].a
           v == read[t].target
           c == read[t].content
           row == Concluded(avaluo[a], v)
           vs == [version[a] EXCEPT ![v].hash = c]
<1>1. /\ step[t] = "charge" /\ Ends(t)
      /\ pc' = [pc EXCEPT ![t] = "idle"] /\ intent' = intent
  BY DEF concludeValuation, Charge, Ledger!CommitLedger
<1>2. \A s \in Tx : Charges(s)'
  BY <1>1 DEF WorkInvariant, Ends, Shapes, Charges, Proved!TypeOK
<1>3. CASE UNCHANGED <<avaluo, version, historial>>
  <2>1. Grown /\ AllSound'
    BY <1>3, GrownIfUnchanged DEF WorkInvariant, AllSound
  <2> QED BY <1>1, <1>2, <1>3, <2>1, EndsInvariant DEF WorkInvariant, Shapes
<1>4. CASE /\ version' = [version EXCEPT ![a][v].hash = c]
           /\ avaluo' = [avaluo EXCEPT ![a] = Concluded(@, v)]
           /\ historial' = [historial EXCEPT ![a] =
                  Append(@, Entry(HistoryVersion(v), read[t].row.IdEstadoAvaluo, "TERMINADO"))]
  <2>1. a \in Valuations /\ v \in Numbers /\ version[a][v].exists /\ c \in Contents
    BY <1>1 DEF WorkInvariant, Relies, Shapes, Locals
  <2>2. avaluo[a] \in Avaluo /\ version[a] \in [Numbers -> Version] /\ Sound(avaluo[a], version[a])
    BY <2>1 DEF WorkInvariant, Shapes, AllSound
  <2>3. /\ row \in Avaluo /\ vs \in [Numbers -> Version]
        /\ Sound(row, vs) /\ Grows(avaluo[a], version[a], row, vs)
    BY <2>1, <2>2, SoundConclude
  <2>4. avaluo' = [avaluo EXCEPT ![a] = row] /\ version' = [version EXCEPT ![a] = vs]
    BY <1>4, <2>1 DEF WorkInvariant, Shapes
  <2>5. /\ avaluo' \in [Valuations -> Avaluo] /\ version' \in [Valuations -> [Numbers -> Version]]
        /\ AllSound' /\ Grown
    <3> HIDE DEF row, vs, a
    <3> QED BY <2>1, <2>3, <2>4, OneChanges DEF WorkInvariant
  <2>6. Entry(HistoryVersion(v), read[t].row.IdEstadoAvaluo, "TERMINADO") \in EstadoAvaluoHistorial
    BY <2>1 DEF WorkInvariant, Shapes, Locals, Avaluo, Entry, HistoryVersion, EstadoAvaluoHistorial, Estados
  <2>7. historial' \in [Valuations -> Seq(EstadoAvaluoHistorial)]
    BY <1>4, <2>1, <2>6 DEF WorkInvariant, Shapes
  <2> QED BY <1>1, <1>2, <2>5, <2>7, EndsInvariant
<1> QED BY <1>3, <1>4 DEF concludeValuation

\* The commit of a reopening (reopenValuation).
LEMMA ReopenKeeps ==
    ASSUME WorkInvariant, Proved!TypeOK, NEW t \in Tx, reopenValuation(t)
    PROVE  WorkInvariant'
<1> DEFINE a == read[t].a
           n == read[t].target
           f == read[t].row.IdVersionFinal
           c == copyVersionContent(version[a][f])
           row == Reopened(avaluo[a], n)
           vs == [version[a] EXCEPT ![n] = NewVersion(c, f)]
<1>1. step[t] = "reopen"
  BY DEF reopenValuation
<1>2. CASE Refused(t)
  BY <1>1, <1>2, RefusedInvariant
<1>3. CASE /\ ~version[a][n].exists
           /\ version' = [version EXCEPT ![a][n] = NewVersion(c, f)]
           /\ avaluo' = [avaluo EXCEPT ![a] = Reopened(@, n)]
           /\ historial' = [historial EXCEPT ![a] =
                  Append(@, Entry(n, read[t].row.IdEstadoAvaluo, "REABIERTO"))]
           /\ Ends(t) /\ UNCHANGED ledgerVars
  <2>1. /\ a \in Valuations /\ n \in Numbers /\ f \in 1..(n - 1)
        /\ n <= avaluo[a].INumeroVersionActual + 1 /\ version[a][f].hash # NoHash
    BY <1>1 DEF WorkInvariant, Relies
  <2>2. avaluo[a] \in Avaluo /\ version[a] \in [Numbers -> Version] /\ Sound(avaluo[a], version[a])
    BY <2>1 DEF WorkInvariant, Shapes, AllSound
  <2>3. f \in Numbers
    BY <2>1, MaxVersionsAssumption DEF Numbers
  <2>4. c \in Contents
    BY <2>2, <2>3 DEF copyVersionContent, Version
  <2>5. /\ row \in Avaluo /\ vs \in [Numbers -> Version]
        /\ Sound(row, vs) /\ Grows(avaluo[a], version[a], row, vs)
    <3> HIDE DEF c, f
    <3> QED BY <1>3, <2>1, <2>2, <2>4, SoundReopen
  <2>6. avaluo' = [avaluo EXCEPT ![a] = row] /\ version' = [version EXCEPT ![a] = vs]
    BY <1>3, <2>1 DEF WorkInvariant, Shapes
  <2>7. /\ avaluo' \in [Valuations -> Avaluo] /\ version' \in [Valuations -> [Numbers -> Version]]
        /\ AllSound' /\ Grown
    <3> HIDE DEF row, vs, a
    <3> QED BY <2>1, <2>5, <2>6, OneChanges DEF WorkInvariant
  <2>8. Entry(n, read[t].row.IdEstadoAvaluo, "REABIERTO") \in EstadoAvaluoHistorial
    BY <2>1 DEF WorkInvariant, Shapes, Locals, Avaluo, Entry, EstadoAvaluoHistorial, Estados
  <2>9. historial' \in [Valuations -> Seq(EstadoAvaluoHistorial)]
    BY <1>3, <2>1, <2>8 DEF WorkInvariant, Shapes
  <2>10. \A s \in Tx : Charges(s)'
    BY <1>1, <1>3, EndsCharges DEF WorkInvariant, ledgerVars
  <2> QED BY <1>3, <2>7, <2>9, <2>10, EndsInvariant
<1> QED BY <1>2, <1>3 DEF reopenValuation

\* A deletion marks the row and nothing else (softDeleteValuation).
LEMMA DeleteKeeps ==
    ASSUME WorkInvariant, NEW a \in Valuations, softDeleteValuation(a)
    PROVE  WorkInvariant'
<1> DEFINE row == [avaluo[a] EXCEPT !.eliminado = TRUE]
<1>1. avaluo' = [avaluo EXCEPT ![a] = row] /\ UNCHANGED <<ledgerVars, version, historial, step, read>>
  BY DEF softDeleteValuation
<1>2. avaluo[a] \in Avaluo /\ version[a] \in [Numbers -> Version] /\ Sound(avaluo[a], version[a])
  BY DEF WorkInvariant, Shapes, AllSound
<1>3. row \in Avaluo
  BY <1>2 DEF Avaluo
<1>4. Sound(row, version[a]) /\ Grows(avaluo[a], version[a], row, version[a])
  BY <1>2, <1>3, SoundOtherwise DEF Avaluo
<1>5. version' = [version EXCEPT ![a] = version[a]]
  BY <1>1 DEF WorkInvariant, Shapes
<1>6. avaluo' \in [Valuations -> Avaluo] /\ AllSound' /\ Grown
  <2> HIDE DEF row
  <2> QED BY <1>1, <1>2, <1>3, <1>4, <1>5, OneChanges DEF WorkInvariant
<1>7. Shapes'
  BY <1>1, <1>6 DEF WorkInvariant, Shapes
<1>8. \A s \in Tx : Relies(s)'
  BY <1>1, <1>6, <1>7, ReliesKept DEF WorkInvariant
<1>9. \A s \in Tx : Charges(s)'
  BY <1>1 DEF WorkInvariant, Charges, ledgerVars
<1> QED BY <1>6, <1>7, <1>8, <1>9 DEF WorkInvariant

\* The steps of the ledger leave the valuations and the requests' reads alone.
LEMMA BillingKeeps ==
    ASSUME WorkInvariant, Proved!TypeOK, Billing
    PROVE  WorkInvariant'
<1>1. SUFFICES UNCHANGED lifeVars /\ \A s \in Tx : Charges(s)'
  <2>1. ASSUME UNCHANGED lifeVars PROVE Shapes' /\ AllSound' /\ \A s \in Tx : Relies(s)'
    <3>1. UNCHANGED <<avaluo, version, historial, step, read>>
      BY <2>1 DEF lifeVars
    <3>2. Shapes' /\ AllSound'
      BY <3>1 DEF WorkInvariant, Shapes, AllSound
    <3>3. Grown
      BY <3>1, GrownIfUnchanged DEF WorkInvariant
    <3> QED BY <3>1, <3>2, <3>3, ReliesKept DEF WorkInvariant
  <2> QED BY <2>1 DEF WorkInvariant
<1> USE DEF WorkInvariant, Charges, lifeVars, Proved!TypeOK
<1>2. ASSUME NEW t \in Tx, NEW m \in Uncharged, LedgerBegin(t, m)
      PROVE  UNCHANGED lifeVars /\ \A s \in Tx : Charges(s)'
  BY <1>2 DEF LedgerBegin, Ledger!Begin
<1>3. ASSUME NEW t \in Tx, LedgerLock(t)
      PROVE  UNCHANGED lifeVars /\ \A s \in Tx : Charges(s)'
  BY <1>3 DEF LedgerLock, Ledger!lockCreditLedger
<1>4. ASSUME NEW t \in Tx, LedgerRead(t)
      PROVE  UNCHANGED lifeVars /\ \A s \in Tx : Charges(s)'
  BY <1>4 DEF LedgerRead, Ledger!ReadLedger
<1>5. ASSUME NEW t \in Tx, LedgerCommit(t)
      PROVE  UNCHANGED lifeVars /\ \A s \in Tx : Charges(s)'
  BY <1>5 DEF LedgerCommit, Ledger!CommitLedger
<1>6. ASSUME NEW on \in BOOLEAN, Enforcement(on)
      PROVE  UNCHANGED lifeVars /\ \A s \in Tx : Charges(s)'
  BY <1>6 DEF Enforcement, Ledger!setCreditEnforcement
<1> QED BY <1>2, <1>3, <1>4, <1>5, <1>6 DEF Billing

\* A request that fails, in the ledger or outside it.
LEMMA FailKeeps ==
    ASSUME WorkInvariant, Proved!TypeOK, NEW t \in Tx, Fail(t)
    PROVE  WorkInvariant'
<1>1. CASE pc[t] # "idle"
  <2>1. /\ Ends(t) /\ UNCHANGED <<avaluo, version, historial>>
        /\ pc' = [pc EXCEPT ![t] = "idle"] /\ intent' = intent
    BY <1>1 DEF Fail, Ledger!Rollback
  <2>2. \A s \in Tx : Charges(s)'
    BY <2>1 DEF WorkInvariant, Ends, Shapes, Charges, Proved!TypeOK
  <2>3. Grown /\ AllSound'
    BY <2>1, GrownIfUnchanged DEF WorkInvariant, AllSound
  <2> QED BY <2>1, <2>2, <2>3, EndsInvariant DEF WorkInvariant, Shapes
<1>2. CASE pc[t] = "idle"
  BY <1>2, RefusedInvariant DEF Fail, WorkInvariant, Charges
<1> QED BY <1>1, <1>2

\* The first read of a request, whatever it is for.
LEMMA FirstReadKeeps ==
    ASSUME WorkInvariant, NEW t \in Tx, NEW a \in Valuations,
           \/ SectionsRead(t, a) \/ CalculationRead(t, a) \/ MetadataRead(t, a)
           \/ ConcludeRead(t, a) \/ ReopenRead(t, a)
    PROVE  WorkInvariant'
<1> DEFINE row == avaluo[a]
<1>1. row \in Avaluo /\ Sound(row, version[a])
  BY DEF WorkInvariant, Shapes, AllSound
<1>2. CASE SectionsRead(t, a)
  BY <1>2, ReadsKeeps DEF SectionsRead, Null
<1>3. CASE MetadataRead(t, a)
  BY <1>3, ReadsKeeps DEF MetadataRead, Null
<1>4. CASE CalculationRead(t, a)
  <2>1. CASE row.IdVersionTrabajo = Null
    BY <1>4, <2>1, ReadsKeeps DEF CalculationRead, Null
  <2>2. CASE row.IdVersionTrabajo # Null
    <3>1. row.IdVersionTrabajo \in Numbers
      BY <1>1, <2>2 DEF Avaluo
    <3> QED BY <1>4, <2>2, <3>1, ReadsKeeps DEF CalculationRead, Null
  <2> QED BY <2>1, <2>2
<1>5. CASE ConcludeRead(t, a)
  <2>1. row.IdVersionTrabajo \in Numbers /\ version[a][row.IdVersionTrabajo].exists
    BY <1>1, <1>5 DEF ConcludeRead, Avaluo, Sound
  <2> QED BY <1>5, <2>1, ReadsKeeps DEF ConcludeRead, Null
<1>6. CASE ReopenRead(t, a)
  <2> DEFINE f == row.IdVersionFinal
             n == row.INumeroVersionActual + 1
  <2>1. f \in Numbers /\ row.INumeroVersionActual \in Numbers /\ n \in Numbers
    BY <1>1, <1>6, MaxVersionsAssumption DEF ReopenRead, Avaluo, Numbers
  <2>2. version[a][f].hash # NoHash
    BY <1>1, <1>6 DEF ReopenRead, Sound
  <2>3. version[a][f].exists
    BY <1>1, <2>1, <2>2 DEF Sound
  <2>4. f <= row.INumeroVersionActual
    BY <1>1, <2>1, <2>3 DEF Sound
  <2>5. f \in 1..(n - 1) /\ n <= row.INumeroVersionActual + 1
    BY <2>1, <2>4, MaxVersionsAssumption DEF Numbers
  <2>6. Reads(t, a, "reopen", n)
    BY <1>6 DEF ReopenRead
  <2> HIDE DEF n
  <2> QED BY <2>1, <2>2, <2>5, <2>6, ReadsKeeps DEF Null
<1> QED BY <1>2, <1>3, <1>4, <1>5, <1>6

\* Every step of the workflow keeps its invariant.
LEMMA WorkStep == WorkInvariant /\ Proved!TypeOK /\ [Next]_vars => WorkInvariant'
<1> SUFFICES ASSUME WorkInvariant, Proved!TypeOK, [Next]_vars PROVE WorkInvariant'
  OBVIOUS
<1>1. CASE Saves
  BY <1>1, FirstReadKeeps, EnsureKeeps, WriteKeeps, CreateKeeps, AdvanceKeeps DEF Saves
<1>2. CASE Workflow
  BY <1>2, FirstReadKeeps, CheckKeeps, ConcludeKeeps, ReopenKeeps, DeleteKeeps DEF Workflow
<1>3. CASE Billing
  BY <1>3, BillingKeeps
<1>4. CASE \E t \in Tx : Fail(t)
  BY <1>4, FailKeeps
<1>5. CASE UNCHANGED vars
  BY <1>5 DEF vars, ledgerVars, lifeVars, WorkInvariant, Shapes, AllSound, Relies, Charges
<1> QED BY <1>1, <1>2, <1>3, <1>4, <1>5 DEF Next

-----------------------------------------------------------------------------
(* The ledger inside the workflow *)

\* Every step of a request is a step of the ledger or leaves it alone.
LEMMA LedgerStep == WorkInvariant /\ [Next]_vars => [Ledger!Next]_(Ledger!vars)
<1> SUFFICES ASSUME WorkInvariant, [Next]_vars PROVE Ledger!Next \/ UNCHANGED Ledger!vars
  OBVIOUS
<1> USE DEF Ledger!vars, ledgerVars
<1>1. CASE Saves
  BY <1>1 DEF Saves, SectionsRead, CalculationRead, ensureWorkingVersion, writeVersionSections,
              WriteNewVersion, MetadataRead, advanceToEditing, Reads, Refused
<1>2. CASE Workflow
  <2>1. ASSUME NEW t \in Tx, ConcludeCheck(t) PROVE Ledger!Next \/ UNCHANGED Ledger!vars
    <3>1. CASE Refused(t)
      BY <3>1 DEF Refused
    <3>2. CASE Ledger!Begin(t, Ledger!Consumption(read[t].a))
      <4>1. read[t].a \in Valuations
        BY <2>1 DEF ConcludeCheck, WorkInvariant, Relies
      <4> QED BY <3>2, <4>1 DEF Ledger!Next, Ledger!Movements
    <3> QED BY <2>1, <3>1, <3>2 DEF ConcludeCheck
  <2>2. ASSUME NEW t \in Tx, concludeValuation(t) PROVE Ledger!Next \/ UNCHANGED Ledger!vars
    BY <2>2 DEF concludeValuation, Charge, Ledger!Next
  <2> QED BY <1>2, <2>1, <2>2 DEF Workflow, ConcludeRead, ReopenRead, reopenValuation,
                                  softDeleteValuation, Reads, Refused
<1>3. CASE Billing
  <2>1. Uncharged \subseteq Ledger!Movements
    BY DEF Uncharged, Ledger!Movements
  <2> QED BY <1>3, <2>1 DEF Billing, LedgerBegin, LedgerLock, LedgerRead, LedgerCommit, Enforcement, Ledger!Next
<1>4. CASE \E t \in Tx : Fail(t)
  BY <1>4 DEF Fail, Refused, Ledger!Next
<1>5. CASE UNCHANGED vars
  BY <1>5 DEF vars
<1> QED BY <1>1, <1>2, <1>3, <1>4, <1>5 DEF Next

\* The two instances of the ledger are the same ledger: they start alike.
LEMMA SameInit == Ledger!Init => Proved!Init
BY DEF Ledger!Init, Proved!Init, Ledger!NoMovement, Proved!NoMovement,
       Ledger!NothingSeen, Proved!NothingSeen

\* What is a step of the one is a step of the other, operation by operation.
LEMMA SameStep == [Ledger!Next]_(Ledger!vars) => [Proved!Next]_(Proved!vars)
<1>1. Ledger!Movements = Proved!Movements
  BY DEF Ledger!Movements, Proved!Movements, Ledger!Consumption, Proved!Consumption,
         Ledger!Purchase, Proved!Purchase, Ledger!Adjustment, Proved!Adjustment
<1>2. \A t \in Tx, m \in Ledger!Movements : Ledger!Begin(t, m) => Proved!Begin(t, m)
  BY DEF Ledger!Begin, Proved!Begin
<1>3. \A t \in Tx : Ledger!lockCreditLedger(t) => Proved!lockCreditLedger(t)
  BY DEF Ledger!lockCreditLedger, Proved!lockCreditLedger
<1>4. \A t \in Tx : Ledger!ReadLedger(t) => Proved!ReadLedger(t)
  BY DEF Ledger!ReadLedger, Proved!ReadLedger, Ledger!Recorded, Proved!Recorded,
         Ledger!getCreditBalance, Proved!getCreditBalance
<1>5. \A t \in Tx : Ledger!Rollback(t) => Proved!Rollback(t)
  BY DEF Ledger!Rollback, Proved!Rollback, Ledger!NothingSeen, Proved!NothingSeen
<1>6. \A on \in BOOLEAN : Ledger!setCreditEnforcement(on) => Proved!setCreditEnforcement(on)
  BY DEF Ledger!setCreditEnforcement, Proved!setCreditEnforcement
<1>7. \A t \in Tx : Ledger!CommitLedger(t) => Proved!CommitLedger(t)
  BY DEF Ledger!CommitLedger, Proved!CommitLedger, Ledger!Inserts, Proved!Inserts,
         Ledger!concludeCreditDecision, Proved!concludeCreditDecision,
         Ledger!NothingSeen, Proved!NothingSeen
<1>8. Ledger!Next => Proved!Next
  BY <1>1, <1>2, <1>3, <1>4, <1>5, <1>6, <1>7, Zenon DEF Ledger!Next, Proved!Next
<1>9. UNCHANGED Ledger!vars => UNCHANGED Proved!vars
  BY DEF Ledger!vars, Proved!vars
<1> QED BY <1>8, <1>9, Zenon

\* What the constants of the ledger are assumed to be.
LEMMA LedgerConstants ==
    /\ Proved!NoTxAssumption /\ Proved!NoKeyAssumption /\ Proved!KeysAssumption
    /\ Proved!CreditsAssumption /\ Proved!AdjustmentsAssumption /\ Proved!BoundAssumption
BY LedgerAssumption
DEF Proved!NoTxAssumption, Proved!NoKeyAssumption, Proved!KeysAssumption,
    Proved!CreditsAssumption, Proved!AdjustmentsAssumption, Proved!BoundAssumption

\* The ledger's own invariant holds of the ledger the workflow charges.
LEMMA LedgerStays == WorkInvariant /\ Proved!LedgerInvariant /\ [Next]_vars => Proved!LedgerInvariant'
<1>1. Proved!LedgerInvariant /\ [Proved!Next]_(Proved!vars) => Proved!LedgerInvariant'
  BY LedgerConstants, Proved!NextInvariant, Zenon
<1> QED BY <1>1, LedgerStep, SameStep

-----------------------------------------------------------------------------
(* The charge *)

\* After a movement m is appended, k is recorded if it was or if it is m's.
LEMMA RecordedAfter ==
    ASSUME NEW rows \in Seq(Ledger!Movements), NEW m \in Ledger!Movements, NEW k
    PROVE  Ledger!Recorded(Append(rows, m), k)
              <=> \/ Ledger!Recorded(rows, k)
                  \/ k.STipo # "AJUSTE" /\ m.STipo = k.STipo /\ m.key = k.key
<1> DEFINE more == Append(rows, m)
<1>1. /\ Len(more) = Len(rows) + 1 /\ Len(rows) \in Nat
      /\ more[Len(rows) + 1] = m
      /\ \A i \in 1..Len(rows) : more[i] = rows[i]
  OBVIOUS
<1> HIDE DEF more
<1>2. 1..(Len(rows) + 1) = 1..Len(rows) \cup {Len(rows) + 1}
  BY <1>1
<1>3. Ledger!Recorded(more, k)
              <=> \/ Ledger!Recorded(rows, k)
                  \/ k.STipo # "AJUSTE" /\ m.STipo = k.STipo /\ m.key = k.key
  BY <1>1, <1>2 DEF Ledger!Recorded
<1> QED BY <1>3 DEF more

\* A step that writes no row of the ledger and no IdVersionFinal.
LEMMA NothingCharged ==
    ASSUME Shapes, ChargedIffConcluded, ledger' = ledger,
           \A a \in Valuations : avaluo'[a].IdVersionFinal = avaluo[a].IdVersionFinal
    PROVE  ChargedIffConcluded'
<1>1. \A k : Ledger!Recorded(ledger', k) <=> Ledger!Recorded(ledger, k)
  BY DEF Ledger!Recorded
<1> QED BY <1>1 DEF ChargedIffConcluded, Ledger!Consumption

\* A commit of the ledger that concludes nothing records no consumption.
LEMMA UnchargedKeeps ==
    ASSUME WorkInvariant, Proved!LedgerInvariant, ChargedIffConcluded, NEW t \in Tx, LedgerCommit(t)
    PROVE  ChargedIffConcluded'
<1>1. /\ UNCHANGED avaluo /\ intent[t] \in Uncharged
      /\ ledger' = IF Ledger!Inserts(intent[t], seen[t]) THEN Append(ledger, intent[t]) ELSE ledger
  BY DEF LedgerCommit, lifeVars, Ledger!CommitLedger, WorkInvariant, Charges
<1>2. CASE ledger' = ledger
  BY <1>1, <1>2, NothingCharged DEF WorkInvariant
<1>3. CASE ledger' = Append(ledger, intent[t])
  <2>1. ledger \in Seq(Ledger!Movements)
    BY DEF Proved!LedgerInvariant, Proved!TypeOK, Ledger!Movements, Proved!Movements,
           Ledger!Consumption, Proved!Consumption, Ledger!Purchase, Proved!Purchase,
           Ledger!Adjustment, Proved!Adjustment
  <2>2. intent[t] \in Ledger!Movements /\ intent[t].STipo # "CONSUMO"
    BY <1>1 DEF Uncharged, Ledger!Movements, Ledger!Purchase, Ledger!Adjustment
  <2>3. ASSUME NEW a \in Valuations
        PROVE  Ledger!Recorded(ledger', Ledger!Consumption(a)) <=> Ledger!Recorded(ledger, Ledger!Consumption(a))
    BY <1>3, <2>1, <2>2, RecordedAfter DEF Ledger!Consumption
  <2> QED BY <1>1, <2>3 DEF ChargedIffConcluded, Ledger!Consumption
<1> QED BY <1>1, <1>2, <1>3

\* A conclusion: its consumption is recorded after it exactly if it went on.
LEMMA ConcludeCharges ==
    ASSUME WorkInvariant, Proved!LedgerInvariant, ChargedIffConcluded, NEW t \in Tx, concludeValuation(t)
    PROVE  ChargedIffConcluded'
<1> DEFINE a == read[t].a
           v == read[t].target
           m == Ledger!Consumption(a)
<1>1. /\ step[t] = "charge" /\ pc[t] = "decided"
      /\ ledger' = IF Ledger!Inserts(intent[t], seen[t]) THEN Append(ledger, intent[t]) ELSE ledger
  BY DEF concludeValuation, Charge, Ledger!CommitLedger
<1>2. a \in Valuations /\ v \in Numbers /\ intent[t] = m
  BY <1>1 DEF WorkInvariant, Relies, Charges
<1>3. m.STipo = "CONSUMO" /\ m.key = a
  BY DEF Ledger!Consumption
<1>4. seen[t].existing = Ledger!Recorded(ledger, m)
  BY <1>1, <1>2 DEF Proved!LedgerInvariant, Proved!DecisionsAreCurrent, Proved!Recorded, Ledger!Recorded
<1>5. ledger \in Seq(Ledger!Movements) /\ m \in Ledger!Movements
  <2>1. ledger \in Seq(Ledger!Movements)
    BY DEF Proved!LedgerInvariant, Proved!TypeOK, Ledger!Movements, Proved!Movements,
           Ledger!Consumption, Proved!Consumption, Ledger!Purchase, Proved!Purchase,
           Ledger!Adjustment, Proved!Adjustment
  <2> QED BY <1>2, <2>1 DEF Ledger!Movements
<1>6. CASE ChargeBlocked(t)
  <2>1. ledger' = ledger /\ UNCHANGED avaluo
    BY <1>1, <1>2, <1>3, <1>6 DEF concludeValuation, ChargeBlocked, Ledger!Inserts
  <2> QED BY <2>1, NothingCharged DEF WorkInvariant
<1>7. CASE ~ChargeBlocked(t)
  <2>1. avaluo' = [avaluo EXCEPT ![a] = Concluded(@, v)]
    BY <1>7 DEF concludeValuation
  <2>2. ASSUME NEW b \in Valuations
        PROVE  avaluo'[b].IdVersionFinal # Null <=> (b = a \/ avaluo[b].IdVersionFinal # Null)
    BY <1>2, <2>1 DEF WorkInvariant, Shapes, Avaluo, Concluded, Numbers, Null
  <2>3. ASSUME NEW b \in Valuations
        PROVE  Ledger!Recorded(ledger', Ledger!Consumption(b))
                  <=> b = a \/ Ledger!Recorded(ledger, Ledger!Consumption(b))
    <3>1. CASE Ledger!Inserts(m, seen[t])
      <4>1. ledger' = Append(ledger, m)
        BY <1>1, <1>2, <3>1
      <4> HIDE DEF m
      <4> QED BY <1>3, <1>5, <4>1, RecordedAfter DEF Ledger!Consumption
    <3>2. CASE ~Ledger!Inserts(m, seen[t])
      <4>1. seen[t].existing
        BY <1>3, <1>7, <3>2 DEF Ledger!Inserts, ChargeBlocked, Ledger!concludeCreditDecision
      <4>2. ledger' = ledger
        BY <1>1, <1>2, <3>2
      <4> QED BY <1>4, <4>1, <4>2
    <3> QED BY <3>1, <3>2
  <2> QED BY <2>2, <2>3 DEF ChargedIffConcluded
<1> QED BY <1>6, <1>7

\* No other step writes a consumption or makes a version final.
LEMMA ChargeStep ==
    WorkInvariant /\ Proved!LedgerInvariant /\ ChargedIffConcluded /\ [Next]_vars => ChargedIffConcluded'
<1> SUFFICES ASSUME WorkInvariant, Proved!LedgerInvariant, ChargedIffConcluded, [Next]_vars
             PROVE  ChargedIffConcluded'
  OBVIOUS
<1> DEFINE Quiet == /\ ledger' = ledger
                    /\ \A a \in Valuations : avaluo'[a].IdVersionFinal = avaluo[a].IdVersionFinal
<1>0. avaluo \in [Valuations -> Avaluo]
  BY DEF WorkInvariant, Shapes
<1>1. SUFFICES ASSUME Quiet PROVE ChargedIffConcluded'
  <2>1. CASE Saves
    <3>1. ASSUME NEW t \in Tx, NEW c \in Contents, WriteNewVersion(t, c) PROVE Quiet
      <4>1. read[t].a \in Valuations
        BY <3>1 DEF WriteNewVersion, WorkInvariant, Relies
      <4> QED BY <1>0, <3>1, <4>1 DEF WriteNewVersion, Refused, Avaluo, ledgerVars
    <3>2. ASSUME NEW t \in Tx, advanceToEditing(t) PROVE Quiet
      <4>1. read[t].a \in Valuations
        BY <3>2 DEF advanceToEditing, WorkInvariant, Relies
      <4> QED BY <1>0, <3>2, <4>1 DEF advanceToEditing, Avaluo, ledgerVars
    <3> QED BY <1>1, <2>1, <3>1, <3>2
            DEF Saves, SectionsRead, CalculationRead, ensureWorkingVersion, writeVersionSections,
                MetadataRead, Reads, Refused, ledgerVars
  <2>2. CASE Workflow
    <3>1. ASSUME NEW t \in Tx, reopenValuation(t) PROVE Quiet
      <4>1. read[t].a \in Valuations
        BY <3>1 DEF reopenValuation, WorkInvariant, Relies
      <4>2. /\ ledger' = ledger
            /\ \/ avaluo' = avaluo
               \/ avaluo' = [avaluo EXCEPT ![read[t].a] = Reopened(@, read[t].target)]
        BY <3>1 DEF reopenValuation, Refused, ledgerVars
      <4>3. Reopened(avaluo[read[t].a], read[t].target).IdVersionFinal = avaluo[read[t].a].IdVersionFinal
        BY <1>0, <4>1 DEF Reopened, Avaluo
      <4> QED BY <1>0, <4>1, <4>2, <4>3
    <3>2. ASSUME NEW a \in Valuations, softDeleteValuation(a) PROVE Quiet
      BY <3>2 DEF softDeleteValuation, WorkInvariant, Shapes, Avaluo, ledgerVars
    <3>3. ASSUME NEW t \in Tx, ConcludeCheck(t) PROVE Quiet
      BY <3>3 DEF ConcludeCheck, Refused, Ledger!Begin, ledgerVars
    <3> QED BY <1>1, <2>2, <3>1, <3>2, <3>3, ConcludeCharges
            DEF Workflow, ConcludeRead, ReopenRead, Reads, ledgerVars
  <2>3. CASE Billing
    BY <1>1, <2>3, UnchargedKeeps
    DEF Billing, LedgerBegin, LedgerLock, LedgerRead, Enforcement, lifeVars,
        Ledger!Begin, Ledger!lockCreditLedger, Ledger!ReadLedger, Ledger!setCreditEnforcement
  <2>4. CASE \E t \in Tx : Fail(t)
    BY <1>1, <2>4 DEF Fail, Ledger!Rollback, Refused, ledgerVars
  <2>5. CASE UNCHANGED vars
    BY <1>1, <2>5 DEF vars, ledgerVars, lifeVars
  <2> QED BY <2>1, <2>2, <2>3, <2>4, <2>5 DEF Next
<1> QED BY <1>1, NothingCharged DEF WorkInvariant

-----------------------------------------------------------------------------
(* The theorems *)

LifeInvariant == WorkInvariant /\ Proved!LedgerInvariant /\ ChargedIffConcluded

\* Valuations start unlocked, in their first version or without any, and free.
LEMMA InitInvariant == Init => LifeInvariant
<1> SUFFICES ASSUME Init PROVE LifeInvariant
  OBVIOUS
<1>1. Proved!LedgerInvariant
  <2>1. Proved!Init => Proved!LedgerInvariant
    BY LedgerConstants, Proved!InitInvariant, Zenon
  <2> QED BY <2>1, SameInit DEF Init
<1>2. avaluo \in [Valuations -> Avaluo]
  <2>1. Registered \in Avaluo
    BY MaxVersionsAssumption DEF Avaluo, Registered, Estados, Numbers, Null
  <2>2. Unversioned \in Avaluo
    BY <2>1 DEF Avaluo, Unversioned
  <2> QED BY <2>1, <2>2 DEF Init
<1>3. version \in [Valuations -> [Numbers -> Version]]
  BY ContentsAssumption
  DEF Init, Version, FirstVersion, NewVersion, NoVersion
<1>4. NothingRead \in Locals
  BY ContentsAssumption, MaxVersionsAssumption
  DEF NothingRead, Locals, Avaluo, Registered, Estados, Numbers, Null
<1>5. Shapes
  BY <1>2, <1>3, <1>4 DEF Init, Shapes
<1>6. AllSound
  BY SoundAtFirst DEF Init, AllSound
<1>7. \A t \in Tx : Relies(t) /\ Charges(t)
  BY DEF Init, Ledger!Init, Relies, Charges
<1>8. ChargedIffConcluded
  BY DEF Init, Ledger!Init, ChargedIffConcluded, Ledger!Recorded, Registered, Unversioned
<1> QED BY <1>1, <1>5, <1>6, <1>7, <1>8 DEF LifeInvariant, WorkInvariant

\* Every reachable state of the workflow satisfies the inductive invariant.
THEOREM Invariance == Spec => []LifeInvariant
<1>1. LifeInvariant /\ [Next]_vars => LifeInvariant'
  <2>1. Proved!LedgerInvariant => Proved!TypeOK
    BY DEF Proved!LedgerInvariant
  <2> QED BY <2>1, WorkStep, LedgerStays, ChargeStep DEF LifeInvariant
<1> QED BY <1>1, InitInvariant, PTL DEF Spec

\* The rows and the locals of the requests keep their types.
THEOREM TypeCorrect == Spec => []TypeOK
<1>1. Proved!TypeOK => Ledger!TypeOK
  BY DEF Ledger!TypeOK, Proved!TypeOK, Ledger!Movements, Proved!Movements,
         Ledger!Consumption, Proved!Consumption, Ledger!Purchase, Proved!Purchase,
         Ledger!Adjustment, Proved!Adjustment, Ledger!NoMovement, Proved!NoMovement,
         Ledger!Sight, Proved!Sight
<1>2. LifeInvariant => TypeOK
  BY <1>1 DEF LifeInvariant, WorkInvariant, Shapes, TypeOK, Proved!LedgerInvariant
<1> QED BY <1>2, Invariance, PTL

\* A locked valuation has no draft and a version to show, an unlocked one has a
\* draft or no version yet, whatever stale request commits.
THEOREM LockMatchesDraft == Spec => []LockedIffNoDraft
<1>1. LifeInvariant => LockedIffNoDraft
  BY DEF LifeInvariant, WorkInvariant, AllSound, Sound, LockedIffNoDraft
<1> QED BY <1>1, Invariance, PTL

\* Versions have consecutive numbers, each copied from an earlier final one,
\* however saves, conclusions and reopenings interleave.
THEOREM Chain == Spec => []VersionsChained
<1>1. LifeInvariant => VersionsChained
  BY DEF LifeInvariant, WorkInvariant, AllSound, Sound, VersionsChained
<1> QED BY <1>1, Invariance, PTL

\* A valuation was charged exactly if it has been concluded.
THEOREM ChargeMatchesConclusion == Spec => []ChargedIffConcluded
<1>1. LifeInvariant => ChargedIffConcluded
  BY DEF LifeInvariant
<1> QED BY <1>1, Invariance, PTL

\* The workflow uses the ledger as the ledger allows: what is proved of the
\* ledger holds of the organization whose valuations it charges.
THEOREM UsesLedger == Spec => ImplementsLedger
<1>1. Init => Ledger!Init
  BY DEF Init
<1>2. LifeInvariant /\ [Next]_vars => [Ledger!Next]_(Ledger!vars)
  BY LedgerStep DEF LifeInvariant
<1> QED BY <1>1, <1>2, Invariance, PTL DEF Spec, ImplementsLedger, Ledger!Spec

-----------------------------------------------------------------------------
(* The contract of requests that do not meet *)

\* What one request at a time leaves of a valuation: the final versions are the
\* first ones, sealed with their hash, and the draft is the one after them.
InTurn(row, vs) ==
    /\ row.IdVersionTrabajo # Null => row.IdVersionTrabajo = row.IdVersionFinal + 1
    /\ row.IdVersionTrabajo = Null => row.IdVersionFinal \in {Null, row.INumeroVersionActual}
    /\ \A n \in Numbers :
          /\ vs[n].hash # NoHash <=> n <= row.IdVersionFinal
          /\ vs[n].hash # NoHash => vs[n].content = vs[n].hash /\ vs[n].hash \in Sectioned \cap Signed
    /\ row.BBloqueado <=> row.IdEstadoAvaluo = "TERMINADO"

\* HistoryIsChain of one valuation.
ChainOf(row, h) ==
    /\ \A i \in 1..Len(h) : h[i].IdEstadoAnterior = IF i = 1 THEN "NUEVO" ELSE h[i - 1].IdEstadoNuevo
    /\ row.IdEstadoAvaluo = IF h = << >> THEN "NUEVO" ELSE h[Len(h)].IdEstadoNuevo

\* What a request alone on its valuation read is still so.
StillSo(t) ==
    LET a == read[t].a
        own == read[t].row
        n == read[t].target
    IN  step[t] # "idle" =>
          /\ own.IdEstadoAvaluo = avaluo[a].IdEstadoAvaluo /\ own.IdVersionFinal = avaluo[a].IdVersionFinal
          /\ step[t] \in {"write", "check", "charge"} => n = avaluo[a].IdVersionTrabajo
          /\ step[t] = "create" => avaluo[a].IdVersionTrabajo = Null
          /\ step[t] \in {"check", "charge"} => read[t].content = version[a][n].content /\ read[t].content \in Sectioned
          /\ step[t] = "charge" => read[t].content \in Signed
          /\ step[t] = "reopen" => /\ avaluo[a].IdVersionTrabajo = Null /\ avaluo[a].IdVersionFinal # Null
                                   /\ n = avaluo[a].INumeroVersionActual + 1

TurnInvariant ==
    /\ \A a \in Valuations : InTurn(avaluo[a], version[a]) /\ ChainOf(avaluo[a], historial[a])
    /\ \A t \in Tx : StillSo(t)

\* An entry that starts from the present state and leaves the next.
LEMMA ChainGrows ==
    ASSUME NEW h \in Seq(EstadoAvaluoHistorial), NEW e \in EstadoAvaluoHistorial, NEW row, NEW row2, ChainOf(row, h),
           e.IdEstadoAnterior = row.IdEstadoAvaluo, row2.IdEstadoAvaluo = e.IdEstadoNuevo
    PROVE  ChainOf(row2, Append(h, e))
<1> DEFINE more == Append(h, e)
<1>1. /\ Len(h) \in Nat /\ Len(more) = Len(h) + 1 /\ more # << >>
      /\ more[Len(h) + 1] = e /\ \A i \in 1..Len(h) : more[i] = h[i]
      /\ (h = << >> <=> Len(h) = 0)
  OBVIOUS
<1> HIDE DEF more
<1>2. ASSUME NEW i \in 1..Len(more)
      PROVE  more[i].IdEstadoAnterior = IF i = 1 THEN "NUEVO" ELSE more[i - 1].IdEstadoNuevo
  <2>1. CASE i \in 1..Len(h)
    BY <1>1, <2>1 DEF ChainOf
  <2>2. CASE i = Len(h) + 1
    BY <1>1, <2>2 DEF ChainOf
  <2> QED BY <1>1, <2>1, <2>2
<1>3. ChainOf(row2, more)
  BY <1>1, <1>2 DEF ChainOf
<1> QED BY <1>3 DEF more

\* A save writes the draft, which is not final.
LEMMA InTurnWrite ==
    ASSUME NEW row \in Avaluo, NEW vs \in [Numbers -> Version], InTurn(row, vs),
           NEW n \in Numbers, n = row.IdVersionTrabajo, NEW c \in Contents
    PROVE  vs[n].hash = NoHash /\ InTurn(row, [vs EXCEPT ![n].content = c])
<1>1. vs[n].hash = NoHash
  BY DEF InTurn, Avaluo, Numbers, Null
<1> QED BY <1>1 DEF InTurn, Version

\* A first save creates the first version.
LEMMA InTurnCreate ==
    ASSUME NEW row \in Avaluo, NEW vs \in [Numbers -> Version], Sound(row, vs), InTurn(row, vs),
           NEW n \in Numbers, n <= row.INumeroVersionActual, ~vs[n].exists, row.IdVersionTrabajo = Null, NEW c \in Contents
    PROVE  /\ InTurn([row EXCEPT !.IdVersionTrabajo = n], [vs EXCEPT ![n] = NewVersion(c, Null)])
           /\ \A k \in Numbers : vs[k].hash = NoHash
           /\ vs[n].hash = NoHash
<1> DEFINE row2 == [row EXCEPT !.IdVersionTrabajo = n]
           vs2 == [vs EXCEPT ![n] = NewVersion(c, Null)]
<1>1. n = 1
  BY DEF Sound, Numbers
<1>2. row.IdVersionFinal = Null
  BY <1>1 DEF InTurn, Sound, Avaluo, Numbers, Null
<1>3. \A k \in Numbers : vs[k].hash = NoHash
  BY <1>2 DEF InTurn, Numbers, Null
<1>4. \A k \in Numbers : vs2[k].hash = NoHash
  BY <1>3 DEF NewVersion
<1>5. /\ row2.IdVersionTrabajo = n /\ row2.IdVersionFinal = row.IdVersionFinal
      /\ row2.BBloqueado = row.BBloqueado /\ row2.IdEstadoAvaluo = row.IdEstadoAvaluo
  BY DEF Avaluo
<1> HIDE DEF row2, vs2
<1>6. InTurn(row2, vs2)
  BY <1>1, <1>2, <1>4, <1>5 DEF InTurn, Numbers, Null
<1> QED BY <1>3, <1>6 DEF row2, vs2

\* The draft becomes the last final version.
LEMMA InTurnConclude ==
    ASSUME NEW row \in Avaluo, NEW vs \in [Numbers -> Version], Sound(row, vs), InTurn(row, vs),
           NEW v \in Numbers, v = row.IdVersionTrabajo, NEW c \in Sectioned \cap Signed, c = vs[v].content
    PROVE  /\ InTurn(Concluded(row, v), [vs EXCEPT ![v].hash = c])
           /\ row.IdVersionFinal = v - 1
<1> DEFINE row2 == Concluded(row, v)
           vs2 == [vs EXCEPT ![v].hash = c]
<1>1. v = row.IdVersionFinal + 1 /\ row.IdVersionFinal \in Nat
  BY DEF InTurn, Avaluo, Numbers, Null
<1>2. /\ row2.IdVersionTrabajo = Null /\ row2.IdVersionFinal = v /\ row2.BBloqueado /\ row2.IdEstadoAvaluo = "TERMINADO"
      /\ row2.INumeroVersionActual = row.INumeroVersionActual
  BY DEF Concluded, Avaluo
<1>3. c # NoHash
  BY ContentsAssumption, NoHashAssumption
<1>4. /\ vs2[v].hash = c /\ vs2[v].content = c
      /\ \A n \in Numbers : n # v => vs2[n] = vs[n]
  BY DEF Version
<1> HIDE DEF row2, vs2
<1>5. ASSUME NEW n \in Numbers
      PROVE  /\ vs2[n].hash # NoHash <=> n <= v
             /\ vs2[n].hash # NoHash => vs2[n].content = vs2[n].hash /\ vs2[n].hash \in Sectioned \cap Signed
  BY <1>1, <1>3, <1>4 DEF InTurn, Numbers
<1>6. v = row.INumeroVersionActual
  BY DEF Sound, Numbers, Null
<1>7. InTurn(row2, vs2)
  BY <1>2, <1>5, <1>6 DEF InTurn
<1> QED BY <1>1, <1>7 DEF row2, vs2

\* The next draft starts after the last final version.
LEMMA InTurnReopen ==
    ASSUME NEW row \in Avaluo, NEW vs \in [Numbers -> Version], InTurn(row, vs),
           NEW n \in Numbers, n = row.INumeroVersionActual + 1, NEW c \in Contents, NEW f \in Numbers,
           row.IdVersionTrabajo = Null, row.IdVersionFinal # Null
    PROVE  /\ InTurn(Reopened(row, n), [vs EXCEPT ![n] = NewVersion(c, f)])
           /\ vs[n].hash = NoHash /\ n = row.IdVersionFinal + 1
<1> DEFINE row2 == Reopened(row, n)
           vs2 == [vs EXCEPT ![n] = NewVersion(c, f)]
<1>1. n = row.IdVersionFinal + 1 /\ row.IdVersionFinal \in Nat
  BY DEF InTurn, Avaluo, Numbers
<1>2. /\ row2.IdVersionTrabajo = n /\ row2.IdVersionFinal = row.IdVersionFinal
      /\ ~row2.BBloqueado /\ row2.IdEstadoAvaluo = "REABIERTO"
  BY DEF Reopened, Avaluo
<1>3. vs[n].hash = NoHash
  BY <1>1 DEF InTurn, Numbers
<1>4. vs2[n].hash = NoHash /\ \A k \in Numbers : k # n => vs2[k] = vs[k]
  BY DEF NewVersion
<1> HIDE DEF row2, vs2
<1>5. InTurn(row2, vs2)
  BY <1>1, <1>2, <1>3, <1>4 DEF InTurn, Numbers, Null
<1> QED BY <1>1, <1>3, <1>5 DEF row2, vs2

\* The request of t goes on, or ends, with the valuations as they are.
LEMMA TurnKept ==
    ASSUME Shapes, Shapes', TurnInvariant, NEW t \in Tx, UNCHANGED <<avaluo, version, historial>>,
           \A s \in Tx : s # t => step'[s] = step[s] /\ read'[s] = read[s],
           StillSo(t)'
    PROVE  TurnInvariant'
<1>1. ASSUME NEW s \in Tx PROVE StillSo(s)'
  <2>1. CASE s # t
    BY <2>1 DEF TurnInvariant, StillSo
  <2> QED BY <2>1
<1> QED BY <1>1 DEF TurnInvariant

\* A request that has ended holds on to nothing.
LEMMA TurnRefused ==
    ASSUME Shapes, Shapes', TurnInvariant, NEW t \in Tx, Refused(t)
    PROVE  TurnInvariant'
<1>1. StillSo(t)'
  BY DEF Refused, Ends, Shapes, StillSo
<1> QED BY <1>1, TurnKept DEF Refused, Ends, Shapes

\* The request of t ends, having changed its own valuation: the others at work
\* are on other ones.
LEMMA TurnEnds ==
    ASSUME Shapes, TurnInvariant, NoneMeet, \A s \in Tx : Relies(s),
           NEW t \in Tx, step[t] # "idle", Ends(t), NEW row, NEW vs, NEW h,
           avaluo' = [avaluo EXCEPT ![read[t].a] = row], version' = [version EXCEPT ![read[t].a] = vs],
           historial' = [historial EXCEPT ![read[t].a] = h],
           InTurn(row, vs), ChainOf(row, h)
    PROVE  TurnInvariant'
<1> DEFINE a == read[t].a
<1>1. a \in Valuations
  BY DEF Relies
<1>2. /\ avaluo'[a] = row /\ version'[a] = vs /\ historial'[a] = h
      /\ \A b \in Valuations : b # a =>
            avaluo'[b] = avaluo[b] /\ version'[b] = version[b] /\ historial'[b] = historial[b]
  BY <1>1 DEF Shapes
<1>3. \A b \in Valuations : InTurn(avaluo'[b], version'[b]) /\ ChainOf(avaluo'[b], historial'[b])
  BY <1>2 DEF TurnInvariant
<1>4. ASSUME NEW s \in Tx PROVE StillSo(s)'
  <2>1. CASE s = t \/ step[s] = "idle"
    BY <2>1 DEF Ends, Shapes, StillSo
  <2>2. CASE s # t /\ step[s] # "idle"
    <3>1. read[s].a \in Valuations /\ read[s].a # a
      BY <2>2 DEF Relies, NoneMeet
    <3>2. step'[s] = step[s] /\ read'[s] = read[s]
      BY <2>2 DEF Ends, Shapes
    <3> QED BY <1>2, <3>1, <3>2 DEF TurnInvariant, StillSo
  <2> QED BY <2>1, <2>2
<1> QED BY <1>3, <1>4 DEF TurnInvariant

\* The parts of the invariant a request of t on its valuation starts from.
LEMMA AtWork ==
    ASSUME WorkInvariant, TurnInvariant, NEW t \in Tx, step[t] # "idle"
    PROVE  LET a == read[t].a IN
           /\ a \in Valuations
           /\ avaluo[a] \in Avaluo /\ version[a] \in [Numbers -> Version]
           /\ historial[a] \in Seq(EstadoAvaluoHistorial)
           /\ Sound(avaluo[a], version[a]) /\ InTurn(avaluo[a], version[a])
           /\ ChainOf(avaluo[a], historial[a])
           /\ read[t] \in Locals
BY DEF WorkInvariant, Shapes, AllSound, Relies, TurnInvariant

\* A request reads its valuation (Reads).
LEMMA TurnReads ==
    ASSUME WorkInvariant, WorkInvariant', TurnInvariant, NEW t \in Tx, NEW a \in Valuations, NEW next, NEW target,
           Reads(t, a, next, target),
           next \in {"ensure", "write", "metadata", "check", "reopen"},
           next \in {"write", "check"} => target = avaluo[a].IdVersionTrabajo /\ target # Null,
           next = "check" => version[a][target].content \in Sectioned,
           next = "reopen" => /\ avaluo[a].IdVersionTrabajo = Null /\ avaluo[a].IdVersionFinal # Null
                              /\ target = avaluo[a].INumeroVersionActual + 1
    PROVE  TurnInvariant'
<1> DEFINE row == avaluo[a]
           content == IF row.IdVersionTrabajo = Null THEN Blank ELSE version[a][row.IdVersionTrabajo].content
           local == [a |-> a, row |-> row, target |-> target, content |-> content]
<1>1. /\ step' = [step EXCEPT ![t] = next] /\ read' = [read EXCEPT ![t] = local]
      /\ UNCHANGED <<avaluo, version, historial>>
  BY DEF Reads
<1>2. /\ local.a = a /\ local.row = row /\ local.target = target /\ local.content = content
  OBVIOUS
<1>3. next \in {"write", "check"} => content = version[a][target].content
  OBVIOUS
<1> HIDE DEF local, content
<1>4. step'[t] = next /\ read'[t] = local
  BY <1>1 DEF WorkInvariant, Shapes
<1>5. \A s \in Tx : s # t => step'[s] = step[s] /\ read'[s] = read[s]
  BY <1>1 DEF WorkInvariant, Shapes
<1>6. StillSo(t)'
  BY <1>1, <1>2, <1>3, <1>4 DEF StillSo
<1> QED BY <1>1, <1>5, <1>6, TurnKept DEF WorkInvariant

\* The first read of a request, whatever it is for.
LEMMA TurnFirstRead ==
    ASSUME WorkInvariant, WorkInvariant', TurnInvariant, NEW t \in Tx, NEW a \in Valuations,
           \/ SectionsRead(t, a) \/ CalculationRead(t, a) \/ MetadataRead(t, a)
           \/ ConcludeRead(t, a) \/ ReopenRead(t, a)
    PROVE  TurnInvariant'
<1>1. CASE SectionsRead(t, a)
  BY <1>1, TurnReads DEF SectionsRead
<1>2. CASE MetadataRead(t, a)
  BY <1>2, TurnReads DEF MetadataRead
<1>3. CASE CalculationRead(t, a)
  BY <1>3, TurnReads DEF CalculationRead
<1>4. CASE ConcludeRead(t, a)
  BY <1>4, TurnReads DEF ConcludeRead
<1>5. CASE ReopenRead(t, a)
  BY <1>5, TurnReads DEF ReopenRead
<1> QED BY <1>1, <1>2, <1>3, <1>4, <1>5

\* The second read of a save (ensureWorkingVersion).
LEMMA TurnEnsure ==
    ASSUME WorkInvariant, WorkInvariant', TurnInvariant, NEW t \in Tx, ensureWorkingVersion(t)
    PROVE  TurnInvariant'
<1> DEFINE a == read[t].a
           working == avaluo[a].IdVersionTrabajo
           number == avaluo[a].INumeroVersionActual
<1>1. CASE Refused(t)
  BY <1>1, TurnRefused DEF WorkInvariant
<1>2. ASSUME NEW next \in {"write", "create"}, NEW target,
             step' = [step EXCEPT ![t] = next], read' = [read EXCEPT ![t].target = target],
             UNCHANGED <<avaluo, version, historial>>, step[t] = "ensure",
             next = "write" => target = working, next = "create" => working = Null
      PROVE  TurnInvariant'
  <2>1. \A s \in Tx : s # t => step'[s] = step[s] /\ read'[s] = read[s]
    BY <1>2 DEF WorkInvariant, Shapes
  <2>2. /\ step'[t] = next /\ read'[t].a = a /\ read'[t].target = target
        /\ read'[t].row = read[t].row
    BY <1>2 DEF WorkInvariant, Shapes, Locals
  <2>3. StillSo(t)'
    BY <1>2, <2>2 DEF TurnInvariant, StillSo
  <2> QED BY <1>2, <2>1, <2>3, TurnKept DEF WorkInvariant
<1> QED BY <1>1, <1>2 DEF ensureWorkingVersion

\* The draft is written (writeVersionSections).
LEMMA TurnWrite ==
    ASSUME WorkInvariant, TurnInvariant, NoneMeet, NEW t \in Tx, NEW c \in Contents, writeVersionSections(t, c)
    PROVE  TurnInvariant'
<1> DEFINE a == read[t].a
           n == read[t].target
           vs == [version[a] EXCEPT ![n].content = c]
<1>1. /\ step[t] = "write" /\ Ends(t) /\ UNCHANGED <<avaluo, historial>>
      /\ version' = [version EXCEPT ![a] = vs]
  BY DEF writeVersionSections
<1>2. n \in Numbers /\ n = avaluo[a].IdVersionTrabajo
  BY <1>1 DEF WorkInvariant, Relies, TurnInvariant, StillSo
<1>3. InTurn(avaluo[a], vs)
  BY <1>1, <1>2, AtWork, InTurnWrite
<1>4. avaluo' = [avaluo EXCEPT ![a] = avaluo[a]] /\ historial' = [historial EXCEPT ![a] = historial[a]]
  BY <1>1 DEF WorkInvariant, Shapes
<1>5. step[t] # "idle" /\ ChainOf(avaluo[a], historial[a])
  BY <1>1, AtWork
<1> HIDE DEF vs
<1> QED BY <1>1, <1>3, <1>4, <1>5, TurnEnds DEF WorkInvariant

\* The first version is created by the save that writes it (WriteNewVersion).
LEMMA TurnCreate ==
    ASSUME WorkInvariant, WorkInvariant', TurnInvariant, NoneMeet,
           NEW t \in Tx, NEW c \in Contents, WriteNewVersion(t, c)
    PROVE  TurnInvariant'
<1> DEFINE a == read[t].a
           n == read[t].target
           row == [avaluo[a] EXCEPT !.IdVersionTrabajo = n]
           vs == [version[a] EXCEPT ![n] = NewVersion(c, Null)]
<1>1. step[t] = "create" /\ step[t] # "idle"
  BY DEF WriteNewVersion
<1>2. CASE Refused(t)
  BY <1>2, TurnRefused DEF WorkInvariant
<1>3. CASE /\ ~version[a][n].exists
           /\ version' = [version EXCEPT ![a][n] = NewVersion(c, Null)]
           /\ avaluo' = [avaluo EXCEPT ![a].IdVersionTrabajo = n]
           /\ Ends(t) /\ UNCHANGED historial
  <2>1. n \in Numbers /\ n <= avaluo[a].INumeroVersionActual /\ avaluo[a].IdVersionTrabajo = Null
    BY <1>1 DEF WorkInvariant, Relies, TurnInvariant, StillSo
  <2>2. InTurn(row, vs)
    BY <1>1, <1>3, <2>1, AtWork, InTurnCreate
  <2>3. avaluo' = [avaluo EXCEPT ![a] = row] /\ version' = [version EXCEPT ![a] = vs]
    BY <1>3
  <2>4. historial' = [historial EXCEPT ![a] = historial[a]]
    BY <1>3 DEF WorkInvariant, Shapes
  <2>5. row.IdEstadoAvaluo = avaluo[a].IdEstadoAvaluo
    BY <1>1, AtWork DEF Avaluo
  <2> HIDE DEF row, vs
  <2>6. ChainOf(row, historial[a])
    BY <1>1, <2>5, AtWork DEF ChainOf
  <2> QED BY <1>1, <1>3, <2>2, <2>3, <2>4, <2>6, TurnEnds DEF WorkInvariant
<1> QED BY <1>2, <1>3 DEF WriteNewVersion

\* The first edit of a valuation (advanceToEditing).
LEMMA TurnAdvance ==
    ASSUME WorkInvariant, WorkInvariant', TurnInvariant, NoneMeet, NEW t \in Tx, advanceToEditing(t)
    PROVE  TurnInvariant'
<1> DEFINE a == read[t].a
           v == read[t].row.IdVersionTrabajo
           row == [avaluo[a] EXCEPT !.IdEstadoAvaluo = "EN_EDICION"]
           e == Entry(v, read[t].row.IdEstadoAvaluo, "EN_EDICION")
<1>1. step[t] = "metadata" /\ step[t] # "idle" /\ Ends(t) /\ UNCHANGED version
  BY DEF advanceToEditing
<1>2. CASE UNCHANGED <<avaluo, historial>>
  <2>1. StillSo(t)'
    BY <1>1 DEF Ends, WorkInvariant, Shapes, StillSo
  <2>2. \A s \in Tx : s # t => step'[s] = step[s] /\ read'[s] = read[s]
    BY <1>1 DEF Ends, WorkInvariant, Shapes
  <2> QED BY <1>1, <1>2, <2>1, <2>2, TurnKept DEF WorkInvariant
<1>3. CASE /\ read[t].row.IdEstadoAvaluo = "NUEVO" /\ v # Null
           /\ avaluo' = [avaluo EXCEPT ![a].IdEstadoAvaluo = "EN_EDICION"]
           /\ historial' = [historial EXCEPT ![a] = Append(@, e)]
  <2>1. avaluo[a].IdEstadoAvaluo = "NUEVO" /\ read[t].row.IdEstadoAvaluo = "NUEVO"
    BY <1>1, <1>3 DEF TurnInvariant, StillSo
  <2>2. /\ row.IdVersionTrabajo = avaluo[a].IdVersionTrabajo /\ row.IdVersionFinal = avaluo[a].IdVersionFinal
        /\ row.INumeroVersionActual = avaluo[a].INumeroVersionActual
        /\ row.BBloqueado = avaluo[a].BBloqueado /\ row.IdEstadoAvaluo = "EN_EDICION"
    BY <1>1, AtWork DEF Avaluo
  <2>3. avaluo' = [avaluo EXCEPT ![a] = row] /\ version' = [version EXCEPT ![a] = version[a]]
    BY <1>1, <1>3 DEF WorkInvariant, Shapes
  <2>4. v \in Numbers
    BY <1>1, <1>3, AtWork DEF Locals, Avaluo
  <2>5. /\ e \in EstadoAvaluoHistorial
        /\ e.IdEstadoAnterior = "NUEVO" /\ e.IdEstadoNuevo = "EN_EDICION"
    BY <2>1, <2>4 DEF Entry, EstadoAvaluoHistorial, Estados
  <2> HIDE DEF row, e
  <2>6. InTurn(row, version[a])
    BY <1>1, <2>1, <2>2, AtWork DEF InTurn
  <2>7. ChainOf(row, Append(historial[a], e))
    BY <1>1, <2>1, <2>2, <2>5, AtWork, ChainGrows
  <2>8. historial' = [historial EXCEPT ![a] = Append(historial[a], e)]
    BY <1>3
  <2> QED BY <1>1, <2>3, <2>6, <2>7, <2>8, TurnEnds DEF WorkInvariant
<1> QED BY <1>2, <1>3 DEF advanceToEditing

\* A conclusion that may go on asks for its charge (ConcludeCheck).
LEMMA TurnCheck ==
    ASSUME WorkInvariant, WorkInvariant', TurnInvariant, NEW t \in Tx, ConcludeCheck(t)
    PROVE  TurnInvariant'
<1>1. CASE Refused(t)
  BY <1>1, TurnRefused DEF WorkInvariant
<1>2. CASE /\ step[t] = "check" /\ version[read[t].a][read[t].target].content \in Signed
           /\ step' = [step EXCEPT ![t] = "charge"]
           /\ UNCHANGED <<avaluo, version, historial, read>>
  <2>1. step'[t] = "charge" /\ \A s \in Tx : s # t => step'[s] = step[s] /\ read'[s] = read[s]
    BY <1>2 DEF WorkInvariant, Shapes
  <2>2. StillSo(t)'
    BY <1>2, <2>1 DEF TurnInvariant, StillSo
  <2> QED BY <1>2, <2>1, <2>2, TurnKept DEF WorkInvariant
<1> QED BY <1>1, <1>2 DEF ConcludeCheck

\* A step of t that ends its request and leaves the valuations as they are.
LEMMA TurnLeaves ==
    ASSUME WorkInvariant, WorkInvariant', TurnInvariant, NEW t \in Tx, Ends(t),
           UNCHANGED <<avaluo, version, historial>>
    PROVE  TurnInvariant'
<1>1. StillSo(t)' /\ \A s \in Tx : s # t => step'[s] = step[s] /\ read'[s] = read[s]
  BY DEF Ends, WorkInvariant, Shapes, StillSo
<1> QED BY <1>1, TurnKept DEF WorkInvariant

\* The commit of a conclusion, charged or blocked (concludeValuation).
LEMMA TurnConclude ==
    ASSUME WorkInvariant, WorkInvariant', TurnInvariant, NoneMeet, NEW t \in Tx, concludeValuation(t)
    PROVE  TurnInvariant'
<1> DEFINE a == read[t].a
           v == read[t].target
           c == read[t].content
           row == Concluded(avaluo[a], v)
           vs == [version[a] EXCEPT ![v].hash = c]
           e == Entry(v, read[t].row.IdEstadoAvaluo, "TERMINADO")
<1>1. step[t] = "charge" /\ step[t] # "idle" /\ Ends(t)
  BY DEF concludeValuation
<1>2. CASE UNCHANGED <<avaluo, version, historial>>
  BY <1>1, <1>2, TurnLeaves
<1>3. CASE /\ version' = [version EXCEPT ![a][v].hash = c]
           /\ avaluo' = [avaluo EXCEPT ![a] = Concluded(@, v)]
           /\ historial' = [historial EXCEPT ![a] = Append(@, e)]
  <2>1. /\ v \in Numbers /\ v = avaluo[a].IdVersionTrabajo /\ c = version[a][v].content
        /\ c \in Sectioned \cap Signed /\ read[t].row.IdEstadoAvaluo = avaluo[a].IdEstadoAvaluo
    BY <1>1 DEF WorkInvariant, Relies, TurnInvariant, StillSo
  <2>2. InTurn(row, vs)
    <3> HIDE DEF c, v, a
    <3>1. /\ avaluo[a] \in Avaluo /\ version[a] \in [Numbers -> Version]
          /\ Sound(avaluo[a], version[a]) /\ InTurn(avaluo[a], version[a])
      BY <1>1, AtWork DEF a
    <3> QED BY <2>1, <3>1, ContentsAssumption, InTurnConclude
  <2>3. /\ avaluo' = [avaluo EXCEPT ![a] = row] /\ version' = [version EXCEPT ![a] = vs]
        /\ historial' = [historial EXCEPT ![a] = Append(historial[a], e)]
    BY <1>3
  <2>4. row.IdEstadoAvaluo = "TERMINADO"
    BY <1>1, AtWork DEF Concluded, Avaluo
  <2>5. /\ e \in EstadoAvaluoHistorial
        /\ e.IdEstadoAnterior = avaluo[a].IdEstadoAvaluo /\ e.IdEstadoNuevo = "TERMINADO"
    BY <1>1, <2>1, AtWork DEF Entry, EstadoAvaluoHistorial, Estados, Locals, Avaluo
  <2> HIDE DEF row, vs, e
  <2>6. ChainOf(row, Append(historial[a], e))
    BY <1>1, <2>4, <2>5, AtWork, ChainGrows
  <2> QED BY <1>1, <2>2, <2>3, <2>6, TurnEnds DEF WorkInvariant
<1> QED BY <1>2, <1>3 DEF concludeValuation, HistoryVersion

\* The commit of a reopening (reopenValuation).
LEMMA TurnReopen ==
    ASSUME WorkInvariant, WorkInvariant', TurnInvariant, NoneMeet, NEW t \in Tx, reopenValuation(t)
    PROVE  TurnInvariant'
<1> DEFINE a == read[t].a
           n == read[t].target
           f == read[t].row.IdVersionFinal
           c == copyVersionContent(version[a][f])
           row == Reopened(avaluo[a], n)
           vs == [version[a] EXCEPT ![n] = NewVersion(c, f)]
           e == Entry(n, read[t].row.IdEstadoAvaluo, "REABIERTO")
<1>1. step[t] = "reopen" /\ step[t] # "idle"
  BY DEF reopenValuation
<1>2. CASE Refused(t)
  BY <1>2, TurnLeaves DEF Refused
<1>3. CASE /\ version' = [version EXCEPT ![a][n] = NewVersion(c, f)]
           /\ avaluo' = [avaluo EXCEPT ![a] = Reopened(@, n)]
           /\ historial' = [historial EXCEPT ![a] = Append(@, e)]
           /\ Ends(t)
  <2>1. /\ n \in Numbers /\ f \in 1..(n - 1)
        /\ n = avaluo[a].INumeroVersionActual + 1
        /\ avaluo[a].IdVersionTrabajo = Null /\ avaluo[a].IdVersionFinal # Null
        /\ read[t].row.IdEstadoAvaluo = avaluo[a].IdEstadoAvaluo
    BY <1>1 DEF WorkInvariant, Relies, TurnInvariant, StillSo
  <2>2. f \in Numbers
    BY <2>1, MaxVersionsAssumption DEF Numbers
  <2>3. c \in Contents
    BY <1>1, <2>2, AtWork DEF copyVersionContent, Version
  <2>4. InTurn(row, vs)
    <3> HIDE DEF c, f, n, a
    <3>1. avaluo[a] \in Avaluo /\ version[a] \in [Numbers -> Version] /\ InTurn(avaluo[a], version[a])
      BY <1>1, AtWork DEF a
    <3> QED BY <2>1, <2>2, <2>3, <3>1, InTurnReopen
  <2>5. /\ avaluo' = [avaluo EXCEPT ![a] = row] /\ version' = [version EXCEPT ![a] = vs]
        /\ historial' = [historial EXCEPT ![a] = Append(historial[a], e)]
    BY <1>3
  <2>6. row.IdEstadoAvaluo = "REABIERTO"
    BY <1>1, AtWork DEF Reopened, Avaluo
  <2>7. /\ e \in EstadoAvaluoHistorial
        /\ e.IdEstadoAnterior = avaluo[a].IdEstadoAvaluo /\ e.IdEstadoNuevo = "REABIERTO"
    BY <1>1, <2>1, AtWork DEF Entry, EstadoAvaluoHistorial, Estados, Locals, Avaluo
  <2> HIDE DEF row, vs, e
  <2>8. ChainOf(row, Append(historial[a], e))
    BY <1>1, <2>6, <2>7, AtWork, ChainGrows
  <2> QED BY <1>1, <1>3, <2>4, <2>5, <2>8, TurnEnds DEF WorkInvariant
<1> QED BY <1>2, <1>3 DEF reopenValuation

\* A deletion is of no row the contract is about (softDeleteValuation).
LEMMA TurnDelete ==
    ASSUME WorkInvariant, TurnInvariant, NEW a \in Valuations, softDeleteValuation(a)
    PROVE  TurnInvariant'
<1>1. UNCHANGED <<version, historial, step, read>> /\ avaluo' = [avaluo EXCEPT ![a].eliminado = TRUE]
  BY DEF softDeleteValuation
<1>2. ASSUME NEW b \in Valuations
      PROVE  /\ avaluo'[b].IdVersionTrabajo = avaluo[b].IdVersionTrabajo
             /\ avaluo'[b].IdVersionFinal = avaluo[b].IdVersionFinal
             /\ avaluo'[b].INumeroVersionActual = avaluo[b].INumeroVersionActual
             /\ avaluo'[b].BBloqueado = avaluo[b].BBloqueado
             /\ avaluo'[b].IdEstadoAvaluo = avaluo[b].IdEstadoAvaluo
  BY <1>1 DEF WorkInvariant, Shapes, Avaluo
<1>3. \A b \in Valuations : InTurn(avaluo'[b], version'[b]) /\ ChainOf(avaluo'[b], historial'[b])
  BY <1>1, <1>2 DEF TurnInvariant, InTurn, ChainOf
<1>4. ASSUME NEW t \in Tx PROVE StillSo(t)'
  BY <1>1, <1>2 DEF WorkInvariant, Relies, TurnInvariant, StillSo
<1> QED BY <1>3, <1>4 DEF TurnInvariant

\* Steps that leave the valuations and the requests as they are.
LEMMA TurnStays == ASSUME TurnInvariant, UNCHANGED lifeVars PROVE TurnInvariant'
BY DEF lifeVars, TurnInvariant, StillSo

\* Every step keeps the contract as long as the requests do not meet.
LEMMA TurnStep ==
    ASSUME WorkInvariant, WorkInvariant', TurnInvariant, NoneMeet, [Next]_vars
    PROVE  TurnInvariant'
<1>1. CASE Saves
  BY <1>1, TurnFirstRead, TurnEnsure, TurnWrite, TurnCreate, TurnAdvance DEF Saves
<1>2. CASE Workflow
  BY <1>2, TurnFirstRead, TurnCheck, TurnConclude, TurnReopen, TurnDelete DEF Workflow
<1>3. CASE Billing
  <2>1. UNCHANGED lifeVars
    BY <1>3 DEF Billing, LedgerBegin, LedgerLock, LedgerRead, LedgerCommit, Enforcement
  <2> QED BY <2>1, TurnStays
<1>4. CASE \E t \in Tx : Fail(t)
  BY <1>4, TurnLeaves DEF Fail, Refused
<1>5. CASE UNCHANGED vars
  BY <1>5, TurnStays DEF vars
<1> QED BY <1>1, <1>2, <1>3, <1>4, <1>5 DEF Next

\* A new valuation has nothing final and no history.
LEMMA TurnInit == Init => TurnInvariant
<1> SUFFICES ASSUME Init PROVE TurnInvariant
  OBVIOUS
<1>1. ASSUME NEW a \in Valuations PROVE InTurn(avaluo[a], version[a]) /\ ChainOf(avaluo[a], historial[a])
  <2>1. \A n \in Numbers : version[a][n].hash = NoHash
    BY DEF Init, FirstVersion, NewVersion, NoVersion
  <2>2. avaluo[a] \in {Registered, Unversioned} /\ historial[a] = << >>
    BY DEF Init
  <2>3. /\ avaluo[a].IdVersionTrabajo \in {1, Null} /\ avaluo[a].IdVersionFinal = Null
        /\ ~avaluo[a].BBloqueado /\ avaluo[a].IdEstadoAvaluo = "NUEVO"
    BY <2>2 DEF Registered, Unversioned
  <2>4. Len(historial[a]) = 0
    BY <2>2
  <2> QED BY <2>1, <2>2, <2>3, <2>4, MaxVersionsAssumption DEF InTurn, ChainOf, Numbers, Null
<1>2. \A t \in Tx : StillSo(t)
  BY DEF Init, StillSo
<1> QED BY <1>1, <1>2 DEF TurnInvariant

\* Requests that do not meet keep the contract's invariant.
THEOREM TurnsKeep == Spec /\ []NoneMeet => []TurnInvariant
<1>1. LifeInvariant /\ LifeInvariant' /\ TurnInvariant /\ NoneMeet /\ [Next]_vars => TurnInvariant'
  BY TurnStep DEF LifeInvariant
<1> QED BY <1>1, TurnInit, Invariance, PTL DEF Spec

\* As long as no two requests are at work on the same valuation, however many
\* there are: final documents carry the hash of what they hold, the state
\* follows the lock and the history has no gaps (the valuation workflow).
THEOREM ContractHolds == Spec /\ []NoneMeet => []WorkflowContract
<1>1. LifeInvariant /\ TurnInvariant => WorkflowContract
  <2> SUFFICES ASSUME LifeInvariant, TurnInvariant PROVE WorkflowContract
    OBVIOUS
  <2>1. FinalIsSealed
    BY DEF TurnInvariant, InTurn, FinalIsSealed
  <2>2. EstadoFollowsLock
    BY DEF TurnInvariant, InTurn, EstadoFollowsLock
  <2>3. HistoryIsChain
    BY DEF TurnInvariant, ChainOf, HistoryIsChain
  <2> QED BY <2>1, <2>2, <2>3 DEF WorkflowContract
<1> QED BY <1>1, Invariance, TurnsKeep, PTL

-----------------------------------------------------------------------------
(* The abstract document *)

\* Sealed and Draft of one valuation's row and versions.
SealedOf(vs) == LET finals == {n \in Numbers : vs[n].hash # NoHash} IN [n \in finals |-> vs[n].hash]

DraftOf(row, vs) == IF row.IdVersionTrabajo = Null THEN NoHash ELSE vs[row.IdVersionTrabajo].content

sealedNow == [a \in Valuations |-> Sealed(a)]
draftNow == [a \in Valuations |-> Draft(a)]

\* They are what the refinement shows.
LEMMA ShownAs ==
    /\ sealedNow = [a \in Valuations |-> SealedOf(version[a])]
    /\ draftNow = [a \in Valuations |-> DraftOf(avaluo[a], version[a])]
BY DEF sealedNow, draftNow, Sealed, Draft, SealedOf, DraftOf

\* The document and the draft shown after a step are those of the rows after it.
LEMMA ShownAfter ==
    /\ sealedNow' = [a \in Valuations |-> SealedOf(version'[a])]
    /\ draftNow' = [a \in Valuations |-> DraftOf(avaluo'[a], version'[a])]
BY DEF sealedNow, draftNow, Sealed, Draft, SealedOf, DraftOf

\* One valuation changes: its document does, and no other.
LEMMA OneDocument ==
    ASSUME Shapes, NEW a \in Valuations, NEW row, NEW vs,
           avaluo' = [avaluo EXCEPT ![a] = row], version' = [version EXCEPT ![a] = vs]
    PROVE  /\ sealedNow' = [sealedNow EXCEPT ![a] = SealedOf(vs)]
           /\ draftNow' = [draftNow EXCEPT ![a] = DraftOf(row, vs)]
<1>1. ASSUME NEW b \in Valuations
      PROVE  /\ avaluo'[b] = IF b = a THEN row ELSE avaluo[b]
             /\ version'[b] = IF b = a THEN vs ELSE version[b]
  BY DEF Shapes
<1>2. [b \in Valuations |-> SealedOf(version'[b])] = [b \in Valuations |-> IF b = a THEN SealedOf(vs) ELSE SealedOf(version[b])]
  BY <1>1
<1>3. [b \in Valuations |-> DraftOf(avaluo'[b], version'[b])]
        = [b \in Valuations |-> IF b = a THEN DraftOf(row, vs) ELSE DraftOf(avaluo[b], version[b])]
  BY <1>1
<1> QED BY <1>2, <1>3, ShownAs, ShownAfter

\* The sealed documents of a valuation are its first final versions.
LEMMA SealedAre ==
    ASSUME NEW row \in Avaluo, NEW vs, InTurn(row, vs)
    PROVE  /\ row.IdVersionFinal \in 0..MaxVersions
           /\ SealedOf(vs) = [n \in 1..row.IdVersionFinal |-> vs[n].hash]
<1>1. row.IdVersionFinal \in 0..MaxVersions
  BY MaxVersionsAssumption DEF Avaluo, Numbers, Null
<1>2. {n \in Numbers : vs[n].hash # NoHash} = 1..row.IdVersionFinal
  BY <1>1, MaxVersionsAssumption DEF InTurn, Numbers
<1> QED BY <1>1, <1>2 DEF SealedOf

\* A write of anything but hashes seals nothing and opens nothing.
LEMMA SealedStays ==
    ASSUME NEW vs, NEW vs2, \A n \in Numbers : vs2[n].hash = vs[n].hash
    PROVE  SealedOf(vs2) = SealedOf(vs)
<1>1. {n \in Numbers : vs2[n].hash # NoHash} = {n \in Numbers : vs[n].hash # NoHash}
  OBVIOUS
<1> QED BY <1>1 DEF SealedOf

\* The steps of the abstract document, said of what the refinement shows.
LEMMA DocumentSteps ==
    /\ \A a \in Valuations, c \in Contents :
          /\ draftNow[a] # NoHash \/ DOMAIN sealedNow[a] = {}
          /\ draftNow' = [draftNow EXCEPT ![a] = c] /\ sealedNow' = sealedNow
          => Document!Next
    /\ \A a \in Valuations, n \in 1..MaxVersions :
          /\ draftNow[a] \in Sectioned \cap Signed /\ DOMAIN sealedNow[a] = 1..(n - 1)
          /\ sealedNow' = [sealedNow EXCEPT ![a] = [i \in 1..n |-> IF i = n THEN draftNow[a] ELSE sealedNow[a][i]]]
          /\ draftNow' = [draftNow EXCEPT ![a] = NoHash]
          => Document!Next
    /\ \A a \in Valuations, n \in 1..MaxVersions :
          /\ draftNow[a] = NoHash /\ n >= 1 /\ DOMAIN sealedNow[a] = 1..n
          /\ draftNow' = [draftNow EXCEPT ![a] = sealedNow[a][n]] /\ sealedNow' = sealedNow
          => Document!Next
    /\ draftNow' = draftNow /\ sealedNow' = sealedNow => UNCHANGED Document!vars
<1>1. ASSUME NEW a \in Valuations, NEW c \in Contents,
             draftNow[a] # NoHash \/ DOMAIN sealedNow[a] = {},
             draftNow' = [draftNow EXCEPT ![a] = c], sealedNow' = sealedNow
      PROVE  Document!Edit(a, c)
  BY <1>1 DEF Document!Edit, Document!Rounds, draftNow, sealedNow
<1>2. ASSUME NEW a \in Valuations, NEW n \in 1..MaxVersions,
             draftNow[a] \in Sectioned \cap Signed, DOMAIN sealedNow[a] = 1..(n - 1),
             sealedNow' = [sealedNow EXCEPT ![a] = [i \in 1..n |-> IF i = n THEN draftNow[a] ELSE sealedNow[a][i]]],
             draftNow' = [draftNow EXCEPT ![a] = NoHash]
      PROVE  Document!Conclude(a, n)
  BY <1>2 DEF Document!Conclude, Document!Rounds, draftNow, sealedNow
<1>3. ASSUME NEW a \in Valuations, NEW n \in 1..MaxVersions,
             draftNow[a] = NoHash, n >= 1, DOMAIN sealedNow[a] = 1..n,
             draftNow' = [draftNow EXCEPT ![a] = sealedNow[a][n]], sealedNow' = sealedNow
      PROVE  Document!Reopen(a, n)
  BY <1>3 DEF Document!Reopen, Document!Rounds, draftNow, sealedNow
<1>4. ASSUME draftNow' = draftNow, sealedNow' = sealedNow PROVE UNCHANGED Document!vars
  BY <1>4 DEF Document!vars, draftNow, sealedNow
<1> QED BY <1>1, <1>2, <1>3, <1>4 DEF Document!Next

\* What a request at work sees of its document.
LEMMA DocumentAtWork ==
    ASSUME WorkInvariant, TurnInvariant, NEW t \in Tx, step[t] # "idle"
    PROVE  LET a == read[t].a IN
           /\ draftNow[a] = DraftOf(avaluo[a], version[a])
           /\ sealedNow[a] = SealedOf(version[a])
           /\ SealedOf(version[a]) = [n \in 1..avaluo[a].IdVersionFinal |-> version[a][n].hash]
           /\ avaluo[a].IdVersionFinal \in 0..MaxVersions
BY AtWork, ShownAs, SealedAre

\* A save that commits is an edit (writeVersionSections).
LEMMA DocumentWrite ==
    ASSUME WorkInvariant, TurnInvariant, NEW t \in Tx, NEW c \in Contents, writeVersionSections(t, c)
    PROVE  Document!Next
<1> DEFINE a == read[t].a
           n == read[t].target
           row == avaluo[a]
           vs == [version[a] EXCEPT ![n].content = c]
<1>1. /\ step[t] = "write" /\ step[t] # "idle"
      /\ avaluo' = [avaluo EXCEPT ![a] = row] /\ version' = [version EXCEPT ![a] = vs]
  BY DEF writeVersionSections, WorkInvariant, Shapes
<1>2. n \in Numbers /\ n = avaluo[a].IdVersionTrabajo /\ n # Null
  BY <1>1, MaxVersionsAssumption DEF WorkInvariant, Relies, TurnInvariant, StillSo, Numbers, Null
<1>3. a \in Valuations /\ version[a] \in [Numbers -> Version]
  BY <1>1, AtWork
<1>4. vs[n].content = c /\ \A k \in Numbers : vs[k].hash = version[a][k].hash
  BY <1>2, <1>3 DEF Version
<1>5. version[a][n].content \in Contents
  BY <1>2, <1>3 DEF Version
<1>a. row = avaluo[a]
  OBVIOUS
<1> HIDE DEF row, vs, a
<1>6. SealedOf(vs) = SealedOf(version[a]) /\ DraftOf(row, vs) = c
  BY <1>2, <1>4, <1>a, SealedStays DEF DraftOf
<1>7. sealedNow' = [sealedNow EXCEPT ![a] = SealedOf(version[a])] /\ draftNow' = [draftNow EXCEPT ![a] = c]
  <2>1. sealedNow' = [sealedNow EXCEPT ![a] = SealedOf(vs)] /\ draftNow' = [draftNow EXCEPT ![a] = DraftOf(row, vs)]
    BY <1>1, <1>3, OneDocument DEF WorkInvariant
  <2> QED BY <1>6, <2>1
<1>8. /\ draftNow[a] = DraftOf(avaluo[a], version[a]) /\ sealedNow[a] = SealedOf(version[a])
  BY <1>1, DocumentAtWork DEF a
<1>9. sealedNow' = sealedNow
  BY <1>7, <1>8 DEF sealedNow
<1>10. draftNow[a] # NoHash
  BY <1>2, <1>5, <1>8, NoHashAssumption DEF DraftOf
<1> QED BY <1>3, <1>7, <1>9, <1>10, DocumentSteps

\* A save that creates the first version starts the document (WriteNewVersion).
LEMMA DocumentCreate ==
    ASSUME WorkInvariant, TurnInvariant, NEW t \in Tx, NEW c \in Contents, WriteNewVersion(t, c)
    PROVE  Document!Next \/ UNCHANGED <<avaluo, version>>
<1> DEFINE a == read[t].a
           n == read[t].target
           row == [avaluo[a] EXCEPT !.IdVersionTrabajo = n]
           vs == [version[a] EXCEPT ![n] = NewVersion(c, Null)]
<1>1. step[t] = "create" /\ step[t] # "idle"
  BY DEF WriteNewVersion
<1>2. CASE Refused(t)
  BY <1>2 DEF Refused
<1>3. CASE /\ ~version[a][n].exists
           /\ version' = [version EXCEPT ![a][n] = NewVersion(c, Null)]
           /\ avaluo' = [avaluo EXCEPT ![a].IdVersionTrabajo = n]
  <2>1. /\ n \in Numbers /\ n <= avaluo[a].INumeroVersionActual /\ avaluo[a].IdVersionTrabajo = Null
        /\ a \in Valuations /\ n # Null
    BY <1>1, MaxVersionsAssumption DEF WorkInvariant, Relies, TurnInvariant, StillSo, Numbers, Null
  <2>2. /\ avaluo[a] \in Avaluo /\ version[a] \in [Numbers -> Version]
        /\ \A k \in Numbers : version[a][k].hash = NoHash
    BY <1>1, <1>3, <2>1, AtWork, InTurnCreate
  <2>3. avaluo' = [avaluo EXCEPT ![a] = row] /\ version' = [version EXCEPT ![a] = vs]
    BY <1>3
  <2>4. /\ row.IdVersionTrabajo = n /\ vs[n].content = c
        /\ \A k \in Numbers : vs[k].hash = version[a][k].hash
    BY <2>1, <2>2 DEF NewVersion, Avaluo
  <2> HIDE DEF row, vs, a
  <2>5. SealedOf(vs) = SealedOf(version[a]) /\ DraftOf(row, vs) = c
    BY <2>1, <2>4, SealedStays DEF DraftOf
  <2>6. sealedNow' = [sealedNow EXCEPT ![a] = SealedOf(version[a])] /\ draftNow' = [draftNow EXCEPT ![a] = c]
    <3>1. sealedNow' = [sealedNow EXCEPT ![a] = SealedOf(vs)] /\ draftNow' = [draftNow EXCEPT ![a] = DraftOf(row, vs)]
      BY <2>1, <2>3, OneDocument DEF WorkInvariant
    <3> QED BY <2>5, <3>1
  <2>7. sealedNow[a] = SealedOf(version[a])
    BY <1>1, DocumentAtWork DEF a
  <2>8. sealedNow' = sealedNow
    BY <2>6, <2>7 DEF sealedNow
  <2>9. DOMAIN sealedNow[a] = {}
    BY <2>2, <2>7 DEF SealedOf
  <2> QED BY <2>1, <2>6, <2>8, <2>9, DocumentSteps
<1> QED BY <1>2, <1>3 DEF WriteNewVersion

\* A conclusion that commits seals the draft (concludeValuation).
LEMMA DocumentConclude ==
    ASSUME WorkInvariant, TurnInvariant, NEW t \in Tx, concludeValuation(t)
    PROVE  Document!Next \/ UNCHANGED <<avaluo, version>>
<1> DEFINE a == read[t].a
           v == read[t].target
           c == read[t].content
           row == Concluded(avaluo[a], v)
           vs == [version[a] EXCEPT ![v].hash = c]
<1>1. step[t] = "charge" /\ step[t] # "idle"
  BY DEF concludeValuation
<1>2. CASE /\ version' = [version EXCEPT ![a][v].hash = c]
           /\ avaluo' = [avaluo EXCEPT ![a] = Concluded(@, v)]
  <2>1. /\ v \in Numbers /\ v = avaluo[a].IdVersionTrabajo /\ c = version[a][v].content
        /\ c \in Sectioned \cap Signed /\ v # Null
    BY <1>1, MaxVersionsAssumption DEF WorkInvariant, Relies, TurnInvariant, StillSo, Numbers, Null
  <2>2. /\ a \in Valuations /\ avaluo[a] \in Avaluo /\ version[a] \in [Numbers -> Version]
        /\ Sound(avaluo[a], version[a]) /\ InTurn(avaluo[a], version[a])
    BY <1>1, AtWork
  <2>3. avaluo' = [avaluo EXCEPT ![a] = row] /\ version' = [version EXCEPT ![a] = vs]
    BY <1>2
  <2>4. /\ row \in Avaluo /\ row.IdVersionTrabajo = Null /\ row.IdVersionFinal = v
        /\ vs[v].hash = c /\ \A k \in Numbers : k # v => vs[k].hash = version[a][k].hash
    BY <2>1, <2>2 DEF Concluded, Avaluo, Estados, Version
  <2>5. /\ draftNow[a] = DraftOf(avaluo[a], version[a]) /\ sealedNow[a] = SealedOf(version[a])
        /\ SealedOf(version[a]) = [n \in 1..avaluo[a].IdVersionFinal |-> version[a][n].hash]
    BY <1>1, DocumentAtWork
  <2> HIDE DEF c, v, a
  <2>6. InTurn(row, vs) /\ avaluo[a].IdVersionFinal = v - 1
    BY <2>1, <2>2, ContentsAssumption, InTurnConclude
  <2> HIDE DEF row, vs
  <2>7. SealedOf(vs) = [n \in 1..v |-> vs[n].hash] /\ DraftOf(row, vs) = NoHash
    BY <2>4, <2>6, SealedAre DEF DraftOf
  <2>8. draftNow[a] = c
    BY <2>1, <2>5 DEF DraftOf
  <2>9. /\ DOMAIN sealedNow[a] = 1..(v - 1)
        /\ \A n \in 1..(v - 1) : sealedNow[a][n] = version[a][n].hash
    BY <2>5, <2>6
  <2>10. v \in 1..MaxVersions /\ \A n \in 1..v : n \in Numbers /\ (n # v => n \in 1..(v - 1))
    BY <2>1, MaxVersionsAssumption DEF Numbers
  <2>11. SealedOf(vs) = [i \in 1..v |-> IF i = v THEN draftNow[a] ELSE sealedNow[a][i]]
    BY <2>4, <2>7, <2>8, <2>9, <2>10
  <2>12. sealedNow' = [sealedNow EXCEPT ![a] = SealedOf(vs)] /\ draftNow' = [draftNow EXCEPT ![a] = NoHash]
    <3>1. sealedNow' = [sealedNow EXCEPT ![a] = SealedOf(vs)] /\ draftNow' = [draftNow EXCEPT ![a] = DraftOf(row, vs)]
      BY <2>2, <2>3, OneDocument DEF WorkInvariant
    <3> QED BY <2>7, <3>1
  <2>13. sealedNow' = [sealedNow EXCEPT ![a] = [i \in 1..v |-> IF i = v THEN draftNow[a] ELSE sealedNow[a][i]]]
    BY <2>11, <2>12
  <2> QED BY <2>1, <2>2, <2>8, <2>9, <2>10, <2>12, <2>13, DocumentSteps
<1> QED BY <1>2 DEF concludeValuation

\* A reopening starts the next draft from the last sealed document (reopenValuation).
LEMMA DocumentReopen ==
    ASSUME WorkInvariant, TurnInvariant, NEW t \in Tx, reopenValuation(t)
    PROVE  Document!Next \/ UNCHANGED <<avaluo, version>>
<1> DEFINE a == read[t].a
           n == read[t].target
           f == read[t].row.IdVersionFinal
           c == copyVersionContent(version[a][f])
           row == Reopened(avaluo[a], n)
           vs == [version[a] EXCEPT ![n] = NewVersion(c, f)]
<1>1. step[t] = "reopen" /\ step[t] # "idle"
  BY DEF reopenValuation
<1>2. CASE Refused(t)
  BY <1>2 DEF Refused
<1>3. CASE /\ version' = [version EXCEPT ![a][n] = NewVersion(c, f)]
           /\ avaluo' = [avaluo EXCEPT ![a] = Reopened(@, n)]
  <2>1. /\ n \in Numbers /\ f \in 1..(n - 1) /\ f = avaluo[a].IdVersionFinal
        /\ n = avaluo[a].INumeroVersionActual + 1 /\ n # Null
        /\ avaluo[a].IdVersionTrabajo = Null /\ avaluo[a].IdVersionFinal # Null
    BY <1>1, MaxVersionsAssumption DEF WorkInvariant, Relies, TurnInvariant, StillSo, Numbers, Null
  <2>2. /\ a \in Valuations /\ avaluo[a] \in Avaluo /\ version[a] \in [Numbers -> Version]
        /\ InTurn(avaluo[a], version[a])
    BY <1>1, AtWork
  <2>3. f \in Numbers /\ f \in 1..MaxVersions /\ f >= 1
    BY <2>1, MaxVersionsAssumption DEF Numbers
  <2>4. c \in Contents
    BY <2>2, <2>3 DEF copyVersionContent, Version
  <2>5. avaluo' = [avaluo EXCEPT ![a] = row] /\ version' = [version EXCEPT ![a] = vs]
    BY <1>3
  <2>6. row.IdVersionTrabajo = n
    BY <2>2 DEF Reopened, Avaluo
  <2>7. version[a][n].hash = NoHash
    <3> HIDE DEF c, f, n, a
    <3> QED BY <2>1, <2>2, <2>3, <2>4, InTurnReopen
  <2>8. vs[n].content = c /\ \A k \in Numbers : vs[k].hash = version[a][k].hash
    <3> HIDE DEF c, f
    <3> QED BY <2>1, <2>2, <2>7 DEF NewVersion
  <2>9. /\ draftNow[a] = DraftOf(avaluo[a], version[a]) /\ sealedNow[a] = SealedOf(version[a])
        /\ SealedOf(version[a]) = [k \in 1..avaluo[a].IdVersionFinal |-> version[a][k].hash]
    BY <1>1, DocumentAtWork
  <2>10. version[a][f].hash # NoHash /\ c = version[a][f].hash
    BY <1>1, <2>2, <2>3 DEF InTurn, copyVersionContent, WorkInvariant, Relies
  <2> HIDE DEF row, vs, c, f, n, a
  <2>11. SealedOf(vs) = SealedOf(version[a]) /\ DraftOf(row, vs) = c
    BY <2>1, <2>6, <2>8, SealedStays DEF DraftOf
  <2>12. sealedNow' = [sealedNow EXCEPT ![a] = SealedOf(version[a])] /\ draftNow' = [draftNow EXCEPT ![a] = c]
    <3>1. sealedNow' = [sealedNow EXCEPT ![a] = SealedOf(vs)] /\ draftNow' = [draftNow EXCEPT ![a] = DraftOf(row, vs)]
      BY <2>2, <2>5, OneDocument DEF WorkInvariant
    <3> QED BY <2>11, <3>1
  <2>13. sealedNow' = sealedNow
    BY <2>9, <2>12 DEF sealedNow
  <2>14. DOMAIN sealedNow[a] = 1..f /\ sealedNow[a][f] = c
    BY <2>1, <2>3, <2>9, <2>10
  <2>15. draftNow[a] = NoHash
    BY <2>1, <2>9 DEF DraftOf
  <2> QED BY <2>2, <2>3, <2>12, <2>13, <2>14, <2>15, DocumentSteps
<1> QED BY <1>2, <1>3 DEF reopenValuation

\* Steps that keep the drafts' numbers and the versions keep the documents.
LEMMA DocumentKept ==
    ASSUME version' = version,
           \A b \in Valuations : avaluo'[b].IdVersionTrabajo = avaluo[b].IdVersionTrabajo
    PROVE  draftNow' = draftNow /\ sealedNow' = sealedNow
BY ShownAs, ShownAfter DEF DraftOf

\* Every step is one of the abstract document, or leaves it alone.
LEMMA DocumentStep ==
    ASSUME WorkInvariant, TurnInvariant, [Next]_vars
    PROVE  Document!Next \/ (draftNow' = draftNow /\ sealedNow' = sealedNow)
<1>1. CASE UNCHANGED <<avaluo, version>>
  BY <1>1, DocumentKept
<1>2. CASE Saves
  <2>1. ASSUME NEW t \in Tx, advanceToEditing(t)
        PROVE  draftNow' = draftNow /\ sealedNow' = sealedNow
    <3>1. /\ version' = version
          /\ \/ avaluo' = avaluo
             \/ avaluo' = [avaluo EXCEPT ![read[t].a].IdEstadoAvaluo = "EN_EDICION"]
      BY <2>1 DEF advanceToEditing
    <3>2. ASSUME avaluo' = [avaluo EXCEPT ![read[t].a].IdEstadoAvaluo = "EN_EDICION"], NEW b \in Valuations
          PROVE  avaluo'[b].IdVersionTrabajo = avaluo[b].IdVersionTrabajo
      <4>1. avaluo[b] \in Avaluo
        BY DEF WorkInvariant, Shapes
      <4>2. avaluo'[b] = IF b = read[t].a THEN [avaluo[b] EXCEPT !.IdEstadoAvaluo = "EN_EDICION"] ELSE avaluo[b]
        BY <3>2 DEF WorkInvariant, Shapes
      <4> QED BY <4>1, <4>2 DEF Avaluo
    <3> QED BY <3>1, <3>2, DocumentKept
  <2> QED BY <1>1, <1>2, <2>1, DocumentWrite, DocumentCreate
          DEF Saves, SectionsRead, CalculationRead, MetadataRead, ensureWorkingVersion, Reads, Refused
<1>3. CASE Workflow
  <2>1. ASSUME NEW a \in Valuations, softDeleteValuation(a)
        PROVE  draftNow' = draftNow /\ sealedNow' = sealedNow
    <3>1. version' = version /\ avaluo' = [avaluo EXCEPT ![a].eliminado = TRUE]
      BY <2>1 DEF softDeleteValuation
    <3>2. \A b \in Valuations : avaluo'[b].IdVersionTrabajo = avaluo[b].IdVersionTrabajo
      BY <3>1 DEF WorkInvariant, Shapes, Avaluo
    <3> QED BY <3>1, <3>2, DocumentKept
  <2> QED BY <1>1, <1>3, <2>1, DocumentConclude, DocumentReopen
          DEF Workflow, ConcludeRead, ReopenRead, ConcludeCheck, Reads, Refused
<1>4. CASE Billing
  BY <1>1, <1>4 DEF Billing, LedgerBegin, LedgerLock, LedgerRead, LedgerCommit, Enforcement, lifeVars
<1>5. CASE \E t \in Tx : Fail(t)
  BY <1>1, <1>5 DEF Fail, Refused
<1>6. CASE UNCHANGED vars
  BY <1>1, <1>6 DEF vars, lifeVars
<1> QED BY <1>2, <1>3, <1>4, <1>5, <1>6 DEF Next

\* New valuations have nothing sealed.
LEMMA DocumentInit == Init => Document!Init
<1> SUFFICES ASSUME Init PROVE Document!Init
  OBVIOUS
<1>1. ASSUME NEW a \in Valuations
      PROVE  Sealed(a) = [n \in {} |-> NoHash] /\ Draft(a) \in Contents \cup {NoHash}
  <2>1. \A n \in Numbers : version[a][n].hash = NoHash /\ version[a][n].content \in Contents
    BY ContentsAssumption DEF Init, FirstVersion, NewVersion, NoVersion
  <2>2. {n \in Numbers : version[a][n].hash # NoHash} = {}
    BY <2>1
  <2>3. avaluo[a].IdVersionTrabajo \in {1, Null} /\ 1 \in Numbers
    BY MaxVersionsAssumption DEF Init, Registered, Unversioned, Numbers
  <2> QED BY <2>1, <2>2, <2>3 DEF Sealed, Draft
<1>2. [a \in Valuations |-> Sealed(a)] = [a \in Valuations |-> [n \in {} |-> NoHash]]
  BY <1>1
<1> QED BY <1>1, <1>2 DEF Document!Init

\* As long as its requests do not meet, the workflow of any number of them is
\* an edited draft, sealed documents that stay, and reopenings that start from
\* the last of them (ValuationDocument).
THEOREM DocumentIsImplemented == Spec /\ []NoneMeet => ImplementsDocument
<1>1. LifeInvariant /\ TurnInvariant /\ [Next]_vars => [Document!Next]_(Document!vars)
  BY DocumentStep, DocumentSteps DEF LifeInvariant
<1> QED BY <1>1, DocumentInit, Invariance, TurnsKeep, PTL DEF Spec, ImplementsDocument, Document!Spec

\* What is sealed stays as it is: the abstract steps only add to it.
LEMMA SealedStaysSealed ==
    ASSUME Document!Next \/ sealedNow' = sealedNow,
           NEW a \in Valuations, NEW n \in DOMAIN sealedNow[a]
    PROVE  n \in DOMAIN sealedNow'[a] /\ sealedNow'[a][n] = sealedNow[a][n]
<1>1. CASE sealedNow' = sealedNow
  BY <1>1
<1>2. ASSUME NEW b \in Valuations, NEW v \in 1..MaxVersions, Document!Conclude(b, v)
      PROVE  n \in DOMAIN sealedNow'[a] /\ sealedNow'[a][n] = sealedNow[a][n]
  <2>1. /\ DOMAIN sealedNow[b] = 1..(v - 1)
        /\ sealedNow' = [sealedNow EXCEPT ![b] = [i \in 1..v |-> IF i = v THEN draftNow[b] ELSE sealedNow[b][i]]]
    BY <1>2 DEF Document!Conclude, Document!Rounds, sealedNow, draftNow
  <2>2. DOMAIN sealedNow = Valuations
    BY DEF sealedNow
  <2>3. CASE a = b
    <3>1. n \in 1..(v - 1)
      BY <2>1, <2>3
    <3>2. sealedNow'[a] = [i \in 1..v |-> IF i = v THEN draftNow[b] ELSE sealedNow[b][i]]
      BY <2>1, <2>2, <2>3
    <3> QED BY <2>3, <3>1, <3>2
  <2>4. CASE a # b
    BY <2>1, <2>2, <2>4
  <2> QED BY <2>3, <2>4
<1>3. ASSUME NEW b \in Valuations, NEW v, Document!Edit(b, v) \/ Document!Reopen(b, v)
      PROVE  sealedNow' = sealedNow
  BY <1>3 DEF Document!Edit, Document!Reopen, sealedNow
<1> QED BY <1>1, <1>2, <1>3 DEF Document!Next

\* A concluded document is read-only as long as the requests do not meet: what
\* a final version holds is its hash, and hashes are written once.
THEOREM ConcludedStays == Spec /\ []NoneMeet => ConcludedIsReadOnly
<1> DEFINE Kept == \A a \in Valuations, n \in Numbers :
                      version[a][n].hash # NoHash => version'[a][n].content = version[a][n].content
<1>1. ASSUME LifeInvariant, TurnInvariant, TurnInvariant', [Next]_vars PROVE Kept
  <2>1. Document!Next \/ sealedNow' = sealedNow
    BY <1>1, DocumentStep DEF LifeInvariant
  <2>2. ASSUME NEW a \in Valuations, NEW n \in Numbers, version[a][n].hash # NoHash
        PROVE  version'[a][n].content = version[a][n].content
    <3>1. n \in DOMAIN sealedNow[a] /\ sealedNow[a][n] = version[a][n].hash
      BY <2>2, ShownAs DEF SealedOf
    <3>2. n \in DOMAIN sealedNow'[a] /\ sealedNow'[a][n] = version[a][n].hash
      BY <2>1, <3>1, SealedStaysSealed
    <3>3. version'[a][n].hash = version[a][n].hash
      BY <3>2, ShownAfter DEF SealedOf
    <3> QED BY <1>1, <2>2, <3>3 DEF TurnInvariant, InTurn
  <2> QED BY <2>2
<1>2. LifeInvariant /\ TurnInvariant /\ TurnInvariant' /\ [Next]_vars => [Kept]_vars
  BY <1>1
<1> QED BY <1>2, Invariance, TurnsKeep, PTL DEF Spec, ConcludedIsReadOnly

=============================================================================
