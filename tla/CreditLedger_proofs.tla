------------------------ MODULE CreditLedger_proofs ------------------------
(***************************************************************************)
(* Proofs about the credit ledger, for any number of writers, valuations,  *)
(* payments and movements.  First what the balance is (getCreditBalance is *)
(* a recursion over the rows), then the invariants, then the step that     *)
(* commits a movement seen as an operation of the account.                 *)
(***************************************************************************)
EXTENDS CreditLedger, FiniteSetTheorems, WellFoundedInduction, TLAPS

-----------------------------------------------------------------------------
(* Induction over the naturals without an operator parameter, which the     *)
(* provers cannot instantiate: the property is the set of those that have   *)
(* it.                                                                      *)

\* A set that holds 0 and the successor of each of its numbers holds every
\* natural number.  Else the intervals 1..n of the missing n would be a family
\* of finite sets without a smallest one, which the well-founded strict
\* inclusion of finite sets forbids.
LEMMA NatSetInduction ==
    ASSUME NEW S, 0 \in S, \A n \in Nat : n \in S => n + 1 \in S
    PROVE  Nat \subseteq S
<1> DEFINE Missing == Nat \ S
           Intervals == {1..n : n \in Missing}
           Smaller == StrictSubsetOrdering(Nat)
<1>1. SUFFICES ASSUME Missing # {} PROVE FALSE
  OBVIOUS
<1>2. IsWellFoundedOn(Smaller, FiniteSubsetsOf(Nat))
  BY FS_StrictSubsetOrderingWellFounded
<1>3. Intervals \subseteq FiniteSubsetsOf(Nat)
  <2>1. \A n \in Nat : 1..n \in SUBSET Nat /\ IsFiniteSet(1..n)
    BY FS_Interval
  <2> QED BY <2>1 DEF FiniteSubsetsOf
<1>4. Intervals # {}
  BY <1>1
<1>5. PICK least \in Intervals : \A other \in Intervals : ~(<<other, least>> \in Smaller)
  <2> HIDE DEF Smaller, Intervals
  <2> QED BY <1>2, <1>3, <1>4, WFMin
<1>6. PICK n \in Missing : least = 1..n
  OBVIOUS
<1>7. n \in Nat \ {0} /\ n - 1 \in Missing
  OBVIOUS
<1>8. <<1..(n - 1), 1..n>> \in Smaller
  <2>1. 1..(n - 1) \in SUBSET Nat /\ 1..n \in SUBSET Nat
    BY <1>7
  <2>2. 1..(n - 1) \subseteq 1..n /\ n \in 1..n /\ n \notin 1..(n - 1)
    BY <1>7
  <2> QED BY <2>1, <2>2 DEF StrictSubsetOrdering
<1> QED BY <1>5, <1>6, <1>7, <1>8

-----------------------------------------------------------------------------
(* The balance *)

\* The running totals of a ledger: what the recursion of the balance defines.
IsRunningTotal(f, rows) ==
    f = [n \in 0..Len(rows) |-> IF n = 0 THEN 0 ELSE f[n - 1] + rows[n].ICreditos]

RunningTotal(rows) == CHOOSE f : IsRunningTotal(f, rows)

\* A movement carries a whole number of credits.
LEMMA MovementCredits == \A m \in Movements : m.ICreditos \in Int
BY CreditsAssumption, AdjustmentsAssumption DEF Movements, Consumption, Purchase, Adjustment

\* Every ledger has running totals, and they are whole numbers: for each n
\* there are totals of its first n rows.
LEMMA RunningTotalExists ==
    ASSUME NEW rows \in Seq(Movements)
    PROVE  \E f \in [0..Len(rows) -> Int] : IsRunningTotal(f, rows)
<1> DEFINE Totals(f, n) ==
               /\ f[0] = 0
               /\ \A i \in 1..n : f[i] = f[i - 1] + rows[i].ICreditos
           Upto == {n \in Nat : n <= Len(rows) => \E f \in [0..n -> Int] : Totals(f, n)}
<1>1. 0 \in Upto
  <2>1. [i \in 0..0 |-> 0] \in [0..0 -> Int] /\ Totals([i \in 0..0 |-> 0], 0)
    OBVIOUS
  <2> QED BY <2>1
<1>2. ASSUME NEW n \in Nat, n \in Upto PROVE n + 1 \in Upto
  <2>1. SUFFICES ASSUME n + 1 <= Len(rows)
                 PROVE  \E f \in [0..(n + 1) -> Int] : Totals(f, n + 1)
    OBVIOUS
  <2>2. PICK f \in [0..n -> Int] : Totals(f, n)
    BY <1>2, <2>1
  <2> DEFINE g == [i \in 0..(n + 1) |-> IF i = n + 1 THEN f[n] + rows[n + 1].ICreditos ELSE f[i]]
  <2>3. rows[n + 1].ICreditos \in Int
    BY <2>1, MovementCredits
  <2>4. g \in [0..(n + 1) -> Int]
    BY <2>3
  <2>5. Totals(g, n + 1)
    <3>1. g[0] = 0
      BY <2>2
    <3>2. ASSUME NEW i \in 1..(n + 1) PROVE g[i] = g[i - 1] + rows[i].ICreditos
      <4>1. CASE i = n + 1
        BY <4>1
      <4>2. CASE i \in 1..n
        BY <4>2, <2>2
      <4> QED BY <4>1, <4>2
    <3> QED BY <3>1, <3>2
  <2> QED BY <2>4, <2>5
<1>3. Len(rows) \in Upto
  <2> HIDE DEF Upto
  <2> QED BY <1>1, <1>2, NatSetInduction
<1>4. PICK f \in [0..Len(rows) -> Int] : Totals(f, Len(rows))
  BY <1>3
<1>5. IsRunningTotal(f, rows)
  <2> DEFINE step == [n \in 0..Len(rows) |-> IF n = 0 THEN 0 ELSE f[n - 1] + rows[n].ICreditos]
  <2>1. f = [n \in 0..Len(rows) |-> f[n]]
    OBVIOUS
  <2>2. \A n \in 0..Len(rows) : f[n] = IF n = 0 THEN 0 ELSE f[n - 1] + rows[n].ICreditos
    BY <1>4
  <2>3. f = step
    BY <2>1, <2>2, Zenon
  <2> QED BY <2>3 DEF IsRunningTotal
<1> QED BY <1>4, <1>5

\* The balance is the last running total, a whole number.
LEMMA BalanceIsTotal ==
    ASSUME NEW rows \in Seq(Movements)
    PROVE  /\ IsRunningTotal(RunningTotal(rows), rows)
           /\ getCreditBalance(rows) = RunningTotal(rows)[Len(rows)]
<1>1. IsRunningTotal(RunningTotal(rows), rows)
  BY RunningTotalExists DEF RunningTotal
<1>2. getCreditBalance(rows) = RunningTotal(rows)[Len(rows)]
  BY DEF getCreditBalance, RunningTotal, IsRunningTotal
<1> QED BY <1>1, <1>2

\* Two ledgers with the same first n rows have the same first n totals.
LEMMA SameRowsSameTotals ==
    ASSUME NEW rows \in Seq(Movements), NEW more \in Seq(Movements),
           Len(rows) <= Len(more), \A i \in 1..Len(rows) : more[i] = rows[i]
    PROVE  \A n \in 0..Len(rows) : RunningTotal(more)[n] = RunningTotal(rows)[n]
<1> DEFINE f == RunningTotal(rows)
           g == RunningTotal(more)
           Same == {n \in Nat : n <= Len(rows) => g[n] = f[n]}
<1>1. IsRunningTotal(f, rows) /\ IsRunningTotal(g, more)
  BY BalanceIsTotal
<1> HIDE DEF f, g
<1>2. \A n \in 0..Len(rows) : f[n] = IF n = 0 THEN 0 ELSE f[n - 1] + rows[n].ICreditos
  BY <1>1 DEF IsRunningTotal
<1>3. \A n \in 0..Len(more) : g[n] = IF n = 0 THEN 0 ELSE g[n - 1] + more[n].ICreditos
  BY <1>1 DEF IsRunningTotal
<1>4. 0 \in Same
  BY <1>2, <1>3
<1>5. ASSUME NEW n \in Nat, n \in Same PROVE n + 1 \in Same
  <2>1. SUFFICES ASSUME n + 1 <= Len(rows) PROVE g[n + 1] = f[n + 1]
    OBVIOUS
  <2>2. n + 1 \in 1..Len(rows) /\ n + 1 \in 1..Len(more)
    BY <2>1
  <2>3. f[n + 1] = f[n] + rows[n + 1].ICreditos
    BY <1>2, <2>2
  <2>4. g[n + 1] = g[n] + more[n + 1].ICreditos
    BY <1>3, <2>2
  <2> QED BY <1>5, <2>1, <2>2, <2>3, <2>4
<1>6. Nat \subseteq Same
  <2> HIDE DEF Same
  <2> QED BY <1>4, <1>5, NatSetInduction
<1> QED BY <1>6 DEF f, g

\* Nobody has moved anything: the balance is zero.
LEMMA EmptyBalance == getCreditBalance(<< >>) = 0
<1>1. << >> \in Seq(Movements) /\ Len(<< >>) = 0
  OBVIOUS
<1> DEFINE f == RunningTotal(<< >>)
<1>2. IsRunningTotal(f, << >>) /\ getCreditBalance(<< >>) = f[0]
  BY <1>1, BalanceIsTotal
<1> HIDE DEF f
<1>3. f[0] = 0
  BY <1>1, <1>2 DEF IsRunningTotal
<1> QED BY <1>2, <1>3

\* The balance of a ledger is a whole number of credits.
LEMMA BalanceType ==
    ASSUME NEW rows \in Seq(Movements)
    PROVE  getCreditBalance(rows) \in Int
<1>1. PICK f \in [0..Len(rows) -> Int] : IsRunningTotal(f, rows)
  BY RunningTotalExists
<1> DEFINE g == RunningTotal(rows)
           Whole == {n \in Nat : n <= Len(rows) => g[n] \in Int}
<1>2. IsRunningTotal(g, rows) /\ getCreditBalance(rows) = g[Len(rows)]
  BY BalanceIsTotal
<1> HIDE DEF g
<1>3. \A n \in 0..Len(rows) : g[n] = IF n = 0 THEN 0 ELSE g[n - 1] + rows[n].ICreditos
  BY <1>2 DEF IsRunningTotal
<1>4. 0 \in Whole
  BY <1>3
<1>5. ASSUME NEW n \in Nat, n \in Whole PROVE n + 1 \in Whole
  <2>1. SUFFICES ASSUME n + 1 <= Len(rows) PROVE g[n + 1] \in Int
    OBVIOUS
  <2>2. g[n + 1] = g[n] + rows[n + 1].ICreditos
    BY <1>3, <2>1
  <2>3. rows[n + 1].ICreditos \in Int
    BY <2>1, MovementCredits
  <2> QED BY <1>5, <2>1, <2>2, <2>3
<1>6. Nat \subseteq Whole
  <2> HIDE DEF Whole
  <2> QED BY <1>4, <1>5, NatSetInduction
<1> QED BY <1>2, <1>6

\* A movement changes the balance by its own credits.
LEMMA AppendBalance ==
    ASSUME NEW rows \in Seq(Movements), NEW m \in Movements
    PROVE  getCreditBalance(Append(rows, m)) = getCreditBalance(rows) + m.ICreditos
<1> DEFINE more == Append(rows, m)
           n == Len(rows)
<1>1. /\ more \in Seq(Movements)
      /\ Len(more) = n + 1
      /\ more[n + 1] = m
      /\ \A i \in 1..n : more[i] = rows[i]
  OBVIOUS
<1>2. /\ getCreditBalance(rows) = RunningTotal(rows)[n]
      /\ getCreditBalance(more) = RunningTotal(more)[n + 1]
      /\ IsRunningTotal(RunningTotal(more), more)
  BY <1>1, BalanceIsTotal
<1>3. RunningTotal(more)[n] = RunningTotal(rows)[n]
  <2> HIDE DEF more
  <2> QED BY <1>1, SameRowsSameTotals
<1>4. RunningTotal(more)[n + 1] = RunningTotal(more)[n] + m.ICreditos
  <2> HIDE DEF more
  <2> QED BY <1>1, <1>2 DEF IsRunningTotal
<1> QED BY <1>2, <1>3, <1>4

-----------------------------------------------------------------------------
(* The invariants *)

\* A transaction under way asked for a movement the services may write.
Asked == \A t \in Tx : pc[t] # "idle" => intent[t] \in Movements

\* The inductive invariant: the properties lean on one another, because a row
\* is new only if the lookup under the lock is still true when it is written.
LedgerInvariant ==
    /\ TypeOK
    /\ Asked
    /\ OneWriter
    /\ DecisionsAreCurrent
    /\ UniqueIndexesNeverFire

\* An organization starts without movements and without anybody at work.
LEMMA InitInvariant == Init => LedgerInvariant
BY NoTxAssumption
DEF Init, LedgerInvariant, TypeOK, Asked, OneWriter, DecisionsAreCurrent,
    UniqueIndexesNeverFire, Sight, NothingSeen

\* A step that writes no row leaves every row where it was.
LEMMA UnchangedRows == UniqueIndexesNeverFire /\ UNCHANGED ledger => UniqueIndexesNeverFire'
BY DEF UniqueIndexesNeverFire

\* Every step keeps the invariant; only the commit writes a row, and its key is
\* new because what it looked up under the lock still holds.
LEMMA NextInvariant == LedgerInvariant /\ [Next]_vars => LedgerInvariant'
<1> SUFFICES ASSUME LedgerInvariant, [Next]_vars PROVE LedgerInvariant'
  OBVIOUS
<1> USE NoTxAssumption DEF LedgerInvariant
<1>1. ASSUME NEW t \in Tx, NEW m \in Movements, Begin(t, m) PROVE LedgerInvariant'
  <2>1. TypeOK' /\ Asked' /\ OneWriter'
    BY <1>1 DEF Begin, TypeOK, Asked, OneWriter
  <2>2. DecisionsAreCurrent'
    BY <1>1 DEF Begin, TypeOK, DecisionsAreCurrent
  <2>3. UniqueIndexesNeverFire'
    BY <1>1, UnchangedRows DEF Begin
  <2> QED BY <2>1, <2>2, <2>3
<1>2. ASSUME NEW t \in Tx, lockCreditLedger(t) PROVE LedgerInvariant'
  <2>1. TypeOK' /\ Asked'
    BY <1>2 DEF lockCreditLedger, TypeOK, Asked
  <2>2. OneWriter'
    BY <1>2 DEF lockCreditLedger, TypeOK, OneWriter
  <2>3. DecisionsAreCurrent'
    BY <1>2 DEF lockCreditLedger, TypeOK, DecisionsAreCurrent
  <2>4. UniqueIndexesNeverFire'
    BY <1>2, UnchangedRows DEF lockCreditLedger
  <2> QED BY <2>1, <2>2, <2>3, <2>4
<1>3. ASSUME NEW t \in Tx, ReadLedger(t) PROVE LedgerInvariant'
  <2> DEFINE sight == [existing |-> Recorded(ledger, intent[t]),
                       balance  |-> getCreditBalance(ledger),
                       enforced |-> enforced]
  <2>1. sight \in Sight
    <3>1. getCreditBalance(ledger) \in Int
      BY BalanceType DEF TypeOK
    <3>2. Recorded(ledger, intent[t]) \in BOOLEAN
      BY DEF Recorded
    <3> QED BY <3>1, <3>2 DEF Sight, TypeOK
  <2>2. /\ ledger' = ledger /\ enforced' = enforced /\ lock' = lock /\ intent' = intent
        /\ pc[t] = "locked" /\ pc' = [pc EXCEPT ![t] = "decided"]
        /\ seen' = [seen EXCEPT ![t] = sight]
    BY <1>3 DEF ReadLedger
  <2>3. TypeOK' /\ Asked' /\ OneWriter'
    <3> HIDE DEF sight
    <3> QED BY <2>1, <2>2 DEF TypeOK, Asked, OneWriter
  <2>4. DecisionsAreCurrent'
    <3>1. seen'[t].existing = Recorded(ledger, intent[t]) /\ seen'[t].balance = getCreditBalance(ledger)
      BY <2>2 DEF TypeOK
    <3> HIDE DEF sight
    <3> QED BY <2>2, <3>1 DEF TypeOK, DecisionsAreCurrent, Recorded
  <2>5. UniqueIndexesNeverFire'
    BY <2>2, UnchangedRows
  <2> QED BY <2>3, <2>4, <2>5
<1>4. ASSUME NEW t \in Tx, CommitLedger(t) PROVE LedgerInvariant'
  <2>1. /\ pc[t] = "decided" /\ pc' = [pc EXCEPT ![t] = "idle"]
        /\ lock' = NoTx /\ enforced' = enforced /\ intent' = intent
        /\ seen' = [seen EXCEPT ![t] = NothingSeen]
        /\ ledger' = IF Inserts(intent[t], seen[t]) THEN Append(ledger, intent[t]) ELSE ledger
    BY <1>4 DEF CommitLedger
  <2>2. TypeOK'
    BY <2>1 DEF TypeOK, Asked, Sight, NothingSeen
  <2>3. Asked' /\ OneWriter'
    BY <2>1 DEF TypeOK, Asked, OneWriter
  <2>4. DecisionsAreCurrent'
    BY <2>1 DEF TypeOK, OneWriter, DecisionsAreCurrent
  <2>5. UniqueIndexesNeverFire'
    <3>1. CASE ~Inserts(intent[t], seen[t])
      BY <2>1, <3>1, UnchangedRows
    <3>2. CASE Inserts(intent[t], seen[t])
      <4>1. intent[t].STipo = "AJUSTE" \/ ~seen[t].existing
        BY <2>1, <3>2 DEF Asked, Movements, Consumption, Purchase, Adjustment,
                          Inserts, concludeCreditDecision
      <4>2. intent[t].STipo = "AJUSTE" \/ ~Recorded(ledger, intent[t])
        BY <2>1, <4>1 DEF DecisionsAreCurrent
      <4>3. intent[t] \in Movements /\ ledger' = Append(ledger, intent[t])
        BY <2>1, <3>2 DEF Asked
      <4>4. /\ Len(ledger') = Len(ledger) + 1
            /\ ledger'[Len(ledger) + 1] = intent[t]
            /\ \A i \in 1..Len(ledger) : ledger'[i] = ledger[i]
        BY <4>3 DEF TypeOK
      <4>5. \A i \in 1..Len(ledger) :
               ledger[i].STipo = intent[t].STipo /\ ledger[i].STipo # "AJUSTE"
                   => ledger[i].key # intent[t].key
        BY <4>2 DEF Recorded
      <4>6. Len(ledger) \in Nat
        BY DEF TypeOK
      <4> QED BY <4>4, <4>5, <4>6 DEF UniqueIndexesNeverFire
    <3> QED BY <3>1, <3>2
  <2> QED BY <2>2, <2>3, <2>4, <2>5
<1>5. ASSUME NEW t \in Tx, Rollback(t) PROVE LedgerInvariant'
  <2>1. TypeOK'
    BY <1>5 DEF Rollback, TypeOK, Sight, NothingSeen
  <2>2. Asked' /\ OneWriter'
    BY <1>5 DEF Rollback, TypeOK, Asked, OneWriter
  <2>3. DecisionsAreCurrent'
    BY <1>5 DEF Rollback, TypeOK, DecisionsAreCurrent
  <2>4. UniqueIndexesNeverFire'
    BY <1>5, UnchangedRows DEF Rollback
  <2> QED BY <2>1, <2>2, <2>3, <2>4
<1>6. ASSUME NEW on \in BOOLEAN, setCreditEnforcement(on) PROVE LedgerInvariant'
  BY <1>6 DEF setCreditEnforcement, TypeOK, Asked, OneWriter, DecisionsAreCurrent,
              UniqueIndexesNeverFire
<1>7. CASE UNCHANGED vars
  BY <1>7 DEF vars, TypeOK, Asked, OneWriter, DecisionsAreCurrent, UniqueIndexesNeverFire
<1> QED BY <1>1, <1>2, <1>3, <1>4, <1>5, <1>6, <1>7 DEF Next

\* Every reachable state of the ledger satisfies the inductive invariant.
THEOREM Invariance == Spec => []LedgerInvariant
BY InitInvariant, NextInvariant, PTL DEF Spec

\* The rows and the locals keep their types.
THEOREM TypeCorrect == Spec => []TypeOK
<1>1. LedgerInvariant => TypeOK
  BY DEF LedgerInvariant
<1> QED BY <1>1, Invariance, PTL

\* lockCreditLedger admits one writer at a time.
THEOREM MutualExclusion == Spec => []OneWriter
<1>1. LedgerInvariant => OneWriter
  BY DEF LedgerInvariant
<1> QED BY <1>1, Invariance, PTL

\* What a writer read under the lock still holds when it writes.
THEOREM Currency == Spec => []DecisionsAreCurrent
<1>1. LedgerInvariant => DecisionsAreCurrent
  BY DEF LedgerInvariant
<1> QED BY <1>1, Invariance, PTL

\* No valuation is charged twice and no payment credited twice, for any number
\* of concurrent conclusions, success pages, webhooks and scripts.
THEOREM ChargedAndCreditedOnce == Spec => []UniqueIndexesNeverFire
<1>1. LedgerInvariant => UniqueIndexesNeverFire
  BY DEF LedgerInvariant
<1> QED BY <1>1, Invariance, PTL

-----------------------------------------------------------------------------
(* The steps *)

\* A commit that writes a row writes a movement nobody recorded before, and the
\* balance moves by its credits.
LEMMA CommitAppends ==
    ASSUME LedgerInvariant, NEW t \in Tx, CommitLedger(t), Inserts(intent[t], seen[t])
    PROVE  /\ intent[t] \in Movements
           /\ ledger' = Append(ledger, intent[t])
           /\ ~Recorded(ledger, intent[t])
           /\ getCreditBalance(ledger') = getCreditBalance(ledger) + intent[t].ICreditos
<1>1. intent[t] \in Movements /\ ledger' = Append(ledger, intent[t])
  BY DEF CommitLedger, LedgerInvariant, Asked
<1>2. ~Recorded(ledger, intent[t])
  <2>1. intent[t].STipo = "AJUSTE" \/ ~seen[t].existing
    BY <1>1 DEF Movements, Consumption, Purchase, Adjustment, Inserts, concludeCreditDecision
  <2> QED BY <2>1 DEF LedgerInvariant, DecisionsAreCurrent, CommitLedger, Recorded
<1>3. getCreditBalance(Append(ledger, intent[t])) = getCreditBalance(ledger) + intent[t].ICreditos
  BY <1>1, AppendBalance DEF LedgerInvariant, TypeOK
<1> QED BY <1>1, <1>2, <1>3

\* A conclusion under the charge leaves the balance at zero or above, however
\* many others compete for the last credit.
THEOREM NoOverdraft == Spec => EnforcedNeverOverdraws
<1>1. LedgerInvariant /\ [Next]_vars =>
        [\A t \in Tx :
            (CommitLedger(t) /\ ledger' # ledger /\ intent[t].STipo = "CONSUMO" /\ seen[t].enforced)
                => getCreditBalance(ledger') >= 0]_vars
  <2> SUFFICES ASSUME LedgerInvariant, NEW t \in Tx, CommitLedger(t), ledger' # ledger,
                      intent[t].STipo = "CONSUMO", seen[t].enforced
               PROVE  getCreditBalance(ledger') >= 0
    OBVIOUS
  <2>1. Inserts(intent[t], seen[t])
    BY DEF CommitLedger
  <2>2. intent[t].ICreditos = -1
    BY <2>1, CommitAppends DEF Movements, Consumption, Purchase, Adjustment
  <2>3. ~(seen[t].balance <= 0)
    BY <2>1 DEF Inserts, concludeCreditDecision
  <2>4. seen[t].balance = getCreditBalance(ledger) /\ seen[t].balance \in Int
    BY DEF CommitLedger, LedgerInvariant, DecisionsAreCurrent, TypeOK, Sight
  <2>5. getCreditBalance(ledger') = getCreditBalance(ledger) - 1
    BY <2>1, <2>2, <2>4, CommitAppends
  <2> QED BY <2>3, <2>4, <2>5
<1> QED BY <1>1, Invariance, PTL DEF Spec, EnforcedNeverOverdraws

\* The keys recorded under a type after a commit: the new key, under its type.
LEMMA KeysAfterCommit ==
    ASSUME LedgerInvariant, NEW t \in Tx, CommitLedger(t), Inserts(intent[t], seen[t]), NEW type
    PROVE  KeysOf(type)' = KeysOf(type) \cup (IF intent[t].STipo = type THEN {intent[t].key} ELSE {})
<1>1. ledger' = Append(ledger, intent[t]) /\ intent[t] \in Movements /\ ledger \in Seq(Movements)
  BY CommitAppends DEF LedgerInvariant, TypeOK
<1>2. /\ Len(ledger') = Len(ledger) + 1 /\ Len(ledger) \in Nat
      /\ ledger'[Len(ledger) + 1] = intent[t]
      /\ \A i \in 1..Len(ledger) : ledger'[i] = ledger[i]
  BY <1>1
<1> QED BY <1>2 DEF KeysOf

\* The ledger implements the account of PrepaidCredits: every step of the
\* services is one operation of the account or changes nothing of it.
THEOREM Refinement == Spec => ImplementsAccount
<1>1. Init => Account!Init
  BY EmptyBalance DEF Init, Account!Init, KeysOf
<1>2. LedgerInvariant /\ [Next]_vars => [Account!Next]_(Account!vars)
  <2> SUFFICES ASSUME LedgerInvariant, [Next]_vars
               PROVE  Account!Next \/ UNCHANGED Account!vars
    OBVIOUS
  <2>1. CASE UNCHANGED ledger
    BY <2>1 DEF Account!vars, KeysOf
  <2>2. ASSUME NEW t \in Tx, CommitLedger(t), Inserts(intent[t], seen[t])
        PROVE  Account!Next
    <3> DEFINE m == intent[t]
    <3>1. m \in Movements /\ ~Recorded(ledger, m)
      BY <2>2, CommitAppends
    <3>2. getCreditBalance(ledger') = getCreditBalance(ledger) + m.ICreditos
      BY <2>2, CommitAppends
    <3>3. \A type : KeysOf(type)' = KeysOf(type) \cup (IF m.STipo = type THEN {m.key} ELSE {})
      BY <2>2, KeysAfterCommit
    <3>4. m.STipo # "AJUSTE" => m.key \notin KeysOf(m.STipo)
      BY <3>1 DEF Recorded, KeysOf
    <3>5. PICK v : \/ v \in Valuations /\ m = Consumption(v)
                   \/ v \in References /\ m = Purchase(v)
                   \/ v \in Adjustments /\ m = Adjustment(v)
      BY <3>1 DEF Movements
    <3> HIDE DEF m
    <3>6. getCreditBalance(ledger) \in Int
      BY BalanceType DEF LedgerInvariant, TypeOK
    <3>7. CASE v \in Valuations /\ m = Consumption(v)
      <4>1. m.STipo = "CONSUMO" /\ m.ICreditos = -1 /\ m.key = v
        BY <3>7 DEF Consumption
      <4>2. Account!Charge(v)
        BY <3>2, <3>3, <3>4, <3>6, <4>1 DEF Account!Charge
      <4> QED BY <3>7, <4>2 DEF Account!Next
    <3>8. CASE v \in References /\ m = Purchase(v)
      <4>1. m.STipo = "COMPRA" /\ m.ICreditos = CreditsOf[v] /\ m.key = v
        BY <3>8 DEF Purchase
      <4>2. Account!Credit(v)
        BY <3>2, <3>3, <3>4, <4>1 DEF Account!Credit
      <4> QED BY <3>8, <4>2 DEF Account!Next
    <3>9. CASE v \in Adjustments /\ m = Adjustment(v)
      <4>1. m.STipo = "AJUSTE" /\ m.ICreditos = v
        BY <3>9 DEF Adjustment
      <4>2. Account!Adjust(v)
        BY <3>2, <3>3, <4>1 DEF Account!Adjust
      <4> QED BY <3>9, <4>2 DEF Account!Next
    <3> QED BY <3>5, <3>7, <3>8, <3>9
  <2>3. CASE ledger' # ledger
    <3>1. PICK t \in Tx : CommitLedger(t)
      BY <2>3 DEF Next, Begin, lockCreditLedger, ReadLedger, Rollback, setCreditEnforcement, vars
    <3>2. Inserts(intent[t], seen[t])
      BY <2>3, <3>1 DEF CommitLedger
    <3> QED BY <2>2, <3>1, <3>2
  <2> QED BY <2>1, <2>3
<1> QED BY <1>1, <1>2, Invariance, PTL DEF Spec, ImplementsAccount, Account!Spec
=============================================================================
