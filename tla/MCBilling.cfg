SPECIFICATION MCSpec
CONSTANTS
    q1 = q1
    q2 = q2
    s1 = s1
    s2 = s2
    w1 = w1
    w2 = w2
    w3 = w3
    v1 = v1
    v2 = v2
    r1 = r1
    Meeting = Meeting
    Alone = Alone
    Charging = Charging
    Requests <- MCTwoRequests
    Nobody = Nobody
    Subs <- MCSubs
    Base = Base
    NoSub = NoSub
    Sellable <- MCSubs
    Statuses <- MCStatuses
    MaxEvents = 3
    Tx <- MCTx
    NoTx = NoTx
    Valuations <- MCValuations
    References <- MCReferences
    NoKey = NoKey
    CreditsOf <- MCCreditsOf
    Adjustments <- MCAdjustments
    MaxMovements = 3
INVARIANTS
    BillingTypeOK
    OneCurrentRow
    AloneSettledAgrees
    UniqueIndexesNeverFire
PROPERTIES
    NewestStays
    ImplementsPlan
    EnforcedNeverOverdraws
    ImplementsAccount
