SPECIFICATION SyncSpec
CONSTANTS
    q1 = q1
    q2 = q2
    s1 = s1
    s2 = s2
    Requests <- MCOneRequest
    Nobody = Nobody
    Subs <- MCSubs
    Base = Base
    NoSub = NoSub
    Sellable <- MCSubs
    Statuses <- MCTwoStatuses
    MaxEvents = 1
INVARIANT
    OnePaidSubscription
