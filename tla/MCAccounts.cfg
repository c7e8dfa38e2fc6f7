SPECIFICATION MCSpec
CONSTANTS
    f = f
    b = b
    c = c
    i1 = i1
    i2 = i2
    s1 = s1
    s2 = s2
    t1 = t1
    t2 = t2
    a1 = a1
    a2 = a2
    a3 = a3
    k1 = k1
    x1 = x1
    c1 = c1
    c2 = c2
    NoUser = NoUser
    NoInvitation = NoInvitation
    NoSession = NoSession
    NoName = NoName
    MaxRetries = 2
    Users <- MCUsers
    Founder = f
    OwnSpace <- MCOwnSpace
    Invitations <- MCInvitations
    Sessions <- MCSessions
    Requests <- MCRequests
    Attempts <- MCAttempts
    Links <- MCLinks
    SignIns <- MCSignIns
    Cookies <- MCCookies
INVARIANTS AccountsTypeOK FounderAdministers SessionsOfMembers LinkWritesOnce RegisteredNeedsProof
PROPERTIES JoinsUnderAuthority SettledStays
SYMMETRY MCSymmetry
\* Every request is served once, then the system rests.
CHECK_DEADLOCK FALSE
