SPECIFICATION FairSpec
CONSTANTS
    m1 = m1
    w1 = w1
    p1 = p1
    u1 = u1
    Clients = {c1}
    Actions = {m1, w1, p1}
    Users = {u1}
    KindOf <- KindsHere
    UserOf <- OneUser
    QueueLimit = 2
    PrefixLimit = 1
    Horizon = 1
    ClaimTtl = 1
    Outages = TRUE
    MaxNow = 3
    MaxRevision = 3
    MaxTrouble = 1
    MaxLocal = 1
INVARIANT TypeOK
INVARIANT ConfirmedMeansHandled
INVARIANT RunsBounded
PROPERTY UndoneMuteIsUnseen
PROPERTY EveryRequestHandled
CHECK_DEADLOCK FALSE
