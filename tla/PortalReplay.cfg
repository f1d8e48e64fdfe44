SPECIFICATION Spec
CONSTANTS
    m1 = m1
    w1 = w1
    p1 = p1
    u1 = u1
    Clients = {c1}
    Actions = {m1, w1, p1}
    Users = {u1}
    KindOf <- KindsHere
    UserOf <- OneUser
    QueueLimit = 2
    PrefixLimit = 1
    Horizon = 3
    ClaimTtl = 2
    Outages = FALSE
    MaxNow = 5
    MaxRevision = 3
    MaxTrouble = 0
    MaxLocal = 0
CHECK_DEADLOCK FALSE
PROPERTY OneShot
