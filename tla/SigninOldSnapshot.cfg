SPECIFICATION SigninSpec
CONSTANTS
    u1 = u1
    u2 = u2
    a1 = a1
    a2 = a2
    NoOne = NoOne
    Upload = Upload
    Users = {u1}
    Attempts = {a1}
    May <- MayBe
    MaxWrites = 4
    MaxTrouble = 1
INVARIANT GrantedStays
CHECK_DEADLOCK FALSE
