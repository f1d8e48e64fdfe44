SPECIFICATION FairSigninSpec
CONSTANTS
    u1 = u1
    u2 = u2
    a1 = a1
    a2 = a2
    NoOne = NoOne
    Upload = Upload
    Users = {u1, u2}
    Attempts = {a1, a2}
    May <- MayBe
    MaxWrites = 6
    MaxTrouble = 1
INVARIANT TypeOK
INVARIANT OneRewardPerDay
INVARIANT ShownMeansPaid
INVARIANT SeenEditsKept
INVARIANT OneHashPerRevision
PROPERTY RowsLeaveByReset
PROPERTY EveryMessageAnswered
PROPERTY PendingSettles
CHECK_DEADLOCK FALSE
