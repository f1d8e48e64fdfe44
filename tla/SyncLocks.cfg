SPECIFICATION FairLocksSpec
CONSTANTS
    r1 = r1
    r2 = r2
    r3 = r3
    r4 = r4
    r5 = r5
    Requests <- FiveRequests
    Keys = {0, 1, 2, 3}
    GlobalKey = 0
    Payload <- FivePayloads
INVARIANT TypeOK
INVARIANT MutualExclusion
INVARIANT LockedByOne
INVARIANT SomebodyMoves
PROPERTY ImplementsScopedWrites
PROPERTY EveryRequestAnswered
PROPERTY LocksComeBack
