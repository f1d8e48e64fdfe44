SPECIFICATION DispatchSpec
CONSTANTS
    w1 = w1
    w2 = w2
    Dead = Dead
    Workers = {w1, w2}
    Plans <- TwoPlans
    Round = 1
    Lease = 2
    RetryDelay = 4
    CatchUp = 4
    HourlyCatchUp = 6
    MaxNow = 8
SYMMETRY WorkerSymmetry
INVARIANT TypeOK
INVARIANT SingleFlight
PROPERTY ConfirmedNotRepeated
PROPERTY SendsSpaced
