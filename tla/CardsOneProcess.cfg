SPECIFICATION CardsSpec
CONSTANTS
    g1 = g1
    g2 = g2
    k1 = k1
    k2 = k2
    k3 = k3
    k4 = k4
    k5 = k5
    NoCard = NoCard
    NoGroup = NoGroup
    DaysOf <- DaysOfCard
    BoundTo <- BoundToCard
    Day = 1
    Groups <- OneGroup
    Cards <- FourCards
    Commands <- LocalCommands
    Legacy <- OneGroup
    Retention = 1
    LocalPortal = FALSE
    ReadFails = FALSE
    WriteFails = TRUE
    MaxNow = 3
    MaxExpire = 4
    Periods <- Days
INVARIANT TypeOK
INVARIANT CardViewInStep
PROPERTY PermanentNeverDowngraded
PROPERTY ImplementsCardLife
PROPERTY ShownCardIsStored
