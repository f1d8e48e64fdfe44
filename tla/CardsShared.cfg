SPECIFICATION CardsSpec
CONSTANTS
    g1 = g1
    g2 = g2
    k1 = k1
    k2 = k2
    k3 = k3
    k4 = k4
    k5 = k5
    NoCard = NoCard
    NoGroup = NoGroup
    DaysOf <- DaysOfCard
    BoundTo <- BoundToCard
    Day = 1
    Groups <- OneGroup
    Cards <- ThreeCards
    Commands <- SharedCommands
    Legacy = {}
    Retention = 1
    LocalPortal = TRUE
    ReadFails = TRUE
    WriteFails = TRUE
    MaxNow = 1
    MaxExpire = 2
    Periods = {1}
INVARIANT CardsConsistent
