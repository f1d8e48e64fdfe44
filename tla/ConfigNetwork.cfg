SPECIFICATION Spec
CONSTANTS
    g1 = g1
    g2 = g2
    c1 = c1
    c2 = c2
    NoClient = NoClient
    NoGroup = NoGroup
    Rank <- RankByName
    Joined <- EverybodyJoined
    Groups = {g1}
    Clients = {c1}
    Unwritable = {}
    Blockable = {}
    Rebindable = {}
    Pullers = {c1}
    Restartable = {c1}
    Healths = {"complete"}
    MaxRevision = 3
    MaxLate = 1
    Attempts = 2
INVARIANT TypeOK
INVARIANT AcknowledgedWasStored
PROPERTY StoredNeverRegresses
PROPERTY CursorOnlyReopenedByPull
PROPERTY ImplementsRegister
