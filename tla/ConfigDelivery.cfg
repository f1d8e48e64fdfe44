SPECIFICATION FairSpec
CONSTANTS
    g1 = g1
    g2 = g2
    c1 = c1
    c2 = c2
    NoClient = NoClient
    NoGroup = NoGroup
    Rank <- RankByName
    Joined <- EverybodyJoined
    Groups = {g1, g2}
    Clients = {c1}
    Unwritable = {}
    Blockable = {}
    Rebindable = {}
    Pullers = {}
    Restartable = {}
    Healths = {"complete"}
    MaxRevision = 2
    MaxLate = 0
    Attempts = 1
PROPERTY EveryRevisionConfirmed
