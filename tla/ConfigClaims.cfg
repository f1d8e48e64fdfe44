SPECIFICATION Spec
CONSTANTS
    g1 = g1
    g2 = g2
    c1 = c1
    c2 = c2
    NoClient = NoClient
    NoGroup = NoGroup
    Rank <- RankByName
    Joined <- EverybodyJoined
    Groups = {g1}
    Clients = {c1, c2}
    Unwritable = {}
    Blockable = {}
    Rebindable = {g1}
    Pullers = {}
    Restartable = {}
    Healths = {"complete"}
    MaxRevision = 2
    MaxLate = 0
    Attempts = 1
SYMMETRY ClientSymmetry
INVARIANT SyncedMeansNobodyBehind
INVARIANT ErrorShownIsOutstanding
