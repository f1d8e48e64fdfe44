SPECIFICATION Spec
CONSTANTS
    g1 = g1
    g2 = g2
    c1 = c1
    c2 = c2
    NoClient = NoClient
    NoGroup = NoGroup
    Rank <- RankByName
    Joined <- FirstListsAll
    Groups = {g1}
    Clients = {c1, c2}
    Unwritable = {}
    Blockable = {c1}
    Rebindable = {g1}
    Pullers = {}
    Restartable = {c1}
    Healths = {"complete", "auth_partial", "auths_unreadable", "config_unreadable"}
    MaxRevision = 2
    MaxLate = 0
    Attempts = 1
PROPERTY TooSoonOnlyByRecovery
INVARIANT OnlyListedGroups
