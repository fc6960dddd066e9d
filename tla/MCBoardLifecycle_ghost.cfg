SPECIFICATION FairSpec
CONSTANTS
    Users = {u1}
    NoUser = NoUser
    Clients = {c1}
    Calls = {k1}
    MaxBoards = 2
    Races = {"entry"}
    MaxCrashes = 0
CHECK_DEADLOCK FALSE
PROPERTIES ExpiredIsCollected
