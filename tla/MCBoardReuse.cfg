SPECIFICATION ReuseFairSpec
CONSTANTS
    Users = {u1, u2}
    NoUser = NoUser
    Clients = {c1, c2}
    Calls = {k1}
    MaxBoards = 3
    Races = {}
    MaxCrashes = 1
CHECK_DEADLOCK FALSE
INVARIANTS TypeOK OwnershipHolds BoardsStartClean DeletedIsGone
PROPERTIES NothingTakenEarly ExpiredIsCollected
