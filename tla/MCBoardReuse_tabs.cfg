SPECIFICATION ReuseSpec
CONSTANTS
    Users = {u1}
    NoUser = NoUser
    Clients = {c1}
    Calls = {k1}
    MaxBoards = 2
    Races = {"tabs"}
    MaxCrashes = 0
SYMMETRY Symmetry
CHECK_DEADLOCK FALSE
INVARIANTS ContentStaysWithBoard
