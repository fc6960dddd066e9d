SPECIFICATION ReuseSpec
CONSTANTS
    Users = {u1}
    NoUser = NoUser
    Clients = {c1}
    Calls = {k1, k2}
    MaxBoards = 2
    Races = {"requests"}
    MaxCrashes = 0
SYMMETRY Symmetry
CHECK_DEADLOCK FALSE
PROPERTIES WorkStaysOnBoard
