SPECIFICATION ReuseSpec
CONSTANTS
    Users = {u1}
    NoUser = NoUser
    Clients = {c1, c2}
    Calls = {k1}
    MaxBoards = 2
    Races = {"entry"}
    MaxCrashes = 0
SYMMETRY Symmetry
CHECK_DEADLOCK FALSE
PROPERTIES WorkStaysOnBoard
