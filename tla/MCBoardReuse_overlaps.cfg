SPECIFICATION ReuseSpec
CONSTANTS
    Users = {u1}
    NoUser = NoUser
    Clients = {c1, c2}
    Calls = {k1, k2}
    MaxBoards = 2
    Races = {"requests", "entry", "tabs"}
    MaxCrashes = 1
SYMMETRY Symmetry
CHECK_DEADLOCK FALSE
PROPERTIES SettledWorkStays
