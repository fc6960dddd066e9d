SPECIFICATION Spec
CONSTANTS
    Users = {u1, u2}
    NoUser = NoUser
    Clients = {c1}
    Calls = {k1, k2}
    MaxBoards = 1
    Races = {"requests"}
    MaxCrashes = 0
SYMMETRY Symmetry
CHECK_DEADLOCK FALSE
INVARIANTS OneOwner
