SPECIFICATION Spec
CONSTANTS
    Users = {u1}
    NoUser = NoUser
    Clients = {c1}
    Calls = {k1}
    MaxBoards = 1
    Races = {"sweep"}
    MaxCrashes = 0
SYMMETRY Symmetry
CHECK_DEADLOCK FALSE
PROPERTIES SweepSparesTheOwned
