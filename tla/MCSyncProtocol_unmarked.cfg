SPECIFICATION Spec
CONSTANTS
    Clients = {c1, c2}
    MaxItems = 1
    MaxErased = 0
    MaxChanges = 2
    Capacity = 2
    FaultKinds = {"drop"}
    MaxFaults = 1
CHECK_DEADLOCK FALSE
INVARIANTS OfflineWorkIsMarked
