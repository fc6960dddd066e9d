SPECIFICATION Spec
CONSTANTS
    Clients = {c1, c2}
    MaxItems = 2
    MaxErased = 1
    MaxChanges = 5
    Capacity = 1
    FaultKinds = {}
    MaxFaults = 0
SYMMETRY Symmetry
CHECK_DEADLOCK FALSE
INVARIANTS QuietIsSynced
PROPERTIES BoardFits
