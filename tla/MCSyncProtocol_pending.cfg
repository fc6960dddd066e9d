SPECIFICATION Spec
CONSTANTS
    Clients = {c1, c2}
    MaxItems = 2
    MaxErased = 0
    MaxChanges = 4
    Capacity = 4
    FaultKinds = {"restart"}
    MaxFaults = 1
SYMMETRY Symmetry
CHECK_DEADLOCK FALSE
INVARIANTS MissingIsTheSenders
