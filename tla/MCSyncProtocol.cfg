SPECIFICATION FairSpec
CONSTANTS
    Clients = {c1, c2}
    MaxItems = 2
    MaxErased = 0
    MaxChanges = 3
    Capacity = 3
    FaultKinds = {"fast", "drop", "restart"}
    MaxFaults = 1
CHECK_DEADLOCK FALSE
INVARIANTS TypeOK QuietIsSynced
PROPERTIES Converges
