SPECIFICATION FairSpec
CONSTANTS
    Clients = {c1, c2}
    MaxItems = 1
    MaxErased = 1
    MaxChanges = 3
    Capacity = 1
    FaultKinds = {}
    MaxFaults = 0
CHECK_DEADLOCK FALSE
PROPERTIES RefusedIsAskedAgain
