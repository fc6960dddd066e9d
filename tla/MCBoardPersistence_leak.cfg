SPECIFICATION FairSpec
CONSTANTS
    Updates = {u1}
    Sockets = {s1}
    MaxQueue = 2
    FaultKinds = {"postgres"}
    MaxFaults = 1
PROPERTIES EmptyRoomIsReleased
