SPECIFICATION Spec
CONSTANTS
    Updates = {u1, u2}
    Sockets = {s1, s2}
    MaxQueue = 2
    FaultKinds = {}
    MaxFaults = 0
INVARIANTS CopyIsWhole
