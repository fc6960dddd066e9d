SPECIFICATION FairSpec
CONSTANTS
    Updates = {u1, u2}
    Sockets = {s1, s2}
    MaxQueue = 3
    FaultKinds = {"postgres", "stalled", "down", "crash"}
    MaxFaults = 3
INVARIANTS TypeOK ServesAllDurable RegistryIsSound SettledIsDurable NothingLost
PROPERTIES BlobNeverRegresses ImplementsDurableBoard EditsAreSaved JoinsAreAnswered
