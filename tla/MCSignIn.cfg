SPECIFICATION Spec
CONSTANTS
    Inboxes = {i1}
    Accounts = {g1}
    NoOne = NoOne
    Calls = {k1, k2}
    MaxAttempts = 2
    Limit = 1
    MaxCodes = 2
    MaxStates = 1
    MaxSessions = 2
    MaxFaults = 1
    MaxEvents = 4
    Races = {}
SYMMETRY Symmetry
CHECK_DEADLOCK FALSE
INVARIANTS CodesAreSound OneWayIn
PROPERTIES SessionsEnd
