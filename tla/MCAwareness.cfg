SPECIFICATION Spec
CONSTANTS
    Pages = {p1, p2}
    p1 = p1
    p2 = p2
    Values = {v1}
    v1 = v1
    Null = null
    MaxSays = 1
    Returning = {p1}
    MaxFaults = 1
CHECK_DEADLOCK FALSE
INVARIANTS CursorsAreHeld ScreensAgree
PROPERTIES NobodyElseRetracts
