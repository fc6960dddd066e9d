SPECIFICATION Spec
CONSTANTS
    Ids = {e1, e2}
    e1 = e1
    e2 = e2
    None = none
    Given <- OneLine
    Offsets = {1, 3}
    Sizes = {0, 2}
    DefaultSize = 1
    MaxPoints = 2
    MaxOps = 2
    MaxMeddling = 0
    Tools = {"select"}
    Surprises = {}
CHECK_DEADLOCK FALSE
PROPERTIES TakenBackWhole
