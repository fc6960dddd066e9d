SPECIFICATION Spec
CONSTANTS
    Ids = {e1, e2}
    e1 = e1
    e2 = e2
    None = none
    Given <- OneText
    Offsets = {1, 3}
    Sizes = {0, 2}
    DefaultSize = 1
    MaxPoints = 2
    MaxOps = 2
    MaxMeddling = 1
    Tools = {"select", "text", "shape", "note", "pen"}
    Surprises = {"keys", "pause"}
CHECK_DEADLOCK FALSE
INVARIANTS OneStepEach NothingLingers
PROPERTIES DragsLand
