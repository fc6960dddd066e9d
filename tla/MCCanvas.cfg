SPECIFICATION Spec
CONSTANTS
    Fingers = {f1, f2}
    Mice = {m1}
    Points = {p1, p2}
    f1 = f1
    f2 = f2
    m1 = m1
    p1 = p1
    p2 = p2
    Nowhere = nowhere
    MaxStop = 4
    MaxInputs = 4
    Kinds <- AllKinds
    Trail <- ATrail
    Corners <- SomeCorners
    Spots <- SomeSpots
    Grips <- AllHandles
    MinSize = 4
    MaxPoints = 4
    MaxWrites = 2
    Grab = 3
    Browsers = {b1, b2}
    Ids = {i1, i2, i3, i4}
    i1 = i1
    i2 = i2
    i3 = i3
    Drawn <- Three
    MaxEntries = 7
    MaxTransactions = 3
    MaxDocs = 2
    MaxMaps = 2
    MaxChanges = 3
SYMMETRY Symmetry
CHECK_DEADLOCK FALSE
INVARIANTS ShapesAgree OrderIsSound ScreenIsFresh
PROPERTIES GesturesAreSettled
