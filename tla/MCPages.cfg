SPECIFICATION PagesSpec
CONSTANTS
    People = {p1, p2}
    NoOne = NoOne
    Ids = {guest, i1, i2}
    Guest = guest
    NoId = NoId
    Codes = {c1, c2}
    NoCode = NoCode
    Titles = {t1, t2}
    NoTitle = NoTitle
    Races = {"again"}
    MaxInputs = 5
    Tabs = {tab1, tab2}
    MaxMade = 2
    MaxEdits = 1
    MaxSpent = 4
    LongSittings = FALSE
    LateAnswers = FALSE
SYMMETRY Symmetry
CHECK_DEADLOCK FALSE
INVARIANTS OldCopyStaysOut WorkIsKept TokenIsKept PagesAgree PictureIsLatest
PROPERTIES SignInIsTrue
