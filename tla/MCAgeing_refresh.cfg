SPECIFICATION TimedAgeingSpec
CONSTANTS
    g1 = g1  w1 = w1  w2 = w2  Unset = Unset
    Items = {g1}
    Rooms = {w1, w2}
    Dates <- RecentDates
    Today = 100
    LastDay = 101
    PageLimit = 1
    Viewers <- Readers
PROPERTY SnapshotCatchesUp
CHECK_DEADLOCK FALSE
