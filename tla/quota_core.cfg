SPECIFICATION FairSpec
CONSTANTS
    Rules = {r1}
    Conns = {c1, c2}
    Helpers = {h1, h2}
    Limit <- DailyLimit
    Chunk = 2
    Requests = {1, 2}
    MonthOf <- OneDayMonths
    MaxDay = 0
    MaxMoves = 0
    MaxFailures = 2
    MaxCrashes = 2
INVARIANTS SettledMeansStored QuotaNeverExceeded
PROPERTY StopCompletes
CHECK_DEADLOCK FALSE
