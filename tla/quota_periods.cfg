SPECIFICATION Spec
CONSTANTS
    Rules = {r1}
    Conns = {c1}
    Helpers = {h1}
    Limit <- TinyBoth
    Chunk = 2
    Requests = {1, 2}
    MonthOf <- TwoDayMonths
    MaxDay = 3
    MaxMoves = 4
    MaxFailures = 0
    MaxCrashes = 1
INVARIANT UsageExact
CHECK_DEADLOCK FALSE
