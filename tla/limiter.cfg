SPECIFICATION LimiterFairSpec
CONSTANTS
    Waiters = {w1, w2, w3}
    Sizes = {1, 2}
    Rate = 1
    Burst = 2
    MaxGap = 2
INVARIANTS OneTurn RateBound
PROPERTY EveryCallEnds
CHECK_DEADLOCK FALSE
