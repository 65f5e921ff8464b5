SPECIFICATION FairSpec
CONSTANTS
    Runners = {r1, r2}
    Clients = {c1}
    Sessions = {1, 2}
    Metered = {r1}
    Sizes = {1}
    QueueCap = 1
    QueueBytes = 2
    RuleLimit = 1
    Limits = {1, 2}
    None = None
CONSTRAINTS InOrder OneRuleInDetail
INVARIANTS SessionsExact StoppedStaysEmpty
PROPERTIES ImplementsBudget SweepSparesBusy RemovesOnlyItsOwn StopEnds
CHECK_DEADLOCK FALSE
