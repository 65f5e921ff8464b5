SPECIFICATION Spec
CONSTANTS
    RuleSets = {r1, r2}
    Fields = {token, chat}
    Values = {v1, v2}
    MaxChanges = 2
    MaxFetches = 1
    MaxKeys = 3
    None = None
INVARIANTS ValidatedIsPrechecked NeverShowsOlder
CONSTRAINTS OneTask FewUnderWay
VIEW Relevant
SYMMETRY Symmetric
PROPERTY SaveKeepsRemoteFields
CHECK_DEADLOCK FALSE
