SPECIFICATION Spec
CONSTANTS
    s1 = s1
    s2 = s2
    k1 = k1
    k2 = k2
    Sessions = {s1, s2}
    ClientOf <- OneClient
    SpecsOf <- TwoThenOne
    Peers = {p1, p2}
    Reached = {k2}
    MaxConn = 1
    MaxReloads = 1
    None = None
CONSTRAINT OneAtATime
SYMMETRY Symmetric
INVARIANTS ServingHasListeners NoStrayData
PROPERTY ReloadDisconnects
CHECK_DEADLOCK FALSE
