SPECIFICATION Spec
CONSTANTS
    a = a
    b = b
    s1 = s1
    s2 = s2
    None = None
    Ids <- MCIds
    Sockets <- MCSockets
    Rules <- MCRules
    Snapshots <- MCSnapshots
    MaxTraffic = 2
INVARIANTS NoListenerLeak RollbackFailsOnlyIfDisturbed CollectorMatchesRules
PROPERTY RollbackRestores
