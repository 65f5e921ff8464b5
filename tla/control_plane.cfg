SPECIFICATION ClientsSpec
CONSTANTS
    Tasks = {t1, t2}
    Off = Off
    None = None
    Ids = {i1, i2}
    RuleSets <- MCRuleSets
    Caps = {1, 2}
    Settings = {b1, b2}
    Mixed = Mixed
    MaxEdits = 1
    Tools = {m1}
    Presses = {p1}
    Writers = {m1, p1}
    MaxCalls = 2
CONSTRAINT Focus
INVARIANTS RuntimeInStep AckedIsDurable OneBot
PROPERTIES NoLostUpdate OnlyAsNamed
SYMMETRY ControlSymmetry
CHECK_DEADLOCK FALSE
