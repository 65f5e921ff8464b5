SPECIFICATION HostSpec
CONSTANTS
    MaxTraffic = 1
    Platforms = {"systemd", "launchd", "scm"}
    Definitions = {d1, d2}
    None = None
    MaxFaults = 1
    Tokens = {t1, t2}
    MaxCommands = 1
CONSTRAINT Topics
SYMMETRY Symmetric
PROPERTY CommittedKeepsProfile
CHECK_DEADLOCK FALSE
