SPECIFICATION HostSpec
CONSTANTS
    MaxTraffic = 1
    Platforms = {"systemd", "launchd", "scm"}
    Definitions = {d1, d2}
    None = None
    MaxFaults = 2
    Tokens = {t1, t2}
    MaxCommands = 2
CONSTRAINT Topics
SYMMETRY Symmetric
INVARIANTS CleanRestartKeepsCounters OperatorFilesSurvive
PROPERTIES FailedInstallRestores CredentialsTogether BinaryOutlivesService
CHECK_DEADLOCK FALSE
