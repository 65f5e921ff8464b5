SPECIFICATION Spec
CONSTANTS
    a = a
    b = b
    Order <- TwoDomains
    Requests <- SomeRequests
    MaxCerts = 3
    MaxFailures = 2
    MaxCrashes = 2
    Absent = Absent
INVARIANTS MetadataMatchesFile ServesAcknowledged
CHECK_DEADLOCK FALSE
