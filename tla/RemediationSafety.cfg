CONSTANTS
    RebootDuration = 1
    OutOfServiceTimeout = 1
    Strategies = {"ResourceDeletion"}
    Disruptions = {}
    SnrLag = 2
    NodeLag = 1
    MaxCRs = 2
    MaxFaults = 0
    MaxDisruptions = 0
    NoSNR = NoSNR
SPECIFICATION Spec
INVARIANT TypeOK
INVARIANT FencedWithDeadline
PROPERTY KeepsPromise
PROPERTY CleanupAfterDeadline
CHECK_DEADLOCK FALSE
