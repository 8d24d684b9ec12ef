CONSTANTS
    RebootDuration = 1
    OutOfServiceTimeout = 1
    Strategies = {"Automatic", "ResourceDeletion"}
    Disruptions = {"config", "node", "exclusion", "capability"}
    SnrLag = 0
    NodeLag = 0
    MaxCRs = 1
    MaxFaults = 1
    MaxDisruptions = 1
    NoSNR = NoSNR
SPECIFICATION Spec
INVARIANT SucceededMeansCompleted
INVARIANT TaintsAreOwned
INVARIANT NoTaintOnceCompleted
CHECK_DEADLOCK FALSE
