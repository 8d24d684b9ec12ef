CONSTANTS
    RebootDuration = 1
    OutOfServiceTimeout = 1
    Strategies = {"Automatic"}
    Disruptions = {"version"}
    SnrLag = 0
    NodeLag = 0
    MaxCRs = 1
    MaxFaults = 1
    MaxDisruptions = 0
    NoSNR = NoSNR
SPECIFICATION Spec
INVARIANT TaintsAreOwned
CHECK_DEADLOCK FALSE
