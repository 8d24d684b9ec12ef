CONSTANTS
    RebootDuration = 1
    OutOfServiceTimeout = 1
    Strategies = {"Automatic"}
    Disruptions = {"node", "version"}
    SnrLag = 0
    NodeLag = 0
    MaxCRs = 1
    MaxFaults = 1
    MaxDisruptions = 1
    NoSNR = NoSNR
SPECIFICATION FairSpec
PROPERTY RemediationCompletes
PROPERTY DeletionCompletes
PROPERTY StoppedRemediationIsReleased
CHECK_DEADLOCK FALSE
