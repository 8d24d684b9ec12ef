CONSTANTS
    RebootDuration = 7
    NoSNR = NoSNR
    Second = 2
    StoreDelay = 1
    DetectTime = 1
    WatchdogTimeout = 1
    MaxInterruptions = 1
    MaxCRs = 1
    MaxTime = 7
SPECIFICATION Spec
INVARIANT AssumedMeansRebooted
PROPERTY RebootsOnce
PROPERTY RebootIsCalledFor
