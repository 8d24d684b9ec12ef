\* 10 seconds per tick: the default timeout of 60 s, fed every 20 s, stuck after 30 s.
CONSTANTS
    Timeout = 6
    FeedPeriod = 2
    StuckAfter = 3
    Callers = {"reconciler", "apicheck"}
    MaxFaults = 1
    MaxStops = 2
SPECIFICATION FairSpec
INVARIANT TypeOK
INVARIANT NoSpuriousReboot
INVARIANT AnnotationsAreTrue
PROPERTY TriggeredIsFinal
PROPERTY RequestedRebootHappens
CHECK_DEADLOCK FALSE
