CONSTANTS
    Scenarios <- ManyWorkers
SPECIFICATION Spec
INVARIANT DetectedInTime
CHECK_DEADLOCK FALSE
