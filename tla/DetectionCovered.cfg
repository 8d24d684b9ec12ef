CONSTANTS
    Scenarios <- CoveredScenarios
SPECIFICATION Spec
INVARIANT TypeOK
INVARIANT SlowestDetection
INVARIANT DetectedInTime
INVARIANT BatchesAsCounted
CHECK_DEADLOCK FALSE
