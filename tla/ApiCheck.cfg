CONSTANTS
    Setups <- MCSetups
    NodeRef <- MCNodeRef
    MaxErrorsThreshold = 2
    MaxTimeForNoPeersResponse = 1
SPECIFICATION FairSpec
INVARIANT TypeOK
INVARIANT AskedOnce
PROPERTY WorkerRebootIsJustified
PROPERTY ControlPlaneRebootIsJustified
PROPERTY UnhealthyMeansOwnSNR
PROPERTY CutOffNodeReboots
CHECK_DEADLOCK FALSE
