CONSTANTS
    Cluster <- ThreeNodes
    Requested <- FiveSpecs
    DefaultSpec = 1
    MaxVersions = 2
    MaxFaults = 1
    MaxEvents = 2
SPECIFICATION FairSpec
INVARIANT TypeOK
INVARIANT Collectable
INVARIANT ExcludedNodeHasNoAgent
PROPERTY ConfigIsRolledOut
PROPERTY NoLeftovers
CHECK_DEADLOCK FALSE
