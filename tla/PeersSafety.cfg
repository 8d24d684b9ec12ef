CONSTANTS
    WorkerNodes = {w1}
    ControlPlaneNodes = {c1, c2}
    PeerUpdateInterval = 2
    QuickPeerUpdateInterval = 1
    ApiServerTimeout = 1
    MaxChanges = 2
    MaxFaults = 1
SPECIFICATION FairSpec
INVARIANT TypeOK
INVARIANT FailureIsRetriedQuickly
PROPERTY CacheNeverGoesBack
PROPERTY RefreshKeepsPeers
PROPERTY SteadyPeersAreCached
PROPERTY CachesConverge
