SPECIFICATION Spec
CONSTANTS
    Servers = {zo}
    Apps = {app, blog}
    Asks = {k1, k2}
    NoEndpoint = NoEndpoint
    Null = Null
    Failed = Failed
    NoServer = NoServer
    MaxSets = 3
    MaxFaults = 2
INVARIANTS
    TypeOK
    ChainKept
PROPERTIES
    WatchdogReclaims
    ShutdownEnds
