SPECIFICATION MCSpec
CONSTANTS
    Callers = {r1, r2}
    Ping = Ping
    HeartbeatInterval = 3
    PingTimeout = 2
    MaxMissed = 5
    SilenceLimit = 18
    QueueCap = 1
    MaxBacklog = 1
    MaxStreams = 2
INVARIANTS
    TypeOK
    FrozenClientDroppedInTime
PROPERTIES
    LossEndsDriverUnlessStalled
    OpenReturnsUnlessStalled
    AbandonedStreamsGo
