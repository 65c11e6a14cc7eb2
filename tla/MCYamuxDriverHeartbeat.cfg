SPECIFICATION MCSpec
CONSTANTS
    Callers = {r1}
    Ping = Ping
    HeartbeatInterval = 3
    PingTimeout = 2
    MaxMissed = 5
    SilenceLimit = 18
    QueueCap = 1
    MaxBacklog = 2
    MaxStreams = 4
INVARIANT
    DeadMeansSilent
