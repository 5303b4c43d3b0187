SPECIFICATION Spec
CONSTANTS
    ShardCount = 2
    Ttl = 6
    SuperviseEvery = 3
    HeartbeatEvery = 2
    FirstBeat = 3
    MaxDelay = 1
    MaxLost = 1
    MaxProcs = 2
    MaxDeaths = 1
    MaxFailures = 1
    MaxRestarts = 1
    MaxOutage = 3
INVARIANTS
    TypeOK
    AtMostOneProcessPerStart
    RespawnedInTime
