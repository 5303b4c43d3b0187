SPECIFICATION FairSpec
CONSTANTS
    ShardCount = 2
    Width = 5
    Margin = 2
    Slack = 1
    AbortAfter = 2
    Speed = 1
    Home = 0
    Spatial = FALSE
    Steering <- NoSteering
    Prompt = FALSE
    Crashable <- NoCrash
    MaxCrashes = 0
    MaxInFlight = 3
    MaxDrift = 0
INVARIANTS
    AtMostOneOwner
PROPERTIES
    ImplementsAuthority
    PendingResolves

\* Once no shard simulates the entity no tick changes anything: the model stops.
CHECK_DEADLOCK FALSE
