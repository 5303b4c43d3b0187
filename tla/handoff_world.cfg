SPECIFICATION Spec
CONSTANTS
    ShardCount = 2
    Width = 5
    Margin = 2
    Slack = 1
    AbortAfter = 2
    Speed = 1
    Home = 0
    Spatial = TRUE
    Steering <- Rightward
    Prompt = FALSE
    Crashable <- Everyone
    MaxCrashes = 3
    MaxInFlight = 1
    MaxDrift = 0
INVARIANTS
    TypeOK
    PendingIsBounded
    HeardUntilNoticed
\* Once no shard simulates the entity no tick changes anything: the model stops.
CHECK_DEADLOCK FALSE
