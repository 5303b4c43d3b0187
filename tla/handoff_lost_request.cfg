SPECIFICATION Spec
CONSTANTS
    ShardCount = 2
    Width = 9
    Margin = 3
    Slack = 1
    AbortAfter = 3
    Speed = 1
    Home = 0
    Spatial = FALSE
    Steering <- NoSteering
    Prompt = FALSE
    Crashable <- NoCrash
    MaxCrashes = 0
    MaxInFlight = 3
    MaxDrift = 0
PROPERTIES
    CompleteOnlyToAGhost
\* Once no shard simulates the entity no tick changes anything: the model stops.
CHECK_DEADLOCK FALSE
