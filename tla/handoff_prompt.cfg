SPECIFICATION FairSpec
CONSTANTS
    ShardCount = 2
    Width = 9
    Margin = 3
    Slack = 1
    AbortAfter = 3
    Speed = 1
    Home = 0
    Spatial = TRUE
    Steering <- NoSteering
    Prompt = TRUE
    Crashable <- NoCrash
    MaxCrashes = 0
    MaxInFlight = 8
    MaxDrift = 1
INVARIANTS
    AuthorityConserved
    GhostMirrors
PROPERTIES
    SmoothHandover
    CompleteOnlyToAGhost
    ImplementsLosslessAuthority
    KeepsMigrating
