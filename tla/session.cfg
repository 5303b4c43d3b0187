SPECIFICATION SessionSpec
CONSTANTS
    shard = shard
    spatial = spatial
    client = client
    id = id
    Input = Input
    View = View
    ReliableStream = ReliableStream
    GameplayStream = GameplayStream
    NoStream = NoStream
    NoTopic = NoTopic
    NoConn = NoConn
    NoId = NoId
    Conns <- TheConns
    Shards <- TheShards
    ShardIdOf <- TheShardIds
    Spatial <- spatial
    ClientIdOf <- TheClientIds
    Ids <- TheIds
    Topics <- TheTopics
    Streams <- TheStreams
    Reliable <- TheReliable
    Named <- TheNamed
    ShardCount = 1
    MaxQueue = 2
    MaxLost = 1
INVARIANTS
    SessionTypeOK
    GameplayStaysUnreliable
    RegisteredIsServed
    InGameIsKnown
PROPERTIES
    EverybodyRegisters
\* Once everybody is registered, or has lost the broker, the protocol is over.
CHECK_DEADLOCK FALSE
