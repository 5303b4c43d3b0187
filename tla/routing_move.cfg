SPECIFICATION RoutingSpec
CONSTANTS
    ShardCount = 3
    client1 = client1
    client2 = client2
    spatial = spatial
    id1 = id1
    id2 = id2
    Input = Input
    View = View
    ReliableStream = ReliableStream
    GameplayStream = GameplayStream
    NoStream = NoStream
    NoTopic = NoTopic
    NoConn = NoConn
    NoId = NoId
    NoShard = NoShard
    Conns <- TheConns
    Ids <- TheIds
    ClientOf <- TheClients
    Spatial <- spatial
    Topics <- TheTopics
    Streams <- TheStreams
    Reliable <- TheReliable
    Named <- TheGameplayStream
    MaxQueue = 4
PROPERTIES
    MoveSubscribes
\* All connections may have closed.
CHECK_DEADLOCK FALSE
