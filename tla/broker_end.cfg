SPECIFICATION Spec
CONSTANTS
    Conns = {c1, c2, c3}
    Topics = {t1, t2}
    Ids = {id}
    lifeline_stream = lifeline_stream
    gameplay_stream = gameplay_stream
    Streams <- TheStreams
    Reliable <- TheReliable
    Named <- TheGameplayStream
    NoStream = NoStream
    NoTopic = NoTopic
    NoConn = NoConn
    NoId = NoId
SYMMETRY Symmetry
PROPERTIES
    EndSparesOthers
\* All connections may have closed.
CHECK_DEADLOCK FALSE
