------------------------------ MODULE MCSession -------------------------------
(* An instance of Session for TLC: one process of each kind.               *)
EXTENDS Session, TLC

CONSTANTS shard, spatial, client, id

TheConns == {shard, spatial, client}
TheShards == {shard}
TheShardIds == shard :> 0
TheClientIds == client :> id
TheIds == {id}
TheTopics == {0, 1, Input, View}
TheStreams == {ReliableStream, GameplayStream}
TheReliable == {ReliableStream}
TheNamed == {GameplayStream, NoStream}
=============================================================================
