------------------------------ MODULE MCRouting ------------------------------
(* Instances of Routing for TLC: two clients and the spatial service.      *)
EXTENDS Routing, TLC

CONSTANTS client1, client2, spatial, id1, id2

TheTopics == (0 .. ShardCount - 1) \cup {Input, View}
TheStreams == {ReliableStream, GameplayStream}
TheReliable == {ReliableStream}
TheGameplayStream == {GameplayStream}
TheConns == {client1, client2, spatial}
TheIds == {id1, id2}
TheClients == id1 :> client1 @@ id2 :> client2
=============================================================================
