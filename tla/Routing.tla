------------------------------- MODULE Routing -------------------------------
(***************************************************************************)
(* Which shard's snapshots a client receives.  The spatial service follows *)
(* the entities by the positions the shards publish and, when one changes  *)
(* bands, has the broker move the subscription of the entity's client: a   *)
(* targeted StopSub and a targeted Sub, over a reliable stream.  Meanwhile *)
(* the client registers itself, over a stream of its own.                  *)
(*                                                                         *)
(* The broker is that of module Broker; here its services are the clients  *)
(* and the spatial service, and what they send it waits in queues.         *)
(***************************************************************************)
EXTENDS Broker, Naturals, Sequences

CONSTANTS
    ShardCount,     \* SHARD_COUNT; Topic::Snapshot(n) is written n
    Input,          \* Topic::Input(0)
    View,           \* Topic::View(0), the spatial service's control topic
    Spatial,        \* the spatial service's connection
    ClientOf,       \* ClientOf[id]: the connection of the client with this id
    ReliableStream, \* the two streams each of them opens
    GameplayStream,
    NoShard,
    MaxQueue        \* bound on the spatial service's messages under way

Shards == 0 .. ShardCount - 1

ASSUME RoutingAssumption ==
    /\ ShardCount \in Nat \ {0} /\ NoShard \notin Shards
    /\ Topics = Shards \cup {Input, View}
    /\ ClientOf \in [Ids -> Conns \ {Spatial}]
    /\ \A i, j \in Ids : ClientOf[i] = ClientOf[j] => i = j
    /\ \A c \in Conns \ {Spatial} : \E id \in Ids : ClientOf[id] = c
    /\ Spatial \in Conns
    /\ ReliableStream \in Reliable /\ GameplayStream \in Streams \ Reliable
    /\ Named = {GameplayStream}
    /\ MaxQueue \in Nat

VARIABLES
    queue,        \* queue[c]: the control messages from c to the broker
    registered,   \* the processes that have sent their registration
    players,      \* the ids of the players the shards have made
    entity_shard, \* entity_shard[id]: the band the entity was last seen in
    followed      \* history, for the properties only: the ids that were ever
                  \* in NowFollowed

broker == vars
routingVars == <<broker, queue, registered, players, entity_shard, followed>>

RoutingInit ==
    /\ Init
    /\ queue = [c \in Conns |-> <<>>]
    /\ registered = {}
    /\ players = {}
    /\ entity_shard = [id \in Ids |-> NoShard]
    /\ followed = {}

-----------------------------------------------------------------------------
(* The clients and the spatial service. *)

Message(op, topic, target) == [op |-> op, topic |-> topic, target |-> target]

Hello == Message("JOIN", NoTopic, NoId)

ControlMessages ==
    {Hello} \cup [op : {"Pub", "Sub"}, topic : Topics, target : {NoId}]
            \cup [op : {"Sub", "StopSub"}, topic : Topics, target : Ids]

Send(c, ms) == queue' = [queue EXCEPT ![c] = @ \o ms]

\* The clients whose own Pub and Sub(0) the broker has handled, while the
\* spatial service has their entity in band 0.
NowFollowed ==
    {id \in Ids : /\ entity_shard[id] = 0
                  /\ ClientOf[id] \in registered /\ queue[ClientOf[id]] = <<>>}

\* A client repeats its JOIN until it is welcomed; the broker ignores what it
\* cannot decode on the lifeline of a service, so the first one stands for all.
Start(c) ==
    /\ Connect(c)
    /\ Send(c, <<Hello>>)
    /\ UNCHANGED <<registered, players, entity_shard, followed>>

\* register_pubsub of a client, drive_broker_session of the spatial service.
Registration(c) ==
    IF c = Spatial
    THEN <<Message("Pub", View, NoId)>> \o [n \in 1 .. ShardCount |-> Message("Sub", n - 1, NoId)]
    ELSE <<Message("Pub", Input, NoId), Message("Sub", 0, NoId)>>

\* Once, when the WELCOME has come back.
Register(c) ==
    /\ socket[c] = "open" /\ c \in Services \ registered
    /\ registered' = registered \cup {c}
    /\ Send(c, Registration(c))
    /\ UNCHANGED <<broker, players, entity_shard, followed>>

\* Mutant: the old shard's snapshots are not unsubscribed from.
MovedOnlyIn(id, old, n) == <<Message("Sub", n, id)>>

\* Moves the subscription of id's client from shard old to shard n.
Moved(id, old, n) ==
    (IF old = NoShard THEN <<>> ELSE <<Message("StopSub", old, id)>>) \o <<Message("Sub", n, id)>>

\* ensure_player, at a shard that hears the client's input; no shard ever
\* drops a player of a client that has gone.
EnsurePlayer(id) ==
    /\ Input \in Published(ClientOf[id]) /\ id \notin players
    /\ players' = players \cup {id}
    /\ UNCHANGED <<broker, queue, registered, entity_shard, followed>>

\* handle_position_update, for a position in band n of the world; the alerts
\* it also sends are those of module Handoff.  Positions come unreliably and
\* from every shard that believes it owns the entity, hence from any band.
TrackPosition(id, n) ==
    /\ socket[Spatial] = "open" /\ StreamsInUse(Spatial) # {}
    /\ id \in players
    /\ n # entity_shard[id]
    /\ Len(queue[Spatial]) + 2 <= MaxQueue
    /\ entity_shard' = [entity_shard EXCEPT ![id] = n]
    /\ Send(Spatial, Moved(id, entity_shard[id], n))
    /\ UNCHANGED <<broker, registered, players>>
    /\ followed' = followed \cup NowFollowed'

\* Mutant: the broker still handles what the lost connection sent.
StillUnderWay(c) == queue

UnderWayWithout(c) == [queue EXCEPT ![c] = <<>>]

\* A connection is lost, with what was under way on it.  The spatial service
\* forgets where the entities were; nobody connects again.
Lose(c) ==
    /\ Disconnect(c)
    /\ queue' = UnderWayWithout(c)
    /\ entity_shard' = IF c = Spatial THEN [id \in Ids |-> NoShard] ELSE entity_shard
    /\ UNCHANGED <<registered, players, followed>>

-----------------------------------------------------------------------------
(* The broker takes the next message off a reliable stream. *)

\* The id in the JOIN of c: that of the spatial service is no number.
IdOf(c) == IF c = Spatial THEN NoId ELSE CHOOSE id \in Ids : ClientOf[id] = c

Dispatch(c, m) ==
    \/ m.op = "JOIN" /\ Join(c, ReliableStream, IdOf(c))
    \/ m.op = "Pub" /\ Pub(c, m.topic, GameplayStream)
    \/ m.op = "Sub" /\ m.target = NoId /\ Sub(c, m.topic, GameplayStream)
    \/ m.op = "Sub" /\ m.target # NoId /\ TargetedSub(c, m.topic, m.target)
    \/ m.op = "StopSub" /\ TargetedStopSub(c, m.topic, m.target)

Handle(c) ==
    /\ queue[c] # <<>>
    /\ Dispatch(c, Head(queue[c]))
    /\ queue' = [queue EXCEPT ![c] = Tail(@)]
    /\ UNCHANGED <<registered, players, entity_shard>>
    /\ followed' = followed \cup NowFollowed'

RoutingNext ==
    \/ \E c \in Conns : Start(c) \/ Register(c) \/ Handle(c) \/ Lose(c)
    \/ \E id \in Ids : EnsurePlayer(id)
    \/ \E id \in Ids, n \in Shards : TrackPosition(id, n)

RoutingSpec == RoutingInit /\ [][RoutingNext]_routingVars

-----------------------------------------------------------------------------
(* Properties. *)

\* The variables have their types; a message under way has a live sender.
RoutingTypeOK ==
    /\ TypeOK
    /\ queue \in [Conns -> Seq(ControlMessages)]
    /\ registered \subseteq Services
    /\ players \subseteq Ids /\ followed \subseteq Ids
    /\ entity_shard \in [Ids -> Shards \cup {NoShard}]
    /\ \A c \in Conns : queue[c] # <<>> => socket[c] = "open"

\* The broker has handled all that was sent to it.
Settled == \A c \in Conns : queue[c] = <<>>

\* Moving a subscription leaves nothing behind: however the targeted messages
\* interleave with the client's own, once they have been handled the client
\* hears no shard but that of its entity.  Only the Sub(0) of the client itself
\* may be left over, and only as long as the service has never had the entity
\* in band 0 with that Sub handled: after that a move ends it as well.
\* The description and the service's comment promise more, that the client is
\* subscribed to the shard of its position alone.  Without the last disjunct
\* and of the entities the service has seen, TLC finds that violated: of one
\* first seen in band 1, for which there is no StopSub(0), and of one moved
\* too early, for which the StopSub(0) finds no Sub(0).
NoStaleView ==
    Settled /\ socket[Spatial] = "open" =>
        \A id \in Ids, n \in Shards :
            subscriptions[ClientOf[id]][n] # NoStream =>
                n = entity_shard[id] \/ (n = 0 /\ id \notin followed)

\* The targeted Sub that ends a move subscribes the client, if that is there
\* and done with its own registration.
MoveSubscribes ==
    [][\A id \in Ids, n \in Shards :
          LET c == ClientOf[id]
          IN  /\ Handle(Spatial) /\ Head(queue[Spatial]) = Message("Sub", n, id)
              /\ socket[c] = "open" /\ c \in registered /\ queue[c] = <<>>
              => subscriptions'[c][n] # NoStream]_routingVars

=============================================================================
