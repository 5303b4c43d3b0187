---------------------------- MODULE RoutingProofs ----------------------------
(***************************************************************************)
(* Routing drives the broker only as module Broker allows, so what is      *)
(* proved of Broker holds in Routing.                                      *)
(***************************************************************************)
EXTENDS Routing, BrokerProofs, SequenceTheorems

LEMMA MessagesAreTyped ==
    /\ Hello \in ControlMessages
    /\ \A c \in Conns : Registration(c) \in Seq(ControlMessages)
    /\ \A id \in Ids, old \in Shards \cup {NoShard}, n \in Shards :
          Moved(id, old, n) \in Seq(ControlMessages)
<1>1. Hello \in ControlMessages
  BY DEF ControlMessages
<1>2. \A t \in Topics : Message("Pub", t, NoId) \in ControlMessages
                        /\ Message("Sub", t, NoId) \in ControlMessages
  BY DEF ControlMessages, Message
<1>3. \A t \in Topics, id \in Ids : Message("Sub", t, id) \in ControlMessages
                                   /\ Message("StopSub", t, id) \in ControlMessages
  BY DEF ControlMessages, Message
<1>4. Shards \subseteq Topics /\ Input \in Topics /\ View \in Topics /\ 0 \in Topics
      /\ \A n \in 1 .. ShardCount : n - 1 \in Topics
  BY RoutingAssumption DEF Shards
<1>5. ASSUME NEW c \in Conns PROVE Registration(c) \in Seq(ControlMessages)
  <2>1. <<Message("Pub", View, NoId)>> \in Seq(ControlMessages)
        /\ <<Message("Pub", Input, NoId), Message("Sub", 0, NoId)>> \in Seq(ControlMessages)
    BY <1>2, <1>4
  <2>2. [n \in 1 .. ShardCount |-> Message("Sub", n - 1, NoId)] \in Seq(ControlMessages)
    <3>1. [n \in 1 .. ShardCount |-> Message("Sub", n - 1, NoId)] \in [1 .. ShardCount -> ControlMessages]
      BY <1>2, <1>4
    <3> QED
      BY <3>1, RoutingAssumption, SeqDef
  <2> QED
    BY <2>1, <2>2, ConcatProperties DEF Registration
<1>6. ASSUME NEW id \in Ids, NEW old \in Shards \cup {NoShard}, NEW n \in Shards
      PROVE  Moved(id, old, n) \in Seq(ControlMessages)
  <2>1. (IF old = NoShard THEN <<>> ELSE <<Message("StopSub", old, id)>>) \in Seq(ControlMessages)
    BY <1>3, <1>4
  <2>2. <<Message("Sub", n, id)>> \in Seq(ControlMessages)
    BY <1>3, <1>4
  <2> QED
    BY <2>1, <2>2, ConcatProperties DEF Moved
<1> QED
  BY <1>1, <1>5, <1>6

\* The queues alone, which is all that the refinement needs to know.
QueueType == queue \in [Conns -> Seq(ControlMessages)]

LEMMA SendType ==
    ASSUME QueueType, NEW c \in Conns, NEW ms \in Seq(ControlMessages), Send(c, ms)
    PROVE  QueueType'
<1>1. queue[c] \o ms \in Seq(ControlMessages)
  BY ConcatProperties DEF QueueType
<1> QED
  BY <1>1 DEF QueueType, Send

\* Every id in the JOIN of a connection is one that Broker's Join can carry.
LEMMA IdOfType == \A c \in Conns : IdOf(c) \in Ids \cup {NoId}
BY RoutingAssumption DEF IdOf

\* What the broker takes off a queue is one of its operations.
LEMMA DispatchIsBroker ==
    ASSUME NEW c \in Conns, NEW m \in ControlMessages, Dispatch(c, m)
    PROVE  Next
<1>1. m.op # "JOIN" => m.topic \in Topics /\ m.target \in Ids \cup {NoId}
                       /\ (m.op = "StopSub" => m.target \in Ids)
  BY DEF ControlMessages, Hello, Message
<1>2. GameplayStream \in Named /\ ReliableStream \in Reliable
  BY RoutingAssumption
<1>3. CASE m.op = "JOIN" /\ Join(c, ReliableStream, IdOf(c))
  BY <1>2, <1>3, IdOfType DEF Next
<1>4. CASE m.op = "Pub" /\ Pub(c, m.topic, GameplayStream)
  BY <1>1, <1>2, <1>4 DEF Next, Control
<1>5. CASE m.op = "Sub" /\ m.target = NoId /\ Sub(c, m.topic, GameplayStream)
  BY <1>1, <1>2, <1>5 DEF Next, Control
<1>6. CASE m.op = "Sub" /\ m.target # NoId /\ TargetedSub(c, m.topic, m.target)
  BY <1>1, <1>6 DEF Next, Control
<1>7. CASE m.op = "StopSub" /\ TargetedStopSub(c, m.topic, m.target)
  BY <1>1, <1>7 DEF Next, Control
<1> QED
  BY <1>3, <1>4, <1>5, <1>6, <1>7 DEF Dispatch

LEMMA RoutingStep ==
    ASSUME QueueType, entity_shard \in [Ids -> Shards \cup {NoShard}], [RoutingNext]_routingVars
    PROVE  QueueType' /\ entity_shard' \in [Ids -> Shards \cup {NoShard}] /\ [Next]_vars
<1>1. CASE UNCHANGED routingVars
  BY <1>1 DEF routingVars, broker, QueueType
<1>2. ASSUME NEW c \in Conns, Start(c)
      PROVE  QueueType' /\ UNCHANGED entity_shard /\ Next
  <2>1. <<Hello>> \in Seq(ControlMessages)
    BY MessagesAreTyped
  <2> QED
    BY <1>2, <2>1, SendType DEF Start, Next
<1>3. ASSUME NEW c \in Conns, Register(c)
      PROVE  QueueType' /\ UNCHANGED entity_shard /\ UNCHANGED vars
  BY <1>3, MessagesAreTyped, SendType DEF Register, broker
<1>4. ASSUME NEW c \in Conns, Handle(c)
      PROVE  QueueType' /\ UNCHANGED entity_shard /\ Next
  <2>1. queue[c] \in Seq(ControlMessages) /\ queue[c] # <<>>
    BY <1>4 DEF Handle, QueueType
  <2>2. Head(queue[c]) \in ControlMessages /\ Tail(queue[c]) \in Seq(ControlMessages)
    BY <2>1, HeadTailProperties
  <2> QED
    BY <1>4, <2>2, DispatchIsBroker DEF Handle, QueueType
<1>5. ASSUME NEW c \in Conns, Lose(c)
      PROVE  QueueType' /\ entity_shard' \in [Ids -> Shards \cup {NoShard}] /\ Next
  BY <1>5, EmptySeq DEF Lose, UnderWayWithout, QueueType, Next
<1>6. ASSUME NEW id \in Ids, NEW n \in Shards, TrackPosition(id, n)
      PROVE  QueueType' /\ entity_shard' \in [Ids -> Shards \cup {NoShard}] /\ UNCHANGED vars
  <2>1. Moved(id, entity_shard[id], n) \in Seq(ControlMessages)
    BY MessagesAreTyped
  <2>2. Spatial \in Conns /\ Send(Spatial, Moved(id, entity_shard[id], n))
    BY <1>6, RoutingAssumption DEF TrackPosition
  <2>3. QueueType'
    BY <2>1, <2>2, SendType
  <2> QED
    BY <1>6, <2>3 DEF TrackPosition, broker
<1>7. ASSUME NEW id \in Ids, EnsurePlayer(id)
      PROVE  QueueType' /\ UNCHANGED entity_shard /\ UNCHANGED vars
  BY <1>7 DEF EnsurePlayer, broker, QueueType
<1> QED
  BY <1>1, <1>2, <1>3, <1>4, <1>5, <1>6, <1>7 DEF RoutingNext

\* The clients and the spatial service, with their messages queued and lost
\* with their connections, drive the broker as Broker specifies.
THEOREM RoutingIsABroker == RoutingSpec => Spec
<1> DEFINE Inv == QueueType /\ entity_shard \in [Ids -> Shards \cup {NoShard}]
<1>1. RoutingInit => Init /\ Inv
  BY EmptySeq DEF RoutingInit, QueueType
<1>2. Inv /\ [RoutingNext]_routingVars => Inv' /\ [Next]_vars
  BY RoutingStep
<1> QED
  BY <1>1, <1>2, PTL DEF RoutingSpec, Spec

\* So here too nothing is sent to a client whose connection has closed, though
\* the spatial service goes on moving its subscription.
THEOREM RoutingSparesTheClosed == RoutingSpec => []ClosedHearNothing
<1>1. OneStream
  BY RoutingAssumption DEF OneStream
<1> QED
  BY <1>1, RoutingIsABroker, TheClosedHearNothing, PTL

-----------------------------------------------------------------------------
(* Type correctness. *)

\* Services and what they have sent: only the living have messages under way.
SendersOK ==
    /\ registered \subseteq Services
    /\ players \subseteq Ids /\ followed \subseteq Ids
    /\ \A c \in registered : socket[c] # "new"
    /\ \A c \in Conns : queue[c] # <<>> => socket[c] = "open"

LEMMA ServicesGrow == TypeOK /\ [Next]_vars => Services \subseteq Services'
<1> SUFFICES ASSUME TypeOK, [Next]_vars PROVE Services \subseteq Services'
  OBVIOUS
<1>1. CASE UNCHANGED lifeline
  BY <1>1 DEF Services
<1>2. ASSUME NEW c \in Conns, NEW s \in Reliable, NEW id \in Ids \cup {NoId}, Join(c, s, id)
      PROVE  Services \subseteq Services'
  BY <1>2, StreamsAssumption DEF Join, Services, TypeOK
<1> QED
  BY <1>1, <1>2
  DEF Next, Connect, Control, Pub, Sub, StopPub, StopSub, TargetedSub, TargetedStopSub, End, RemoveService,
      Disconnect, vars

LEMMA SendersStep ==
    ASSUME TypeOK, QueueType, SendersOK, [Next]_vars, [RoutingNext]_routingVars
    PROVE  SendersOK'
<1>1. Services \subseteq Services'
  BY ServicesGrow
<1>2. registered' \subseteq Services'
  BY <1>1 DEF SendersOK, RoutingNext, Start, Register, Handle, Lose, EnsurePlayer, TrackPosition, routingVars
<1>3. players' \subseteq Ids /\ followed' \subseteq Ids
  BY DEF SendersOK, RoutingNext, Start, Register, Handle, Lose, EnsurePlayer, TrackPosition, NowFollowed,
         routingVars
<1>4. ASSUME NEW d \in Conns, queue'[d] # <<>> PROVE socket'[d] = "open"
  <2>1. ASSUME NEW c \in Conns, Start(c) PROVE socket'[d] = "open"
    BY <1>4, <2>1 DEF Start, Connect, Send, QueueType, SendersOK, TypeOK
  <2>2. ASSUME NEW c \in Conns, Register(c) PROVE socket'[d] = "open"
    BY <1>4, <2>2 DEF Register, Send, QueueType, SendersOK, broker, vars
  <2>3. ASSUME NEW c \in Conns, Handle(c) PROVE socket'[d] = "open"
    <3>1. queue[d] # <<>>
      BY <1>4, <2>3 DEF Handle, QueueType
    <3>2. UNCHANGED socket
      BY <2>3 DEF Handle, Dispatch, Join, Pub, Sub, TargetedSub, TargetedStopSub
    <3> QED
      BY <3>1, <3>2 DEF SendersOK
  <2>4. ASSUME NEW c \in Conns, Lose(c) PROVE socket'[d] = "open"
    <3>1. d # c /\ queue'[d] = queue[d]
      BY <1>4, <2>4 DEF Lose, UnderWayWithout, QueueType
    <3>2. socket'[d] = socket[d]
      BY <2>4, <3>1 DEF Lose, Disconnect, TypeOK
    <3> QED
      BY <1>4, <3>1, <3>2 DEF SendersOK
  <2>5. ASSUME NEW id \in Ids, NEW n \in Shards, TrackPosition(id, n) PROVE socket'[d] = "open"
    BY <1>4, <2>5 DEF TrackPosition, Send, QueueType, SendersOK, broker, vars
  <2>6. CASE UNCHANGED routingVars
    BY <1>4, <2>6 DEF routingVars, broker, vars, SendersOK
  <2>7. ASSUME NEW id \in Ids, EnsurePlayer(id) PROVE socket'[d] = "open"
    BY <1>4, <2>7 DEF EnsurePlayer, broker, vars, SendersOK
  <2> QED
    BY <2>1, <2>2, <2>3, <2>4, <2>5, <2>6, <2>7 DEF RoutingNext
<1>5. \A c \in registered' : socket'[c] # "new"
  <2>1. \A c \in Conns : socket[c] # "new" => socket'[c] # "new"
    BY DEF Next, Connect, Control, Pub, Sub, StopPub, StopSub, Join, TargetedSub, TargetedStopSub, End, Disconnect,
           vars, TypeOK
  <2>2. \A c \in registered' : c \in registered \/ socket[c] = "open"
    BY DEF RoutingNext, Start, Register, Handle, Lose, EnsurePlayer, TrackPosition, routingVars
  <2>3. registered' \subseteq Conns
    BY <1>2 DEF Services
  <2> QED
    BY <2>1, <2>2, <2>3 DEF SendersOK
<1> QED
  BY <1>2, <1>3, <1>4, <1>5 DEF SendersOK

RoutingTypes ==
    TypeOK /\ QueueType /\ SendersOK /\ entity_shard \in [Ids -> Shards \cup {NoShard}]

LEMMA RoutingTypesHold == RoutingSpec => []RoutingTypes
<1> DEFINE Inv == QueueType /\ entity_shard \in [Ids -> Shards \cup {NoShard}]
<1>1. RoutingInit => Inv /\ SendersOK
  BY EmptySeq DEF RoutingInit, QueueType, SendersOK
<1>2. Inv /\ [RoutingNext]_routingVars => Inv' /\ [Next]_vars
  BY RoutingStep
<1>3. TypeOK /\ Inv /\ SendersOK /\ [RoutingNext]_routingVars => SendersOK'
  BY <1>2, SendersStep
<1> QED
  BY <1>1, <1>2, <1>3, RoutingIsABroker, TypeCorrect, PTL DEF RoutingSpec, RoutingTypes

\* The variables have their types, and the queue of a lost connection is empty.
THEOREM RoutingTypeCorrect == RoutingSpec => []RoutingTypeOK
<1>1. RoutingTypes => RoutingTypeOK
  BY DEF RoutingTypes, QueueType, SendersOK, RoutingTypeOK
<1> QED
  BY <1>1, RoutingTypesHold, PTL

-----------------------------------------------------------------------------
(* Queues in which one message has the last word against another. *)

Lacks(q, m) == \A j \in 1 .. Len(q) : q[j] # m

\* After the last "stop" there is no "go".
Stops(q, stop, go) ==
    \E i \in 1 .. Len(q) : q[i] = stop /\ \A j \in 1 .. Len(q) : j > i => q[j] # go

LEMMA Appending ==
    ASSUME NEW S, NEW q \in Seq(S), NEW r \in Seq(S), NEW stop, NEW go
    PROVE  /\ Lacks(q, go) /\ Lacks(r, go) => Lacks(q \o r, go)
           /\ Stops(q, stop, go) /\ Lacks(r, go) => Stops(q \o r, stop, go)
           /\ Stops(r, stop, go) => Stops(q \o r, stop, go)
<1> DEFINE both == q \o r
<1>1. /\ Len(q) \in Nat /\ Len(r) \in Nat /\ Len(both) = Len(q) + Len(r)
      /\ \A i \in 1 .. Len(both) : both[i] = IF i <= Len(q) THEN q[i] ELSE r[i - Len(q)]
  BY ConcatProperties, LenProperties
<1> HIDE DEF both
<1>2. ASSUME Lacks(q, go), Lacks(r, go) PROVE Lacks(both, go)
  BY <1>1, <1>2 DEF Lacks
<1>3. ASSUME Stops(q, stop, go), Lacks(r, go) PROVE Stops(both, stop, go)
  <2>1. PICK i \in 1 .. Len(q) : q[i] = stop /\ \A j \in 1 .. Len(q) : j > i => q[j] # go
    BY <1>3 DEF Stops
  <2>2. i \in 1 .. Len(both) /\ both[i] = stop
    BY <1>1, <2>1
  <2>3. ASSUME NEW j \in 1 .. Len(both), j > i PROVE both[j] # go
    BY <1>1, <1>3, <2>1, <2>3 DEF Lacks
  <2> QED
    BY <2>2, <2>3 DEF Stops
<1>4. ASSUME Stops(r, stop, go) PROVE Stops(both, stop, go)
  <2>1. PICK k \in 1 .. Len(r) : r[k] = stop /\ \A j \in 1 .. Len(r) : j > k => r[j] # go
    BY <1>4 DEF Stops
  <2>2. PICK i \in 1 .. Len(both) : i = Len(q) + k
    BY <1>1
  <2>3. both[i] = stop
    BY <1>1, <2>1, <2>2
  <2>4. ASSUME NEW j \in 1 .. Len(both), j > i PROVE both[j] # go
    BY <1>1, <2>1, <2>2, <2>4
  <2> QED
    BY <2>3, <2>4 DEF Stops
<1> QED
  BY <1>2, <1>3, <1>4 DEF both

LEMMA TakingOther ==
    ASSUME NEW S, NEW q \in Seq(S), q # <<>>, NEW go, Lacks(q, go)
    PROVE  Lacks(Tail(q), go) /\ Head(q) # go
<1>1. /\ Len(q) \in Nat \ {0} /\ Len(Tail(q)) = Len(q) - 1 /\ Head(q) = q[1]
      /\ \A i \in 1 .. Len(Tail(q)) : Tail(q)[i] = q[i + 1]
  BY HeadTailProperties, EmptySeq
<1> QED
  BY <1>1 DEF Lacks

LEMMA Taking ==
    ASSUME NEW S, NEW q \in Seq(S), q # <<>>, NEW stop, NEW go, Stops(q, stop, go)
    PROVE  Stops(Tail(q), stop, go) \/ (Head(q) = stop /\ Lacks(Tail(q), go))
<1>1. /\ Len(q) \in Nat \ {0} /\ Len(Tail(q)) = Len(q) - 1 /\ Head(q) = q[1]
      /\ \A i \in 1 .. Len(Tail(q)) : Tail(q)[i] = q[i + 1]
  BY HeadTailProperties, EmptySeq
<1>2. PICK i \in 1 .. Len(q) : q[i] = stop /\ \A j \in 1 .. Len(q) : j > i => q[j] # go
  BY DEF Stops
<1>3. CASE i = 1
  BY <1>1, <1>2, <1>3 DEF Lacks
<1>4. CASE i # 1
  <2>1. PICK k \in 1 .. Len(Tail(q)) : i = k + 1
    BY <1>1, <1>4
  <2>2. Tail(q)[k] = stop
    BY <1>1, <1>2, <2>1
  <2>3. ASSUME NEW j \in 1 .. Len(Tail(q)), j > k PROVE Tail(q)[j] # go
    BY <1>1, <1>2, <2>1, <2>3
  <2> QED
    BY <2>2, <2>3 DEF Stops
<1> QED
  BY <1>3, <1>4

-----------------------------------------------------------------------------
(* A move of a subscription leaves nothing behind. *)

SubOf(id, n) == Message("Sub", n, id)
StopOf(id, n) == Message("StopSub", n, id)

\* Only the spatial service speaks of others, and a client asks for the first
\* shard alone.
ClientsAsk ==
    \A c \in Conns \ {Spatial} : \A i \in 1 .. Len(queue[c]) :
        queue[c][i].target = NoId /\ (queue[c][i].op = "Sub" => queue[c][i].topic = 0)

\* A client id leads to the client, once that is a service.
ClientsFound ==
    \A id \in Ids : /\ clients[id] \in {NoConn, ClientOf[id]}
                    /\ ClientOf[id] \in Services => clients[id] = ClientOf[id]

\* Once the service has had its entity in the first band, a client has nothing
\* more to say: Sub(0) was the last of its own messages.
FollowedOK == \A id \in followed : ClientOf[id] \in registered /\ queue[ClientOf[id]] = <<>>

\* Of each shard but that of its entity a client hears nothing, or its StopSub
\* is under way, with no Sub behind it; of the first one, to which it subscribes
\* itself, only when it has been followed.
Leaves(id, n) ==
    \/ Stops(queue[Spatial], StopOf(id, n), SubOf(id, n))
    \/ subscriptions[ClientOf[id]][n] = NoStream /\ Lacks(queue[Spatial], SubOf(id, n))

LeftOK ==
    socket[Spatial] # "closed" =>
        \A id \in Ids, n \in Shards :
            n # entity_shard[id] /\ (n # 0 \/ id \in followed) => Leaves(id, n)

LEMMA MessageParts ==
    ASSUME NEW id \in Ids, NEW n
    PROVE  /\ SubOf(id, n).op = "Sub" /\ SubOf(id, n).topic = n /\ SubOf(id, n).target = id
           /\ StopOf(id, n).op = "StopSub" /\ StopOf(id, n).topic = n /\ StopOf(id, n).target = id
           /\ id # NoId
BY NoneAssumption DEF SubOf, StopOf, Message

LEMMA UntargetedRegistration ==
    ASSUME NEW c \in Conns
    PROVE  \A i \in 1 .. Len(Registration(c)) : Registration(c)[i].target = NoId
<1>1. CASE c # Spatial
  <2>1. Registration(c) = <<Message("Pub", Input, NoId), Message("Sub", 0, NoId)>>
    BY <1>1 DEF Registration
  <2> QED
    BY <2>1 DEF Message
<1>2. CASE c = Spatial
  <2> DEFINE Own == [op : {"Pub", "Sub"}, topic : Topics, target : {NoId}]
             subs == [n \in 1 .. ShardCount |-> Message("Sub", n - 1, NoId)]
  <2>1. \A n \in 1 .. ShardCount : Message("Sub", n - 1, NoId) \in Own
    BY RoutingAssumption DEF Shards, Message
  <2>2. subs \in [1 .. ShardCount -> Own]
    BY <2>1
  <2>3. subs \in Seq(Own)
    BY <2>2, RoutingAssumption, SeqDef
  <2>4. <<Message("Pub", View, NoId)>> \in Seq(Own)
    BY RoutingAssumption DEF Message
  <2>5. <<Message("Pub", View, NoId)>> \o subs \in Seq(Own)
    BY ONLY <2>3, <2>4, ConcatProperties
  <2>6. Registration(c) \in Seq(Own)
    BY <1>2, <2>5 DEF Registration
  <2> HIDE DEF subs, Own
  <2>7. \A i \in 1 .. Len(Registration(c)) : Registration(c)[i] \in Own
    BY <2>6, ElementOfSeq
  <2> QED
    BY <2>7 DEF Own
<1> QED
  BY <1>1, <1>2

LEMMA SingleMessage ==
    ASSUME NEW m, NEW stop, NEW go
    PROVE  /\ m # go => Lacks(<<m>>, go)
           /\ m = stop => Stops(<<m>>, stop, go)
BY DEF Lacks, Stops

LEMMA MovedSays ==
    ASSUME NEW moved \in Ids, NEW old \in Shards \cup {NoShard}, NEW new \in Shards,
           NEW id \in Ids, NEW n \in Shards
    PROVE  /\ ~(moved = id /\ new = n) => Lacks(Moved(moved, old, new), SubOf(id, n))
           /\ moved = id /\ old = n /\ new # n => Stops(Moved(moved, old, new), StopOf(id, n), SubOf(id, n))
<1> DEFINE first == IF old = NoShard THEN <<>> ELSE <<StopOf(moved, old)>>
           last == <<SubOf(moved, new)>>
<1>1. first \in Seq(ControlMessages) /\ last \in Seq(ControlMessages)
  <2>1. SubOf(moved, new) \in ControlMessages /\ (old # NoShard => StopOf(moved, old) \in ControlMessages)
    BY RoutingAssumption DEF ControlMessages, SubOf, StopOf, Message
  <2> QED
    BY <2>1
<1>2. Moved(moved, old, new) = first \o last
  BY DEF Moved, SubOf, StopOf
<1>3. StopOf(moved, old) # SubOf(id, n)
  BY DEF StopOf, SubOf, Message
<1>4. Lacks(first, SubOf(id, n))
  BY <1>3, SingleMessage, EmptySeq DEF Lacks
<1>5. ~(moved = id /\ new = n) => Lacks(last, SubOf(id, n))
  BY SingleMessage, MessageParts
<1>6. moved = id /\ old = n => Stops(first, StopOf(id, n), SubOf(id, n))
  BY SingleMessage, RoutingAssumption
<1> HIDE DEF first, last
<1>7. /\ Lacks(last, SubOf(id, n)) => Lacks(first \o last, SubOf(id, n))
      /\ Stops(first, StopOf(id, n), SubOf(id, n)) /\ Lacks(last, SubOf(id, n))
            => Stops(first \o last, StopOf(id, n), SubOf(id, n))
  BY <1>1, <1>4, Appending
<1> QED
  BY <1>2, <1>5, <1>6, <1>7

\* A message that is appended changes what is left of a shard only if it is
\* the Sub to it.
LEMMA LeavesMore ==
    ASSUME QueueType, NEW id \in Ids, NEW n \in Shards, Leaves(id, n), UNCHANGED subscriptions,
           NEW ms \in Seq(ControlMessages), Lacks(ms, SubOf(id, n)),
           queue'[Spatial] = queue[Spatial] \o ms
    PROVE  Leaves(id, n)'
<1>1. queue[Spatial] \in Seq(ControlMessages)
  BY RoutingAssumption DEF QueueType
<1> QED
  BY <1>1, Appending DEF Leaves

\* What becomes of a client's subscription when the broker takes a message.
LEMMA HandleSpares ==
    ASSUME RoutingTypes, ClientsAsk, ClientsFound, NEW c \in Conns, Handle(c),
           NEW id \in Ids, NEW n \in Shards, n # 0 \/ queue[ClientOf[id]] = <<>>,
           ~(c = Spatial /\ Head(queue[c]) = SubOf(id, n))
    PROVE  subscriptions'[ClientOf[id]][n] \in {NoStream, subscriptions[ClientOf[id]][n]}
<1> DEFINE m == Head(queue[c])
           d == ClientOf[id]
<1>1. d \in Conns /\ d # Spatial /\ n \in Topics
      /\ subscriptions \in [Conns -> [Topics -> Streams \cup {NoStream}]]
  BY RoutingAssumption DEF RoutingTypes, TypeOK
<1>2. m \in ControlMessages /\ (c # Spatial => m.target = NoId /\ (m.op = "Sub" => m.topic = 0))
  <2>1. /\ queue[c] \in Seq(ControlMessages) /\ queue[c] # <<>>
    BY DEF RoutingTypes, QueueType, Handle
  <2>2. m = queue[c][1] /\ 1 \in 1 .. Len(queue[c]) /\ m \in ControlMessages
    BY <2>1, EmptySeq, HeadTailProperties
  <2> QED
    BY <2>2 DEF ClientsAsk
<1>3. m.op # "JOIN" => m.topic \in Topics
  BY <1>2 DEF ControlMessages, Hello, Message
<1>4. CASE Join(c, ReliableStream, IdOf(c))
  BY <1>1, <1>4 DEF Join, Empty
<1>5. CASE m.op = "Pub" /\ Pub(c, m.topic, GameplayStream)
  BY <1>5 DEF Pub
<1>6. CASE m.op = "Sub" /\ m.target = NoId /\ Sub(c, m.topic, GameplayStream)
  <2>1. c = d => m.topic # n
    BY <1>1, <1>2, <1>6 DEF Handle
  <2> QED
    BY <1>1, <1>3, <1>6, <2>1 DEF Sub, Subscribe
<1>7. CASE m.op = "Sub" /\ m.target # NoId /\ TargetedSub(c, m.topic, m.target)
  <2>1. c = Spatial /\ m.target \in Ids /\ m = SubOf(m.target, m.topic)
    BY <1>2, <1>7 DEF ControlMessages, Hello, Message, SubOf
  <2>2. CASE UNCHANGED subscriptions
    BY <2>2
  <2>3. ASSUME clients[m.target] \in Services, NEW s, Subscribe(clients[m.target], m.topic, s)
        PROVE  subscriptions'[d][n] \in {NoStream, subscriptions[d][n]}
    <3>1. clients[m.target] = ClientOf[m.target]
      BY <2>1, <2>3, NoneAssumption DEF ClientsFound, Services
    <3>2. ClientOf[m.target] = d => m.topic # n
      BY <2>1, RoutingAssumption
    <3> QED
      BY <1>1, <1>3, <1>7, <2>3, <3>1, <3>2 DEF Subscribe
  <2> QED
    BY <1>7, <2>2, <2>3 DEF TargetedSub
<1>8. CASE m.op = "StopSub" /\ TargetedStopSub(c, m.topic, m.target)
  BY <1>1, <1>3, <1>8 DEF TargetedStopSub, Unsubscribe
<1> QED
  BY <1>4, <1>5, <1>6, <1>7, <1>8 DEF Handle, Dispatch

LEMMA StopClears ==
    ASSUME RoutingTypes, ClientsFound, Handle(Spatial),
           NEW id \in Ids, NEW n \in Shards, Head(queue[Spatial]) = StopOf(id, n)
    PROVE  subscriptions'[ClientOf[id]][n] = NoStream
<1>1. TargetedStopSub(Spatial, n, id)
  BY MessageParts DEF Handle, Dispatch
<1>2. ClientOf[id] \in Conns /\ n \in Topics
      /\ subscriptions \in [Conns -> [Topics -> Streams \cup {NoStream}]]
  BY RoutingAssumption DEF RoutingTypes, TypeOK
<1>3. CASE ClientOf[id] \in Services
  <2>1. clients[id] = ClientOf[id]
    BY <1>3 DEF ClientsFound
  <2> QED
    BY <1>1, <1>2, <1>3, <2>1 DEF TargetedStopSub, Unsubscribe
<1>4. CASE ClientOf[id] \notin Services
  <2>1. subscriptions[ClientOf[id]][n] = NoStream
    BY <1>2, <1>4 DEF RoutingTypes, TypeOK
  <2>2. clients[id] \notin Services
    BY <1>4, NoneAssumption DEF ClientsFound, Services
  <2> QED
    BY <1>1, <2>1, <2>2 DEF TargetedStopSub
<1> QED
  BY <1>3, <1>4

LEMMA ClientsAskStep ==
    ASSUME RoutingTypes, ClientsAsk, [RoutingNext]_routingVars
    PROVE  ClientsAsk'
<1> DEFINE Fine(m) == m.target = NoId /\ (m.op = "Sub" => m.topic = 0)
<1> SUFFICES ASSUME NEW d \in Conns \ {Spatial}, NEW i \in 1 .. Len(queue'[d])
             PROVE  Fine(queue'[d][i])
  BY DEF ClientsAsk
<1>0. queue[d] \in Seq(ControlMessages) /\ \A k \in 1 .. Len(queue[d]) : Fine(queue[d][k])
  BY DEF ClientsAsk, RoutingTypes, QueueType
<1>1. ASSUME NEW ms \in Seq(ControlMessages), Send(d, ms), \A k \in 1 .. Len(ms) : Fine(ms[k])
      PROVE  Fine(queue'[d][i])
  <2>1. queue'[d] = queue[d] \o ms
    BY <1>1 DEF Send, RoutingTypes, QueueType
  <2>2. /\ Len(queue[d]) \in Nat /\ Len(ms) \in Nat /\ Len(queue'[d]) = Len(queue[d]) + Len(ms)
        /\ queue'[d][i] = IF i <= Len(queue[d]) THEN queue[d][i] ELSE ms[i - Len(queue[d])]
    BY <1>0, <2>1, ConcatProperties, LenProperties
  <2>3. i > Len(queue[d]) => i - Len(queue[d]) \in 1 .. Len(ms)
    BY <2>2
  <2> HIDE DEF Fine
  <2> QED
    BY <1>0, <1>1, <2>2, <2>3
<1>2. CASE Start(d)
  <2>1. <<Hello>> \in Seq(ControlMessages) /\ \A k \in 1 .. Len(<<Hello>>) : Fine(<<Hello>>[k])
    BY MessagesAreTyped DEF Hello, Message
  <2> QED
    BY <1>1, <1>2, <2>1 DEF Start
<1>3. CASE Register(d)
  <2>1. Registration(d) = <<Message("Pub", Input, NoId), Message("Sub", 0, NoId)>>
        /\ Registration(d) \in Seq(ControlMessages)
    BY MessagesAreTyped DEF Registration
  <2>2. \A k \in 1 .. Len(Registration(d)) : Fine(Registration(d)[k])
    BY <2>1 DEF Message
  <2> QED
    BY <1>1, <1>3, <2>1, <2>2 DEF Register
<1>4. CASE Handle(d)
  <2>1. queue[d] # <<>> /\ queue'[d] = Tail(queue[d])
    BY <1>4 DEF Handle, RoutingTypes, QueueType
  <2>2. Len(queue[d]) \in Nat \ {0} /\ Len(queue'[d]) = Len(queue[d]) - 1 /\ queue'[d][i] = queue[d][i + 1]
    BY <1>0, <2>1, HeadTailProperties, EmptySeq
  <2>3. i + 1 \in 1 .. Len(queue[d])
    BY <2>2
  <2> QED
    BY <1>0, <2>2, <2>3
<1>5. CASE queue'[d] = <<>>
  BY <1>5, EmptySeq
<1>6. CASE queue'[d] = queue[d]
  BY <1>0, <1>6
<1>7. ASSUME NEW c \in Conns, c # d, Start(c) \/ Register(c) \/ Handle(c) PROVE queue'[d] = queue[d]
  BY <1>7 DEF Start, Register, Handle, Send, RoutingTypes, QueueType
<1>8. ASSUME NEW c \in Conns, Lose(c) PROVE queue'[d] \in {<<>>, queue[d]}
  BY <1>8 DEF Lose, UnderWayWithout, RoutingTypes, QueueType
<1>9. ASSUME NEW id \in Ids, NEW n \in Shards, TrackPosition(id, n) PROVE queue'[d] = queue[d]
  BY <1>9, RoutingAssumption DEF TrackPosition, Send, RoutingTypes, QueueType
<1>10. ASSUME NEW id \in Ids, EnsurePlayer(id) PROVE queue'[d] = queue[d]
  BY <1>10 DEF EnsurePlayer
<1> HIDE DEF Fine
<1> QED
  BY <1>2, <1>3, <1>4, <1>5, <1>6, <1>7, <1>8, <1>9, <1>10 DEF RoutingNext, routingVars

LEMMA ClientsFoundStep ==
    ASSUME RoutingTypes, ClientsFound, [RoutingNext]_routingVars
    PROVE  ClientsFound'
<1>1. CASE UNCHANGED <<lifeline, clients>>
  BY <1>1 DEF ClientsFound, Services
<1>2. ASSUME NEW c \in Conns, Join(c, ReliableStream, IdOf(c)) PROVE ClientsFound'
  <2>0. lifeline' = [lifeline EXCEPT ![c] = ReliableStream] /\ TypeOK
        /\ clients' = IF IdOf(c) = NoId THEN clients ELSE [clients EXCEPT ![IdOf(c)] = c]
    BY <1>2 DEF Join, RoutingTypes
  <2>1. \A d \in Conns : d # c => (d \in Services' <=> d \in Services)
    BY <2>0 DEF Services, TypeOK
  <2>2. CASE c = Spatial
    <3>1. clients' = clients /\ \A id \in Ids : ClientOf[id] \in Conns \ {c}
      BY <2>0, <2>2, RoutingAssumption DEF IdOf
    <3> QED
      BY <2>1, <3>1 DEF ClientsFound
  <2>3. CASE c # Spatial
    <3>1. IdOf(c) \in Ids /\ ClientOf[IdOf(c)] = c
      BY <2>3, RoutingAssumption DEF IdOf
    <3>2. clients' = [clients EXCEPT ![IdOf(c)] = c]
      BY <2>0, <3>1, NoneAssumption
    <3>3. \A id \in Ids : ClientOf[id] \in Conns /\ (id # IdOf(c) => ClientOf[id] # c)
      BY <3>1, RoutingAssumption
    <3> QED
      BY <2>0, <2>1, <3>1, <3>2, <3>3 DEF ClientsFound, TypeOK
  <2> QED
    BY <2>2, <2>3
<1> QED
  BY <1>1, <1>2
  DEF RoutingNext, Start, Connect, Register, Handle, Dispatch, Pub, Sub, TargetedSub, TargetedStopSub, Lose,
      Disconnect, RemoveService, EnsurePlayer, TrackPosition, routingVars, broker, vars

LEMMA FollowedStep ==
    ASSUME RoutingTypes, FollowedOK, [RoutingNext]_routingVars
    PROVE  FollowedOK'
<1> SUFFICES ASSUME NEW id \in Ids, id \in followed, id \notin NowFollowed'
             PROVE  ClientOf[id] \in registered' /\ queue'[ClientOf[id]] = <<>>
  <2>1. followed' \subseteq followed \cup NowFollowed' /\ followed \subseteq Ids
    BY DEF RoutingNext, Start, Register, Handle, Lose, EnsurePlayer, TrackPosition, routingVars, RoutingTypes,
           SendersOK
  <2> QED
    BY <2>1 DEF FollowedOK, NowFollowed
<1> DEFINE d == ClientOf[id]
<1>1. d \in Conns \ {Spatial} /\ d \in registered /\ queue[d] = <<>> /\ QueueType
  BY RoutingAssumption DEF FollowedOK, RoutingTypes
<1>2. socket[d] # "new"
  BY <1>1 DEF RoutingTypes, SendersOK
<1>3. d \in registered'
  BY <1>1 DEF RoutingNext, Start, Register, Handle, Lose, EnsurePlayer, TrackPosition, routingVars
<1>4. ~Start(d) /\ ~Register(d) /\ ~Handle(d)
  BY <1>1, <1>2 DEF Start, Connect, Register, Handle
<1>5. ASSUME NEW c \in Conns, Start(c) \/ Register(c) \/ Handle(c) PROVE queue'[d] = queue[d]
  <2>1. c # d
    BY <1>4, <1>5
  <2> QED
    BY <1>1, <1>5, <2>1 DEF Start, Register, Handle, Send, QueueType
<1>6. ASSUME NEW c \in Conns, Lose(c) PROVE queue'[d] = <<>>
  BY <1>1, <1>6 DEF Lose, UnderWayWithout, QueueType
<1>7. ASSUME NEW moved \in Ids, NEW n \in Shards, TrackPosition(moved, n) PROVE queue'[d] = queue[d]
  BY <1>1, <1>7 DEF TrackPosition, Send, QueueType
<1>8. ASSUME NEW made \in Ids, EnsurePlayer(made) PROVE queue'[d] = queue[d]
  BY <1>8 DEF EnsurePlayer
<1>9. CASE UNCHANGED routingVars
  BY <1>1, <1>9 DEF routingVars
<1> QED
  BY <1>1, <1>3, <1>5, <1>6, <1>7, <1>8, <1>9 DEF RoutingNext

LEMMA LeftStep ==
    ASSUME RoutingTypes, ClientsAsk, ClientsFound, FollowedOK, LeftOK, [RoutingNext]_routingVars
    PROVE  LeftOK'
<1> SUFFICES ASSUME socket'[Spatial] # "closed", NEW id \in Ids, NEW n \in Shards, n # entity_shard'[id],
                    n # 0 \/ id \in followed
             PROVE  Leaves(id, n)'
  <2>1. followed' \subseteq followed \cup NowFollowed'
    BY DEF RoutingNext, Start, Register, Handle, Lose, EnsurePlayer, TrackPosition, routingVars
  <2>2. \A i \in NowFollowed' : entity_shard'[i] = 0
    BY DEF NowFollowed
  <2> QED
    BY <2>1, <2>2 DEF LeftOK
<1>0. /\ Spatial \in Conns /\ ClientOf[id] \in Conns \ {Spatial} /\ n \in Topics
      /\ QueueType /\ TypeOK /\ queue[Spatial] \in Seq(ControlMessages)
  BY RoutingAssumption DEF RoutingTypes, QueueType
<1>1. socket[Spatial] # "closed"
  BY <1>0 DEF RoutingNext, Start, Connect, Register, Handle, Dispatch, Join, Pub, Sub, TargetedSub,
              TargetedStopSub, Lose, Disconnect, EnsurePlayer, TrackPosition, routingVars, broker, vars, TypeOK
<1>2. (n # entity_shard[id] => Leaves(id, n)) /\ (n # 0 \/ queue[ClientOf[id]] = <<>>)
  BY <1>1 DEF LeftOK, FollowedOK
<1>3. ASSUME NEW c \in Conns, NEW ms \in Seq(ControlMessages), Send(c, ms), Lacks(ms, SubOf(id, n)),
             UNCHANGED <<subscriptions, entity_shard>>
      PROVE  Leaves(id, n)'
  <2>1. CASE c = Spatial
    BY <1>0, <1>2, <1>3, <2>1, LeavesMore DEF Send, QueueType
  <2>2. CASE c # Spatial
    BY <1>0, <1>2, <1>3, <2>2 DEF Send, QueueType, Leaves
  <2> QED
    BY <2>1, <2>2
<1>4. ASSUME NEW c \in Conns, Start(c) PROVE Leaves(id, n)'
  <2>1. Hello # SubOf(id, n)
    BY DEF Hello, SubOf, Message
  <2>2. <<Hello>> \in Seq(ControlMessages) /\ Lacks(<<Hello>>, SubOf(id, n))
    BY <2>1, MessagesAreTyped, SingleMessage
  <2> QED
    BY <1>3, <1>4, <2>2 DEF Start, Connect
<1>5. ASSUME NEW c \in Conns, Register(c) PROVE Leaves(id, n)'
  <2>1. Lacks(Registration(c), SubOf(id, n))
    BY UntargetedRegistration, MessageParts DEF Lacks
  <2>2. Registration(c) \in Seq(ControlMessages)
    BY MessagesAreTyped
  <2> QED
    BY <1>3, <1>5, <2>1, <2>2 DEF Register, broker, vars
<1>6. ASSUME NEW c \in Conns, Handle(c) PROVE Leaves(id, n)'
  <2>0. UNCHANGED entity_shard /\ Leaves(id, n)
    BY <1>2, <1>6 DEF Handle
  <2>1. CASE c # Spatial
    <3>1. queue'[Spatial] = queue[Spatial]
      BY <1>0, <1>6, <2>1 DEF Handle, QueueType
    <3>2. subscriptions'[ClientOf[id]][n] \in {NoStream, subscriptions[ClientOf[id]][n]}
      BY <1>2, <1>6, <2>1, HandleSpares
    <3> QED
      BY <2>0, <3>1, <3>2 DEF Leaves
  <2>2. CASE c = Spatial
    <3>1. queue[Spatial] # <<>> /\ queue'[Spatial] = Tail(queue[Spatial])
      BY <1>0, <1>6, <2>2 DEF Handle, QueueType
    <3>2. CASE Stops(queue'[Spatial], StopOf(id, n), SubOf(id, n))
      BY <3>2 DEF Leaves
    <3>3. CASE Head(queue[Spatial]) = StopOf(id, n) /\ Lacks(queue'[Spatial], SubOf(id, n))
      BY <1>6, <2>2, <3>3, StopClears DEF Leaves
    <3>4. CASE subscriptions[ClientOf[id]][n] = NoStream /\ Lacks(queue[Spatial], SubOf(id, n))
      <4>1. Lacks(queue'[Spatial], SubOf(id, n)) /\ Head(queue[Spatial]) # SubOf(id, n)
        BY <1>0, <3>1, <3>4, TakingOther
      <4>2. subscriptions'[ClientOf[id]][n] = NoStream
        BY <1>2, <1>6, <2>2, <3>4, <4>1, HandleSpares
      <4> QED
        BY <4>1, <4>2 DEF Leaves
    <3> QED
      BY <1>0, <2>0, <3>1, <3>2, <3>3, <3>4, Taking DEF Leaves
  <2> QED
    BY <2>1, <2>2
<1>7. ASSUME NEW c \in Conns, Lose(c) PROVE Leaves(id, n)'
  <2>1. c # Spatial
    BY <1>0, <1>7 DEF Lose, Disconnect, TypeOK
  <2>2. queue'[Spatial] = queue[Spatial] /\ UNCHANGED entity_shard
    BY <1>0, <1>7, <2>1 DEF Lose, UnderWayWithout, QueueType
  <2>3. subscriptions'[ClientOf[id]][n] \in {NoStream, subscriptions[ClientOf[id]][n]}
    BY <1>0, <1>7, RemoveServiceType DEF Lose, Disconnect
  <2> QED
    BY <1>2, <2>2, <2>3 DEF Leaves
<1>8. ASSUME NEW moved \in Ids, NEW new \in Shards, TrackPosition(moved, new) PROVE Leaves(id, n)'
  <2> DEFINE ms == Moved(moved, entity_shard[moved], new)
  <2>0. /\ entity_shard[moved] \in Shards \cup {NoShard}
        /\ entity_shard' = [entity_shard EXCEPT ![moved] = new]
        /\ entity_shard \in [Ids -> Shards \cup {NoShard}] /\ UNCHANGED subscriptions
    BY <1>8 DEF TrackPosition, RoutingTypes, broker, vars
  <2>1. ms \in Seq(ControlMessages) /\ queue'[Spatial] = queue[Spatial] \o ms
    BY <1>0, <1>8, <2>0, MessagesAreTyped DEF TrackPosition, Send, QueueType
  <2>2. ~(moved = id /\ new = n)
    BY <2>0
  <2>3. Lacks(ms, SubOf(id, n))
    BY <2>0, <2>2, MovedSays
  <2>4. CASE n # entity_shard[id]
    <3> HIDE DEF ms
    <3> QED
      BY <1>0, <1>2, <2>0, <2>1, <2>3, <2>4, LeavesMore
  <2>5. CASE n = entity_shard[id]
    <3>1. moved = id
      BY <2>0, <2>5
    <3>2. Stops(ms, StopOf(id, n), SubOf(id, n))
      BY <2>0, <2>2, <2>5, <3>1, MovedSays
    <3> HIDE DEF ms
    <3>3. Stops(queue[Spatial] \o ms, StopOf(id, n), SubOf(id, n))
      BY <1>0, <2>1, <3>2, Appending
    <3> QED
      BY <2>1, <3>3 DEF Leaves
  <2> QED
    BY <2>4, <2>5
<1>9. CASE UNCHANGED routingVars
  BY <1>2, <1>9 DEF routingVars, broker, vars, Leaves
<1>10. ASSUME NEW made \in Ids, EnsurePlayer(made) PROVE Leaves(id, n)'
  BY <1>2, <1>10 DEF EnsurePlayer, broker, vars, Leaves
<1> QED
  BY <1>4, <1>5, <1>6, <1>7, <1>8, <1>9, <1>10 DEF RoutingNext

\* Once the broker has handled everything, a client hears no shard but its
\* entity's: a StopSub has the last word on every other.  Of the first shard,
\* to which the client itself subscribes, this holds once the service has had
\* the entity there with that subscription handled, and of no client before.
THEOREM NoViewIsStale == RoutingSpec => []NoStaleView
<1> DEFINE Inv == RoutingTypes /\ ClientsAsk /\ ClientsFound /\ FollowedOK /\ LeftOK
<1>1. RoutingInit => ClientsAsk /\ ClientsFound /\ FollowedOK /\ LeftOK
  <2> SUFFICES ASSUME RoutingInit PROVE ClientsAsk /\ ClientsFound /\ FollowedOK /\ LeftOK
    OBVIOUS
  <2>1. \A c \in Conns : queue[c] = <<>>
    BY DEF RoutingInit
  <2>2. ClientsAsk
    BY <2>1, EmptySeq DEF ClientsAsk
  <2>3. ClientsFound
    BY RoutingAssumption DEF RoutingInit, Init, Empty, Services, ClientsFound
  <2>4. LeftOK
    <3>1. ASSUME NEW id \in Ids, NEW n \in Shards PROVE subscriptions[ClientOf[id]][n] = NoStream
      BY RoutingAssumption DEF RoutingInit, Init, Empty
    <3> QED
      BY <2>1, <3>1, EmptySeq, RoutingAssumption DEF LeftOK, Leaves, Lacks
  <2>5. FollowedOK
    BY DEF RoutingInit, FollowedOK
  <2> QED
    BY <2>2, <2>3, <2>4, <2>5
<1>2. Inv /\ [RoutingNext]_routingVars => (ClientsAsk /\ ClientsFound /\ FollowedOK /\ LeftOK)'
  BY ClientsAskStep, ClientsFoundStep, FollowedStep, LeftStep
<1>3. LeftOK => NoStaleView
  <2> SUFFICES ASSUME LeftOK, Settled, socket[Spatial] = "open", NEW id \in Ids, NEW n \in Shards,
                      subscriptions[ClientOf[id]][n] # NoStream, n # entity_shard[id],
                      n # 0 \/ id \in followed
               PROVE  FALSE
    BY DEF NoStaleView
  <2>1. Leaves(id, n)
    BY DEF LeftOK
  <2>2. Len(queue[Spatial]) = 0
    BY EmptySeq, RoutingAssumption DEF Settled
  <2> QED
    BY <2>1, <2>2 DEF Leaves, Stops
<1> QED
  BY <1>1, <1>2, <1>3, RoutingTypesHold, PTL DEF RoutingSpec
=============================================================================
