------------------------------- MODULE Session --------------------------------
(***************************************************************************)
(* How a shard, the spatial service and a client get to be services of the *)
(* broker and lose it again: the connection, the two streams each of them  *)
(* opens in any order, JOIN and WELCOME, the registration of what it       *)
(* publishes and hears, the loss of the connection, which either side      *)
(* notices in its own time.  The broker is that of module Broker; the      *)
(* reliable streams are queues, one each way.                              *)
(***************************************************************************)
EXTENDS Broker, Naturals, FiniteSets, Sequences

CONSTANTS
    Shards,         \* the connections of the dedicated servers ...
    ShardIdOf,      \* ... and their SHARD_ID; Topic::Snapshot(n) is written n
    Spatial,        \* the spatial service's connection
    ClientIdOf,     \* ClientIdOf[c]: the id of the client on connection c
    ShardCount,     \* SHARD_COUNT
    Input,          \* Topic::Input(0)
    View,           \* Topic::View(0), the spatial service's control topic
    ReliableStream, \* the two streams each of them opens
    GameplayStream,
    MaxQueue,       \* bound on the JOINs a client has under way
    MaxLost         \* bound on the connections that break

Clients == DOMAIN ClientIdOf

ASSUME SessionAssumption ==
    /\ Conns = Shards \cup {Spatial} \cup Clients
    /\ Spatial \notin Shards \cup Clients /\ Shards \cap Clients = {}
    /\ ShardIdOf \in [Shards -> 0 .. ShardCount - 1] /\ ShardCount \in Nat \ {0}
    /\ \A c, d \in Shards : ShardIdOf[c] = ShardIdOf[d] => c = d
    /\ ClientIdOf \in [Clients -> Ids]
    /\ \A c, d \in Clients : ClientIdOf[c] = ClientIdOf[d] => c = d
    /\ Topics = 0 .. ShardCount \cup {Input, View} /\ {Input, View} \cap 0 .. ShardCount = {}
    /\ Streams = {ReliableStream, GameplayStream} /\ Reliable = {ReliableStream}
    /\ ReliableStream # GameplayStream /\ Named = {GameplayStream, NoStream}
    /\ MaxQueue \in Nat \ {0} /\ MaxLost \in Nat

VARIABLES
    app,        \* a client's AppState; the other processes just run
    session,    \* session[c]: what the process on c holds of its connection
    lost,       \* the connections that have broken
    up, down    \* up[c], down[c]: what is under way to, and from, the broker

brokerVars == vars
sessionVars == <<brokerVars, app, session, lost, up, down>>

\* Nothing of a connection, which is "awaited" at first and "gone" at last.
NoSession(connection) == [connection |-> connection, streams |-> {}, joined |-> FALSE,
                          welcomed |-> FALSE, registered |-> FALSE]

SessionInit ==
    /\ Init
    /\ app = [c \in Conns |-> IF c \in Clients THEN "Login" ELSE "Running"]
    /\ session = [c \in Conns |-> NoSession("awaited")]
    /\ lost = {}
    /\ up = [c \in Conns |-> <<>>] /\ down = [c \in Conns |-> <<>>]

-----------------------------------------------------------------------------
(* The connection and its events. *)

\* A client first logs in at the gatekeeper, and then connects.
LogIn(c) ==
    /\ app[c] = "Login"
    /\ app' = [app EXCEPT ![c] = "Connecting"]
    /\ UNCHANGED <<brokerVars, session, lost, up, down>>

\* The broker takes the connection; the process hears of it later.
Open(c) ==
    /\ app[c] # "Login"
    /\ Connect(c)
    /\ UNCHANGED <<app, session, lost, up, down>>

\* Connected: asks for the two streams.
HearConnected(c) ==
    /\ socket[c] # "new" /\ session[c].connection = "awaited"
    /\ session' = [session EXCEPT ![c].connection = "some"]
    /\ UNCHANGED <<brokerVars, app, lost, up, down>>

\* StreamCreated, for the one or the other first.
HearStream(c, s) ==
    /\ session[c].connection = "some" /\ s \notin session[c].streams /\ c \notin lost
    /\ session' = [session EXCEPT ![c].streams = @ \cup {s}]
    /\ UNCHANGED <<brokerVars, app, lost, up, down>>

\* The connection breaks: what was sent last may not arrive.
Break(c) ==
    /\ socket[c] = "open" /\ c \notin lost /\ Cardinality(lost) < MaxLost
    /\ lost' = lost \cup {c}
    /\ \E m \in 0 .. Len(up[c]), n \in 0 .. Len(down[c]) :
          /\ up' = [up EXCEPT ![c] = SubSeq(@, 1, m)]
          /\ down' = [down EXCEPT ![c] = SubSeq(@, 1, n)]
    /\ UNCHANGED <<brokerVars, app, session>>

\* Mutant: the process believes it is still registered.
StillRegistered(c) == [NoSession("gone") EXCEPT !.registered = session[c].registered]

WithoutSession(c) == NoSession("gone")

\* Disconnected, after what had arrived before: nobody connects again.
HearLost(c) ==
    /\ c \in lost /\ session[c].connection = "some" /\ down[c] = <<>>
    /\ session' = [session EXCEPT ![c] = WithoutSession(c)]
    /\ app' = IF c \in Clients THEN [app EXCEPT ![c] = "Disconnected"] ELSE app
    /\ UNCHANGED <<brokerVars, lost, up, down>>

-----------------------------------------------------------------------------
(* drive_broker_session of a shard and of the spatial service;            *)
(* connection_request and register_pubsub of a client.                    *)

Has(c, s) == session[c].connection = "some" /\ s \in session[c].streams

\* unreliable_stream.clone(), in every control message.
NamedStream(c) == IF Has(c, GameplayStream) THEN GameplayStream ELSE NoStream

Hello == [op |-> "JOIN", topic |-> NoTopic, stream |-> NoStream]
Welcome == "WELCOME"

\* What is sent on a connection that has broken goes nowhere.
Send(c, ms) == up' = IF c \in lost THEN up ELSE [up EXCEPT ![c] = @ \o ms]

\* Once for a shard or the spatial service.
SendJoin(c) ==
    /\ c \notin Clients
    /\ Has(c, ReliableStream) /\ ~session[c].joined
    /\ Send(c, <<Hello>>)
    /\ session' = [session EXCEPT ![c].joined = TRUE]
    /\ UNCHANGED <<brokerVars, app, lost, down>>

\* A client repeats it in every frame until it is in the game.
RepeatJoin(c) ==
    /\ app[c] = "Connecting"
    /\ Has(c, ReliableStream) /\ Len(up[c]) < MaxQueue
    /\ Send(c, <<Hello>>)
    /\ UNCHANGED <<brokerVars, app, session, lost, down>>

HearWelcome(c) ==
    /\ down[c] # <<>>
    /\ session' = [session EXCEPT ![c].welcomed = TRUE]
    /\ down' = [down EXCEPT ![c] = Tail(@)]
    /\ UNCHANGED <<brokerVars, app, lost, up>>

\* The state that a client's network_poll has set is entered in the next frame.
EnterGame(c) ==
    /\ app[c] = "Connecting" /\ session[c].welcomed
    /\ app' = [app EXCEPT ![c] = "InGame"]
    /\ UNCHANGED <<brokerVars, session, lost, up, down>>

\* The topic a process publishes, and those it asks for, in this order.
Own(c) == IF c \in Shards THEN ShardIdOf[c] ELSE IF c = Spatial THEN View ELSE Input

Wanted(c) ==
    LET n == ShardIdOf[c]
    IN  IF c \in Shards THEN (IF n > 0 THEN <<n - 1>> ELSE <<>>) \o <<n + 1, View, Input>>
        ELSE IF c = Spatial THEN [i \in 1 .. ShardCount |-> i - 1]
        ELSE <<0>>

Ask(op, t, c) == [op |-> op, topic |-> t, stream |-> NamedStream(c)]

Registration(c) ==
    <<Ask("Pub", Own(c), c)>> \o [i \in DOMAIN Wanted(c) |-> Ask("Sub", Wanted(c)[i], c)]

\* Mutant: the gameplay stream need not be there yet.
ReadyEarly(c) ==
    IF c \in Clients THEN app[c] = "InGame" /\ Has(c, ReliableStream)
    ELSE session[c].joined /\ session[c].welcomed

\* Mutant: nobody waits for the WELCOME, nor joins first.
ReadyUnasked(c) == Has(c, ReliableStream) /\ Has(c, GameplayStream)

Ready(c) ==
    /\ Has(c, ReliableStream) /\ Has(c, GameplayStream)
    /\ IF c \in Clients THEN app[c] = "InGame" ELSE session[c].joined /\ session[c].welcomed

Register(c) ==
    /\ Ready(c) /\ ~session[c].registered
    /\ Send(c, Registration(c))
    /\ session' = [session EXCEPT ![c].registered = TRUE]
    /\ UNCHANGED <<brokerVars, app, lost, down>>

-----------------------------------------------------------------------------
(* The broker: what comes on a reliable stream, and the loss of it. *)

\* Mutant: the id in a JOIN is not read.
NoIdIn(c) == NoId

\* The id in the JOIN of c: "spatial" and "shard n" are no numbers.
IdOf(c) == IF c \in Clients THEN ClientIdOf[c] ELSE NoId

\* Mutant: only who has an id is welcomed.
AnswerToClients(c) == IF IdOf(c) = NoId THEN <<>> ELSE <<Welcome>>

Answer(c) == <<Welcome>>

\* The first JOIN of a connection makes it a service; the next are not
\* messages the broker can decode, and what comes before it is no JOIN.
Admit(c, m) ==
    /\ m.op = "JOIN"
    /\ Join(c, ReliableStream, IdOf(c))
    /\ down' = IF c \in lost THEN down ELSE [down EXCEPT ![c] = @ \o Answer(c)]

Ignore(c, m) ==
    /\ (m.op = "JOIN") = (c \in Services)
    /\ UNCHANGED <<brokerVars, down>>

Obey(c, m) ==
    /\ \/ m.op = "Pub" /\ Pub(c, m.topic, m.stream)
       \/ m.op = "Sub" /\ Sub(c, m.topic, m.stream)
    /\ UNCHANGED down

Handle(c) ==
    /\ socket[c] = "open" /\ up[c] # <<>>
    /\ up' = [up EXCEPT ![c] = Tail(@)]
    /\ Admit(c, Head(up[c])) \/ Ignore(c, Head(up[c])) \/ Obey(c, Head(up[c]))
    /\ UNCHANGED <<app, session, lost>>

\* Disconnected, after everything that had arrived: remove_service.
NoticeLost(c) ==
    /\ c \in lost /\ up[c] = <<>>
    /\ Disconnect(c)
    /\ UNCHANGED <<app, session, lost, up, down>>

-----------------------------------------------------------------------------
\* What a process on c does once.
Advance(c) ==
    \/ HearConnected(c) \/ (\E s \in Streams : HearStream(c, s)) \/ HearLost(c)
    \/ SendJoin(c) \/ HearWelcome(c) \/ EnterGame(c) \/ Register(c)

Serve(c) == Handle(c) \/ NoticeLost(c)

SessionNext ==
    \E c \in Conns : LogIn(c) \/ Open(c) \/ Break(c) \/ Advance(c) \/ RepeatJoin(c) \/ Serve(c)

\* The streams are created and deliver while the connection lasts, every
\* process keeps its frames going and the broker polls.  No more is asked
\* than that somebody goes on, as nobody goes on for ever.
SessionFairness ==
    /\ WF_sessionVars(\E c \in Conns : Advance(c))
    /\ WF_sessionVars(\E c \in Conns : RepeatJoin(c))
    /\ WF_sessionVars(\E c \in Conns : Serve(c))

SessionSpec == SessionInit /\ [][SessionNext]_sessionVars /\ SessionFairness

-----------------------------------------------------------------------------
(* Properties. *)

Messages == [op : {"JOIN"}, topic : {NoTopic}, stream : {NoStream}]
            \cup [op : {"Pub", "Sub"}, topic : Topics, stream : {GameplayStream, NoStream}]

\* The variables have their types; a process that believes it is registered
\* has a connection with both streams, and whoever has lost it believes
\* nothing any more.
SessionTypeOK ==
    /\ TypeOK
    /\ app \in [Conns -> {"Running", "Login", "Connecting", "InGame", "Disconnected"}]
    /\ session \in [Conns -> [connection : {"awaited", "some", "gone"}, streams : SUBSET Streams,
                              joined : BOOLEAN, welcomed : BOOLEAN, registered : BOOLEAN]]
    /\ lost \subseteq Conns
    /\ \A c \in Conns :
          /\ up[c] \in Seq(Messages) /\ down[c] \in Seq({Welcome})
          /\ session[c].registered => Has(c, ReliableStream) /\ Has(c, GameplayStream)
          /\ session[c].connection # "some" => session[c] = NoSession(session[c].connection)
          /\ app[c] = "InGame" => session[c].welcomed

\* Whatever order the streams come in, nobody ever publishes or hears
\* anything on its lifeline, where it would wait for retransmissions: the
\* broker's unwrap_or falls back on it when a message names no stream.
GameplayStaysUnreliable ==
    \A c \in Conns :
        /\ publications[c][ReliableStream] = NoTopic
        /\ \A t \in Topics : subscriptions[c][t] # ReliableStream

Registered(c) == session[c].registered /\ c \notin lost /\ up[c] = <<>>

\* A publisher of the topic t has gone, and with it the topic: broker_end.
TakenAway(t) == \E d \in lost : Own(d) = t

\* Nothing of a registration gets lost on the way, no message of it coming
\* before the JOIN or on another stream: a process that is registered
\* publishes its topic and hears all it wants, save for the topics that
\* somebody else has taken along.
RegisteredIsServed ==
    \A c \in Conns : Registered(c) =>
        /\ publications[c][GameplayStream] = Own(c)
        /\ Own(c) \in known \/ TakenAway(Own(c))
        /\ \A i \in DOMAIN Wanted(c) :
              subscriptions[c][Wanted(c)[i]] = GameplayStream \/ TakenAway(Wanted(c)[i])

\* A client that is in the game is one the spatial service can have
\* subscribed to its shard: the broker knows it, and by its id.
InGameIsKnown ==
    \A c \in Clients : app[c] = "InGame" => c \in Services /\ clients[ClientIdOf[c]] = c

\* Whoever gets a connection registers, unless it loses it; and whoever has
\* lost it is gone from the broker in the end.
EverybodyRegisters ==
    \A c \in Conns :
        /\ socket[c] = "open" ~> session[c].registered \/ socket[c] = "closed"
        /\ c \in lost ~> session[c] = NoSession("gone") /\ socket[c] = "closed"

=============================================================================
