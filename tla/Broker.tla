-------------------------------- MODULE Broker --------------------------------
(***************************************************************************)
(* The publish-subscribe broker: one event loop that owns a registry of    *)
(* services (one per connection that has joined), a registry of topics and *)
(* a map of client ids to connections.  It is written twice in there who   *)
(* hears a topic: in the topic's subscribers, which publish reads, and in  *)
(* each service's subscriptions, which everything else reads.              *)
(*                                                                         *)
(* A handler runs to completion before the next event is polled, so each   *)
(* is one action.  Payloads are left out: publish changes nothing in the   *)
(* broker, and Recipients(c, s) is whom it would reach.                    *)
(***************************************************************************)
CONSTANTS
    Conns,      \* GameConnection
    Streams,    \* GameStream, the streams of a connection
    Reliable,   \* the streams for which is_reliable() holds
    Topics,     \* Topic
    Ids,        \* the client ids a JOIN can carry
    Named,      \* what the stream field of the services' messages can be: a stream or NoStream
    NoStream,   \* Option::None for a stream, and a key that a map lacks
    NoTopic,
    NoConn,
    NoId        \* a JOIN whose argument is not a number, as that of "JOIN spatial"

ASSUME StreamsAssumption ==
    Reliable \subseteq Streams /\ NoStream \notin Streams /\ Named \subseteq Streams \cup {NoStream}
ASSUME NoneAssumption == NoTopic \notin Topics /\ NoConn \notin Conns /\ NoId \notin Ids

VARIABLES
    socket,         \* socket[c]: a connection is new, then open, then closed
    lifeline,       \* lifeline[c]: Service.stream_lifeline, NoStream if c is no service
    publications,   \* publications[c][s]: the topic that service c publishes on stream s
    subscriptions,  \* subscriptions[c][t]: the stream on which service c hears topic t
    known,          \* the keys of the TopicsRegistry
    topics,         \* topics[t]: its subscribers, pairs of a connection and a stream
    clients         \* clients[id]: the connection that has joined with this id

registry == <<known, topics>>
vars == <<socket, lifeline, publications, subscriptions, known, topics, clients>>

-----------------------------------------------------------------------------
Services == {c \in Conns : lifeline[c] # NoStream}

Empty(keys, none) == [k \in keys |-> none]

Init ==
    /\ socket = [c \in Conns |-> "new"]
    /\ lifeline = [c \in Conns |-> NoStream]
    /\ publications = [c \in Conns |-> Empty(Streams, NoTopic)]
    /\ subscriptions = [c \in Conns |-> Empty(Topics, NoStream)]
    /\ known = {}
    /\ topics = Empty(Topics, {})
    /\ clients = Empty(Ids, NoConn)

-----------------------------------------------------------------------------
(* Connections. *)

Connect(c) ==
    /\ socket[c] = "new"
    /\ socket' = [socket EXCEPT ![c] = "open"]
    /\ UNCHANGED <<lifeline, publications, subscriptions, registry, clients>>

\* A reliable message of a connection that is not a service yet: JOIN, on
\* whatever stream it comes.  An id already in use moves to this connection.
Join(c, s, id) ==
    /\ socket[c] = "open" /\ c \notin Services /\ s \in Reliable
    /\ lifeline' = [lifeline EXCEPT ![c] = s]
    /\ publications' = [publications EXCEPT ![c] = Empty(Streams, NoTopic)]
    /\ subscriptions' = [subscriptions EXCEPT ![c] = Empty(Topics, NoStream)]
    /\ clients' = IF id = NoId THEN clients ELSE [clients EXCEPT ![id] = c]
    /\ UNCHANGED <<socket, registry>>

\* Mutant: control messages are taken from connections that never joined.
ControlsUnjoined(c) == socket[c] = "open"

\* A control message of service c, which comes on its lifeline.
Controls(c) == socket[c] = "open" /\ c \in Services

\* stream.unwrap_or(stream): the stream a message names, or its own.
StreamOf(c, named) == IF named = NoStream THEN lifeline[c] ELSE named

-----------------------------------------------------------------------------
(* Topics. *)

\* create_topic: the stream may have published something else.
Pub(c, t, named) ==
    /\ Controls(c)
    /\ known' = known \cup {t}
    /\ publications' = [publications EXCEPT ![c][StreamOf(c, named)] = t]
    /\ UNCHANGED <<socket, lifeline, subscriptions, topics, clients>>

Hearers(t) == {d \in Conns : \E s \in Streams : <<d, s>> \in topics[t]}

\* Mutant: the topic goes, its subscribers still hold their subscriptions.
DeafenedNobody(subs, T) == subs

\* What is left of the services' subscriptions subs when the topics T go.
Deafened(subs, T) ==
    [d \in Conns |-> [t \in Topics |->
        IF t \in T /\ d \in Hearers(t) THEN NoStream ELSE subs[d][t]]]

WithoutTopics(hearing, T) == [t \in Topics |-> IF t \in T THEN {} ELSE hearing[t]]

\* Of the streams on which c publishes a topic of T one is forgotten, the one
\* that the iteration over a HashMap meets first.
ForgetOneStreamOf(c, T) ==
    \E first \in [T -> Streams] :
        /\ \A t \in T : (\E s \in Streams : publications[c][s] = t) => publications[c][first[t]] = t
        /\ publications' = [publications EXCEPT ![c] =
               [s \in Streams |-> IF @[s] \in T /\ first[@[s]] = s THEN NoTopic ELSE @[s]]]

\* suppress_topic, whoever asks and whoever else publishes the topic: an
\* unknown topic is left alone, and so are the publications of it.
StopPub(c, t) ==
    /\ Controls(c)
    /\ known' = known \ {t}
    /\ topics' = WithoutTopics(topics, {t} \cap known)
    /\ subscriptions' = Deafened(subscriptions, {t} \cap known)
    /\ ForgetOneStreamOf(c, {t} \cap known)
    /\ UNCHANGED <<socket, lifeline, clients>>

-----------------------------------------------------------------------------
(* Subscriptions. *)

\* subscribe: the set of subscribers keeps an earlier entry of c on another
\* stream, the service's map does not.
Subscribe(c, t, s) ==
    /\ known' = known \cup {t}
    /\ topics' = [topics EXCEPT ![t] = @ \cup {<<c, s>>}]
    /\ subscriptions' = [subscriptions EXCEPT ![c][t] = s]

\* Mutant: the topic keeps its subscriber.
HearingStill(hearing, c, t) == hearing

\* What is left of the subscribers when service c's subscription to t goes.
HearingLess(hearing, c, t) == [hearing EXCEPT ![t] = @ \ {<<c, subscriptions[c][t]>>}]

\* unsubscribe, force_unsubscribe_client: nothing if c is not subscribed.
Unsubscribe(c, t) ==
    /\ topics' = HearingLess(topics, c, t)
    /\ subscriptions' = [subscriptions EXCEPT ![c][t] = NoStream]
    /\ UNCHANGED known

Sub(c, t, named) ==
    /\ Controls(c)
    /\ Subscribe(c, t, StreamOf(c, named))
    /\ UNCHANGED <<socket, lifeline, publications, clients>>

StopSub(c, t) ==
    /\ Controls(c)
    /\ Unsubscribe(c, t)
    /\ UNCHANGED <<socket, lifeline, publications, clients>>

\* The streams on which service c hears anything.
StreamsInUse(c) == {subscriptions[c][t] : t \in Topics} \ {NoStream}

\* Mutant: a client that hears nothing is subscribed on its lifeline.
TargetStreamsOrLifeline(d) == IF StreamsInUse(d) = {} THEN {lifeline[d]} ELSE StreamsInUse(d)

\* The stream for a targeted subscription: any on which the client hears
\* something already, so none if it hears nothing.
TargetStreams(d) == StreamsInUse(d)

\* A Sub or StopSub with a target, from any service, is applied to the
\* connection that joined with that id, alive or not.
TargetedSub(c, t, id) ==
    /\ Controls(c)
    /\ \/ clients[id] \in Services /\ \E s \in TargetStreams(clients[id]) : Subscribe(clients[id], t, s)
       \/ /\ clients[id] \in Services => TargetStreams(clients[id]) = {}
          /\ UNCHANGED <<registry, subscriptions>>
    /\ UNCHANGED <<socket, lifeline, publications, clients>>

TargetedStopSub(c, t, id) ==
    /\ Controls(c)
    /\ IF clients[id] \in Services
       THEN Unsubscribe(clients[id], t)
       ELSE UNCHANGED <<registry, subscriptions>>
    /\ UNCHANGED <<socket, lifeline, publications, clients>>

-----------------------------------------------------------------------------
(* The end of a service. *)

Published(c) == {publications[c][s] : s \in Streams} \ {NoTopic}

\* Mutant: only the publications end.
SilencedNowhere(c) == topics

\* The subscribers once every subscription of c has ended.
Silenced(c) == [t \in Topics |-> topics[t] \ {<<c, subscriptions[c][t]>>}]

\* remove_service: first the service's subscriptions, then each topic it
\* publishes is suppressed.  The service and its client id stay registered.
RemoveService(c) ==
    LET gone == Published(c) \cap known
    IN  /\ topics' = WithoutTopics(Silenced(c), gone)
        /\ subscriptions' =
              Deafened([subscriptions EXCEPT ![c] = Empty(Topics, NoStream)], gone)
        /\ known' = known \ gone
        /\ ForgetOneStreamOf(c, gone)
        /\ UNCHANGED <<lifeline, clients>>

End(c) == Controls(c) /\ RemoveService(c) /\ UNCHANGED socket

\* A connection that is not a service yet leaves nothing to remove.
Disconnect(c) ==
    /\ socket[c] = "open"
    /\ socket' = [socket EXCEPT ![c] = "closed"]
    /\ RemoveService(c)

-----------------------------------------------------------------------------
Control(c) ==
    \/ \E t \in Topics, n \in Named : Pub(c, t, n) \/ Sub(c, t, n)
    \/ \E t \in Topics : StopPub(c, t) \/ StopSub(c, t)
    \/ \E t \in Topics, id \in Ids : TargetedSub(c, t, id) \/ TargetedStopSub(c, t, id)
    \/ End(c)

Next ==
    \E c \in Conns :
        \/ Connect(c)
        \/ \E s \in Reliable, id \in Ids \cup {NoId} : Join(c, s, id)
        \/ Control(c)
        \/ Disconnect(c)

Spec == Init /\ [][Next]_vars

-----------------------------------------------------------------------------
(* Properties. *)

\* The variables have their types; only services publish or hear anything.
TypeOK ==
    /\ socket \in [Conns -> {"new", "open", "closed"}]
    /\ lifeline \in [Conns -> Reliable \cup {NoStream}]
    /\ publications \in [Conns -> [Streams -> Topics \cup {NoTopic}]]
    /\ subscriptions \in [Conns -> [Topics -> Streams \cup {NoStream}]]
    /\ known \subseteq Topics
    /\ topics \in [Topics -> SUBSET (Conns \X Streams)]
    /\ clients \in [Ids -> Conns \cup {NoConn}]
    /\ \A c \in Conns, s \in Streams : publications[c][s] # NoTopic => c \in Services
    /\ \A c \in Conns, t \in Topics : subscriptions[c][t] # NoStream => c \in Services

\* The broker's two records of who hears what do not lose each other: what a
\* service is subscribed to it is also sent, of a topic that is registered.
SubscribedIsServed ==
    \A c \in Conns, t \in Topics :
        subscriptions[c][t] # NoStream => t \in known /\ <<c, subscriptions[c][t]>> \in topics[t]

\* Every service of the repository names the same one stream in all of its
\* messages.
OneStream == \E s \in Streams : Named = {s}

\* ... and nobody is sent what it is not, or no longer, subscribed to.
ServedIsSubscribed ==
    \A t \in Topics : \A subscriber \in topics[t] :
        subscriptions[subscriber[1]][t] = subscriber[2]

\* Whom a publication of service c on stream s would reach.
Recipients(c, s) ==
    IF publications[c][s] \in known THEN topics[publications[c][s]] ELSE {}

\* Nothing is ever sent to a closed connection: although it stays a service
\* with a client id, no targeted Sub that still comes brings it back.
ClosedHearNothing ==
    \A c, d \in Conns, s, r \in Streams :
        <<d, r>> \in Recipients(c, s) => socket[d] = "open"

\* The end of one service does not take a topic that another one still
\* publishes away from those who hear it.
EndSparesOthers ==
    [][\A c, d \in Conns, t \in Topics :
          /\ End(c) \/ Disconnect(c)
          /\ d # c /\ subscriptions[d][t] # NoStream
          /\ \E e \in Conns \ {c} : t \in Published(e)
          => subscriptions'[d][t] = subscriptions[d][t]]_vars

=============================================================================
