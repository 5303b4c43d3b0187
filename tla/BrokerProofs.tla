----------------------------- MODULE BrokerProofs -----------------------------
(***************************************************************************)
(* Theorems about Broker, for any connections, topics, streams and ids.    *)
(***************************************************************************)
EXTENDS Broker, TLAPS

-----------------------------------------------------------------------------
(* What the handlers are made of. *)

LEMMA EmptyMap == \A keys, none : Empty(keys, none) \in [keys -> {none}]
BY DEF Empty

\* Suppressing topics ends the subscriptions of those who hear them, ...
LEMMA Deafening ==
    ASSUME NEW T, NEW subs \in [Conns -> [Topics -> Streams \cup {NoStream}]]
    PROVE  /\ Deafened(subs, T) \in [Conns -> [Topics -> Streams \cup {NoStream}]]
           /\ \A d \in Conns, t \in Topics :
                 Deafened(subs, T)[d][t] = IF t \in T /\ d \in Hearers(t) THEN NoStream ELSE subs[d][t]
BY DEF Deafened

\* ... and empties the topics.
LEMMA Emptying ==
    ASSUME NEW T, NEW hearing \in [Topics -> SUBSET (Conns \X Streams)]
    PROVE  /\ WithoutTopics(hearing, T) \in [Topics -> SUBSET (Conns \X Streams)]
           /\ \A t \in Topics : WithoutTopics(hearing, T)[t] = IF t \in T THEN {} ELSE hearing[t]
BY DEF WithoutTopics

LEMMA ForgettingStreams ==
    ASSUME NEW c \in Conns, NEW T \in SUBSET Topics,
           publications \in [Conns -> [Streams -> Topics \cup {NoTopic}]], ForgetOneStreamOf(c, T)
    PROVE  /\ publications' \in [Conns -> [Streams -> Topics \cup {NoTopic}]]
           /\ \A d \in Conns \ {c} : publications'[d] = publications[d]
           /\ \A s \in Streams : publications'[c][s] \in {NoTopic, publications[c][s]}
<1>1. PICK first \in [T -> Streams] :
        publications' = [publications EXCEPT ![c] =
           [s \in Streams |-> IF publications[c][s] \in T /\ first[publications[c][s]] = s
                              THEN NoTopic ELSE publications[c][s]]]
  BY DEF ForgetOneStreamOf
<1> DEFINE left == [s \in Streams |-> IF publications[c][s] \in T /\ first[publications[c][s]] = s
                                      THEN NoTopic ELSE publications[c][s]]
<1>2. left \in [Streams -> Topics \cup {NoTopic}]
  OBVIOUS
<1>3. \A s \in Streams : left[s] = NoTopic \/ left[s] = publications[c][s]
  OBVIOUS
<1>4. publications' = [publications EXCEPT ![c] = left]
  BY <1>1
<1> HIDE DEF left
<1> QED
  BY <1>2, <1>3, <1>4

\* Every action changes the two records in one of four ways, or not at all.
SubscribesOne ==
    \E c \in Services, t \in Topics, s \in Streams :
        /\ Subscribe(c, t, s)
        /\ UNCHANGED socket
        /\ \/ socket[c] = "open" /\ \E n \in Named : s = StreamOf(c, n)
           \/ s \in StreamsInUse(c)

UnsubscribesOne ==
    \E c \in Services, t \in Topics : Unsubscribe(c, t) /\ UNCHANGED socket

SuppressesTopics ==
    \E T \in SUBSET Topics :
        /\ known' = known \ T
        /\ topics' = WithoutTopics(topics, T)
        /\ subscriptions' = Deafened(subscriptions, T)
        /\ UNCHANGED socket

RemovesOne ==
    \E c \in Conns, T \in SUBSET Topics :
        /\ known' = known \ T
        /\ topics' = WithoutTopics(Silenced(c), T)
        /\ subscriptions' = Deafened([subscriptions EXCEPT ![c] = Empty(Topics, NoStream)], T)
        /\ \A d \in Conns \ {c} : socket'[d] = socket[d]

LeavesAlone ==
    /\ known \subseteq known'
    /\ UNCHANGED topics
    /\ \A c \in Conns, t \in Topics : subscriptions'[c][t] = subscriptions[c][t]
    /\ \A c \in Conns : socket[c] = "open" => socket'[c] = "open"

LEMMA FiveEffects ==
    ASSUME TypeOK, [Next]_vars
    PROVE  \/ LeavesAlone
           \/ SubscribesOne
           \/ UnsubscribesOne
           \/ SuppressesTopics
           \/ RemovesOne
<1>1. CASE UNCHANGED vars
  BY <1>1 DEF vars, registry, LeavesAlone
<1>2. ASSUME NEW c \in Conns, Connect(c) PROVE LeavesAlone
  BY <1>2 DEF Connect, registry, LeavesAlone, TypeOK
<1>3. ASSUME NEW c \in Conns, NEW s \in Reliable, NEW id \in Ids \cup {NoId}, Join(c, s, id)
      PROVE  LeavesAlone
  <2>1. \A t \in Topics : subscriptions[c][t] = NoStream
    BY <1>3 DEF Join, TypeOK, StreamsInUse
  <2> QED
    BY <1>3, <2>1, EmptyMap DEF Join, registry, LeavesAlone, TypeOK
<1>4. ASSUME NEW c \in Conns, NEW t \in Topics, NEW n \in Named, Pub(c, t, n)
      PROVE  LeavesAlone
  BY <1>4 DEF Pub, LeavesAlone
<1>5. ASSUME NEW c \in Conns, NEW t \in Topics, NEW n \in Named, Sub(c, t, n)
      PROVE  SubscribesOne
  <2>1. c \in Services /\ StreamOf(c, n) \in Streams
    BY <1>5, StreamsAssumption DEF Sub, Controls, StreamOf, Services, TypeOK
  <2> QED
    BY <1>5, <2>1 DEF Sub, SubscribesOne, Controls
<1>6. ASSUME NEW c \in Conns, NEW t \in Topics, StopPub(c, t) PROVE SuppressesTopics
  <2>1. {t} \cap known \in SUBSET Topics /\ known' = known \ ({t} \cap known)
    BY <1>6 DEF StopPub
  <2> QED
    BY <1>6, <2>1 DEF StopPub, SuppressesTopics
<1>7. ASSUME NEW c \in Conns, NEW t \in Topics, StopSub(c, t) PROVE UnsubscribesOne
  BY <1>7 DEF StopSub, Controls, UnsubscribesOne
<1>8. ASSUME NEW c \in Conns, NEW t \in Topics, NEW id \in Ids, TargetedSub(c, t, id)
      PROVE  SubscribesOne \/ LeavesAlone
  <2>1. CASE clients[id] \in Services /\ \E s \in TargetStreams(clients[id]) : Subscribe(clients[id], t, s)
    <3>1. TargetStreams(clients[id]) \subseteq Streams
      BY <2>1 DEF TargetStreams, StreamsInUse, TypeOK, Services
    <3> QED
      BY <1>8, <2>1, <3>1 DEF SubscribesOne, TargetedSub, TargetStreams
  <2>2. CASE UNCHANGED <<registry, subscriptions>>
    BY <1>8, <2>2 DEF registry, LeavesAlone, TargetedSub
  <2> QED
    BY <1>8, <2>1, <2>2 DEF TargetedSub
<1>9. ASSUME NEW c \in Conns, NEW t \in Topics, NEW id \in Ids, TargetedStopSub(c, t, id)
      PROVE  UnsubscribesOne \/ LeavesAlone
  BY <1>9 DEF TargetedStopSub, UnsubscribesOne, registry, LeavesAlone
<1>10. ASSUME NEW c \in Conns, End(c) \/ Disconnect(c) PROVE RemovesOne
  <2>1. Published(c) \cap known \in SUBSET Topics
    BY DEF TypeOK
  <2>2. \A d \in Conns \ {c} : socket'[d] = socket[d]
    BY <1>10 DEF End, Disconnect, TypeOK
  <2> QED
    BY <1>10, <2>1, <2>2 DEF End, Disconnect, RemoveService, RemovesOne
<1> QED
  BY <1>1, <1>2, <1>3, <1>4, <1>5, <1>6, <1>7, <1>8, <1>9, <1>10
  DEF Next, Control

-----------------------------------------------------------------------------
(* Type correctness. *)

LEMMA SubscribeType ==
    ASSUME TypeOK, NEW c \in Conns, NEW t \in Topics, NEW s \in Streams, Subscribe(c, t, s)
    PROVE  /\ known' \subseteq Topics
           /\ topics' \in [Topics -> SUBSET (Conns \X Streams)]
           /\ subscriptions' \in [Conns -> [Topics -> Streams \cup {NoStream}]]
           /\ \A d \in Conns \ {c}, u \in Topics : subscriptions'[d][u] = subscriptions[d][u]
BY DEF Subscribe, TypeOK

LEMMA UnsubscribeType ==
    ASSUME TypeOK, NEW c \in Conns, NEW t \in Topics, Unsubscribe(c, t)
    PROVE  /\ known' \subseteq Topics
           /\ topics' \in [Topics -> SUBSET (Conns \X Streams)]
           /\ subscriptions' \in [Conns -> [Topics -> Streams \cup {NoStream}]]
           /\ \A d \in Conns \ {c}, u \in Topics : subscriptions'[d][u] = subscriptions[d][u]
BY DEF Unsubscribe, HearingLess, TypeOK

LEMMA RemoveServiceType ==
    ASSUME TypeOK, NEW c \in Conns, RemoveService(c)
    PROVE  /\ known' \subseteq Topics
           /\ topics' \in [Topics -> SUBSET (Conns \X Streams)]
           /\ subscriptions' \in [Conns -> [Topics -> Streams \cup {NoStream}]]
           /\ publications' \in [Conns -> [Streams -> Topics \cup {NoTopic}]]
           /\ \A d \in Conns, s \in Streams : publications'[d][s] \in {NoTopic, publications[d][s]}
           /\ \A d \in Conns, t \in Topics : subscriptions'[d][t] \in {NoStream, subscriptions[d][t]}
<1> DEFINE gone == Published(c) \cap known
           left == [subscriptions EXCEPT ![c] = Empty(Topics, NoStream)]
<1>1. /\ topics' = WithoutTopics(Silenced(c), gone)
      /\ subscriptions' = Deafened(left, gone)
      /\ known' = known \ gone
      /\ ForgetOneStreamOf(c, gone)
  BY DEF RemoveService
<1>2. Silenced(c) \in [Topics -> SUBSET (Conns \X Streams)] /\ gone \subseteq Topics
  BY DEF Silenced, TypeOK
<1>3. /\ left \in [Conns -> [Topics -> Streams \cup {NoStream}]]
      /\ \A d \in Conns, t \in Topics :
            left[d][t] = IF d = c THEN NoStream ELSE subscriptions[d][t]
  BY DEF TypeOK, Empty
<1> HIDE DEF gone, left
<1>4. /\ topics' \in [Topics -> SUBSET (Conns \X Streams)]
      /\ subscriptions' \in [Conns -> [Topics -> Streams \cup {NoStream}]]
      /\ \A d \in Conns, t \in Topics :
            subscriptions'[d][t] \in {NoStream, subscriptions[d][t]}
  BY <1>1, <1>2, <1>3, Deafening, Emptying
<1>5. /\ publications' \in [Conns -> [Streams -> Topics \cup {NoTopic}]]
      /\ \A d \in Conns, s \in Streams : publications'[d][s] \in {NoTopic, publications[d][s]}
  BY <1>1, <1>2, ForgettingStreams DEF TypeOK
<1> QED
  BY <1>1, <1>4, <1>5 DEF TypeOK

LEMMA ConnectionType ==
    ASSUME TypeOK, NEW c \in Conns,
           Connect(c) \/ (\E s \in Reliable, id \in Ids \cup {NoId} : Join(c, s, id)) \/ Disconnect(c)
    PROVE  TypeOK'
<1>1. CASE Connect(c)
  BY <1>1 DEF Connect, registry, TypeOK, Services
<1>2. ASSUME NEW s \in Reliable, NEW id \in Ids \cup {NoId}, Join(c, s, id) PROVE TypeOK'
  <2>1. /\ publications' = [publications EXCEPT ![c] = Empty(Streams, NoTopic)]
        /\ subscriptions' = [subscriptions EXCEPT ![c] = Empty(Topics, NoStream)]
        /\ lifeline' = [lifeline EXCEPT ![c] = s]
        /\ UNCHANGED <<socket, known, topics>>
    BY <1>2 DEF Join, registry
  <2>2. /\ publications' \in [Conns -> [Streams -> Topics \cup {NoTopic}]]
        /\ subscriptions' \in [Conns -> [Topics -> Streams \cup {NoStream}]]
        /\ lifeline' \in [Conns -> Reliable \cup {NoStream}]
    BY <2>1 DEF TypeOK, Empty
  <2>3. clients' \in [Ids -> Conns \cup {NoConn}]
    BY <1>2 DEF Join, TypeOK
  <2>4. /\ \A d \in Conns, u \in Streams : publications'[d][u] # NoTopic => d \in Services'
        /\ \A d \in Conns, t \in Topics : subscriptions'[d][t] # NoStream => d \in Services'
    BY <2>1, StreamsAssumption DEF TypeOK, Services, Empty
  <2> QED
    BY <2>1, <2>2, <2>3, <2>4 DEF TypeOK
<1>3. CASE Disconnect(c)
  <2>1. UNCHANGED <<lifeline, clients>> /\ socket' = [socket EXCEPT ![c] = "closed"]
        /\ RemoveService(c)
    BY <1>3 DEF Disconnect, RemoveService
  <2> QED
    BY <2>1, RemoveServiceType DEF TypeOK, Services
<1> QED
  BY <1>1, <1>2, <1>3

LEMMA ControlType ==
    ASSUME TypeOK, NEW c \in Conns, Control(c)
    PROVE  TypeOK'
<1>0. c \in Services /\ UNCHANGED <<socket, lifeline, clients>> /\ Services' = Services
  BY DEF Control, Pub, Sub, StopPub, StopSub, TargetedSub, TargetedStopSub, End, RemoveService,
         Controls, Services
<1>1. ASSUME NEW t \in Topics, NEW n \in Named, Pub(c, t, n) PROVE TypeOK'
  <2>1. StreamOf(c, n) \in Streams
    BY <1>0, StreamsAssumption DEF StreamOf, Services, TypeOK
  <2>2. publications' \in [Conns -> [Streams -> Topics \cup {NoTopic}]]
        /\ \A d \in Conns \ {c} : publications'[d] = publications[d]
    BY <1>1, <2>1 DEF Pub, TypeOK
  <2>3. known' \subseteq Topics /\ UNCHANGED <<topics, subscriptions>>
    BY <1>1 DEF Pub, TypeOK
  <2> QED
    BY <1>0, <2>2, <2>3 DEF TypeOK
<1>2. ASSUME NEW d \in Services, NEW t \in Topics, NEW s \in Streams,
             Subscribe(d, t, s), UNCHANGED publications
      PROVE  TypeOK'
  <2>1. c \in Conns /\ d \in Conns /\ known' \subseteq Topics
        /\ topics' \in [Topics -> SUBSET (Conns \X Streams)]
        /\ subscriptions' \in [Conns -> [Topics -> Streams \cup {NoStream}]]
        /\ \A e \in Conns \ {d}, u \in Topics : subscriptions'[e][u] = subscriptions[e][u]
    BY <1>2, SubscribeType DEF Services
  <2> QED
    BY <1>0, <1>2, <2>1 DEF TypeOK
<1>3. ASSUME NEW d \in Services, NEW t \in Topics, Unsubscribe(d, t), UNCHANGED publications
      PROVE  TypeOK'
  <2>1. c \in Conns /\ d \in Conns /\ known' \subseteq Topics
        /\ topics' \in [Topics -> SUBSET (Conns \X Streams)]
        /\ subscriptions' \in [Conns -> [Topics -> Streams \cup {NoStream}]]
        /\ \A e \in Conns \ {d}, u \in Topics : subscriptions'[e][u] = subscriptions[e][u]
    BY <1>3, UnsubscribeType DEF Services
  <2> QED
    BY <1>0, <1>3, <2>1 DEF TypeOK
<1>4. ASSUME NEW t \in Topics, NEW n \in Named, Sub(c, t, n) PROVE TypeOK'
  <2>1. StreamOf(c, n) \in Streams
    BY <1>0, StreamsAssumption DEF StreamOf, Services, TypeOK
  <2> QED
    BY <1>0, <1>2, <1>4, <2>1 DEF Sub
<1>5. ASSUME NEW t \in Topics, StopPub(c, t) PROVE TypeOK'
  <2> DEFINE gone == {t} \cap known
  <2>1. /\ known' = known \ {t} /\ topics' = WithoutTopics(topics, gone)
        /\ subscriptions' = Deafened(subscriptions, gone) /\ ForgetOneStreamOf(c, gone)
        /\ gone \in SUBSET Topics
    BY <1>5 DEF StopPub
  <2> HIDE DEF gone
  <2>2. /\ topics' \in [Topics -> SUBSET (Conns \X Streams)]
        /\ subscriptions' \in [Conns -> [Topics -> Streams \cup {NoStream}]]
        /\ \A d \in Conns, u \in Topics :
              subscriptions'[d][u] \in {NoStream, subscriptions[d][u]}
    BY <2>1, Deafening, Emptying DEF TypeOK
  <2>3. /\ publications' \in [Conns -> [Streams -> Topics \cup {NoTopic}]]
        /\ \A d \in Conns, s \in Streams : publications'[d][s] \in {NoTopic, publications[d][s]}
    BY <2>1, ForgettingStreams DEF TypeOK
  <2> QED
    BY <1>0, <2>1, <2>2, <2>3 DEF TypeOK
<1>6. ASSUME NEW t \in Topics, StopSub(c, t) PROVE TypeOK'
  BY <1>0, <1>3, <1>6 DEF StopSub
<1>7. ASSUME UNCHANGED <<registry, subscriptions, publications>> PROVE TypeOK'
  BY <1>0, <1>7 DEF registry, TypeOK
<1>8. ASSUME NEW t \in Topics, NEW id \in Ids, TargetedSub(c, t, id) PROVE TypeOK'
  <2>1. clients[id] \in Services => TargetStreams(clients[id]) \subseteq Streams
    BY DEF TargetStreams, StreamsInUse, TypeOK, Services
  <2> QED
    BY <1>2, <1>7, <1>8, <2>1 DEF TargetedSub
<1>9. ASSUME NEW t \in Topics, NEW id \in Ids, TargetedStopSub(c, t, id) PROVE TypeOK'
  BY <1>3, <1>7, <1>9 DEF TargetedStopSub
<1>10. CASE End(c)
  <2>1. RemoveService(c)
    BY <1>10 DEF End
  <2> QED
    BY <1>0, <2>1, RemoveServiceType DEF TypeOK
<1> QED
  BY <1>1, <1>4, <1>5, <1>6, <1>8, <1>9, <1>10 DEF Control

LEMMA TypeStep == TypeOK /\ [Next]_vars => TypeOK'
<1> SUFFICES ASSUME TypeOK, [Next]_vars PROVE TypeOK'
  OBVIOUS
<1>1. CASE UNCHANGED vars
  BY <1>1 DEF vars, registry, TypeOK, Services
<1> QED
  BY <1>1, ConnectionType, ControlType DEF Next

\* The variables have their types, and a connection that is no service neither
\* publishes nor hears anything.
THEOREM TypeCorrect == Spec => []TypeOK
<1>1. Init => TypeOK
  BY DEF Init, Empty, TypeOK
<1> QED
  BY <1>1, TypeStep, PTL DEF Spec

-----------------------------------------------------------------------------
(* The two records of who hears what. *)

ServedInv == TypeOK /\ SubscribedIsServed

LEMMA ServedStep ==
    ASSUME ServedInv, [Next]_vars
    PROVE  ServedInv'
<1>0. TypeOK /\ TypeOK' /\ SubscribedIsServed
  BY TypeStep DEF ServedInv
<1> SUFFICES SubscribedIsServed'
  BY <1>0 DEF ServedInv
<1>00. /\ subscriptions \in [Conns -> [Topics -> Streams \cup {NoStream}]]
      /\ topics \in [Topics -> SUBSET (Conns \X Streams)]
  BY <1>0 DEF TypeOK
<1>1. CASE LeavesAlone
  BY <1>0, <1>1 DEF LeavesAlone, SubscribedIsServed
<1>2. CASE SubscribesOne
  <2> PICK c \in Services, t \in Topics, s \in Streams : Subscribe(c, t, s)
    BY <1>2 DEF SubscribesOne
  <2> QED
    BY <1>0 DEF Subscribe, SubscribedIsServed, TypeOK, Services
<1>3. CASE UnsubscribesOne
  <2> PICK c \in Services, t \in Topics : Unsubscribe(c, t)
    BY <1>3 DEF UnsubscribesOne
  <2> QED
    BY <1>0 DEF Unsubscribe, HearingLess, SubscribedIsServed, TypeOK, Services
<1>4. CASE SuppressesTopics
  <2> PICK T \in SUBSET Topics : /\ known' = known \ T
                                 /\ topics' = WithoutTopics(topics, T)
                                 /\ subscriptions' = Deafened(subscriptions, T)
    BY <1>4 DEF SuppressesTopics
  <2>0. /\ \A d \in Conns, t \in Topics :
             subscriptions'[d][t] = IF t \in T /\ d \in Hearers(t) THEN NoStream ELSE subscriptions[d][t]
        /\ \A t \in Topics : topics'[t] = IF t \in T THEN {} ELSE topics[t]
    BY <1>00, Deafening, Emptying
  <2> SUFFICES ASSUME NEW d \in Conns, NEW t \in Topics, subscriptions'[d][t] # NoStream
               PROVE  t \in known' /\ <<d, subscriptions'[d][t]>> \in topics'[t]
    BY DEF SubscribedIsServed
  <2>1. subscriptions'[d][t] = subscriptions[d][t] /\ ~(t \in T /\ d \in Hearers(t))
    BY <2>0
  <2>2. t \in known /\ <<d, subscriptions[d][t]>> \in topics[t] /\ d \in Hearers(t)
    BY <1>0, <2>1 DEF SubscribedIsServed, Hearers, TypeOK
  <2>3. t \notin T
    BY <2>1, <2>2
  <2> QED
    BY <2>0, <2>1, <2>2, <2>3
<1>5. CASE RemovesOne
  <2> PICK c \in Conns, T \in SUBSET Topics :
         /\ known' = known \ T
         /\ topics' = WithoutTopics(Silenced(c), T)
         /\ subscriptions' = Deafened([subscriptions EXCEPT ![c] = Empty(Topics, NoStream)], T)
    BY <1>5 DEF RemovesOne
  <2> DEFINE left == [subscriptions EXCEPT ![c] = Empty(Topics, NoStream)]
  <2>1. left \in [Conns -> [Topics -> Streams \cup {NoStream}]]
        /\ Silenced(c) \in [Topics -> SUBSET (Conns \X Streams)]
    BY <1>0 DEF TypeOK, Empty, Silenced
  <2>2. /\ \A d \in Conns, t \in Topics :
             subscriptions'[d][t] = IF t \in T /\ d \in Hearers(t) THEN NoStream ELSE left[d][t]
        /\ \A t \in Topics : topics'[t] = IF t \in T THEN {} ELSE Silenced(c)[t]
    <3>1. subscriptions' = Deafened(left, T) /\ topics' = WithoutTopics(Silenced(c), T)
      OBVIOUS
    <3> HIDE DEF left
    <3> QED  BY <2>1, <3>1, Deafening, Emptying
  <2> SUFFICES ASSUME NEW d \in Conns, NEW t \in Topics, subscriptions'[d][t] # NoStream
               PROVE  t \in known' /\ <<d, subscriptions'[d][t]>> \in topics'[t]
    BY DEF SubscribedIsServed
  <2>3. d # c /\ left[d][t] = subscriptions[d][t]
    BY <1>0, <2>2 DEF TypeOK, Empty
  <2>4. t \in known /\ <<d, subscriptions[d][t]>> \in topics[t] /\ d \in Hearers(t)
    <3>1. subscriptions[d][t] # NoStream /\ subscriptions[d][t] \in Streams
      <4>1. subscriptions[d][t] \in Streams \cup {NoStream}
        BY <1>00
      <4>2. subscriptions'[d][t] = NoStream \/ subscriptions'[d][t] = left[d][t]
        BY <2>2
      <4> HIDE DEF left
      <4> QED  BY <2>3, <4>1, <4>2
    <3> QED
      BY <1>0, <3>1 DEF SubscribedIsServed, Hearers
  <2>5. t \notin T
    BY <2>2, <2>4
  <2>6. <<d, subscriptions[d][t]>> \in Silenced(c)[t]
    BY <2>3, <2>4 DEF Silenced
  <2> QED
    BY <2>2, <2>3, <2>4, <2>6, <2>5
<1> QED
  BY <1>0, <1>1, <1>2, <1>3, <1>4, <1>5, FiveEffects

\* Whatever streams the services name: what a service is subscribed to it is
\* sent, although each handler has to keep two records in step.
THEOREM SubscribersAreServed == Spec => []SubscribedIsServed
<1>1. Init => ServedInv
  BY DEF Init, Empty, ServedInv, SubscribedIsServed, TypeOK
<1>2. ServedInv /\ [Next]_vars => ServedInv'
  BY ServedStep
<1>3. ServedInv => SubscribedIsServed
  BY DEF ServedInv
<1> QED
  BY <1>1, <1>2, <1>3, PTL DEF Spec

-----------------------------------------------------------------------------
(* Services that name one stream x, as those of the repository do. *)

OpenAreSubscribed ==
    \A c \in Conns, t \in Topics : subscriptions[c][t] # NoStream => socket[c] = "open"

OnlyStream(x) == \A c \in Conns, t \in Topics : subscriptions[c][t] \in {x, NoStream}

\* Inductive.  ServedIsSubscribed alone is not: a subscription on a second
\* stream would leave the first one's subscriber behind.
OneStreamInv(x) ==
    /\ ServedInv
    /\ ServedIsSubscribed
    /\ OnlyStream(x)
    /\ OpenAreSubscribed

LEMMA OneStreamStep ==
    ASSUME NEW x \in Streams, Named = {x}, OneStreamInv(x), [Next]_vars
    PROVE  OneStreamInv(x)'
<1>0. /\ TypeOK /\ TypeOK' /\ ServedInv' /\ SubscribedIsServed
      /\ ServedIsSubscribed /\ OnlyStream(x) /\ OpenAreSubscribed
  BY ServedStep DEF OneStreamInv, ServedInv
<1> SUFFICES ServedIsSubscribed' /\ OnlyStream(x)' /\ OpenAreSubscribed'
  BY <1>0 DEF OneStreamInv
<1>00. /\ subscriptions \in [Conns -> [Topics -> Streams \cup {NoStream}]]
      /\ topics \in [Topics -> SUBSET (Conns \X Streams)]
  BY <1>0 DEF TypeOK
<1>1. CASE LeavesAlone
  BY <1>0, <1>1
  DEF LeavesAlone, ServedIsSubscribed, OnlyStream, OpenAreSubscribed, TypeOK
<1>2. CASE SubscribesOne
  <2> PICK c \in Services, t \in Topics, s \in Streams :
         /\ Subscribe(c, t, s)
         /\ UNCHANGED socket
         /\ \/ socket[c] = "open" /\ \E n \in Named : s = StreamOf(c, n)
            \/ s \in StreamsInUse(c)
    BY <1>2 DEF SubscribesOne
  <2>1. c \in Conns /\ s = x /\ socket[c] = "open"
    BY <1>0, StreamsAssumption
    DEF StreamOf, StreamsInUse, OnlyStream, OpenAreSubscribed, Services
  <2>2. /\ topics' = [topics EXCEPT ![t] = topics[t] \cup {<<c, x>>}]
        /\ \A d \in Conns, u \in Topics :
              subscriptions'[d][u] = IF d = c /\ u = t THEN x ELSE subscriptions[d][u]
    BY <1>0, <2>1 DEF Subscribe, TypeOK
  <2>3. OnlyStream(x)' /\ OpenAreSubscribed'
    BY <1>0, <2>1, <2>2 DEF OnlyStream, OpenAreSubscribed
  <2>4. ASSUME NEW u \in Topics, NEW subscriber \in topics'[u]
        PROVE  subscriptions'[subscriber[1]][u] = subscriber[2]
    <3>1. subscriber \in Conns \X Streams
      BY <1>0, <2>4 DEF TypeOK
    <3>2. CASE subscriber \in topics[u]
      BY <1>0, <2>2, <3>1, <3>2, StreamsAssumption DEF ServedIsSubscribed, OnlyStream
    <3>3. CASE subscriber \notin topics[u]
      BY <1>0, <2>1, <2>2, <2>4, <3>3 DEF TypeOK
    <3> QED
      BY <3>2, <3>3
  <2> QED
    BY <2>3, <2>4 DEF ServedIsSubscribed
<1>3. CASE UnsubscribesOne
  <2> PICK c \in Services, t \in Topics : Unsubscribe(c, t) /\ UNCHANGED socket
    BY <1>3 DEF UnsubscribesOne
  <2>1. c \in Conns
        /\ topics' = [topics EXCEPT ![t] = topics[t] \ {<<c, subscriptions[c][t]>>}]
        /\ \A d \in Conns, u \in Topics :
              subscriptions'[d][u] = IF d = c /\ u = t THEN NoStream ELSE subscriptions[d][u]
    BY <1>0 DEF Unsubscribe, HearingLess, TypeOK, Services
  <2>2. OnlyStream(x)' /\ OpenAreSubscribed'
    BY <1>0, <2>1 DEF OnlyStream, OpenAreSubscribed
  <2>3. ASSUME NEW u \in Topics, NEW subscriber \in topics'[u]
        PROVE  subscriptions'[subscriber[1]][u] = subscriber[2]
    <3>1. subscriber \in Conns \X Streams /\ subscriber \in topics[u]
      BY <1>0, <2>1, <2>3 DEF TypeOK
    <3>2. subscriptions[subscriber[1]][u] = subscriber[2]
      BY <1>0, <3>1 DEF ServedIsSubscribed
    <3>3. ~(subscriber[1] = c /\ u = t)
      BY <1>0, <2>1, <2>3, <3>1, <3>2 DEF TypeOK
    <3> QED
      BY <2>1, <3>1, <3>2, <3>3
  <2> QED
    BY <2>2, <2>3 DEF ServedIsSubscribed
<1>4. CASE SuppressesTopics
  <2> PICK T \in SUBSET Topics : /\ topics' = WithoutTopics(topics, T)
                                 /\ subscriptions' = Deafened(subscriptions, T)
                                 /\ UNCHANGED socket
    BY <1>4 DEF SuppressesTopics
  <2>1. /\ \A d \in Conns, t \in Topics :
             subscriptions'[d][t] = IF t \in T /\ d \in Hearers(t) THEN NoStream ELSE subscriptions[d][t]
        /\ \A t \in Topics : topics'[t] = IF t \in T THEN {} ELSE topics[t]
    BY <1>00, Deafening, Emptying
  <2>2. OnlyStream(x)' /\ OpenAreSubscribed'
    BY <1>0, <2>1 DEF OnlyStream, OpenAreSubscribed
  <2>3. ASSUME NEW t \in Topics, NEW subscriber \in topics'[t]
        PROVE  subscriptions'[subscriber[1]][t] = subscriber[2]
    <3>1. t \notin T /\ subscriber \in topics[t] /\ subscriber[1] \in Conns
      BY <1>00, <2>1, <2>3
    <3> QED
      BY <1>0, <2>1, <3>1 DEF ServedIsSubscribed
  <2> QED
    BY <2>2, <2>3 DEF ServedIsSubscribed
<1>5. CASE RemovesOne
  <2> PICK c \in Conns, T \in SUBSET Topics :
         /\ topics' = WithoutTopics(Silenced(c), T)
         /\ subscriptions' = Deafened([subscriptions EXCEPT ![c] = Empty(Topics, NoStream)], T)
         /\ \A d \in Conns \ {c} : socket'[d] = socket[d]
    BY <1>5 DEF RemovesOne
  <2> DEFINE left == [subscriptions EXCEPT ![c] = Empty(Topics, NoStream)]
  <2>1. /\ left \in [Conns -> [Topics -> Streams \cup {NoStream}]]
        /\ Silenced(c) \in [Topics -> SUBSET (Conns \X Streams)]
        /\ \A d \in Conns, t \in Topics :
              left[d][t] = IF d = c THEN NoStream ELSE subscriptions[d][t]
        /\ \A t \in Topics : Silenced(c)[t] = topics[t] \ {<<c, subscriptions[c][t]>>}
    BY <1>0 DEF TypeOK, Empty, Silenced
  <2>0. subscriptions' = Deafened(left, T) /\ topics' = WithoutTopics(Silenced(c), T)
    OBVIOUS
  <2> HIDE DEF left
  <2>2. /\ \A d \in Conns, t \in Topics :
             subscriptions'[d][t] = IF t \in T /\ d \in Hearers(t) THEN NoStream ELSE left[d][t]
        /\ \A t \in Topics : topics'[t] = IF t \in T THEN {} ELSE Silenced(c)[t]
    BY <2>0, <2>1, Deafening, Emptying
  <2>3. \A d \in Conns, t \in Topics :
           \/ subscriptions'[d][t] = NoStream
           \/ d # c /\ subscriptions'[d][t] = subscriptions[d][t]
    <3> TAKE d \in Conns, t \in Topics
    <3>1. subscriptions'[d][t] = NoStream \/ subscriptions'[d][t] = left[d][t]
      BY <2>2
    <3>2. left[d][t] = IF d = c THEN NoStream ELSE subscriptions[d][t]
      BY <2>1
    <3> QED
      BY <3>1, <3>2
  <2>4. OnlyStream(x)' /\ OpenAreSubscribed'
    BY <1>0, <2>3 DEF OnlyStream, OpenAreSubscribed
  <2>5. ASSUME NEW t \in Topics, NEW subscriber \in topics'[t]
        PROVE  subscriptions'[subscriber[1]][t] = subscriber[2]
    <3>1. /\ t \notin T /\ subscriber \in Conns \X Streams
          /\ subscriber \in topics[t] /\ subscriber # <<c, subscriptions[c][t]>>
      BY <1>0, <2>1, <2>2, <2>5 DEF TypeOK
    <3>2. subscriptions[subscriber[1]][t] = subscriber[2] /\ subscriber[1] # c
      BY <1>0, <3>1 DEF ServedIsSubscribed
    <3>3. left[subscriber[1]][t] = subscriber[2] /\ subscriber[1] \in Conns
      BY <2>1, <3>1, <3>2
    <3> QED
      BY <2>2, <3>1, <3>3
  <2> QED
    BY <2>4, <2>5 DEF ServedIsSubscribed
<1> QED
  BY <1>0, <1>1, <1>2, <1>3, <1>4, <1>5, FiveEffects

LEMMA OneStreamInit ==
    ASSUME NEW x \in Streams, Init
    PROVE  OneStreamInv(x)
BY DEF Init, Empty, OneStreamInv, ServedInv, SubscribedIsServed, TypeOK, ServedIsSubscribed,
       OnlyStream, OpenAreSubscribed

\* With one stream to each service, nobody is sent what it is not subscribed to.
THEOREM ServedAreSubscribers == OneStream => (Spec => []ServedIsSubscribed)
<1> SUFFICES ASSUME NEW x \in Streams, Named = {x} PROVE Spec => []ServedIsSubscribed
  BY DEF OneStream
<1>1. Init => OneStreamInv(x)
  BY OneStreamInit
<1>2. OneStreamInv(x) /\ [Next]_vars => OneStreamInv(x)'
  BY OneStreamStep
<1>3. OneStreamInv(x) => ServedIsSubscribed
  BY DEF OneStreamInv
<1> QED
  BY <1>1, <1>2, <1>3, PTL DEF Spec

\* Although a closed connection stays a service with a client id, no targeted
\* Sub brings it back among those that are sent anything.
THEOREM TheClosedHearNothing == OneStream => (Spec => []ClosedHearNothing)
<1> SUFFICES ASSUME NEW x \in Streams, Named = {x} PROVE Spec => []ClosedHearNothing
  BY DEF OneStream
<1>1. Init => OneStreamInv(x)
  BY OneStreamInit
<1>2. OneStreamInv(x) /\ [Next]_vars => OneStreamInv(x)'
  BY OneStreamStep
<1>3. OneStreamInv(x) => ClosedHearNothing
  <2> SUFFICES ASSUME OneStreamInv(x), NEW c \in Conns, NEW d \in Conns,
                      NEW s \in Streams, NEW r \in Streams, <<d, r>> \in Recipients(c, s)
               PROVE  socket[d] = "open"
    BY DEF ClosedHearNothing
  <2>1. publications[c][s] \in Topics /\ <<d, r>> \in topics[publications[c][s]]
    BY DEF Recipients, OneStreamInv, ServedInv, TypeOK
  <2>2. subscriptions[d][publications[c][s]] = r
    BY <2>1 DEF OneStreamInv, ServedIsSubscribed
  <2> QED
    BY <2>1, <2>2, StreamsAssumption DEF OneStreamInv, OpenAreSubscribed
<1> QED
  BY <1>1, <1>2, <1>3, PTL DEF Spec

=============================================================================
