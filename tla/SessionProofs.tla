---------------------------- MODULE SessionProofs -----------------------------
(***************************************************************************)
(* Theorems about Session, for any number of shards and clients: it drives *)
(* the broker only as module Broker allows, nothing is registered on a     *)
(* reliable stream, and the broker knows every client in the game.         *)
(***************************************************************************)
EXTENDS Session, BrokerProofs, SequenceTheorems

-----------------------------------------------------------------------------
(* The invariant. *)

\* What is under way to the broker names the gameplay stream, if any.
GameMessages == [op : {"JOIN"}, topic : {NoTopic}, stream : {NoStream}]
                \cup [op : {"Pub", "Sub"}, topic : Topics, stream : {GameplayStream}]

QueuesOK == up \in [Conns -> Seq(GameMessages)] /\ down \in [Conns -> Seq({Welcome})]

AppStates == {"Running", "Login", "Connecting", "InGame", "Disconnected"}
Sessions == [connection : {"awaited", "some", "gone"}, streams : SUBSET Streams,
             joined : BOOLEAN, welcomed : BOOLEAN, registered : BOOLEAN]

SessionsOK ==
    /\ app \in [Conns -> AppStates] /\ session \in [Conns -> Sessions] /\ lost \subseteq Conns

\* Who waits for a connection has sent nothing and is sent nothing, and
\* nothing is left for one that has lost it.
QuietOK ==
    \A c \in Conns :
        /\ session[c].connection = "awaited" => up[c] = <<>> /\ down[c] = <<>>
        /\ session[c].connection = "gone" => c \in lost /\ down[c] = <<>>

BeliefsOK ==
    \A c \in Conns :
        /\ session[c].registered => Has(c, ReliableStream) /\ Has(c, GameplayStream)
        /\ session[c].connection # "some" => session[c] = NoSession(session[c].connection)
        /\ app[c] = "InGame" => session[c].welcomed
        /\ c \notin Clients => app[c] = "Running"

SessionInv == QueuesOK /\ SessionsOK /\ QuietOK /\ BeliefsOK

-----------------------------------------------------------------------------
(* Messages. *)

LEMMA Streaming ==
    /\ ReliableStream \in Streams /\ GameplayStream \in Streams /\ ReliableStream # GameplayStream
    /\ NoStream \notin Streams /\ ReliableStream # NoStream /\ GameplayStream # NoStream
    /\ ReliableStream \in Reliable /\ GameplayStream \in Named
BY SessionAssumption, StreamsAssumption

LEMMA TopicsOf ==
    ASSUME NEW c \in Conns
    PROVE  Own(c) \in Topics /\ Wanted(c) \in Seq(Topics)
<1>1. /\ ShardCount \in Nat /\ 0 .. ShardCount \subseteq Topics
      /\ View \in Topics /\ Input \in Topics /\ 0 \in Topics
  BY SessionAssumption
<1>2. CASE c \in Shards
  <2>1. PICK n \in 0 .. ShardCount - 1 : n = ShardIdOf[c]
    BY <1>2, SessionAssumption
  <2>2. n \in Topics /\ n + 1 \in Topics /\ (n > 0 => n - 1 \in Topics)
    BY <1>1
  <2>3. <<n + 1, View, Input>> \in Seq(Topics)
    BY <1>1, <2>2
  <2>4. (IF n > 0 THEN <<n - 1>> ELSE <<>>) \in Seq(Topics)
    BY <2>2
  <2>5. (IF n > 0 THEN <<n - 1>> ELSE <<>>) \o <<n + 1, View, Input>> \in Seq(Topics)
    BY ONLY <2>3, <2>4, ConcatProperties
  <2> QED
    BY <1>2, <2>1, <2>2, <2>5 DEF Own, Wanted
<1>3. CASE c \notin Shards /\ c = Spatial
  <2>1. [i \in 1 .. ShardCount |-> i - 1] \in [1 .. ShardCount -> Topics]
    BY <1>1
  <2>2. [i \in 1 .. ShardCount |-> i - 1] \in Seq(Topics)
    BY <1>1, <2>1, SeqDef
  <2> QED
    BY <1>1, <1>3, <2>2 DEF Own, Wanted
<1>4. CASE c \notin Shards /\ c # Spatial
  <2>1. <<0>> \in Seq(Topics)
    BY <1>1
  <2> QED
    BY <1>1, <1>4, <2>1 DEF Own, Wanted
<1> QED
  BY <1>2, <1>3, <1>4

LEMMA RegistrationType ==
    ASSUME NEW c \in Conns, Has(c, GameplayStream)
    PROVE  Registration(c) \in Seq(GameMessages)
<1>1. NamedStream(c) = GameplayStream
  BY DEF NamedStream
<1>2. \A t \in Topics : Ask("Pub", t, c) \in GameMessages /\ Ask("Sub", t, c) \in GameMessages
  BY <1>1 DEF Ask, GameMessages
<1>3. PICK wanted \in Seq(Topics) : wanted = Wanted(c)
  BY TopicsOf
<1>4. /\ Len(wanted) \in Nat /\ DOMAIN wanted = 1 .. Len(wanted)
      /\ \A i \in 1 .. Len(wanted) : wanted[i] \in Topics
  BY LenProperties
<1>5. [i \in 1 .. Len(wanted) |-> Ask("Sub", wanted[i], c)] \in [1 .. Len(wanted) -> GameMessages]
  BY <1>2, <1>4
<1>6. [i \in DOMAIN Wanted(c) |-> Ask("Sub", Wanted(c)[i], c)] \in Seq(GameMessages)
  BY <1>3, <1>4, <1>5, SeqDef
<1>7. <<Ask("Pub", Own(c), c)>> \in Seq(GameMessages)
  BY <1>2, TopicsOf
<1> QED
  BY <1>6, <1>7, ConcatProperties DEF Registration

LEMMA HelloType == <<Hello>> \in Seq(GameMessages)
<1>1. Hello \in GameMessages
  BY DEF Hello, GameMessages
<1> QED
  BY <1>1

LEMMA SendType ==
    ASSUME up \in [Conns -> Seq(GameMessages)], NEW c \in Conns, NEW ms \in Seq(GameMessages), Send(c, ms)
    PROVE  /\ up' \in [Conns -> Seq(GameMessages)]
           /\ \A d \in Conns \ {c} : up'[d] = up[d]
<1>1. up[c] \o ms \in Seq(GameMessages)
  BY ConcatProperties
<1> QED
  BY <1>1 DEF Send

\* What is left of a queue when the connection breaks.
LEMMA Prefix ==
    ASSUME NEW S, NEW q \in Seq(S), NEW m \in 0 .. Len(q)
    PROVE  SubSeq(q, 1, m) \in Seq(S) /\ (q = <<>> => SubSeq(q, 1, m) = <<>>)
<1>1. Len(q) \in Nat /\ m \in Int /\ \A i \in 1 .. m : q[i] \in S
  BY LenProperties, ElementOfSeq
<1>2. SubSeq(q, 1, m) \in Seq(S)
  BY <1>1, SubSeqProperties
<1>3. ASSUME q = <<>> PROVE SubSeq(q, 1, m) = <<>>
  <2>1. m < 1
    BY <1>3, EmptySeq
  <2> QED
    BY <1>1, <2>1, SubSeqEmpty
<1> QED
  BY <1>2, <1>3
-----------------------------------------------------------------------------
(* The broker's part. *)

LEMMA IdOfType == \A c \in Conns : IdOf(c) \in Ids \cup {NoId}
BY SessionAssumption DEF IdOf, Clients

\* The message the broker takes from a queue, and what the queue has left.
LEMMA NextMessage ==
    ASSUME QueuesOK, NEW c \in Conns, up[c] # <<>>
    PROVE  /\ Head(up[c]) \in GameMessages
           /\ Tail(up[c]) \in Seq(GameMessages)
           /\ Head(up[c]).op # "JOIN" => Head(up[c]).topic \in Topics /\ Head(up[c]).stream = GameplayStream
           /\ Head(up[c]).op \in {"JOIN", "Pub", "Sub"}
<1>1. Head(up[c]) \in GameMessages /\ Tail(up[c]) \in Seq(GameMessages)
  BY HeadTailProperties DEF QueuesOK
<1> QED
  BY <1>1 DEF GameMessages

LEMMA HandleIsBroker ==
    ASSUME QueuesOK, NEW c \in Conns, Handle(c)
    PROVE  [Next]_vars
<1> DEFINE m == Head(up[c])
<1>1. m.op # "JOIN" => m.topic \in Topics /\ m.stream \in Named
  BY NextMessage, Streaming DEF Handle
<1>2. CASE Admit(c, m)
  BY <1>2, IdOfType, Streaming DEF Admit, Next
<1>3. CASE Ignore(c, m)
  BY <1>3 DEF Ignore, brokerVars
<1>4. CASE Obey(c, m)
  BY <1>1, <1>4 DEF Obey, Next, Control
<1> QED
  BY <1>2, <1>3, <1>4 DEF Handle

LEMMA ServesAsBroker ==
    ASSUME QueuesOK, [SessionNext]_sessionVars
    PROVE  [Next]_vars
<1>1. ASSUME NEW c \in Conns, Open(c) PROVE Next
  BY <1>1 DEF Open, Next
<1>2. ASSUME NEW c \in Conns, NoticeLost(c) PROVE Next
  BY <1>2 DEF NoticeLost, Next
<1>3. CASE UNCHANGED brokerVars
  BY <1>3 DEF brokerVars
<1> QED
  BY <1>1, <1>2, <1>3, HandleIsBroker
  DEF SessionNext, LogIn, Break, Advance, HearConnected, HearStream, HearLost, SendJoin, HearWelcome, EnterGame,
      Register, RepeatJoin, Serve, sessionVars

-----------------------------------------------------------------------------
(* The invariant holds. *)

LEMMA SessionInvInit == SessionInit => SessionInv
<1> SUFFICES ASSUME SessionInit PROVE SessionInv
  OBVIOUS
<1>1. NoSession("awaited") \in Sessions
  BY DEF NoSession, Sessions
<1>2. SessionsOK
  BY <1>1 DEF SessionInit, SessionsOK, AppStates
<1>3. QueuesOK
  BY EmptySeq DEF SessionInit, QueuesOK
<1>4. QuietOK
  BY DEF SessionInit, QuietOK, NoSession
<1>5. BeliefsOK
  BY DEF SessionInit, BeliefsOK, NoSession
<1> QED
  BY <1>2, <1>3, <1>4, <1>5 DEF SessionInv

\* A step of the process on c: of its session, its state and its queues.
LEMMA OneProcess ==
    ASSUME SessionInv, NEW c \in Conns, NEW x \in Sessions, NEW a \in AppStates,
           session' = [session EXCEPT ![c] = x], app' = [app EXCEPT ![c] = a], UNCHANGED lost,
           up' \in [Conns -> Seq(GameMessages)], down' \in [Conns -> Seq({Welcome})],
           \A d \in Conns \ {c} : up'[d] = up[d] /\ down'[d] = down[d],
           x.connection = "awaited" => up'[c] = <<>> /\ down'[c] = <<>>,
           x.connection = "gone" => c \in lost /\ down'[c] = <<>>,
           x.registered => x.connection = "some" /\ ReliableStream \in x.streams /\ GameplayStream \in x.streams,
           x.connection # "some" => x = NoSession(x.connection),
           a = "InGame" => x.welcomed,
           c \notin Clients => a = "Running"
    PROVE  SessionInv'
<1>1. /\ session'[c] = x /\ app'[c] = a
      /\ \A d \in Conns \ {c} : session'[d] = session[d] /\ app'[d] = app[d]
  BY DEF SessionInv, SessionsOK
<1>2. QueuesOK' /\ SessionsOK'
  BY DEF SessionInv, QueuesOK, SessionsOK
<1>3. QuietOK'
  BY <1>1 DEF SessionInv, QuietOK
<1>4. BeliefsOK'
  BY <1>1 DEF SessionInv, BeliefsOK, Has
<1> QED
  BY <1>2, <1>3, <1>4 DEF SessionInv
\* What is known of the process on c before its step.
LEMMA Before ==
    ASSUME SessionInv, NEW c \in Conns
    PROVE  /\ session[c] \in Sessions /\ app[c] \in AppStates
           /\ session = [session EXCEPT ![c] = session[c]] /\ app = [app EXCEPT ![c] = app[c]]
           /\ up[c] \in Seq(GameMessages) /\ down[c] \in Seq({Welcome})
           /\ session[c].connection = "awaited" => up[c] = <<>> /\ down[c] = <<>>
           /\ session[c].connection = "gone" => c \in lost /\ down[c] = <<>>
           /\ session[c].registered => Has(c, ReliableStream) /\ Has(c, GameplayStream)
           /\ session[c].connection # "some" => session[c] = NoSession(session[c].connection)
           /\ app[c] = "InGame" => session[c].welcomed
           /\ c \notin Clients => app[c] = "Running"
BY DEF SessionInv, SessionsOK, QueuesOK, QuietOK, BeliefsOK

\* A step within a connection.
LEMMA Connected ==
    ASSUME SessionInv, NEW c \in Conns, NEW x \in Sessions,
           session' = [session EXCEPT ![c] = x], UNCHANGED <<app, lost>>,
           up' \in [Conns -> Seq(GameMessages)], down' \in [Conns -> Seq({Welcome})],
           \A d \in Conns \ {c} : up'[d] = up[d] /\ down'[d] = down[d],
           x.connection = "some", session[c].welcomed => x.welcomed,
           x.registered => ReliableStream \in x.streams /\ GameplayStream \in x.streams
    PROVE  SessionInv'
<1>1. PICK a \in AppStates : a = app[c]
  BY Before
<1>2. /\ app' = [app EXCEPT ![c] = a]
      /\ a = "InGame" => x.welcomed
      /\ c \notin Clients => a = "Running"
  BY <1>1, Before
<1> QED
  BY <1>2, OneProcess

LEMMA ConnectionStep ==
    ASSUME SessionInv, NEW c \in Conns, HearConnected(c) \/ LogIn(c) \/ \E s \in Streams : HearStream(c, s)
    PROVE  SessionInv'
<1>1. CASE HearConnected(c)
  <2> DEFINE x == [session[c] EXCEPT !.connection = "some"]
  <2>1. x \in Sessions /\ x.connection = "some" /\ x.welcomed = session[c].welcomed
        /\ x.registered = session[c].registered
    BY Before DEF Sessions
  <2>2. ~session[c].registered
    BY <1>1, Before DEF HearConnected, Has
  <2>3. session' = [session EXCEPT ![c] = x] /\ UNCHANGED <<app, lost, up, down>>
    BY <1>1 DEF HearConnected
  <2> HIDE DEF x
  <2> QED
    BY <2>1, <2>2, <2>3, Before, OneProcess DEF SessionInv, QueuesOK
<1>2. CASE LogIn(c)
  <2>1. /\ app' = [app EXCEPT ![c] = "Connecting"] /\ UNCHANGED <<session, lost, up, down>>
        /\ app[c] = "Login" /\ "Connecting" \in AppStates
    BY <1>2 DEF LogIn, AppStates
  <2> QED
    BY <2>1, Before, OneProcess DEF SessionInv, QueuesOK, Has
<1>3. ASSUME NEW s \in Streams, HearStream(c, s) PROVE SessionInv'
  <2> DEFINE x == [session[c] EXCEPT !.streams = @ \cup {s}]
  <2>1. /\ x \in Sessions /\ x.connection = "some" /\ x.welcomed = session[c].welcomed
        /\ x.registered = session[c].registered /\ session[c].streams \subseteq x.streams
    BY <1>3, Before DEF Sessions, HearStream
  <2>2. session' = [session EXCEPT ![c] = x] /\ UNCHANGED <<app, lost, up, down>>
    BY <1>3 DEF HearStream
  <2> HIDE DEF x
  <2> QED
    BY <2>1, <2>2, Before, Connected DEF SessionInv, QueuesOK, Has
<1> QED
  BY <1>1, <1>2, <1>3

LEMMA JoinStep ==
    ASSUME SessionInv, NEW c \in Conns, SendJoin(c) \/ RepeatJoin(c) \/ HearWelcome(c) \/ EnterGame(c)
    PROVE  SessionInv'
<1>1. CASE SendJoin(c)
  <2> DEFINE x == [session[c] EXCEPT !.joined = TRUE]
  <2>1. /\ x \in Sessions /\ x.connection = "some" /\ x.welcomed = session[c].welcomed
        /\ x.registered = session[c].registered /\ session[c].streams = x.streams
    BY <1>1, Before DEF Sessions, SendJoin, Has
  <2>2. session' = [session EXCEPT ![c] = x] /\ UNCHANGED <<app, lost, down>> /\ Send(c, <<Hello>>)
    BY <1>1 DEF SendJoin
  <2>3. up' \in [Conns -> Seq(GameMessages)] /\ \A d \in Conns \ {c} : up'[d] = up[d]
    BY <2>2, HelloType, SendType DEF SessionInv, QueuesOK
  <2> HIDE DEF x
  <2> QED
    BY <2>1, <2>2, <2>3, Before, Connected DEF SessionInv, QueuesOK, Has
<1>2. CASE RepeatJoin(c)
  <2>1. UNCHANGED <<app, session, lost, down>> /\ Send(c, <<Hello>>) /\ session[c].connection = "some"
    BY <1>2 DEF RepeatJoin, Has
  <2>2. up' \in [Conns -> Seq(GameMessages)] /\ \A d \in Conns \ {c} : up'[d] = up[d]
    BY <2>1, HelloType, SendType DEF SessionInv, QueuesOK
  <2>3. PICK x \in Sessions : x = session[c]
    BY Before
  <2>4. session' = [session EXCEPT ![c] = x] /\ x.connection = "some"
        /\ (x.registered => ReliableStream \in x.streams /\ GameplayStream \in x.streams)
    BY <2>1, <2>3, Before DEF Has
  <2> QED
    BY <2>1, <2>2, <2>3, <2>4, Connected DEF SessionInv, QueuesOK
<1>3. CASE HearWelcome(c)
  <2> DEFINE x == [session[c] EXCEPT !.welcomed = TRUE]
  <2>1. session[c].connection = "some"
    BY <1>3, Before DEF HearWelcome, Sessions
  <2>2. /\ x \in Sessions /\ x.connection = "some" /\ x.welcomed
        /\ x.registered = session[c].registered /\ session[c].streams = x.streams
    BY <2>1, Before DEF Sessions
  <2>3. session' = [session EXCEPT ![c] = x] /\ UNCHANGED <<app, lost, up>>
    BY <1>3 DEF HearWelcome
  <2>4. down' \in [Conns -> Seq({Welcome})] /\ \A d \in Conns \ {c} : down'[d] = down[d]
    <3>1. Tail(down[c]) \in Seq({Welcome})
      BY <1>3, Before, HeadTailProperties DEF HearWelcome
    <3> QED
      BY <1>3, <3>1 DEF HearWelcome, SessionInv, QueuesOK
  <2> HIDE DEF x
  <2> QED
    BY <2>2, <2>3, <2>4, Before, Connected DEF SessionInv, QueuesOK, Has
<1>4. CASE EnterGame(c)
  <2>1. /\ app' = [app EXCEPT ![c] = "InGame"] /\ UNCHANGED <<session, lost, up, down>>
        /\ app[c] = "Connecting" /\ session[c].welcomed /\ "InGame" \in AppStates
    BY <1>4 DEF EnterGame, AppStates
  <2> QED
    BY <2>1, Before, OneProcess DEF SessionInv, QueuesOK, Has
<1> QED
  BY <1>1, <1>2, <1>3, <1>4

LEMMA RegisterStep ==
    ASSUME SessionInv, NEW c \in Conns, Register(c) \/ HearLost(c)
    PROVE  SessionInv'
<1>1. CASE Register(c)
  <2> DEFINE x == [session[c] EXCEPT !.registered = TRUE]
  <2>1. Has(c, ReliableStream) /\ Has(c, GameplayStream)
    BY <1>1 DEF Register, Ready
  <2>2. /\ x \in Sessions /\ x.connection = "some" /\ x.welcomed = session[c].welcomed
        /\ ReliableStream \in x.streams /\ GameplayStream \in x.streams
    BY <2>1, Before DEF Sessions, Has
  <2>3. session' = [session EXCEPT ![c] = x] /\ UNCHANGED <<app, lost, down>> /\ Send(c, Registration(c))
    BY <1>1 DEF Register
  <2>4. up' \in [Conns -> Seq(GameMessages)] /\ \A d \in Conns \ {c} : up'[d] = up[d]
    BY <2>1, <2>3, RegistrationType, SendType DEF SessionInv, QueuesOK
  <2> HIDE DEF x
  <2> QED
    BY <2>2, <2>3, <2>4, Before, Connected DEF SessionInv, QueuesOK
<1>2. CASE HearLost(c)
  <2> DEFINE x == NoSession("gone")
             a == IF c \in Clients THEN "Disconnected" ELSE app[c]
  <2>1. x \in Sessions /\ x.connection = "gone" /\ ~x.registered
    BY DEF NoSession, Sessions
  <2>2. a \in AppStates /\ a # "InGame" /\ (c \notin Clients => a = "Running")
    BY Before DEF AppStates
  <2>3. /\ session' = [session EXCEPT ![c] = x] /\ app' = [app EXCEPT ![c] = a]
        /\ UNCHANGED <<lost, up, down>> /\ c \in lost /\ down[c] = <<>>
    BY <1>2, Before DEF HearLost, WithoutSession
  <2>4. x = NoSession(x.connection)
    BY <2>1
  <2> HIDE DEF x, a
  <2> QED
    BY <2>1, <2>2, <2>3, <2>4, OneProcess DEF SessionInv, QueuesOK
<1> QED
  BY <1>1, <1>2
LEMMA BreakStep ==
    ASSUME SessionInv, NEW c \in Conns, Break(c)
    PROVE  SessionInv'
<1>1. PICK m \in 0 .. Len(up[c]), n \in 0 .. Len(down[c]) :
         /\ up' = [up EXCEPT ![c] = SubSeq(@, 1, m)]
         /\ down' = [down EXCEPT ![c] = SubSeq(@, 1, n)]
  BY DEF Break
<1>2. lost' = lost \cup {c} /\ UNCHANGED <<app, session>>
  BY DEF Break
<1>3. /\ SubSeq(up[c], 1, m) \in Seq(GameMessages) /\ (up[c] = <<>> => SubSeq(up[c], 1, m) = <<>>)
      /\ SubSeq(down[c], 1, n) \in Seq({Welcome}) /\ (down[c] = <<>> => SubSeq(down[c], 1, n) = <<>>)
  BY Before, Prefix
<1>4. QueuesOK'
  BY <1>1, <1>3 DEF SessionInv, QueuesOK
<1>5. SessionsOK' /\ BeliefsOK'
  BY <1>2 DEF SessionInv, SessionsOK, BeliefsOK, Has
<1>6. \A d \in Conns : (up[d] = <<>> => up'[d] = <<>>) /\ (down[d] = <<>> => down'[d] = <<>>)
  BY <1>1, <1>3 DEF SessionInv, QueuesOK
<1>7. QuietOK'
  BY <1>2, <1>6 DEF SessionInv, QuietOK
<1> QED
  BY <1>4, <1>5, <1>7 DEF SessionInv

\* What the broker does with a message is to forget it, and to answer JOIN.
LEMMA HandleEffect ==
    ASSUME SessionInv, NEW c \in Conns, Handle(c)
    PROVE  /\ up[c] # <<>> /\ up' = [up EXCEPT ![c] = Tail(@)]
           /\ UNCHANGED <<app, session, lost>>
           /\ \/ UNCHANGED down
              \/ /\ Admit(c, Head(up[c])) /\ c \notin lost
                 /\ down' = [down EXCEPT ![c] = @ \o <<Welcome>>]
BY DEF Handle, Admit, Answer, Ignore, Obey

LEMMA HandleStep ==
    ASSUME SessionInv, NEW c \in Conns, Handle(c)
    PROVE  SessionInv'
<1>1. up[c] # <<>> /\ Tail(up[c]) \in Seq(GameMessages) /\ up' = [up EXCEPT ![c] = Tail(@)]
      /\ UNCHANGED <<app, session, lost>>
  BY HandleEffect, NextMessage DEF SessionInv
<1>2. /\ down' \in [Conns -> Seq({Welcome})]
      /\ \A d \in Conns : (d = c /\ c \notin lost) \/ down'[d] = down[d]
  <2>1. CASE UNCHANGED down
    BY <2>1 DEF SessionInv, QueuesOK
  <2>2. CASE c \notin lost /\ down' = [down EXCEPT ![c] = @ \o <<Welcome>>]
    <3>1. <<Welcome>> \in Seq({Welcome}) /\ down[c] \in Seq({Welcome})
      BY Before
    <3>2. down[c] \o <<Welcome>> \in Seq({Welcome})
      BY ONLY <3>1, ConcatProperties
    <3> QED
      BY <2>2, <3>2 DEF SessionInv, QueuesOK
  <2> QED
    BY <2>1, <2>2, HandleEffect
<1>3. QueuesOK' /\ SessionsOK' /\ BeliefsOK'
  BY <1>1, <1>2 DEF SessionInv, QueuesOK, SessionsOK, BeliefsOK, Has
<1>4. QuietOK'
  BY <1>1, <1>2 DEF SessionInv, QueuesOK, QuietOK
<1> QED
  BY <1>3, <1>4 DEF SessionInv

LEMMA SessionInvStep == SessionInv /\ [SessionNext]_sessionVars => SessionInv'
<1> SUFFICES ASSUME SessionInv, [SessionNext]_sessionVars PROVE SessionInv'
  OBVIOUS
<1>1. CASE UNCHANGED <<app, session, lost, up, down>>
  BY <1>1 DEF SessionInv, QueuesOK, SessionsOK, QuietOK, BeliefsOK, Has
<1> QED
  BY <1>1, ConnectionStep, JoinStep, RegisterStep, BreakStep, HandleStep
  DEF SessionNext, Open, Advance, Serve, NoticeLost, sessionVars

LEMMA SessionInvHolds == SessionSpec => []SessionInv
BY SessionInvInit, SessionInvStep, PTL DEF SessionSpec

\* Shards, spatial service and clients, with streams that come in any order
\* and connections that break, drive the broker only as Broker specifies: all
\* that is proved of it holds of their sessions.
THEOREM SessionIsABroker == SessionSpec => Spec
<1>1. SessionInit => Init
  BY DEF SessionInit
<1>2. SessionInv /\ [SessionNext]_sessionVars => [Next]_vars
  BY ServesAsBroker DEF SessionInv
<1> QED
  BY <1>1, <1>2, SessionInvHolds, PTL DEF SessionSpec, Spec

\* The variables have their types, and no process believes in a registration
\* that it has lost with its connection.
THEOREM SessionTypes == SessionSpec => []SessionTypeOK
<1>1. SessionInv /\ TypeOK => SessionTypeOK
  <2> SUFFICES ASSUME SessionInv, TypeOK PROVE SessionTypeOK
    OBVIOUS
  <2>1. GameMessages \subseteq Messages
    BY DEF GameMessages, Messages
  <2>2. \A c \in Conns : up[c] \in Seq(Messages)
    BY <2>1, SeqMonotonic DEF SessionInv, QueuesOK
  <2> QED
    BY <2>2 DEF SessionInv, SessionsOK, QueuesOK, BeliefsOK, AppStates, Sessions, SessionTypeOK
<1> QED
  BY <1>1, SessionInvHolds, SessionIsABroker, TypeCorrect, PTL
-----------------------------------------------------------------------------
(* Whom the broker knows. *)

Welcomed(c) ==
    down[c] # <<>> \/ session[c].welcomed \/ session[c].registered \/ app[c] = "InGame"

Admitted(c) == c \in Services /\ (c \in Clients => clients[ClientIdOf[c]] = c)

\* Being welcome comes after being admitted, which is for good.
AdmittedOK == \A c \in Conns : Welcomed(c) => Admitted(c)

LEMMA AdmitEffect ==
    ASSUME TypeOK, NEW c \in Conns, NEW m, Admit(c, m)
    PROVE  /\ c \notin Services /\ Admitted(c)'
           /\ \A d \in Conns : Admitted(d) => Admitted(d)'
<1>1. /\ c \notin Services
      /\ lifeline' = [lifeline EXCEPT ![c] = ReliableStream]
      /\ clients' = IF IdOf(c) = NoId THEN clients ELSE [clients EXCEPT ![IdOf(c)] = c]
  BY DEF Admit, Join
<1>2. \A d \in Clients : ClientIdOf[d] \in Ids /\ ClientIdOf[d] # NoId
  BY SessionAssumption, NoneAssumption DEF Clients
<1>3. Admitted(c)'
  BY <1>1, <1>2, Streaming DEF Admitted, Services, TypeOK, IdOf
<1>4. ASSUME NEW d \in Conns, Admitted(d) PROVE Admitted(d)'
  <2>1. d # c /\ d \in Services'
    BY <1>1, <1>4 DEF Admitted, Services, TypeOK
  <2>2. d \in Clients => clients'[ClientIdOf[d]] = d
    BY <1>1, <1>2, <1>4, <2>1, SessionAssumption DEF Admitted, IdOf, TypeOK
  <2> QED
    BY <2>1, <2>2 DEF Admitted
<1> QED
  BY <1>1, <1>3, <1>4

\* What a step does to the broker.
LEMMA BrokerEffect ==
    ASSUME SessionInv, [SessionNext]_sessionVars
    PROVE  \/ UNCHANGED brokerVars
           \/ \E c \in Conns : Open(c)
           \/ \E c \in Conns : Handle(c) /\ Admit(c, Head(up[c]))
           \/ \E c \in Conns : Handle(c) /\ Obey(c, Head(up[c]))
           \/ \E c \in Conns : NoticeLost(c)
BY DEF SessionNext, LogIn, Break, Advance, HearConnected, HearStream, HearLost, SendJoin, HearWelcome, EnterGame,
       Register, RepeatJoin, Serve, Handle, Ignore, sessionVars

LEMMA AdmittedStay ==
    ASSUME SessionInv, TypeOK, [SessionNext]_sessionVars, NEW c \in Conns, Admitted(c)
    PROVE  Admitted(c)'
<1>1. CASE UNCHANGED <<lifeline, clients>>
  BY <1>1 DEF Admitted, Services
<1> QED
  BY <1>1, BrokerEffect, AdmitEffect
  DEF brokerVars, vars, Open, Connect, Obey, Pub, Sub, NoticeLost, Disconnect, RemoveService

\* Nobody is welcome out of nothing.
LEMMA WelcomeStep ==
    ASSUME SessionInv, [SessionNext]_sessionVars, NEW c \in Conns, Welcomed(c)'
    PROVE  Welcomed(c) \/ Admit(c, Head(up[c]))
<1>1. CASE UNCHANGED <<app, session, down>>
  BY <1>1 DEF Welcomed
<1>2. ASSUME NEW d \in Conns, Handle(d) PROVE Welcomed(c) \/ Admit(c, Head(up[c]))
  <2>1. CASE d # c
    BY <1>2, <2>1, HandleEffect DEF Welcomed, SessionInv, QueuesOK
  <2>2. CASE d = c
    BY <1>2, <2>2, HandleEffect DEF Welcomed
  <2> QED
    BY <2>1, <2>2
<1>3. ASSUME NEW d \in Conns, Break(d) PROVE Welcomed(c)
  <2>1. PICK n \in 0 .. Len(down[d]) : down' = [down EXCEPT ![d] = SubSeq(@, 1, n)]
    BY <1>3 DEF Break
  <2>2. down[d] = <<>> => SubSeq(down[d], 1, n) = <<>>
    BY Before, Prefix
  <2>3. down'[c] # <<>> => down[c] # <<>>
    BY <2>1, <2>2 DEF SessionInv, QueuesOK
  <2> QED
    BY <1>3, <2>3 DEF Break, Welcomed
<1>4. ASSUME NEW d \in Conns, LogIn(d) \/ EnterGame(d) PROVE Welcomed(c)
  BY <1>4 DEF LogIn, EnterGame, Welcomed, SessionInv, SessionsOK
<1>5. ASSUME NEW d \in Conns, HearConnected(d) \/ (\E s \in Streams : HearStream(d, s)) \/ SendJoin(d)
      PROVE  Welcomed(c)
  BY <1>5 DEF HearConnected, HearStream, SendJoin, Welcomed, SessionInv, SessionsOK, Sessions
<1>6. ASSUME NEW d \in Conns, HearLost(d) PROVE Welcomed(c)
  BY <1>6 DEF HearLost, WithoutSession, NoSession, Welcomed, SessionInv, SessionsOK
<1>7. ASSUME NEW d \in Conns, HearWelcome(d) PROVE Welcomed(c)
  BY <1>7 DEF HearWelcome, Welcomed, SessionInv, SessionsOK, QueuesOK, Sessions
<1>8. ASSUME NEW d \in Conns, Register(d) PROVE Welcomed(c)
  BY <1>8 DEF Register, Ready, Welcomed, SessionInv, SessionsOK, Sessions
<1> QED
  BY <1>1, <1>2, <1>3, <1>4, <1>5, <1>6, <1>7, <1>8
  DEF SessionNext, Open, Advance, RepeatJoin, Serve, NoticeLost, sessionVars

LEMMA AdmittedStep ==
    ASSUME SessionInv, TypeOK, AdmittedOK, [SessionNext]_sessionVars
    PROVE  AdmittedOK'
<1> SUFFICES ASSUME NEW c \in Conns, Welcomed(c)' PROVE Admitted(c)'
  BY DEF AdmittedOK
<1> QED
  BY WelcomeStep, AdmittedStay, AdmitEffect DEF AdmittedOK

LEMMA AdmittedInit == SessionInit => AdmittedOK
BY DEF SessionInit, AdmittedOK, Welcomed, NoSession

LEMMA AdmittedHolds == SessionSpec => [](SessionInv /\ TypeOK /\ AdmittedOK)
<1>1. SessionSpec => []TypeOK
  BY SessionIsABroker, TypeCorrect, PTL
<1> QED
  BY <1>1, AdmittedInit, AdmittedStep, SessionInvHolds, PTL DEF SessionSpec

\* A client enters the game when the broker knows it by its id, and it stays
\* known: the spatial service finds whom it wants to subscribe.
THEOREM InGameAreKnown == SessionSpec => []InGameIsKnown
<1>1. AdmittedOK => InGameIsKnown
  BY SessionAssumption DEF AdmittedOK, Welcomed, Admitted, InGameIsKnown
<1> QED
  BY <1>1, AdmittedHolds, PTL
-----------------------------------------------------------------------------
(* What is under way in a queue. *)

In(q) == {q[i] : i \in 1 .. Len(q)}

LEMMA InConcat ==
    ASSUME NEW S, NEW q \in Seq(S), NEW r \in Seq(S)
    PROVE  In(q \o r) = In(q) \cup In(r)
<1> DEFINE both == q \o r
<1>1. /\ Len(q) \in Nat /\ Len(r) \in Nat /\ Len(both) = Len(q) + Len(r)
      /\ \A i \in 1 .. Len(both) : both[i] = IF i <= Len(q) THEN q[i] ELSE r[i - Len(q)]
  BY ConcatProperties, LenProperties
<1> HIDE DEF both
<1>2. ASSUME NEW i \in 1 .. Len(both) PROVE both[i] \in In(q) \cup In(r)
  BY <1>1 DEF In
<1>3. ASSUME NEW i \in 1 .. Len(q) PROVE q[i] \in In(both)
  <2>1. i \in 1 .. Len(both) /\ both[i] = q[i]
    BY <1>1
  <2> QED
    BY <2>1 DEF In
<1>4. ASSUME NEW i \in 1 .. Len(r) PROVE r[i] \in In(both)
  <2>1. PICK j \in 1 .. Len(both) : j = Len(q) + i
    BY <1>1
  <2>2. both[j] = r[i]
    BY <1>1, <2>1
  <2> QED
    BY <2>2 DEF In
<1>5. In(both) = In(q) \cup In(r)
  BY <1>2, <1>3, <1>4 DEF In
<1> QED
  BY <1>5 DEF both

LEMMA InTail ==
    ASSUME NEW S, NEW q \in Seq(S), q # <<>>
    PROVE  In(q) = In(Tail(q)) \cup {Head(q)}
<1>1. /\ Len(q) \in Nat \ {0} /\ Len(Tail(q)) = Len(q) - 1 /\ Head(q) = q[1]
      /\ \A i \in 1 .. Len(Tail(q)) : Tail(q)[i] = q[i + 1]
  BY HeadTailProperties, EmptySeq
<1>2. ASSUME NEW i \in 1 .. Len(q) PROVE q[i] \in In(Tail(q)) \cup {Head(q)}
  <2>1. CASE i = 1
    BY <1>1, <2>1
  <2>2. CASE i # 1
    <3>1. PICK j \in 1 .. Len(Tail(q)) : i = j + 1
      BY <1>1, <2>2
    <3> QED
      BY <1>1, <3>1 DEF In
  <2> QED
    BY <2>1, <2>2
<1>3. ASSUME NEW i \in 1 .. Len(Tail(q)) PROVE Tail(q)[i] \in In(q)
  <2>1. i + 1 \in 1 .. Len(q) /\ Tail(q)[i] = q[i + 1]
    BY <1>1
  <2> QED
    BY <2>1 DEF In
<1>4. Head(q) \in In(q)
  BY <1>1 DEF In
<1> QED
  BY <1>2, <1>3, <1>4 DEF In

LEMMA InPrefix ==
    ASSUME NEW S, NEW q \in Seq(S), NEW m \in 0 .. Len(q)
    PROVE  In(SubSeq(q, 1, m)) \subseteq In(q)
<1>1. Len(q) \in Nat /\ m \in Int /\ \A i \in 1 .. m : q[i] \in S
  BY LenProperties, ElementOfSeq
<1>2. /\ Len(SubSeq(q, 1, m)) = m
      /\ \A i \in 1 .. m : SubSeq(q, 1, m)[i] = q[i]
  <2>1. /\ Len(SubSeq(q, 1, m)) = IF 1 <= m THEN m - 1 + 1 ELSE 0
        /\ \A i \in 1 .. m - 1 + 1 : SubSeq(q, 1, m)[i] = q[1 + i - 1]
    BY <1>1, SubSeqProperties
  <2> QED
    BY <1>1, <2>1
<1> QED
  BY <1>1, <1>2 DEF In

LEMMA InEmpty == In(<<>>) = {}
<1>1. Len(<<>>) = 0
  BY EmptySeq
<1> QED
  BY <1>1 DEF In

WantedTopics(c) == {Wanted(c)[i] : i \in DOMAIN Wanted(c)}
PubOwn(c) == [op |-> "Pub", topic |-> Own(c), stream |-> GameplayStream]
SubTo(t) == [op |-> "Sub", topic |-> t, stream |-> GameplayStream]

LEMMA InRegistration ==
    ASSUME NEW c \in Conns, Has(c, GameplayStream)
    PROVE  In(Registration(c)) = {PubOwn(c)} \cup {SubTo(t) : t \in WantedTopics(c)}
<1>1. NamedStream(c) = GameplayStream
  BY DEF NamedStream
<1>2. PICK wanted \in Seq(Topics) : wanted = Wanted(c)
  BY TopicsOf
<1> DEFINE subs == [i \in 1 .. Len(wanted) |-> SubTo(wanted[i])]
<1>3. /\ Len(wanted) \in Nat /\ DOMAIN wanted = 1 .. Len(wanted)
      /\ \A i \in 1 .. Len(wanted) : wanted[i] \in Topics
  BY LenProperties
<1>4. \A t \in Topics : SubTo(t) \in GameMessages
  BY DEF SubTo, GameMessages
<1>5. PubOwn(c) \in GameMessages
  BY TopicsOf DEF PubOwn, GameMessages
<1>6. subs \in [1 .. Len(wanted) -> GameMessages]
  BY <1>3, <1>4
<1>7. subs \in Seq(GameMessages) /\ <<PubOwn(c)>> \in Seq(GameMessages)
  BY <1>3, <1>5, <1>6, SeqDef
<1>8. Registration(c) = <<PubOwn(c)>> \o subs
  <2>1. [i \in DOMAIN Wanted(c) |-> Ask("Sub", Wanted(c)[i], c)] = subs
    BY <1>1, <1>2, <1>3 DEF Ask, SubTo
  <2>2. Ask("Pub", Own(c), c) = PubOwn(c)
    BY <1>1 DEF Ask, PubOwn
  <2> QED
    BY <2>1, <2>2 DEF Registration
<1>9. Len(subs) = Len(wanted)
  BY <1>3, <1>7, LenProperties
<1>10. In(subs) = {SubTo(t) : t \in WantedTopics(c)}
  BY <1>2, <1>3, <1>9 DEF In, WantedTopics
<1>11. In(<<PubOwn(c)>>) = {PubOwn(c)}
  BY DEF In
<1> HIDE DEF subs
<1>12. In(<<PubOwn(c)>> \o subs) = In(<<PubOwn(c)>>) \cup In(subs)
  BY ONLY <1>7, InConcat
<1> QED
  BY <1>8, <1>10, <1>11, <1>12
\* What a step leaves under way from c, and what it adds.
LEMMA UnderWayStep ==
    ASSUME SessionInv, [SessionNext]_sessionVars, NEW c \in Conns
    PROVE  /\ In(up'[c]) \subseteq In(up[c]) \cup {Hello, PubOwn(c)} \cup {SubTo(t) : t \in WantedTopics(c)}
           /\ c \notin lost' => \A m \in In(up[c]) : m \in In(up'[c]) \/ (Handle(c) /\ m = Head(up[c]))
           /\ c \notin lost' /\ session'[c].registered /\ ~session[c].registered =>
                 {PubOwn(c)} \cup {SubTo(t) : t \in WantedTopics(c)} \subseteq In(up'[c])
<1> DEFINE Asked == {PubOwn(c)} \cup {SubTo(t) : t \in WantedTopics(c)}
           Goal == /\ In(up'[c]) \subseteq In(up[c]) \cup {Hello} \cup Asked
                   /\ c \notin lost' => \A m \in In(up[c]) : m \in In(up'[c]) \/ (Handle(c) /\ m = Head(up[c]))
                   /\ c \notin lost' /\ session'[c].registered /\ ~session[c].registered =>
                         Asked \subseteq In(up'[c])
<1> SUFFICES Goal
  OBVIOUS
<1>0. up[c] \in Seq(GameMessages) /\ up \in [Conns -> Seq(GameMessages)]
  BY DEF SessionInv, QueuesOK
<1>1. CASE up'[c] = up[c] /\ (session'[c].registered => session[c].registered)
  BY <1>1
<1>2. CASE Handle(c)
  <2>1. up[c] # <<>> /\ up'[c] = Tail(up[c]) /\ UNCHANGED session
    BY <1>0, <1>2, HandleEffect
  <2>2. In(up[c]) = In(up'[c]) \cup {Head(up[c])}
    BY <1>0, <2>1, InTail
  <2> QED
    BY <1>2, <2>1, <2>2
<1>3. CASE Break(c)
  <2>1. PICK m \in 0 .. Len(up[c]) : up'[c] = SubSeq(up[c], 1, m)
    BY <1>0, <1>3 DEF Break
  <2>2. In(up'[c]) \subseteq In(up[c])
    BY <1>0, <2>1, InPrefix
  <2> QED
    BY <1>3, <2>2 DEF Break
<1>4. CASE UNCHANGED <<session, lost>> /\ Send(c, <<Hello>>)
  <2>1. CASE c \in lost
    BY <1>1, <1>4, <2>1 DEF Send
  <2>2. CASE c \notin lost
    <3>1. up'[c] = up[c] \o <<Hello>>
      BY <1>0, <1>4, <2>2 DEF Send
    <3>2. In(up[c] \o <<Hello>>) = In(up[c]) \cup In(<<Hello>>)
      BY ONLY <1>0, HelloType, InConcat
    <3>3. In(<<Hello>>) = {Hello}
      BY DEF In
    <3> QED
      BY <1>4, <3>1, <3>2, <3>3
  <2> QED
    BY <2>1, <2>2
<1>5. CASE Register(c)
  <2>1. Has(c, GameplayStream) /\ Send(c, Registration(c)) /\ UNCHANGED lost
    BY <1>5 DEF Register, Ready
  <2>2. CASE c \in lost
    BY <2>1, <2>2 DEF Send
  <2>3. CASE c \notin lost
    <3>1. up'[c] = up[c] \o Registration(c)
      BY <1>0, <2>1, <2>3 DEF Send
    <3>2. Registration(c) \in Seq(GameMessages)
      BY <2>1, RegistrationType
    <3>3. In(up[c] \o Registration(c)) = In(up[c]) \cup In(Registration(c))
      BY ONLY <1>0, <3>2, InConcat
    <3>4. In(Registration(c)) = Asked
      BY <2>1, InRegistration
    <3> QED
      BY <3>1, <3>3, <3>4
  <2> QED
    BY <2>2, <2>3
<1>6. ASSUME NEW d \in Conns, d # c, LogIn(d) \/ Open(d) \/ Break(d) \/ Advance(d) \/ RepeatJoin(d) \/ Serve(d)
      PROVE  up'[c] = up[c] /\ session'[c] = session[c]
  BY <1>0, <1>6 DEF LogIn, Open, Break, Advance, HearConnected, HearStream, HearLost, SendJoin, HearWelcome,
      EnterGame, Register, RepeatJoin, Serve, Handle, NoticeLost, Send, SessionInv, SessionsOK
<1>7. ASSUME LogIn(c) \/ Open(c) \/ HearConnected(c) \/ (\E s \in Streams : HearStream(c, s)) \/ HearLost(c)
             \/ HearWelcome(c) \/ EnterGame(c) \/ NoticeLost(c)
      PROVE  up'[c] = up[c] /\ (session'[c].registered => session[c].registered)
  BY <1>7 DEF LogIn, Open, HearConnected, HearStream, HearLost, WithoutSession, NoSession, HearWelcome,
      EnterGame, NoticeLost, SessionInv, SessionsOK, Sessions
<1>8. CASE RepeatJoin(c)
  BY <1>4, <1>8 DEF RepeatJoin
<1>9. CASE SendJoin(c)
  <2>1. CASE c \in lost
    BY <1>1, <1>9, <2>1 DEF SendJoin, Send, SessionInv, SessionsOK, Sessions
  <2>2. CASE c \notin lost
    <3>1. up'[c] = up[c] \o <<Hello>> /\ (session'[c].registered => session[c].registered)
      BY <1>0, <1>9, <2>2 DEF Send, SendJoin, SessionInv, SessionsOK, Sessions
    <3>2. In(up[c] \o <<Hello>>) = In(up[c]) \cup In(<<Hello>>)
      BY ONLY <1>0, HelloType, InConcat
    <3>3. In(<<Hello>>) = {Hello}
      BY DEF In
    <3> QED
      BY <3>1, <3>2, <3>3
  <2> QED
    BY <2>1, <2>2
<1>10. CASE UNCHANGED sessionVars
  BY <1>1, <1>10 DEF sessionVars
<1> HIDE DEF Goal
<1>11. ASSUME NEW d \in Conns, LogIn(d) \/ Open(d) \/ Break(d) \/ Advance(d) \/ RepeatJoin(d) \/ Serve(d)
       PROVE  Goal
  <2>1. CASE d # c
    BY <1>1, <1>6, <1>11, <2>1
  <2>2. CASE d = c
    <3>1. \/ LogIn(c) \/ Open(c) \/ HearConnected(c) \/ (\E s \in Streams : HearStream(c, s)) \/ HearLost(c)
          \/ HearWelcome(c) \/ EnterGame(c) \/ NoticeLost(c)
          \/ Handle(c) \/ Break(c) \/ Register(c) \/ RepeatJoin(c) \/ SendJoin(c)
      BY <1>11, <2>2 DEF Advance, Serve
    <3> QED
      BY <1>1, <1>2, <1>3, <1>5, <1>7, <1>8, <1>9, <3>1
  <2> QED
    BY <2>1, <2>2
<1> QED
  BY <1>10, <1>11 DEF SessionNext
-----------------------------------------------------------------------------
(* What the broker makes of it. *)

\* A process publishes its own topic and nothing else, and publishes and
\* hears on the gameplay stream.
OwnRecords(c) ==
    /\ \A s \in Streams : publications[c][s] # NoTopic => s = GameplayStream /\ publications[c][s] = Own(c)
    /\ \A t \in Topics : subscriptions[c][t] \in {NoStream, GameplayStream}

OwnOK ==
    \A c \in Conns : OwnRecords(c) /\ \A m \in In(up[c]) : m.op = "Pub" => m.topic = Own(c)

LEMMA HeadIsIn ==
    ASSUME SessionInv, NEW c \in Conns, up[c] # <<>>
    PROVE  Head(up[c]) \in In(up[c])
BY InTail DEF SessionInv, QueuesOK

LEMMA ObeyEffect ==
    ASSUME SessionInv, NEW c \in Conns, Handle(c), Obey(c, Head(up[c]))
    PROVE  \E t \in Topics :
              \/ Head(up[c]).op = "Pub" /\ t = Head(up[c]).topic /\ Pub(c, t, GameplayStream)
              \/ Head(up[c]).op = "Sub" /\ t = Head(up[c]).topic /\ Sub(c, t, GameplayStream)
<1>1. /\ Head(up[c]).op # "JOIN" => Head(up[c]).topic \in Topics /\ Head(up[c]).stream = GameplayStream
  BY NextMessage DEF Handle, SessionInv
<1> QED
  BY <1>1 DEF Obey

LEMMA OwnInit == SessionInit => OwnOK
<1> SUFFICES ASSUME SessionInit, NEW c \in Conns
             PROVE  OwnRecords(c) /\ \A m \in In(up[c]) : m.op = "Pub" => m.topic = Own(c)
  BY DEF OwnOK
<1>1. up[c] = <<>>
  BY DEF SessionInit
<1>2. In(up[c]) = {}
  BY <1>1, InEmpty
<1>3. OwnRecords(c)
  BY DEF SessionInit, Init, Empty, OwnRecords
<1> QED
  BY <1>2, <1>3

LEMMA OwnStep ==
    ASSUME SessionInv, TypeOK, OwnOK, [SessionNext]_sessionVars
    PROVE  OwnOK'
<1>1. ASSUME NEW c \in Conns, NEW m \in In(up'[c]), m.op = "Pub" PROVE m.topic = Own(c)
  <2>1. m \in In(up[c]) \cup {Hello, PubOwn(c)} \cup {SubTo(t) : t \in WantedTopics(c)}
    BY <1>1, UnderWayStep
  <2>2. Hello.op # "Pub" /\ PubOwn(c).topic = Own(c) /\ \A t : SubTo(t).op # "Pub"
    BY DEF Hello, PubOwn, SubTo
  <2> QED
    BY <1>1, <2>1, <2>2 DEF OwnOK
<1>2. ASSUME NEW c \in Conns PROVE OwnRecords(c)'
  <2> USE DEF OwnRecords
  <2>1. CASE UNCHANGED <<publications, subscriptions>>
    BY <2>1 DEF OwnOK
  <2>2. ASSUME NEW d \in Conns, Admit(d, Head(up[d])) PROVE OwnRecords(c)'
    <3>1. publications' = [publications EXCEPT ![d] = Empty(Streams, NoTopic)]
          /\ subscriptions' = [subscriptions EXCEPT ![d] = Empty(Topics, NoStream)]
      BY <2>2 DEF Admit, Join
    <3> QED
      BY <3>1 DEF Empty, OwnOK, TypeOK
  <2>3. ASSUME NEW d \in Conns, Handle(d), Obey(d, Head(up[d])) PROVE OwnRecords(c)'
    <3>1. PICK t \in Topics :
              \/ Head(up[d]).op = "Pub" /\ t = Head(up[d]).topic /\ Pub(d, t, GameplayStream)
              \/ Head(up[d]).op = "Sub" /\ t = Head(up[d]).topic /\ Sub(d, t, GameplayStream)
      BY <2>3, ObeyEffect
    <3>2. StreamOf(d, GameplayStream) = GameplayStream
      BY Streaming DEF StreamOf
    <3>3. CASE Head(up[d]).op = "Pub" /\ t = Head(up[d]).topic /\ Pub(d, t, GameplayStream)
      <4>1. t = Own(d)
        BY <2>3, <3>3, HeadIsIn DEF OwnOK, Handle
      <4>2. publications' = [publications EXCEPT ![d][GameplayStream] = t] /\ UNCHANGED subscriptions
        BY <3>2, <3>3 DEF Pub
      <4> QED
        BY <4>1, <4>2, Streaming DEF OwnOK, TypeOK
    <3>4. CASE Sub(d, t, GameplayStream)
      <4>1. subscriptions' = [subscriptions EXCEPT ![d][t] = GameplayStream] /\ UNCHANGED publications
        BY <3>2, <3>4 DEF Sub, Subscribe
      <4> QED
        BY <4>1 DEF OwnOK, TypeOK
    <3> QED
      BY <3>1, <3>3, <3>4
  <2>4. ASSUME NEW d \in Conns, NoticeLost(d) PROVE OwnRecords(c)'
    <3>1. /\ \A s \in Streams : publications'[c][s] \in {NoTopic, publications[c][s]}
          /\ \A t \in Topics : subscriptions'[c][t] \in {NoStream, subscriptions[c][t]}
      BY <2>4, RemoveServiceType DEF NoticeLost, Disconnect
    <3>2. OwnRecords(c)
      BY DEF OwnOK
    <3> QED
      BY <3>1, <3>2
  <2> QED
    BY <2>1, <2>2, <2>3, <2>4, BrokerEffect DEF brokerVars, vars, Open, Connect
<1> QED
  BY <1>1, <1>2 DEF OwnOK

LEMMA OwnHolds == SessionSpec => [](SessionInv /\ TypeOK /\ AdmittedOK /\ OwnOK)
BY OwnInit, OwnStep, AdmittedHolds, PTL DEF SessionSpec

\* In whatever order the streams come, nothing is ever published or heard on
\* a reliable one: unwrap_or never has to fall back on the lifeline.
THEOREM GameplayIsUnreliable == SessionSpec => []GameplayStaysUnreliable
<1>1. OwnOK => GameplayStaysUnreliable
  BY Streaming DEF OwnOK, OwnRecords, GameplayStaysUnreliable
<1> QED
  BY <1>1, OwnHolds, PTL
-----------------------------------------------------------------------------
(* A registration that was sent is under way, or done. *)

PubDone(c) == publications[c][GameplayStream] = Own(c) /\ (Own(c) \in known \/ TakenAway(Own(c)))
SubDone(c, t) == subscriptions[c][t] = GameplayStream \/ TakenAway(t)

ServedOK ==
    \A c \in Conns : session[c].registered /\ c \notin lost =>
        /\ PubOwn(c) \in In(up[c]) \/ PubDone(c)
        /\ \A t \in WantedTopics(c) : SubTo(t) \in In(up[c]) \/ SubDone(c, t)

LEMMA WantedAreTopics == \A c \in Conns : WantedTopics(c) \subseteq Topics
<1> SUFFICES ASSUME NEW c \in Conns PROVE WantedTopics(c) \subseteq Topics
  OBVIOUS
<1>1. PICK wanted \in Seq(Topics) : wanted = Wanted(c)
  BY TopicsOf
<1>2. DOMAIN wanted = 1 .. Len(wanted) /\ \A i \in 1 .. Len(wanted) : wanted[i] \in Topics
  BY LenProperties
<1> QED
  BY <1>1, <1>2 DEF WantedTopics

LEMMA LostGrow ==
    ASSUME SessionInv, [SessionNext]_sessionVars
    PROVE  lost \subseteq lost' /\ \A t : TakenAway(t) => TakenAway(t)'
<1>1. lost \subseteq lost'
  BY DEF SessionNext, LogIn, Open, Break, Advance, HearConnected, HearStream, HearLost, SendJoin, HearWelcome,
         EnterGame, Register, RepeatJoin, Serve, Handle, NoticeLost, sessionVars
<1> QED
  BY <1>1 DEF TakenAway

\* The end of a service takes its own topic away, from everybody.
LEMMA EndEffect ==
    ASSUME SessionInv, TypeOK, OwnOK, NEW d \in Conns, RemoveService(d), NEW c \in Conns, c # d
    PROVE  /\ \A t \in Topics : t \in known => t \in known' \/ t = Own(d)
           /\ publications'[c] = publications[c]
           /\ \A t \in Topics : subscriptions'[c][t] = subscriptions[c][t] \/ t = Own(d)
<1> DEFINE gone == Published(d) \cap known
           left == [subscriptions EXCEPT ![d] = Empty(Topics, NoStream)]
<1>1. /\ subscriptions' = Deafened(left, gone)
      /\ known' = known \ gone
      /\ ForgetOneStreamOf(d, gone)
  BY DEF RemoveService
<1>2. /\ left \in [Conns -> [Topics -> Streams \cup {NoStream}]]
      /\ left[c] = subscriptions[c]
  BY DEF TypeOK, Empty
<1>3. \A t \in gone : t = Own(d)
  BY DEF Published, OwnOK, OwnRecords
<1>4. gone \subseteq Topics
  BY DEF TypeOK
<1> HIDE DEF gone, left
<1>5. \A t \in Topics : subscriptions'[c][t] = IF t \in gone /\ c \in Hearers(t) THEN NoStream ELSE left[c][t]
  BY <1>1, <1>2, Deafening
<1>6. publications'[c] = publications[c]
  BY <1>1, <1>4, ForgettingStreams DEF TypeOK
<1> QED
  BY <1>1, <1>2, <1>3, <1>5, <1>6

LEMMA DoneStays ==
    ASSUME SessionInv, TypeOK, OwnOK, [SessionNext]_sessionVars,
           NEW c \in Conns, c \in Services, c \notin lost
    PROVE  /\ PubDone(c) => PubDone(c)'
           /\ \A t \in Topics : SubDone(c, t) => SubDone(c, t)'
<1> DEFINE Goal == /\ PubDone(c) => PubDone(c)'
                   /\ \A t \in Topics : SubDone(c, t) => SubDone(c, t)'
<1> SUFFICES Goal
  OBVIOUS
<1>0. \A t : TakenAway(t) => TakenAway(t)'
  BY LostGrow
<1>1. CASE UNCHANGED <<publications, subscriptions, known>>
  BY <1>0, <1>1 DEF PubDone, SubDone
<1>2. ASSUME NEW d \in Conns, Admit(d, Head(up[d])) PROVE Goal
  <2>1. /\ d # c /\ UNCHANGED known
        /\ publications' = [publications EXCEPT ![d] = Empty(Streams, NoTopic)]
        /\ subscriptions' = [subscriptions EXCEPT ![d] = Empty(Topics, NoStream)]
    BY <1>2 DEF Admit, Join, registry
  <2> QED
    BY <1>0, <2>1 DEF PubDone, SubDone, TypeOK
<1>3. ASSUME NEW d \in Conns, Handle(d), Obey(d, Head(up[d])) PROVE Goal
  <2>1. PICK t \in Topics :
            \/ Head(up[d]).op = "Pub" /\ t = Head(up[d]).topic /\ Pub(d, t, GameplayStream)
            \/ Head(up[d]).op = "Sub" /\ t = Head(up[d]).topic /\ Sub(d, t, GameplayStream)
    BY <1>3, ObeyEffect
  <2>2. StreamOf(d, GameplayStream) = GameplayStream
    BY Streaming DEF StreamOf
  <2>3. CASE Head(up[d]).op = "Pub" /\ t = Head(up[d]).topic /\ Pub(d, t, GameplayStream)
    <3>1. t = Own(d)
      BY <1>3, <2>3, HeadIsIn DEF OwnOK, Handle
    <3>2. /\ publications' = [publications EXCEPT ![d][GameplayStream] = t] /\ UNCHANGED subscriptions
          /\ known' = known \cup {t}
      BY <2>2, <2>3 DEF Pub
    <3> QED
      BY <1>0, <3>1, <3>2, Streaming DEF PubDone, SubDone, TypeOK
  <2>4. CASE Sub(d, t, GameplayStream)
    <3>1. /\ subscriptions' = [subscriptions EXCEPT ![d][t] = GameplayStream] /\ UNCHANGED publications
          /\ known' = known \cup {t}
      BY <2>2, <2>4 DEF Sub, Subscribe
    <3> QED
      BY <1>0, <3>1 DEF PubDone, SubDone, TypeOK
  <2> QED
    BY <2>1, <2>3, <2>4
<1>4. ASSUME NEW d \in Conns, NoticeLost(d) PROVE Goal
  <2>1. d \in lost /\ d # c /\ RemoveService(d)
    BY <1>4 DEF NoticeLost, Disconnect
  <2>2. TakenAway(Own(d))'
    BY <2>1, LostGrow DEF TakenAway
  <2>3. Own(c) \in Topics
    BY TopicsOf
  <2> QED
    BY <1>0, <2>1, <2>2, <2>3, EndEffect DEF PubDone, SubDone
<1> QED
  BY <1>1, <1>2, <1>3, <1>4, BrokerEffect DEF brokerVars, vars, registry, Open, Connect

\* The broker does what a message of a service asks.
LEMMA HandleDone ==
    ASSUME SessionInv, TypeOK, NEW c \in Conns, c \in Services, Handle(c)
    PROVE  /\ Head(up[c]) = PubOwn(c) => PubDone(c)'
           /\ \A t \in Topics : Head(up[c]) = SubTo(t) => SubDone(c, t)'
<1>1. StreamOf(c, GameplayStream) = GameplayStream
  BY Streaming DEF StreamOf
<1>2. Head(up[c]).op # "JOIN" => Obey(c, Head(up[c]))
  BY DEF Handle, Admit, Ignore
<1>3. ASSUME Head(up[c]) = PubOwn(c) PROVE PubDone(c)'
  <2>1. Pub(c, Own(c), GameplayStream)
    BY <1>2, <1>3 DEF Obey, PubOwn
  <2>2. publications' = [publications EXCEPT ![c][GameplayStream] = Own(c)] /\ Own(c) \in known'
    BY <1>1, <2>1 DEF Pub
  <2> QED
    BY <2>2, Streaming DEF PubDone, TypeOK
<1>4. ASSUME NEW t \in Topics, Head(up[c]) = SubTo(t) PROVE SubDone(c, t)'
  <2>1. Sub(c, t, GameplayStream)
    BY <1>2, <1>4 DEF Obey, SubTo
  <2>2. subscriptions' = [subscriptions EXCEPT ![c][t] = GameplayStream]
    BY <1>1, <2>1 DEF Sub, Subscribe
  <2> QED
    BY <2>2 DEF SubDone, TypeOK
<1> QED
  BY <1>3, <1>4

LEMMA ServedStepOf ==
    ASSUME SessionInv, TypeOK, AdmittedOK, OwnOK, ServedOK, [SessionNext]_sessionVars
    PROVE  ServedOK'
<1> SUFFICES ASSUME NEW c \in Conns, session'[c].registered, c \notin lost'
             PROVE  /\ PubOwn(c) \in In(up'[c]) \/ PubDone(c)'
                    /\ \A t \in WantedTopics(c) : SubTo(t) \in In(up'[c]) \/ SubDone(c, t)'
  BY DEF ServedOK
<1>1. CASE ~session[c].registered
  BY <1>1, UnderWayStep
<1>2. CASE session[c].registered
  <2>1. c \notin lost /\ c \in Services
    BY <1>2, LostGrow DEF AdmittedOK, Welcomed, Admitted
  <2>2. \A m \in In(up[c]) : m \in In(up'[c]) \/ (Handle(c) /\ m = Head(up[c]))
    BY UnderWayStep
  <2>3. /\ PubOwn(c) \in In(up[c]) \/ PubDone(c)
        /\ \A t \in WantedTopics(c) : SubTo(t) \in In(up[c]) \/ SubDone(c, t)
    BY <1>2, <2>1 DEF ServedOK
  <2>4. PubOwn(c) \in In(up'[c]) \/ PubDone(c)'
    BY <2>1, <2>2, <2>3, DoneStays, HandleDone
  <2>5. ASSUME NEW t \in WantedTopics(c) PROVE SubTo(t) \in In(up'[c]) \/ SubDone(c, t)'
    <3>1. t \in Topics
      BY WantedAreTopics
    <3> QED
      BY <2>1, <2>2, <2>3, <3>1, DoneStays, HandleDone
  <2> QED
    BY <2>4, <2>5
<1> QED
  BY <1>1, <1>2

\* Nothing of a registration is lost on the way: it is under way from its
\* sender or done, and whose queue is empty is served.
THEOREM TheRegisteredAreServed == SessionSpec => []RegisteredIsServed
<1>1. SessionInit => ServedOK
  BY DEF SessionInit, NoSession, ServedOK
<1>2. ServedOK => RegisteredIsServed
  <2> SUFFICES ASSUME ServedOK, NEW c \in Conns, Registered(c)
               PROVE  /\ publications[c][GameplayStream] = Own(c)
                      /\ Own(c) \in known \/ TakenAway(Own(c))
                      /\ \A i \in DOMAIN Wanted(c) :
                            subscriptions[c][Wanted(c)[i]] = GameplayStream \/ TakenAway(Wanted(c)[i])
    BY DEF RegisteredIsServed
  <2>1. In(up[c]) = {}
    BY InEmpty DEF Registered
  <2>2. PubDone(c) /\ \A t \in WantedTopics(c) : SubDone(c, t)
    BY <2>1 DEF ServedOK, Registered
  <2> QED
    BY <2>2 DEF PubDone, SubDone, WantedTopics
<1> QED
  BY <1>1, <1>2, ServedStepOf, OwnHolds, PTL DEF SessionSpec
=============================================================================
