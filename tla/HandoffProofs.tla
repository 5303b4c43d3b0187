---------------------------- MODULE HandoffProofs ----------------------------
(***************************************************************************)
(* Theorems about Handoff, for every value of its constants.               *)
(***************************************************************************)
EXTENDS Handoff, TLAPS

USE DEF NoShard, SpatialService

-----------------------------------------------------------------------------
(* What the helpers return. *)

LEMMA ShardsAreAddresses ==
    /\ Shards \subseteq 0 .. ShardCount
    /\ \A s \in Shards : s \in Int /\ s # SpatialService
    /\ \A s \in Shards : Left(s) \in Int /\ Right(s) \in Int /\ Right(s) = Left(s) + Width
    /\ \A s \in Shards : Neighbours(s) \subseteq Shards
BY ShardsAssumption, GeometryAssumption DEF Shards, Left, Right, Neighbours

LEMMA FreshCopies ==
    /\ NotHere \in Copies
    /\ \A s \in Shards : Fresh(SpawnPoint(s), 0, FALSE) \in Copies
    /\ Home \in Shards => Dummy \in Copies
<1>1. \A s \in Shards : SpawnPoint(s) \in Int
  BY ShardsAreAddresses, GeometryAssumption DEF SpawnPoint
<1> QED
  BY <1>1, ShardsAssumption, GeometryAssumption
  DEF NotHere, Fresh, Dummy, Copies, Authorities

\* A publication puts well-formed messages in flight, to subscribers only.
LEMMA PublishType ==
    ASSUME TypeOK, NEW s \in Shards, NEW kind \in Kinds, NEW p \in Int, NEW v \in Int
    PROVE  /\ Publish(kind, s, p, v) \subseteq Messages
           /\ \A m \in Publish(kind, s, p, v) :
                 /\ m.kind = kind /\ m.from = s /\ m.pos = p /\ m.vel = v
                 /\ m.to \in Hearers(s)
                 /\ m.to \in IF kind = "PositionUpdate" THEN {SpatialService} ELSE Shards
<1>1. \A m \in Publish(kind, s, p, v) :
         /\ m \in Messages
         /\ m.kind = kind /\ m.from = s /\ m.pos = p /\ m.vel = v
         /\ m.to \in Hearers(s)
         /\ m.to \in IF kind = "PositionUpdate" THEN {SpatialService} ELSE Shards
  <2> SUFFICES ASSUME NEW n \in Hearers(s)
                           \cap (IF kind = "PositionUpdate" THEN {SpatialService} ELSE Shards),
                      NEW m, m = [kind |-> kind, from |-> s, to |-> n, pos |-> p, vel |-> v,
                                  about |-> NoShard]
               PROVE  /\ m \in Messages
                      /\ m.kind = kind /\ m.from = s /\ m.pos = p /\ m.vel = v
                      /\ m.to \in Hearers(s)
                      /\ m.to \in IF kind = "PositionUpdate" THEN {SpatialService} ELSE Shards
    BY DEF Publish
  <2>1. n \in 0 .. ShardCount /\ s \in NoShard .. ShardCount /\ NoShard \in NoShard .. ShardCount
    BY ShardsAreAddresses, ShardsAssumption DEF SpatialService, Shards
  <2> QED
    BY <2>1 DEF Messages
<1> QED
  BY <1>1

LEMMA TransmitKeeps ==
    ASSUME NEW kept, NEW ms, Transmit(kept, ms)
    PROVE  kept \subseteq net' /\ net' \subseteq kept \cup ms
BY DEF Transmit

\* The tick's arithmetic: an owned entity stays in its band.
LEMMA MovedType ==
    ASSUME NEW s \in Shards, NEW c \in Copies
    PROVE  /\ Moved(s, c) \in Copies
           /\ Left(s) <= Moved(s, c).pos /\ Moved(s, c).pos <= Right(s)
           /\ Moved(s, c).authority = c.authority
           /\ Moved(s, c).ticks = c.ticks
<1> DEFINE x == c.pos + c.vel
           rebound == IF c.bounce THEN Abs(c.vel) ELSE 0
<1>1. /\ c.pos \in Int /\ c.vel \in Int /\ x \in Int /\ rebound \in Int /\ -rebound \in Int
      /\ Left(s) \in Int /\ Right(s) \in Int /\ Left(s) <= Right(s)
  BY ShardsAreAddresses, GeometryAssumption DEF Copies, Abs
<1> HIDE DEF x, rebound
<1>2. Moved(s, c) = IF x < Left(s) THEN [c EXCEPT !.pos = Left(s), !.vel = rebound]
                    ELSE IF x > Right(s) THEN [c EXCEPT !.pos = Right(s), !.vel = -rebound]
                    ELSE [c EXCEPT !.pos = x]
  BY DEF Moved, x, rebound
<1>5. CASE x < Left(s)
  <2>1. Moved(s, c) = [c EXCEPT !.pos = Left(s), !.vel = rebound]
    BY <1>2, <1>5
  <2>2. Moved(s, c) \in Copies
    BY <1>1, <2>1 DEF Copies
  <2>3. Moved(s, c).pos = Left(s)
    BY <2>1 DEF Copies
  <2>4. Moved(s, c).authority = c.authority /\ Moved(s, c).ticks = c.ticks
    BY <2>1 DEF Copies
  <2> QED
    BY <1>1, <2>2, <2>3, <2>4
<1>6. CASE ~(x < Left(s)) /\ x > Right(s)
  <2>1. Moved(s, c) = [c EXCEPT !.pos = Right(s), !.vel = -rebound]
    BY <1>1, <1>2, <1>6
  <2>2. Moved(s, c) \in Copies
    BY <1>1, <2>1 DEF Copies
  <2>3. Moved(s, c).pos = Right(s)
    BY <2>1 DEF Copies
  <2>4. Moved(s, c).authority = c.authority /\ Moved(s, c).ticks = c.ticks
    BY <2>1 DEF Copies
  <2> QED
    BY <1>1, <2>2, <2>3, <2>4
<1>7. CASE ~(x < Left(s)) /\ ~(x > Right(s))
  <2>1. Moved(s, c) = [c EXCEPT !.pos = x]
    BY <1>2, <1>7
  <2> QED
    BY <1>1, <1>7, <2>1 DEF Copies
<1> QED
  BY <1>5, <1>6, <1>7

LEMMA TargetIsNeighbour ==
    ASSUME NEW s \in Shards, NEW x \in Int, PositionTarget(x, s) # NoShard
    PROVE  PositionTarget(x, s) \in Neighbours(s)
BY ShardsAreAddresses, ShardsAssumption, GeometryAssumption
DEF PositionTarget, Neighbours, Shards, Left, Right

LEMMA CopyUpdatesType ==
    ASSUME NEW c \in Copies
    PROVE  /\ \A t \in NoShard .. ShardCount : Pending(c, t) \in Copies
           /\ Advanced(c) \in Copies
           /\ Relinquished(c) \in Copies
           /\ TurnedBack(c) \in Copies
           /\ Accepted(c) \in Copies
           /\ Rejected(c) \in Copies
           /\ Promoted(c) \in Copies
           /\ \A m \in Messages : Followed(c, m) \in Copies
<1>0. /\ c.pos + c.vel \in Int /\ -c.vel \in Int /\ c.ticks + 1 \in Nat /\ 0 \in Nat
      /\ NoShard \in NoShard .. ShardCount /\ Shards \subseteq NoShard .. ShardCount
  BY ShardsAssumption DEF Copies, Shards
<1>1. \A t \in NoShard .. ShardCount : Pending(c, t) \in Copies
  BY <1>0 DEF Copies, Authorities, Pending
<1>2. Advanced(c) \in Copies
  BY <1>0 DEF Copies, Advanced
<1>3. Relinquished(c) \in Copies
  BY DEF Copies, Authorities, Relinquished
<1>4. TurnedBack(c) \in Copies
  BY <1>0 DEF Copies, Authorities, TurnedBack
<1>5. Accepted(c) \in Copies
  BY DEF Copies, Accepted
<1>6. Rejected(c) \in Copies
  BY <1>0 DEF Copies, Authorities, Rejected
<1>7. Promoted(c) \in Copies
  BY <1>0 DEF Copies, Authorities, Promoted
<1>8. \A m \in Messages : Followed(c, m) \in Copies
  BY DEF Copies, Messages, Followed
<1> QED
  BY <1>1, <1>2, <1>3, <1>4, <1>5, <1>6, <1>7, <1>8

LEMMA NewGhostType ==
    ASSUME TypeOK, NEW m \in Messages, m.to \in Shards
    PROVE  NewGhost(m) \in Copies
<1>1. SourceOf(m.pos, m.to) \in NoShard .. ShardCount
  BY ShardsAssumption DEF SourceOf, Shards
<1>2. copy[m.to] \in Copies
  BY DEF TypeOK
<1> QED
  BY <1>1, <1>2 DEF NewGhost, Copies, Messages, Authorities

LEMMA AlertType ==
    ASSUME TypeOK, NEW x \in Int, NEW m \in Alert(x)
    PROVE  /\ m \in Messages /\ m.to \in running /\ m.kind = "CrossingAlert"
           /\ m.to = Band(x) /\ m.about \in ShardsNear(x) \ {Band(x)}
<1>1. PICK t \in ShardsNear(x) \ {Band(x)} :
         Band(x) \in running
         /\ m = [kind |-> "CrossingAlert", from |-> SpatialService, to |-> Band(x),
                 pos |-> 0, vel |-> 0, about |-> t]
  BY DEF Alert
<1>2. /\ Band(x) \in Shards /\ t \in Shards
  BY <1>1 DEF ShardsNear, TypeOK
<1>3. /\ Band(x) \in 0 .. ShardCount /\ t \in NoShard .. ShardCount
      /\ SpatialService \in NoShard .. ShardCount
  BY <1>2, ShardsAssumption DEF Shards
<1>4. m \in Messages /\ m.kind = "CrossingAlert" /\ m.to = Band(x) /\ m.about = t
  BY <1>1, <1>3 DEF Messages, Kinds
<1> QED
  BY <1>1, <1>4

-----------------------------------------------------------------------------
(* Type correctness. *)

\* A step that leaves who is alive and who listens to whom as they were keeps
\* the type if the copies and the messages it makes have theirs.
LEMMA QuietStep ==
    ASSUME TypeOK, UNCHANGED <<audience, running, incarnation, unnoticed, crashes>>,
           copy' \in [Shards -> Copies],
           NEW kept, NEW ms, kept \subseteq net, net' \subseteq kept \cup ms,
           \A m \in ms : m \in Messages /\ Addressed(m)
    PROVE  TypeOK'
BY DEF TypeOK, Addressed, Dead, Connection

LEMMA SilentStep ==
    ASSUME TypeOK, UNCHANGED <<audience, running, incarnation, unnoticed, crashes>>,
           copy' \in [Shards -> Copies], net' \subseteq net
    PROVE  TypeOK'
BY DEF TypeOK, Addressed, Dead, Connection

\* What shard s publishes is what such a step may send.
LEMMA PublicationsAreSent ==
    ASSUME TypeOK, NEW s \in Shards, NEW kind \in Kinds, NEW p \in Int, NEW v \in Int
    PROVE  \A m \in Publish(kind, s, p, v) :
              m \in Messages /\ Addressed(m)
<1>1. Hearers(s) \subseteq running \cup {SpatialService} /\ SpatialService \notin Shards
  BY ShardsAssumption DEF Hearers, Shards, SpatialService
<1> QED
  BY <1>1, PublishType DEF Addressed

LEMMA TickType ==
    ASSUME TypeOK, NEW s \in Shards, Tick(s)
    PROVE  TypeOK'
<1>0. copy[s] \in Copies /\ copy \in [Shards -> Copies]
  BY DEF TypeOK
<1>1. CASE MoveOwned(s)
  <2> DEFINE c == Moved(s, copy[s])
  <2>1. c \in Copies /\ c.pos \in Int
    BY <1>0, MovedType DEF Copies
  <2>2. copy' \in [Shards -> Copies]
    BY <1>0, <1>1, <2>1 DEF MoveOwned
  <2>3. \A m \in PublishPosition(s, c) : m \in Messages /\ Addressed(m)
    BY <2>1, PublicationsAreSent DEF PublishPosition, Kinds
  <2>4. net' \subseteq net \cup PublishPosition(s, c)
    BY <1>1, TransmitKeeps DEF MoveOwned
  <2> QED
    BY <1>1, <2>2, <2>3, <2>4, QuietStep DEF MoveOwned
<1>2. CASE RequestHandoff(s)
  <2> DEFINE c == Moved(s, copy[s])
             ms == Publish("HandoffRequest", s, c.pos, c.vel) \cup PublishPosition(s, c)
  <2>1. c \in Copies /\ c.pos \in Int /\ c.vel \in Int
    BY <1>0, MovedType DEF Copies
  <2>2. PositionTarget(c.pos, s) \in NoShard .. ShardCount
    BY <1>2, <2>1, TargetIsNeighbour, ShardsAssumption
    DEF RequestHandoff, Leaving, Neighbours, Shards
  <2>3. Pending(c, PositionTarget(c.pos, s)) \in Copies
    BY <2>1, <2>2, CopyUpdatesType
  <2>6. copy' \in [Shards -> Copies]
    BY <1>0, <1>2, <2>3 DEF RequestHandoff
  <2>4. \A m \in ms : m \in Messages /\ Addressed(m)
    BY <2>1, PublicationsAreSent DEF PublishPosition, Kinds
  <2>5. net' \subseteq net \cup ms
    BY <1>2, TransmitKeeps DEF RequestHandoff
  <2> QED
    BY <1>2, <2>4, <2>5, <2>6, QuietStep DEF RequestHandoff
<1>3. ASSUME NEW after \in Copies, NEW kind \in Kinds, NEW p \in Int,
             TickPending(s, Advanced(copy[s]), after, Publish(kind, s, p, 0))
      PROVE  TypeOK'
  <2> DEFINE c == Advanced(copy[s])
             ms == GhostCast(s, c) \cup Publish(kind, s, p, 0)
  <2>1. c \in Copies /\ c.pos \in Int /\ c.vel \in Int
    BY <1>0, CopyUpdatesType DEF Copies
  <2>2. copy' \in [Shards -> Copies]
    BY <1>0, <1>3 DEF TickPending
  <2>3. \A m \in ms : m \in Messages /\ Addressed(m)
    BY <1>3, <2>1, PublicationsAreSent DEF GhostCast, Kinds
  <2>4. net' \subseteq net \cup ms
    BY <1>3, TransmitKeeps DEF TickPending
  <2> QED
    BY <1>3, <2>2, <2>3, <2>4, QuietStep DEF TickPending
<1>4. /\ Advanced(copy[s]) \in Copies
      /\ Relinquished(Advanced(copy[s])) \in Copies
      /\ TurnedBack(Advanced(copy[s])) \in Copies
  BY <1>0, CopyUpdatesType
<1>5. Advanced(copy[s]).pos \in Int /\ TurnedBack(Advanced(copy[s])).pos \in Int
      /\ "PositionUpdate" \in Kinds /\ "HandoffComplete" \in Kinds
  BY <1>4 DEF Copies, Kinds
<1>6. CASE AdvancePending(s)
  BY <1>3, <1>4, <1>5, <1>6 DEF AdvancePending, PublishPosition
<1>7. CASE CompleteHandoff(s)
  BY <1>3, <1>4, <1>5, <1>7 DEF CompleteHandoff
<1>8. CASE AbortHandoff(s)
  BY <1>3, <1>4, <1>5, <1>8 DEF AbortHandoff, PublishPosition
<1> QED
  BY <1>1, <1>2, <1>6, <1>7, <1>8 DEF Tick

LEMMA ReceiveType ==
    ASSUME TypeOK, NEW m \in net, Receive(m)
    PROVE  TypeOK'
<1>0. m \in Messages /\ copy \in [Shards -> Copies] /\ net \ {m} \subseteq net
  BY DEF TypeOK
<1>1. m.kind # "PositionUpdate" => m.to \in Shards /\ copy[m.to] \in Copies
  BY DEF TypeOK, Addressed, Dead, Connection
\* A message that only changes the copy of its recipient.
<1>2. ASSUME NEW c \in Copies, m.kind # "PositionUpdate", Becomes(m, c)
      PROVE  TypeOK'
  <2>1. copy' \in [Shards -> Copies]
    BY <1>0, <1>1, <1>2 DEF Becomes
  <2> QED
    BY <1>2, <2>1, SilentStep DEF Becomes
\* A message that the recipient answers with a publication of its own.
<1>3. ASSUME m.kind # "PositionUpdate", copy' \in [Shards -> Copies],
             NEW kind \in Kinds, NEW p \in Int, NEW v \in Int,
             Transmit(net \ {m}, Publish(kind, m.to, p, v)),
             UNCHANGED <<audience, running, incarnation, unnoticed, crashes>>
      PROVE  TypeOK'
  <2>1. net' \subseteq (net \ {m}) \cup Publish(kind, m.to, p, v)
    BY <1>3, TransmitKeeps
  <2>2. \A n \in Publish(kind, m.to, p, v) : n \in Messages /\ Addressed(n)
    BY <1>1, <1>3, PublicationsAreSent
  <2> QED
    BY <1>0, <1>3, <2>1, <2>2, QuietStep
<1>4. CASE AcceptRequest(m)
  <2>1. m.kind # "PositionUpdate" /\ "HandoffAccept" \in Kinds
    BY <1>4 DEF AcceptRequest, Arrives, Kinds
  <2>2. copy' \in [Shards -> Copies]
    BY <1>0, <1>1, <1>4, <2>1, NewGhostType DEF AcceptRequest
  <2> QED
    BY <1>3, <1>4, <2>1, <2>2 DEF AcceptRequest
<1>5. CASE RejectRequest(m)
  BY <1>0, <1>3, <1>5 DEF RejectRequest, Arrives, Kinds
<1>6. CASE HearAccept(m)
  BY <1>1, <1>2, <1>6, CopyUpdatesType DEF HearAccept, Arrives
<1>7. CASE HearReject(m)
  BY <1>1, <1>2, <1>7, CopyUpdatesType DEF HearReject, Arrives
<1>8. CASE HearGhostUpdate(m)
  BY <1>0, <1>1, <1>2, <1>8, CopyUpdatesType DEF HearGhostUpdate, Arrives
<1>9. CASE HearComplete(m)
  BY <1>1, <1>2, <1>9, CopyUpdatesType DEF HearComplete, Arrives
<1>10. CASE HearAlert(m)
  <2>1. m.kind # "PositionUpdate" /\ "HandoffRequest" \in Kinds /\ m.about \in NoShard .. ShardCount
    BY <1>0, <1>10 DEF HearAlert, Arrives, Kinds, Messages
  <2>2. copy[m.to] \in Copies /\ copy[m.to].pos \in Int /\ copy[m.to].vel \in Int
        /\ Pending(copy[m.to], m.about) \in Copies
    BY <1>1, <2>1, CopyUpdatesType DEF Copies
  <2>3. CASE copy[m.to].authority = "Owned" /\ MovingToward(copy[m.to].vel, m.to, m.about)
    <3>1. copy' = [copy EXCEPT ![m.to] = Pending(copy[m.to], m.about)]
          /\ Transmit(net \ {m}, Publish("HandoffRequest", m.to, copy[m.to].pos, copy[m.to].vel))
          /\ UNCHANGED <<audience, running, incarnation, unnoticed, crashes>>
      BY <1>10, <2>3 DEF HearAlert
    <3>2. copy' \in [Shards -> Copies]
      BY <1>0, <1>1, <2>1, <2>2, <3>1
    <3> QED
      BY <1>3, <2>1, <2>2, <3>1, <3>2
  <2>4. CASE ~(copy[m.to].authority = "Owned" /\ MovingToward(copy[m.to].vel, m.to, m.about))
    <3>1. net' = net \ {m} /\ copy' = copy /\ UNCHANGED <<audience, running, incarnation, unnoticed, crashes>>
      BY <1>10, <2>4 DEF HearAlert
    <3> QED
      BY <1>0, <3>1, SilentStep
  <2> QED
    BY <2>3, <2>4
<1>11. CASE HearInput(m)
  <2>1. m.kind # "PositionUpdate" /\ m.vel \in Int
    BY <1>0, <1>11 DEF HearInput, Arrives, Messages
  <2> DEFINE c == IF copy[m.to].authority = "Absent" THEN Fresh(SpawnPoint(m.to), 0, FALSE)
                  ELSE copy[m.to]
  <2>2. c \in Copies
    BY <1>1, <2>1, FreshCopies
  <2>3. [c EXCEPT !.vel = m.vel] \in Copies
    <3> HIDE DEF c
    <3> QED  BY <2>1, <2>2 DEF Copies
  <2> QED
    BY <1>2, <1>11, <2>1, <2>3 DEF HearInput, EnsurePlayer, ApplyClientInput
<1>12. CASE TrackPosition(m)
  <2>1. m.pos \in Int /\ net' \subseteq (net \ {m}) \cup Alert(m.pos)
    BY <1>0, <1>12, TransmitKeeps DEF TrackPosition, Messages
  <2>2. \A n \in Alert(m.pos) : n \in Messages /\ Addressed(n)
    BY <2>1, AlertType DEF Addressed
  <2> QED
    BY <1>0, <1>12, <2>1, <2>2, QuietStep DEF TrackPosition
<1> QED
  BY <1>4, <1>5, <1>6, <1>7, <1>8, <1>9, <1>10, <1>11, <1>12 DEF Receive

\* The connections that may be subscribed: the living, and the dead whose loss
\* the broker has not noticed.
Subscribable == unnoticed \cup {Connection(n) : n \in running \cup {SpatialService}}

LEMMA CrashType ==
    ASSUME TypeOK, NEW s \in Shards, Crash(s)
    PROVE  TypeOK'
<1>1. /\ copy' \in [Shards -> Copies]
      /\ net' \subseteq Messages
      /\ audience' \in [Shards -> SUBSET ((0 .. ShardCount) \X Nat)]
      /\ running' \subseteq Shards
      /\ incarnation' \in [0 .. ShardCount -> Nat]
      /\ crashes' \in Nat
  BY FreshCopies DEF TypeOK, Crash
<1>2. Connection(s) \in Shards \X Nat /\ Connection(s)[1] = s /\ Connection(s)[2] = incarnation[s]
  BY ShardsAreAddresses DEF TypeOK, Connection
<1>3. unnoticed' \subseteq Shards \X Nat /\ \A c \in unnoticed' : Dead(c)'
  <2>1. \A c \in unnoticed : c \in Shards \X Nat /\ (c[2] < incarnation[c[1]]
           \/ (c[2] = incarnation[c[1]] /\ c[1] \notin running))
    BY DEF TypeOK, Dead
  <2>2. /\ unnoticed' = unnoticed \cup {Connection(s)}
        /\ running' = running \ {s} /\ incarnation' = incarnation
    BY DEF Crash
  <2> QED
    BY <1>2, <2>1, <2>2 DEF Dead
<1>4. \A n \in Shards : audience'[n] \subseteq Subscribable'
  <2>1. Subscribable \subseteq Subscribable'
    BY DEF Crash, Subscribable, Connection
  <2>2. UNCHANGED audience /\ \A n \in Shards : audience[n] \subseteq Subscribable
    BY DEF TypeOK, Crash, Subscribable
  <2> QED
    BY <2>1, <2>2
<1>5. \A m \in net' : Addressed(m)'
  BY DEF TypeOK, Crash, Addressed
<1> QED
  BY <1>1, <1>3, <1>4, <1>5 DEF TypeOK, Subscribable

LEMMA RestartType ==
    ASSUME TypeOK, NEW s \in Shards, Restart(s)
    PROVE  TypeOK'
<1>1. /\ copy' \in [Shards -> Copies]
      /\ net' \subseteq Messages
      /\ running' \subseteq Shards
      /\ crashes' \in Nat
  BY FreshCopies DEF TypeOK, Restart
<1>2. /\ incarnation' \in [0 .. ShardCount -> Nat]
      /\ \A n \in 0 .. ShardCount : incarnation'[n] = IF n = s THEN incarnation[n] + 1 ELSE incarnation[n]
  BY ShardsAreAddresses DEF TypeOK, Restart
<1>3. unnoticed' \subseteq Shards \X Nat /\ \A c \in unnoticed' : Dead(c)'
  <2>1. \A c \in unnoticed : /\ c \in Shards \X Nat /\ c[1] \in 0 .. ShardCount
                             /\ \/ c[2] < incarnation[c[1]]
                                \/ c[2] = incarnation[c[1]] /\ c[1] \notin running
    BY ShardsAreAddresses DEF TypeOK, Dead
  <2>2. unnoticed' = unnoticed /\ running' = running \cup {s}
    BY DEF Restart
  <2>3. ASSUME NEW c \in unnoticed PROVE Dead(c)'
    <3>1. c[2] \in Nat /\ incarnation[c[1]] \in Nat
      BY <2>1 DEF TypeOK
    <3>2. CASE c[1] = s
      <4>1. c[2] < incarnation'[c[1]]
        BY <1>2, <2>1, <3>1, <3>2
      <4> QED
        BY <4>1 DEF Dead
    <3>3. CASE c[1] # s
      <4>1. incarnation'[c[1]] = incarnation[c[1]]
        BY <1>2, <2>1, <3>3
      <4> QED
        BY <2>1, <2>2, <3>3, <4>1 DEF Dead
    <3> QED
      BY <3>2, <3>3
  <2> QED
    BY <2>1, <2>2, <2>3
<1>4. audience' \in [Shards -> SUBSET ((0 .. ShardCount) \X Nat)]
  <2>1. <<s, incarnation[s] + 1>> \in (0 .. ShardCount) \X Nat
    BY ShardsAreAddresses DEF TypeOK
  <2> QED
    BY <2>1 DEF TypeOK, Restart, AudienceAfterReturnOf
<1>5. \A n \in Shards : audience'[n] \subseteq Subscribable'
  <2>1. Subscribable \subseteq Subscribable' /\ <<s, incarnation[s] + 1>> \in Subscribable'
    <3>1. \A n \in running \cup {SpatialService} : Connection(n)' = Connection(n)
      BY <1>2, ShardsAreAddresses DEF Connection, Restart, TypeOK
    <3>2. Connection(s)' = <<s, incarnation[s] + 1>>
      BY <1>2, ShardsAreAddresses DEF Connection
    <3> QED
      BY <3>1, <3>2 DEF Subscribable, Restart
  <2>2. \A n \in Shards : audience[n] \subseteq Subscribable
    BY DEF TypeOK, Subscribable
  <2> QED
    BY <2>1, <2>2 DEF Restart, AudienceAfterReturnOf
<1>6. \A m \in net' : Addressed(m)'
  BY DEF TypeOK, Restart, Addressed
<1> QED
  BY <1>1, <1>2, <1>3, <1>4, <1>5, <1>6 DEF TypeOK, Subscribable

LEMMA RemoveServiceType ==
    ASSUME TypeOK, NEW c \in unnoticed, RemoveService(c)
    PROVE  TypeOK'
<1>1. /\ UNCHANGED <<copy, net, running, incarnation, crashes>>
      /\ unnoticed' = unnoticed \ {c}
      /\ audience' = [n \in Shards |-> IF n = c[1] THEN {} ELSE audience[n] \ {c}]
  BY DEF RemoveService, AudienceAfterLossOf
<1>2. audience' \in [Shards -> SUBSET ((0 .. ShardCount) \X Nat)]
  BY <1>1 DEF TypeOK
<1>3. \A n \in Shards : audience'[n] \subseteq Subscribable'
  <2>1. Subscribable \ {c} \subseteq Subscribable'
    BY <1>1 DEF Subscribable, Connection
  <2>2. \A n \in Shards : audience'[n] \subseteq audience[n] \ {c} /\ audience[n] \subseteq Subscribable
    BY <1>1 DEF TypeOK, Subscribable
  <2> QED
    BY <2>1, <2>2
<1>4. \A d \in unnoticed' : Dead(d)'
  BY <1>1 DEF TypeOK, Dead
<1>5. \A m \in net' : Addressed(m)'
  BY <1>1 DEF TypeOK, Addressed
<1> QED
  BY <1>1, <1>2, <1>3, <1>4, <1>5 DEF TypeOK, Subscribable

LEMMA SteerType ==
    ASSUME TypeOK, NEW v \in Steering, Steer(v)
    PROVE  TypeOK'
<1> DEFINE ms == {[kind |-> "ClientInput", from |-> NoShard, to |-> s,
                   pos |-> 0, vel |-> v, about |-> NoShard] : s \in running}
<1>1. ASSUME NEW m \in ms
      PROVE  m \in Messages /\ Addressed(m)
  <2>1. PICK s \in running : m = [kind |-> "ClientInput", from |-> NoShard, to |-> s,
                                  pos |-> 0, vel |-> v, about |-> NoShard]
    OBVIOUS
  <2>2. s \in 0 .. ShardCount /\ NoShard \in NoShard .. ShardCount /\ v \in Int
    BY ShardsAreAddresses, ShardsAssumption, DeploymentAssumption DEF TypeOK
  <2> QED
    BY <2>1, <2>2 DEF Messages, Kinds, Addressed
<1>2. net' \subseteq net \cup ms
  BY TransmitKeeps DEF Steer
<1>3. copy' \in [Shards -> Copies] /\ UNCHANGED <<audience, running, incarnation, unnoticed, crashes>>
  BY DEF Steer, TypeOK
<1> HIDE DEF ms
<1> QED
  BY <1>1, <1>2, <1>3, QuietStep

LEMMA InitType == Init => TypeOK
<1> SUFFICES ASSUME Init PROVE TypeOK
  OBVIOUS
<1>1. copy \in [Shards -> Copies]
  BY FreshCopies DEF Init
<1>2. audience \in [Shards -> SUBSET ((0 .. ShardCount) \X Nat)]
  <2>0. SpatialService \in 0 .. ShardCount /\ \A s \in Shards : Neighbours(s) \subseteq 0 .. ShardCount
    BY ShardsAssumption DEF Neighbours, Shards, SpatialService
  <2>1. \A s \in Shards :
           Neighbours(s) \cup (IF Spatial THEN {SpatialService} ELSE {}) \subseteq 0 .. ShardCount
    BY <2>0
  <2> QED
    BY <2>1 DEF Init
<1>3. \A s \in Shards : audience[s] \subseteq Subscribable
  <2> SUFFICES ASSUME NEW s \in Shards, NEW c \in audience[s] PROVE c \in Subscribable
    OBVIOUS
  <2>1. PICK n \in Neighbours(s) \cup (IF Spatial THEN {SpatialService} ELSE {}) : c = <<n, 0>>
    BY DEF Init
  <2>2. n \in 0 .. ShardCount /\ n \in running \cup {SpatialService}
    BY ShardsAreAddresses, ShardsAssumption DEF Init, Neighbours, Shards, SpatialService
  <2> QED
    BY <2>1, <2>2 DEF Init, Subscribable, Connection
<1>4. incarnation \in [0 .. ShardCount -> Nat]
  BY DEF Init
<1> QED
  BY <1>1, <1>2, <1>3, <1>4 DEF Init, TypeOK, Subscribable

LEMMA StepType == TypeOK /\ [Next]_vars => TypeOK'
<1> SUFFICES ASSUME TypeOK, [Next]_vars PROVE TypeOK'
  OBVIOUS
<1>1. CASE UNCHANGED vars
  BY <1>1 DEF TypeOK, Addressed, Dead, Connection, vars
<1>2. CASE Next
  BY <1>2, TickType, CrashType, RestartType, RemoveServiceType, ReceiveType, SteerType DEF Next
<1> QED
  BY <1>1, <1>2

\* The variables have their types: whoever dies and restarts in whatever order,
\* the broker never fans a shard's messages out to a shard that is not there.
THEOREM TypeCorrect == Spec => []TypeOK
  BY InitType, StepType, PTL DEF Spec

-----------------------------------------------------------------------------
(* A hand-off in progress can always be resolved by its own shard. *)

LEMMA BandsInOrder ==
    ASSUME NEW a \in Int, NEW b \in Int, a >= b
    PROVE  a * Width >= b * Width
<1>1. a - b >= 0 /\ a - b \in Int /\ Width \in Int /\ Width >= 0
  BY GeometryAssumption
<1>2. (a - b) * Width >= 0
  BY <1>1
<1>3. (a - b) * Width = a * Width - b * Width
  BY <1>1
<1> QED
  BY <1>1, <1>2, <1>3

\* Because two frontiers of a band are further apart than two margins, only
\* an adjacent band can be near a position besides its own.
LEMMA NearBandsAreAdjacent ==
    ASSUME NEW x \in Int, Band(x) \in Shards, NEW t \in ShardsNear(x) \ {Band(x)}
    PROVE  t \in Neighbours(Band(x))
<1> DEFINE h == Band(x)
<1>1. t \in Shards /\ t \in Int /\ h \in Int /\ t # h
  BY ShardsAssumption DEF ShardsNear, Shards
<1>2. h * Width <= x /\ x < h * Width + Width
  BY GeometryAssumption DEF Band
<1>3. t * Width < x + Margin /\ x - Margin < t * Width + Width
  BY <1>1, GeometryAssumption DEF ShardsNear, Left, Right
<1>4. ~(t >= h + 2)
  <2> SUFFICES ASSUME t >= h + 2 PROVE FALSE
    OBVIOUS
  <2>1. t * Width >= (h + 2) * Width
    BY <1>1, BandsInOrder
  <2>2. (h + 2) * Width = h * Width + 2 * Width
    BY <1>1, GeometryAssumption
  <2> HIDE DEF h
  <2> QED
    BY <1>1, <1>2, <1>3, <2>1, <2>2, GeometryAssumption
<1>5. ~(h >= t + 2)
  <2> SUFFICES ASSUME h >= t + 2 PROVE FALSE
    OBVIOUS
  <2>1. h * Width >= (t + 2) * Width
    BY <1>1, BandsInOrder
  <2>2. (t + 2) * Width = t * Width + 2 * Width
    BY <1>1, GeometryAssumption
  <2> HIDE DEF h
  <2> QED
    BY <1>1, <1>2, <1>3, <2>1, <2>2, GeometryAssumption
<1> QED
  BY <1>1, <1>4, <1>5 DEF Neighbours

BoundedCopy(s, c) ==
    c.authority = "PendingHandoff" => c.target \in Neighbours(s) /\ c.ticks <= AbortAfter

AlertsAreAboutNeighbours ==
    \A m \in net : m.kind = "CrossingAlert" => m.about \in Neighbours(m.to)

\* Inductive: a pending copy's target is a neighbour because the shard's own
\* test and the spatial service's alerts name only neighbours, and its ticks
\* are within the abort because the tick that passes it ends the hand-off.
BoundedInv == TypeOK /\ PendingIsBounded /\ AlertsAreAboutNeighbours

\* One copy changes, to a bounded one, and no alert is sent.
LEMMA OneBoundedChange ==
    ASSUME BoundedInv, NEW s \in Shards, NEW c, BoundedCopy(s, c),
           copy' = [copy EXCEPT ![s] = c],
           \A m \in net' : m \in net \/ m.kind # "CrossingAlert"
    PROVE  PendingIsBounded' /\ AlertsAreAboutNeighbours'
BY DEF BoundedInv, TypeOK, PendingIsBounded, BoundedCopy, AlertsAreAboutNeighbours

LEMMA BoundedUpdates ==
    ASSUME NEW s \in Shards, NEW c \in Copies, BoundedCopy(s, c)
    PROVE  /\ \A t \in Neighbours(s) : BoundedCopy(s, Pending(c, t))
           /\ ~TimedOut(Advanced(c)) => BoundedCopy(s, Advanced(c))
           /\ BoundedCopy(s, Relinquished(Advanced(c)))
           /\ BoundedCopy(s, TurnedBack(Advanced(c)))
           /\ BoundedCopy(s, Accepted(c))
           /\ BoundedCopy(s, Rejected(c))
           /\ BoundedCopy(s, Promoted(c))
           /\ \A m \in Messages : BoundedCopy(s, Followed(c, m))
           /\ \A v : BoundedCopy(s, [c EXCEPT !.vel = v])
<1>1. \A t \in Neighbours(s) : BoundedCopy(s, Pending(c, t))
  BY AbortAssumption DEF Copies, BoundedCopy, Pending
<1>2. ~TimedOut(Advanced(c)) => BoundedCopy(s, Advanced(c))
  <2>1. Advanced(c).ticks \in Nat /\ Advanced(c).target = c.target
        /\ Advanced(c).authority = c.authority
    BY CopyUpdatesType DEF Copies, Advanced
  <2> QED
    BY <2>1, AbortAssumption DEF BoundedCopy, TimedOut
<1>3. BoundedCopy(s, Relinquished(Advanced(c))) /\ BoundedCopy(s, TurnedBack(Advanced(c)))
  <2>1. Advanced(c) \in Copies
    BY CopyUpdatesType
  <2> QED
    BY <2>1 DEF Copies, BoundedCopy, Relinquished, TurnedBack
<1>4. BoundedCopy(s, Accepted(c))
  BY AbortAssumption DEF Copies, BoundedCopy, Accepted
<1>5. BoundedCopy(s, Rejected(c)) /\ BoundedCopy(s, Promoted(c))
  BY DEF Copies, BoundedCopy, Rejected, Promoted
<1>6. \A m \in Messages : BoundedCopy(s, Followed(c, m))
  BY DEF Copies, BoundedCopy, Followed
<1>7. \A v : BoundedCopy(s, [c EXCEPT !.vel = v])
  BY DEF Copies, BoundedCopy
<1> QED
  BY <1>1, <1>2, <1>3, <1>4, <1>5, <1>6, <1>7

\* Nothing a shard publishes is an alert.
LEMMA NoAlertPublished ==
    ASSUME NEW s, NEW kind, kind # "CrossingAlert", NEW p, NEW v, NEW m \in Publish(kind, s, p, v)
    PROVE  m.kind # "CrossingAlert"
BY DEF Publish

LEMMA TickBounded ==
    ASSUME BoundedInv, NEW s \in Shards, Tick(s)
    PROVE  PendingIsBounded' /\ AlertsAreAboutNeighbours'
<1>0. copy[s] \in Copies /\ BoundedCopy(s, copy[s])
  BY DEF BoundedInv, TypeOK, PendingIsBounded, BoundedCopy
<1> DEFINE moved == Moved(s, copy[s])
           next == Advanced(copy[s])
<1>1. moved \in Copies /\ moved.pos \in Int /\ moved.authority = copy[s].authority
  BY <1>0, MovedType DEF Copies
<1>2. CASE MoveOwned(s)
  <2>1. BoundedCopy(s, moved)
    BY <1>1, <1>2 DEF MoveOwned, BoundedCopy
  <2>2. \A m \in net' : m \in net \/ m.kind # "CrossingAlert"
    BY <1>2, TransmitKeeps, NoAlertPublished DEF MoveOwned, PublishPosition
  <2> QED
    BY <1>2, <2>1, <2>2, OneBoundedChange DEF MoveOwned
<1>3. CASE RequestHandoff(s)
  <2> DEFINE t == PositionTarget(moved.pos, s)
  <2>1. t \in Neighbours(s)
    BY <1>1, <1>3, TargetIsNeighbour DEF RequestHandoff, Leaving
  <2>2. BoundedCopy(s, Pending(moved, t))
    <3>1. BoundedCopy(s, moved)
      BY <1>1, <1>3 DEF RequestHandoff, BoundedCopy
    <3> QED
      BY <1>1, <2>1, <3>1, BoundedUpdates
  <2>3. \A m \in net' : m \in net \/ m.kind # "CrossingAlert"
    BY <1>3, TransmitKeeps, NoAlertPublished DEF RequestHandoff, PublishPosition
  <2> QED
    BY <1>3, <2>2, <2>3, OneBoundedChange DEF RequestHandoff
<1>4. ASSUME NEW after, NEW kind, kind # "CrossingAlert", NEW p, BoundedCopy(s, after),
             TickPending(s, next, after, Publish(kind, s, p, 0))
      PROVE  PendingIsBounded' /\ AlertsAreAboutNeighbours'
  <2>1. \A m \in net' : m \in net \/ m.kind # "CrossingAlert"
    BY <1>4, TransmitKeeps, NoAlertPublished DEF TickPending, GhostCast
  <2> QED
    BY <1>4, <2>1, OneBoundedChange DEF TickPending
<1>5. CASE AdvancePending(s)
  BY <1>0, <1>4, <1>5, BoundedUpdates DEF AdvancePending, PublishPosition
<1>6. CASE CompleteHandoff(s)
  BY <1>0, <1>4, <1>6, BoundedUpdates DEF CompleteHandoff
<1>7. CASE AbortHandoff(s)
  BY <1>0, <1>4, <1>7, BoundedUpdates DEF AbortHandoff, PublishPosition
<1> QED
  BY <1>2, <1>3, <1>5, <1>6, <1>7 DEF Tick

LEMMA ReceiveBounded ==
    ASSUME BoundedInv, NEW m \in net, Receive(m)
    PROVE  PendingIsBounded' /\ AlertsAreAboutNeighbours'
<1>0. m \in Messages /\ (m.kind # "PositionUpdate" =>
         m.to \in Shards /\ copy[m.to] \in Copies /\ BoundedCopy(m.to, copy[m.to]))
  BY DEF BoundedInv, TypeOK, Addressed, PendingIsBounded, BoundedCopy
<1>1. ASSUME NEW c, m.kind # "PositionUpdate", BoundedCopy(m.to, c), Becomes(m, c)
      PROVE  PendingIsBounded' /\ AlertsAreAboutNeighbours'
  BY <1>0, <1>1, OneBoundedChange DEF Becomes
<1>2. CASE AcceptRequest(m)
  <2>1. m.kind # "PositionUpdate" /\ BoundedCopy(m.to, NewGhost(m))
    BY <1>2 DEF AcceptRequest, Arrives, BoundedCopy, NewGhost
  <2>2. \A n \in net' : n \in net \/ n.kind # "CrossingAlert"
    BY <1>2, TransmitKeeps, NoAlertPublished DEF AcceptRequest
  <2> QED
    BY <1>0, <1>2, <2>1, <2>2, OneBoundedChange DEF AcceptRequest
<1>3. CASE RejectRequest(m)
  <2>1. \A n \in net' : n \in net \/ n.kind # "CrossingAlert"
    BY <1>3, TransmitKeeps, NoAlertPublished DEF RejectRequest
  <2> QED
    BY <1>3, <2>1 DEF RejectRequest, BoundedInv, PendingIsBounded, AlertsAreAboutNeighbours
<1>4. CASE HearAccept(m)
  BY <1>0, <1>1, <1>4, BoundedUpdates DEF HearAccept, Arrives
<1>5. CASE HearReject(m)
  BY <1>0, <1>1, <1>5, BoundedUpdates DEF HearReject, Arrives
<1>6. CASE HearGhostUpdate(m)
  BY <1>0, <1>1, <1>6, BoundedUpdates DEF HearGhostUpdate, Arrives
<1>7. CASE HearComplete(m)
  BY <1>0, <1>1, <1>7, BoundedUpdates DEF HearComplete, Arrives
<1>8. CASE HearAlert(m)
  <2>1. m.kind # "PositionUpdate" /\ m.about \in Neighbours(m.to)
    BY <1>8 DEF HearAlert, Arrives, BoundedInv, AlertsAreAboutNeighbours
  <2>2. CASE copy[m.to].authority = "Owned" /\ MovingToward(copy[m.to].vel, m.to, m.about)
    <3>1. BoundedCopy(m.to, Pending(copy[m.to], m.about))
      BY <1>0, <2>1, BoundedUpdates
    <3>2. \A n \in net' : n \in net \/ n.kind # "CrossingAlert"
      BY <1>8, <2>2, TransmitKeeps, NoAlertPublished DEF HearAlert
    <3> QED
      BY <1>0, <1>8, <2>1, <2>2, <3>1, <3>2, OneBoundedChange DEF HearAlert
  <2>3. CASE ~(copy[m.to].authority = "Owned" /\ MovingToward(copy[m.to].vel, m.to, m.about))
    BY <1>8, <2>3 DEF HearAlert, BoundedInv, PendingIsBounded, AlertsAreAboutNeighbours
  <2> QED
    BY <2>2, <2>3
<1>9. CASE HearInput(m)
  <2> DEFINE c == IF copy[m.to].authority = "Absent" THEN Fresh(SpawnPoint(m.to), 0, FALSE)
                  ELSE copy[m.to]
  <2>1. m.kind # "PositionUpdate"
    BY <1>9 DEF HearInput, Arrives
  <2>2. Fresh(SpawnPoint(m.to), 0, FALSE) \in Copies
        /\ BoundedCopy(m.to, Fresh(SpawnPoint(m.to), 0, FALSE))
    BY <1>0, <2>1, FreshCopies DEF Fresh, BoundedCopy
  <2>3. c \in Copies /\ BoundedCopy(m.to, c)
    BY <1>0, <2>1, <2>2
  <2>4. BoundedCopy(m.to, [c EXCEPT !.vel = m.vel])
    <3> HIDE DEF c
    <3> QED  BY <1>0, <2>1, <2>3, BoundedUpdates
  <2> QED
    BY <1>1, <1>9, <2>1, <2>4 DEF HearInput, EnsurePlayer, ApplyClientInput
<1>10. CASE TrackPosition(m)
  <2>1. m.pos \in Int /\ net' \subseteq (net \ {m}) \cup Alert(m.pos)
    BY <1>0, <1>10, TransmitKeeps DEF TrackPosition, Messages
  <2>2. ASSUME NEW n \in Alert(m.pos)
        PROVE  n.about \in Neighbours(n.to)
    <3>1. n.to \in running /\ n.to = Band(m.pos) /\ n.about \in ShardsNear(m.pos) \ {Band(m.pos)}
      BY <2>1, AlertType DEF BoundedInv
    <3>2. Band(m.pos) \in Shards
      BY <3>1 DEF BoundedInv, TypeOK
    <3> QED
      BY <2>1, <3>1, <3>2, NearBandsAreAdjacent
  <2> QED
    BY <1>10, <2>1, <2>2 DEF TrackPosition, BoundedInv, PendingIsBounded, AlertsAreAboutNeighbours
<1> QED
  BY <1>2, <1>3, <1>4, <1>5, <1>6, <1>7, <1>8, <1>9, <1>10 DEF Receive

LEMMA BoundedStep == BoundedInv /\ [Next]_vars => BoundedInv'
<1> SUFFICES ASSUME BoundedInv, [Next]_vars PROVE BoundedInv'
  OBVIOUS
<1>1. TypeOK'
  BY StepType DEF BoundedInv
<1>2. PendingIsBounded' /\ AlertsAreAboutNeighbours'
  <2>1. CASE UNCHANGED vars
    BY <2>1 DEF vars, BoundedInv, PendingIsBounded, AlertsAreAboutNeighbours
  <2>2. ASSUME NEW s \in Shards, Tick(s)
        PROVE  PendingIsBounded' /\ AlertsAreAboutNeighbours'
    BY <2>2, TickBounded
  <2>3. ASSUME NEW s \in Shards, NEW c, BoundedCopy(s, c), net' \subseteq net,
               copy' = [copy EXCEPT ![s] = c]
        PROVE  PendingIsBounded' /\ AlertsAreAboutNeighbours'
    BY <2>3, OneBoundedChange
  <2>4. ASSUME NEW s \in Shards, Crash(s) \/ Restart(s)
        PROVE  PendingIsBounded' /\ AlertsAreAboutNeighbours'
    <3>1. BoundedCopy(s, NotHere) /\ BoundedCopy(s, Dummy)
      BY DEF BoundedCopy, NotHere, Dummy, Fresh
    <3>2. net' \subseteq net
      BY <2>4 DEF Crash, Restart
    <3> QED
      BY <2>3, <2>4, <3>1, <3>2 DEF Crash, Restart
  <2>5. ASSUME NEW m \in net, Receive(m)
        PROVE  PendingIsBounded' /\ AlertsAreAboutNeighbours'
    BY <2>5, ReceiveBounded
  <2>6. ASSUME NEW v \in Steering, Steer(v)
        PROVE  PendingIsBounded' /\ AlertsAreAboutNeighbours'
    <3>1. \A m \in net' : m \in net \/ m.kind # "CrossingAlert"
      BY <2>6, TransmitKeeps DEF Steer
    <3> QED
      BY <2>6, <3>1 DEF Steer, BoundedInv, PendingIsBounded, AlertsAreAboutNeighbours
  <2>7. ASSUME NEW c \in unnoticed, RemoveService(c)
        PROVE  PendingIsBounded' /\ AlertsAreAboutNeighbours'
    BY <2>7 DEF RemoveService, BoundedInv, PendingIsBounded, AlertsAreAboutNeighbours
  <2> QED
    BY <2>1, <2>2, <2>4, <2>5, <2>6, <2>7 DEF Next
<1> QED
  BY <1>1, <1>2 DEF BoundedInv

\* A hand-off in progress names a neighbour and is within the abort, with any
\* number of shards, steering, alerts, losses, crashes and restarts: no handler
\* leaves a pending copy that the ticks of its own shard cannot resolve.
THEOREM PendingBounded == Spec => []PendingIsBounded
<1>1. Init => BoundedInv
  BY InitType
  DEF Init, BoundedInv, PendingIsBounded, AlertsAreAboutNeighbours, NotHere, Dummy, Fresh
<1>2. BoundedInv => PendingIsBounded
  BY DEF BoundedInv
<1> QED
  BY <1>1, <1>2, BoundedStep, PTL DEF Spec

-----------------------------------------------------------------------------
(* Who hears whom. *)

HearingInv == TypeOK /\ HeardUntilNoticed

\* A step that changes neither who is alive nor who is subscribed.
LEMMA SameHearers ==
    ASSUME UNCHANGED <<audience, running, incarnation>>
    PROVE  \A s : Hearers(s)' = Hearers(s)
BY DEF Hearers, Connection

LEMMA NeighboursAreMutual ==
    ASSUME NEW s \in Shards, NEW t \in Shards
    PROVE  s \in Neighbours(t) <=> t \in Neighbours(s)
BY ShardsAssumption DEF Neighbours, Shards

\* A death: the dead shard's own connection has ended, unnoticed.
LEMMA CrashHearing ==
    ASSUME HearingInv, NEW u \in Shards, Crash(u)
    PROVE  HeardUntilNoticed'
<1> SUFFICES ASSUME NEW t \in Shards, NEW s \in running' \cap Neighbours(t),
                    Ended(t)' \subseteq unnoticed'
             PROVE  s \in Hearers(t)'
  BY DEF HeardUntilNoticed, Neighbours
<1>1. /\ running' = running \ {u} /\ unnoticed' = unnoticed \cup {Connection(u)}
      /\ UNCHANGED <<audience, incarnation>>
      /\ u \in running
  BY DEF Crash
<1>2. Ended(t) \subseteq unnoticed
  <2> SUFFICES ASSUME NEW c \in Ended(t) PROVE c \in unnoticed
    OBVIOUS
  <2>1. incarnation[t] \in Nat
    BY ShardsAreAddresses DEF HearingInv, TypeOK
  <2>2. c \in Ended(t)'
    BY <1>1 DEF Ended, Connection
  <2>3. c # Connection(u)
    BY <1>1, <2>1 DEF Ended, Connection
  <2> QED
    BY <1>1, <2>2, <2>3
<1>3. s \in Hearers(t)
  BY <1>1, <1>2 DEF HearingInv, HeardUntilNoticed
<1> QED
  BY <1>1, <1>3 DEF Hearers, Connection

\* A return: the new process has subscribed to its neighbours' topics.
LEMMA RestartHearing ==
    ASSUME HearingInv, NEW u \in Shards, Restart(u)
    PROVE  HeardUntilNoticed'
<1> SUFFICES ASSUME NEW t \in Shards, NEW s \in running' \cap Neighbours(t),
                    Ended(t)' \subseteq unnoticed'
             PROVE  s \in Hearers(t)'
  BY DEF HeardUntilNoticed, Neighbours
<1>1. /\ running' = running \cup {u} /\ u \notin running /\ UNCHANGED unnoticed
      /\ incarnation' = [incarnation EXCEPT ![u] = @ + 1]
      /\ audience' = AudienceAfterReturnOf(u)
      /\ audience \in [Shards -> SUBSET ((0 .. ShardCount) \X Nat)]
      /\ incarnation \in [0 .. ShardCount -> Nat]
  BY DEF Restart, HearingInv, TypeOK
<1>2. s \in Shards /\ s \in 0 .. ShardCount /\ t \in 0 .. ShardCount /\ u \in 0 .. ShardCount
  BY ShardsAreAddresses DEF Neighbours
<1>3. CASE s = u
  <2>1. Connection(s)' = <<s, incarnation[s] + 1>>
    BY <1>1, <1>2, <1>3 DEF Connection
  <2>2. Connection(s)' \in audience'[t]
    BY <1>1, <1>2, <1>3, <2>1, NeighboursAreMutual DEF AudienceAfterReturnOf
  <2> QED
    BY <2>2 DEF Hearers
<1>4. CASE s # u
  <2>1. Connection(s)' = Connection(s) /\ s \in running
    BY <1>1, <1>2, <1>4 DEF Connection
  <2>2. Ended(t) \subseteq Ended(t)'
    <3>1. CASE t = u
      <4>1. incarnation'[t] = incarnation[t] + 1 /\ incarnation[t] \in Nat
        BY <1>1, <1>2, <3>1
      <4>2. Connection(t) = <<t, incarnation[t]>> /\ incarnation[t] \in 0 .. incarnation'[t] - 1
            /\ 0 .. incarnation[t] - 1 \subseteq 0 .. incarnation'[t] - 1
        BY <4>1 DEF Connection
      <4> QED
        BY <1>1, <3>1, <4>2 DEF Ended
    <3>2. CASE t # u
      <4>1. incarnation'[t] = incarnation[t] /\ Connection(t)' = Connection(t)
        BY <1>1, <1>2, <3>2 DEF Connection
      <4> QED
        BY <1>1, <3>2, <4>1 DEF Ended
    <3> QED
      BY <3>1, <3>2
  <2>3. Connection(s) \in audience[t]
    BY <1>1, <2>1, <2>2 DEF HearingInv, HeardUntilNoticed, Hearers
  <2>4. audience[t] \subseteq audience'[t]
    BY <1>1 DEF AudienceAfterReturnOf
  <2> QED
    BY <2>1, <2>3, <2>4 DEF Hearers
<1> QED
  BY <1>3, <1>4

\* The broker notices a loss: it forgets what the dead connection was
\* subscribed to, not what the process that has come since is, and the topic it
\* published, of which nothing was promised beyond that.
LEMMA RemoveServiceHearing ==
    ASSUME HearingInv, NEW c \in unnoticed, RemoveService(c)
    PROVE  HeardUntilNoticed'
<1> SUFFICES ASSUME NEW t \in Shards, NEW s \in running' \cap Neighbours(t),
                    Ended(t)' \subseteq unnoticed'
             PROVE  s \in Hearers(t)'
  BY DEF HeardUntilNoticed, Neighbours
<1>1. /\ UNCHANGED <<running, incarnation>> /\ unnoticed' = unnoticed \ {c}
      /\ audience' = [n \in Shards |-> IF n = c[1] THEN {} ELSE audience[n] \ {c}]
  BY DEF RemoveService, AudienceAfterLossOf
<1>2. c \in Shards \X Nat /\ Dead(c) /\ c = <<c[1], c[2]>> /\ incarnation[c[1]] \in Nat
  <2>1. c \in Shards \X Nat /\ Dead(c) /\ incarnation \in [0 .. ShardCount -> Nat]
    BY DEF HearingInv, TypeOK
  <2>2. PICK a \in Shards, k \in Nat : c = <<a, k>>
    BY <2>1
  <2>3. c[1] = a /\ c[2] = k /\ a \in 0 .. ShardCount
    BY <2>2, ShardsAreAddresses
  <2> QED
    BY <2>1, <2>2, <2>3
<1>3. Ended(t)' = Ended(t)
  BY <1>1 DEF Ended, Connection
<1>4. c[1] # t
  <2> SUFFICES ASSUME c[1] = t PROVE FALSE
    OBVIOUS
  <2>1. c \in Ended(t)
    <3>1. CASE c[2] < incarnation[t]
      BY <1>2, <3>1 DEF Ended
    <3>2. CASE c[2] = incarnation[t] /\ t \notin running
      BY <1>2, <3>2 DEF Ended, Connection
    <3> QED
      BY <1>2, <3>1, <3>2 DEF Dead
  <2> QED
    BY <1>1, <1>3, <2>1
<1>5. s \in Hearers(t) /\ Connection(s)' = Connection(s)
  BY <1>1, <1>3 DEF HearingInv, HeardUntilNoticed, Connection
<1>6. Connection(s) # c
  <2>1. s \in running /\ Connection(s)[1] = s /\ Connection(s)[2] = incarnation[s]
    BY <1>1 DEF Connection
  <2> QED
    BY <1>2, <2>1 DEF Dead
<1> QED
  BY <1>1, <1>4, <1>5, <1>6 DEF Hearers

\* Deaths, returns and losses noticed are all that changes who hears whom.
LEMMA HearingStep == HearingInv /\ [Next]_vars => HearingInv'
<1> SUFFICES ASSUME HearingInv, [Next]_vars PROVE HearingInv'
  OBVIOUS
<1>1. TypeOK'
  BY StepType DEF HearingInv
<1>2. CASE UNCHANGED <<audience, running, incarnation, unnoticed>>
  <2>1. \A t : Ended(t)' = Ended(t) /\ Hearers(t)' = Hearers(t)
    BY <1>2, SameHearers DEF Ended, Connection
  <2> QED
    BY <1>1, <1>2, <2>1 DEF HearingInv, HeardUntilNoticed
<1>3. CASE \E s \in Shards : Tick(s)
  BY <1>2, <1>3 DEF Tick, MoveOwned, RequestHandoff, AdvancePending, CompleteHandoff,
                    AbortHandoff, TickPending
<1>4. CASE \E m \in net : Receive(m)
  BY <1>2, <1>4 DEF Receive, AcceptRequest, RejectRequest, HearAccept, HearReject,
                    HearGhostUpdate, HearComplete, HearAlert, HearInput, TrackPosition, Becomes
<1>5. CASE \E v \in Steering : Steer(v)
  BY <1>2, <1>5 DEF Steer
<1>6. CASE \E s \in Shards : Crash(s) \/ Restart(s)
  BY <1>1, <1>6, CrashHearing, RestartHearing DEF HearingInv
<1>7. CASE \E c \in unnoticed : RemoveService(c)
  BY <1>1, <1>7, RemoveServiceHearing DEF HearingInv
<1> QED
  BY <1>2, <1>3, <1>4, <1>5, <1>6, <1>7 DEF Next, vars

\* In any world and whatever dies, comes back or is noticed in whatever order,
\* a shard whose deaths the broker has not noticed is heard by every neighbour
\* alive: the broker forgets subscriptions by connection, not by shard.
THEOREM HeardUntilTheBrokerNotices == Spec => []HeardUntilNoticed
<1>1. Init => HearingInv
  <2> SUFFICES ASSUME Init PROVE HearingInv
    OBVIOUS
  <2>1. \A t \in Shards : Neighbours(t) \X {0} \subseteq audience[t]
    BY DEF Init
  <2>2. \A s \in Shards : s \in running /\ Connection(s) = <<s, 0>>
    BY ShardsAreAddresses DEF Init, Connection
  <2>3. \A t \in Shards : running \cap Neighbours(t) \subseteq Hearers(t)
    BY <2>1, <2>2 DEF Hearers, Neighbours
  <2> QED
    BY <2>3, InitType DEF HearingInv, HeardUntilNoticed
<1>2. HearingInv => HeardUntilNoticed
  BY DEF HearingInv
<1> QED
  BY <1>1, <1>2, HearingStep, PTL DEF Spec

-----------------------------------------------------------------------------
(* Two shards: authority moves as a token does. *)

PairKinds == {"HandoffRequest", "HandoffAccept", "GhostUpdate", "HandoffComplete"}

ListenersAreNeighbours == \A s \in Shards : Hearers(s) \subseteq Neighbours(s)

\* Nothing that could refuse or start a hand-off from outside is in flight,
\* and a request is acceptable to the neighbour it is addressed to.
OnlyPairMessages ==
    \A m \in net : /\ m.kind \in PairKinds
                   /\ m.kind = "HandoffRequest" => NearFrontier(m.pos, m.to)

\* The HandoffComplete in flight is the token: while there is one nobody
\* simulates the entity, and there are not two.
CompleteIsTheToken ==
    /\ \A m \in Completes, s \in Shards : ~Simulates(s)
    /\ \A m, n \in Completes : m = n

\* Inductive.  AtMostOneOwner alone is not: a HandoffComplete that arrives
\* makes an owner, so it has to be known that there is none when it does.
PairInv ==
    /\ TypeOK
    /\ AtMostOneOwner
    /\ ListenersAreNeighbours
    /\ OnlyPairMessages
    /\ CompleteIsTheToken
    /\ Home \in running

\* The part of a step's effect the token depends on: nobody starts to simulate
\* the entity, and no HandoffComplete is sent.
Shrinks ==
    /\ \A s \in Shards : Simulates(s)' => Simulates(s)
    /\ Completes' \subseteq Completes

LEMMA PairShards ==
    ASSUME Pair
    PROVE  /\ Shards = {0, 1}
           /\ Neighbours(0) = {1} /\ Neighbours(1) = {0}
           /\ Left(0) = 0 /\ Right(0) = Width /\ Left(1) = Width /\ Right(1) = 2 * Width
BY GeometryAssumption DEF Pair, Shards, Neighbours, Left, Right

LEMMA PairPublications ==
    ASSUME PairInv, NEW s \in Shards, NEW kind \in Kinds, NEW p \in Int, NEW v \in Int
    PROVE  /\ kind = "PositionUpdate" => Publish(kind, s, p, v) = {}
           /\ \A m \in Publish(kind, s, p, v) :
                 m.kind = kind /\ m.pos = p /\ m.to \in Neighbours(s)
<1>1. Hearers(s) \subseteq Neighbours(s) /\ SpatialService \notin Neighbours(s)
  BY ShardsAreAddresses DEF PairInv, ListenersAreNeighbours
<1> QED
  BY <1>1 DEF Publish

\* What a shard asks its neighbour is something the neighbour accepts: the
\* frontier of the one is the frontier of the other.
LEMMA RequestsAreAcceptable ==
    ASSUME Pair, NEW s \in Shards, NEW c \in Copies, Left(s) <= c.pos, c.pos <= Right(s),
           Leaving(s, c), NEW n \in Neighbours(s)
    PROVE  NearFrontier(c.pos, n)
<1>1. c.pos \in Int
  BY DEF Copies
<1>2. CASE s = 0
  BY <1>1, <1>2, PairShards, GeometryAssumption
  DEF Pair, Leaving, PositionTarget, NearFrontier, Abs
<1>3. CASE s = 1
  BY <1>1, <1>3, PairShards, GeometryAssumption
  DEF Pair, Leaving, PositionTarget, NearFrontier, Abs
<1> QED
  BY <1>2, <1>3, PairShards

\* A step that only shrinks what the token depends on keeps the invariant.
LEMMA ShrinkingStep ==
    ASSUME PairInv, TypeOK', Shrinks, ListenersAreNeighbours', OnlyPairMessages', Home \in running'
    PROVE  PairInv'
<1>1. AtMostOneOwner'
  BY DEF PairInv, AtMostOneOwner, Shrinks
<1>2. CompleteIsTheToken'
  BY DEF PairInv, CompleteIsTheToken, Shrinks
<1> QED
  BY <1>1, <1>2 DEF PairInv

\* One copy changes without becoming a simulating one, and what is sent is
\* neither a HandoffComplete nor unacceptable.
LEMMA OneCopyShrinks ==
    ASSUME PairInv, TypeOK', NEW s \in Shards, NEW c, copy' = [copy EXCEPT ![s] = c],
           c.authority \in {"Owned", "PendingHandoff"} => Simulates(s),
           UNCHANGED <<audience, running, incarnation>>,
           NEW ms, net' \subseteq net \cup ms,
           \A m \in ms : /\ m.kind \in PairKinds \ {"HandoffComplete"}
                         /\ m.kind = "HandoffRequest" => NearFrontier(m.pos, m.to)
    PROVE  Shrinks /\ PairInv'
<1>1. Shrinks
  BY DEF Shrinks, Simulates, Completes, PairInv, TypeOK
<1>2. ListenersAreNeighbours' /\ Home \in running'
  BY SameHearers DEF PairInv, ListenersAreNeighbours
<1>3. OnlyPairMessages'
  BY DEF PairInv, OnlyPairMessages, NearFrontier
<1> QED
  BY <1>1, <1>2, <1>3, ShrinkingStep

LEMMA OneCopyShrinksSilently ==
    ASSUME PairInv, TypeOK', NEW s \in Shards, NEW c, copy' = [copy EXCEPT ![s] = c],
           c.authority \in {"Owned", "PendingHandoff"} => Simulates(s),
           UNCHANGED <<audience, running, incarnation>>, net' \subseteq net
    PROVE  Shrinks /\ PairInv'
<1>1. Shrinks
  BY DEF Shrinks, Simulates, Completes, PairInv, TypeOK
<1>2. ListenersAreNeighbours' /\ Home \in running' /\ OnlyPairMessages'
  BY SameHearers DEF PairInv, ListenersAreNeighbours, OnlyPairMessages
<1> QED
  BY <1>1, <1>2, ShrinkingStep

\* The two steps that touch the token.  The source gives the entity up: ...
LEMMA CompletionStep ==
    ASSUME Pair, PairInv, TypeOK', NEW s \in Shards, CompleteHandoff(s)
    PROVE  /\ PairInv'
           /\ Simulates(s) /\ \A t \in Shards : ~Simulates(t)'
           /\ \A m \in Completes' : m.to \in Neighbours(s)
<1> DEFINE c == Advanced(copy[s])
           ghosts == GhostCast(s, c)
           completes == Publish("HandoffComplete", s, 0, 0)
<1>1. copy \in [Shards -> Copies] /\ c \in Copies /\ c.pos \in Int /\ c.vel \in Int
  BY CopyUpdatesType DEF PairInv, TypeOK, Copies
<1>2. Simulates(s) /\ Completes = {} /\ \A t \in Shards : t # s => ~Simulates(t)
  BY DEF CompleteHandoff, TickPending, Simulates, PairInv, CompleteIsTheToken, AtMostOneOwner
<1>3. copy' = [copy EXCEPT ![s] = Relinquished(c)] /\ UNCHANGED <<audience, running, incarnation>>
      /\ net' \subseteq net \cup ghosts \cup completes
  BY TransmitKeeps DEF CompleteHandoff, TickPending
<1>4. Relinquished(c).authority = "Ghost"
  BY <1>1 DEF Relinquished, Copies
<1>5. \A t \in Shards : ~Simulates(t)'
  BY <1>1, <1>2, <1>3, <1>4 DEF Simulates
<1>6. /\ \A m \in ghosts : m.kind = "GhostUpdate"
      /\ \A m \in completes : m.kind = "HandoffComplete" /\ m.to \in Neighbours(s)
  BY <1>1, PairPublications DEF GhostCast, Kinds
<1>7. Completes' \subseteq completes
  BY <1>2, <1>3, <1>6 DEF Completes
<1>8. \A m, n \in completes : m = n
  <2>1. \A m, n \in Neighbours(s) : m = n
    BY PairShards
  <2>2. Hearers(s) \subseteq Neighbours(s)
    BY DEF PairInv, ListenersAreNeighbours
  <2> QED
    BY <2>1, <2>2 DEF Publish
<1>9. OnlyPairMessages'
  BY <1>3, <1>6 DEF PairInv, OnlyPairMessages, PairKinds
<1>10. AtMostOneOwner' /\ CompleteIsTheToken'
  BY <1>5, <1>7, <1>8 DEF AtMostOneOwner, CompleteIsTheToken
<1>11. ListenersAreNeighbours' /\ Home \in running'
  BY <1>3, SameHearers DEF PairInv, ListenersAreNeighbours
<1> QED
  BY <1>2, <1>5, <1>6, <1>7, <1>9, <1>10, <1>11 DEF PairInv

\* ... and the shard the HandoffComplete reaches takes it up.
LEMMA PromotionStep ==
    ASSUME PairInv, TypeOK', NEW m \in net, HearComplete(m)
    PROVE  /\ PairInv'
           /\ m \in Completes /\ m.to \in Shards
           /\ Completes' = {}
           /\ \A s \in Shards : Simulates(s)' => s = m.to
<1>1. m \in Completes /\ m.to \in Shards /\ copy \in [Shards -> Copies]
  BY DEF HearComplete, Arrives, Completes, PairInv, TypeOK, Addressed
<1>2. net' = net \ {m} /\ copy' = [copy EXCEPT ![m.to] = Promoted(copy[m.to])]
      /\ UNCHANGED <<audience, running, incarnation>>
  BY DEF HearComplete, Becomes
<1>3. Completes' = {}
  BY <1>1, <1>2 DEF Completes, PairInv, CompleteIsTheToken
<1>4. \A s \in Shards : Simulates(s)' => s = m.to
  BY <1>1, <1>2 DEF PairInv, CompleteIsTheToken, Simulates
<1>5. AtMostOneOwner' /\ CompleteIsTheToken'
  BY <1>3, <1>4 DEF AtMostOneOwner, CompleteIsTheToken
<1>6. OnlyPairMessages' /\ ListenersAreNeighbours' /\ Home \in running'
  BY <1>2, SameHearers DEF PairInv, OnlyPairMessages, ListenersAreNeighbours
<1> QED
  BY <1>1, <1>3, <1>4, <1>5, <1>6 DEF PairInv

\* A tick that does not complete a hand-off.
LEMMA PairTick ==
    ASSUME Pair, PairInv, TypeOK', NEW s \in Shards, Tick(s), ~CompleteHandoff(s)
    PROVE  Shrinks /\ PairInv'
<1>0. copy \in [Shards -> Copies] /\ copy[s] \in Copies
  BY DEF PairInv, TypeOK
<1> DEFINE moved == Moved(s, copy[s])
           next == Advanced(copy[s])
<1>1. /\ moved \in Copies /\ moved.pos \in Int /\ moved.vel \in Int
      /\ Left(s) <= moved.pos /\ moved.pos <= Right(s)
      /\ next \in Copies /\ next.pos \in Int /\ next.vel \in Int
      /\ TurnedBack(next) \in Copies /\ TurnedBack(next).pos \in Int
  <2>1. moved \in Copies /\ Left(s) <= moved.pos /\ moved.pos <= Right(s)
    BY <1>0, MovedType
  <2>2. next \in Copies /\ TurnedBack(next) \in Copies
    BY <1>0, CopyUpdatesType
  <2> QED
    BY <2>1, <2>2 DEF Copies
<1>2. CASE MoveOwned(s)
  <2>1. PublishPosition(s, moved) = {}
    BY <1>1, PairPublications DEF PublishPosition, Kinds
  <2>2. net' \subseteq net
    BY <1>2, <2>1, TransmitKeeps DEF MoveOwned
  <2> QED
    BY <1>2, <2>2, OneCopyShrinksSilently DEF MoveOwned, Simulates
<1>3. CASE RequestHandoff(s)
  <2> DEFINE ms == Publish("HandoffRequest", s, moved.pos, moved.vel)
  <2>1. PublishPosition(s, moved) = {}
    BY <1>1, PairPublications DEF PublishPosition, Kinds
  <2>2. net' \subseteq net \cup ms
    BY <1>3, <2>1, TransmitKeeps DEF RequestHandoff
  <2>3. \A m \in ms : /\ m.kind \in PairKinds \ {"HandoffComplete"}
                      /\ m.kind = "HandoffRequest" => NearFrontier(m.pos, m.to)
    <3> TAKE m \in ms
    <3>1. m.kind = "HandoffRequest" /\ m.pos = moved.pos /\ m.to \in Neighbours(s)
      BY <1>1, PairPublications DEF Kinds
    <3>2. NearFrontier(moved.pos, m.to)
      BY <1>1, <1>3, <3>1, RequestsAreAcceptable DEF RequestHandoff
    <3> QED
      BY <3>1, <3>2 DEF PairKinds
  <2> QED
    BY <1>3, <2>2, <2>3, OneCopyShrinks DEF RequestHandoff, Simulates
<1>4. ASSUME NEW after, NEW p \in Int,
             TickPending(s, next, after, Publish("PositionUpdate", s, p, 0))
      PROVE  Shrinks /\ PairInv'
  <2>1. Publish("PositionUpdate", s, p, 0) = {}
    BY <1>4, PairPublications DEF Kinds
  <2>2. net' \subseteq net \cup GhostCast(s, next)
    BY <1>4, <2>1, TransmitKeeps DEF TickPending
  <2>3. \A m \in GhostCast(s, next) : m.kind = "GhostUpdate"
    BY <1>1, PairPublications DEF GhostCast, Kinds
  <2> QED
    BY <1>4, <2>2, <2>3, OneCopyShrinks DEF TickPending, Simulates, PairKinds
<1>5. CASE AdvancePending(s)
  BY <1>1, <1>4, <1>5 DEF AdvancePending, PublishPosition
<1>6. CASE AbortHandoff(s)
  BY <1>1, <1>4, <1>6 DEF AbortHandoff, PublishPosition
<1> QED
  BY <1>2, <1>3, <1>5, <1>6 DEF Tick

\* A message other than HandoffComplete.
LEMMA PairReceive ==
    ASSUME Pair, PairInv, TypeOK', NEW m \in net, Receive(m), ~HearComplete(m)
    PROVE  Shrinks /\ PairInv'
<1>0. /\ m \in Messages /\ m.kind \in PairKinds
      /\ m.to \in Shards /\ copy \in [Shards -> Copies] /\ copy[m.to] \in Copies
      /\ m.kind = "HandoffRequest" => NearFrontier(m.pos, m.to)
  BY DEF PairInv, OnlyPairMessages, PairKinds, TypeOK, Addressed
<1>1. CASE AcceptRequest(m)
  <2>1. \A n \in Publish("HandoffAccept", m.to, 0, 0) : n.kind = "HandoffAccept"
    BY <1>0, PairPublications DEF Kinds
  <2>2. net' \subseteq net \cup Publish("HandoffAccept", m.to, 0, 0)
    BY <1>1, TransmitKeeps DEF AcceptRequest
  <2>3. NewGhost(m).authority = "Ghost"
    BY DEF NewGhost
  <2> QED
    BY <1>0, <1>1, <2>1, <2>2, <2>3, OneCopyShrinks DEF AcceptRequest, PairKinds
<1>2. ASSUME NEW c, Becomes(m, c), c.authority = copy[m.to].authority
      PROVE  Shrinks /\ PairInv'
  <2>1. net' \subseteq net
    BY <1>2 DEF Becomes
  <2> QED
    BY <1>0, <1>2, <2>1, OneCopyShrinksSilently DEF Becomes, Simulates
<1>3. CASE HearAccept(m)
  <2>1. Accepted(copy[m.to]).authority = copy[m.to].authority
    BY <1>0 DEF Accepted, Copies
  <2> QED
    BY <1>2, <1>3, <2>1 DEF HearAccept
<1>4. CASE HearGhostUpdate(m)
  <2>1. Followed(copy[m.to], m).authority = copy[m.to].authority
    BY <1>0 DEF Followed, Copies
  <2> QED
    BY <1>2, <1>4, <2>1 DEF HearGhostUpdate
<1> QED
  BY <1>0, <1>1, <1>3, <1>4
  DEF Receive, RejectRequest, HearReject, HearAlert, HearInput, TrackPosition, Arrives, PairKinds

\* The other shard dies, or comes back with an empty registry.
LEMMA PairCrash ==
    ASSUME Pair, PairInv, TypeOK', NEW s \in Shards, Crash(s) \/ Restart(s)
    PROVE  Shrinks /\ PairInv'
<1>1. s # Home /\ Home \in running' /\ net' \subseteq net
  BY DEF Crash, Restart, Pair, PairInv
<1>2. copy' = [copy EXCEPT ![s] = NotHere]
  BY <1>1 DEF Crash, Restart
<1>3. Shrinks
  BY <1>1, <1>2 DEF Shrinks, Simulates, Completes, NotHere, PairInv, TypeOK
<1>4. ListenersAreNeighbours'
  <2> SUFFICES ASSUME NEW n \in Shards, NEW h \in Hearers(n)' PROVE h \in Neighbours(n)
    BY DEF ListenersAreNeighbours
  <2>1. Hearers(n) \subseteq Neighbours(n)
    BY DEF PairInv, ListenersAreNeighbours
  <2>2. CASE Crash(s)
    BY <2>1, <2>2 DEF Crash, Hearers, Connection
  <2>3. CASE Restart(s)
    <3>1. CASE h = s
      <4>1. Connection(h)' = <<s, incarnation[s] + 1>> /\ incarnation[s] \in Nat
        BY <2>3, <3>1, ShardsAreAddresses DEF Restart, Connection, PairInv, TypeOK
      <4>2. <<s, incarnation[s] + 1>> \notin audience[n]
        <5>1. \A c \in unnoticed : c # <<s, incarnation[s] + 1>>
          BY <4>1 DEF PairInv, TypeOK, Dead
        <5>2. \A u \in running \cup {SpatialService} : Connection(u) # <<s, incarnation[s] + 1>>
          BY <4>1 DEF Connection
        <5> QED
          BY <5>1, <5>2 DEF PairInv, TypeOK
      <4>3. n \in Neighbours(s)
        BY <2>3, <4>1, <4>2 DEF Hearers, Restart, AudienceAfterReturnOf
      <4>4. s \in Neighbours(n)
        BY <4>3, NeighboursAreMutual
      <4> QED
        BY <3>1, <4>4
    <3>2. CASE h # s
      <4>0. running \subseteq Shards /\ SpatialService \in 0 .. ShardCount
        BY ShardsAssumption DEF PairInv, TypeOK, SpatialService
      <4>1. h \in running \cup {SpatialService} /\ h \in 0 .. ShardCount
        BY <2>3, <3>2, <4>0, ShardsAreAddresses DEF Hearers, Restart
      <4>2. Connection(h)' = Connection(h)
        BY <2>3, <3>2, <4>1 DEF Restart, Connection, PairInv, TypeOK
      <4>3. Connection(h) \in audience[n]
        BY <2>3, <3>2, <4>2 DEF Hearers, Restart, AudienceAfterReturnOf, Connection
      <4> QED
        BY <2>1, <4>1, <4>3 DEF Hearers
    <3> QED
      BY <3>1, <3>2
  <2> QED
    BY <2>2, <2>3
<1>5. OnlyPairMessages'
  BY <1>1 DEF PairInv, OnlyPairMessages
<1> QED
  BY <1>1, <1>3, <1>4, <1>5, ShrinkingStep

\* The broker notices that it has died: nobody hears more than before.
LEMMA PairRemoveService ==
    ASSUME PairInv, TypeOK', NEW c \in unnoticed, RemoveService(c)
    PROVE  Shrinks /\ PairInv'
<1>1. /\ UNCHANGED <<copy, net, running, incarnation>>
      /\ \A n \in Shards : audience'[n] \subseteq audience[n]
  BY DEF RemoveService, AudienceAfterLossOf
<1>2. Shrinks
  BY <1>1 DEF Shrinks, Simulates, Completes
<1>3. ListenersAreNeighbours'
  BY <1>1 DEF PairInv, ListenersAreNeighbours, Hearers, Connection
<1>4. OnlyPairMessages' /\ Home \in running'
  BY <1>1 DEF PairInv, OnlyPairMessages
<1> QED
  BY <1>2, <1>3, <1>4, ShrinkingStep

LEMMA PairInitially ==
    ASSUME Pair, Init
    PROVE  PairInv
<1>1. TypeOK
  BY InitType
<1>2. \A s \in Shards : Simulates(s) => s = Home
  BY DEF Init, Simulates, NotHere
<1>3. ListenersAreNeighbours
  BY DEF Init, Pair, ListenersAreNeighbours, Hearers, Connection, Neighbours
<1> QED
  BY <1>1, <1>2, <1>3
  DEF PairInv, AtMostOneOwner, OnlyPairMessages, CompleteIsTheToken, Completes, Init, Pair

\* Every step: either it shrinks what the token depends on, or it is one of
\* the two that move the token.
LEMMA PairStep ==
    ASSUME Pair, PairInv, [Next]_vars
    PROVE  /\ PairInv'
           /\ \/ Shrinks
              \/ \E s \in Shards : CompleteHandoff(s)
              \/ \E m \in net : HearComplete(m)
<1>0. TypeOK'
  BY StepType DEF PairInv
<1>1. CASE UNCHANGED vars
  BY <1>1 DEF vars, Shrinks, Simulates, Completes, PairInv, TypeOK, Addressed, AtMostOneOwner,
              Dead, Hearers, Connection, ListenersAreNeighbours, OnlyPairMessages, CompleteIsTheToken
<1>2. CASE \E s \in Shards : Tick(s)
  BY <1>0, <1>2, PairTick, CompletionStep
<1>3. CASE \E s \in Shards : Crash(s) \/ Restart(s)
  BY <1>0, <1>3, PairCrash
<1>4. CASE \E m \in net : Receive(m)
  BY <1>0, <1>4, PairReceive, PromotionStep
<1>5. ~(\E v \in Steering : Steer(v))
  BY DEF Pair
<1>6. CASE \E c \in unnoticed : RemoveService(c)
  BY <1>0, <1>6, PairRemoveService
<1> QED
  BY <1>1, <1>2, <1>3, <1>4, <1>5, <1>6 DEF Next

\* With two shards, messages lost and overtaken and the other shard dying and
\* coming back at any moment, never do two shards simulate the entity.
THEOREM OneOwner == Pair => (Spec => []AtMostOneOwner)
<1> SUFFICES ASSUME Pair PROVE Spec => []AtMostOneOwner
  OBVIOUS
<1>1. Init => PairInv
  BY PairInitially
<1>2. PairInv /\ [Next]_vars => PairInv'
  BY PairStep
<1>3. PairInv => AtMostOneOwner
  BY DEF PairInv
<1> QED
  BY <1>1, <1>2, <1>3, PTL DEF Spec

-----------------------------------------------------------------------------
(* Two shards implement Authority. *)

\* What the token is in the three kinds of state.
TokenReads ==
    /\ \A s \in Shards : Simulates(s) => TheToken = Abstract!Held(s)
    /\ \A m \in Completes : TheToken = Abstract!InTransit(m.to)
    /\ Completes = {} /\ (\A s \in Shards : ~Simulates(s)) => TheToken = Abstract!Gone

LEMMA TokenIsRead == AtMostOneOwner /\ CompleteIsTheToken => TokenReads
<1> SUFFICES ASSUME AtMostOneOwner, CompleteIsTheToken PROVE TokenReads
  OBVIOUS
<1>1. ASSUME NEW s \in Shards, Simulates(s) PROVE TheToken = Abstract!Held(s)
  <2>1. \A t \in Shards : Simulates(t) => t = s
    BY <1>1 DEF AtMostOneOwner
  <2>2. (CHOOSE t \in Shards : Simulates(t)) = s
    BY <1>1, <2>1
  <2> QED
    BY <1>1, <2>2 DEF TheToken, Abstract!Held
<1>2. ASSUME NEW m \in Completes PROVE TheToken = Abstract!InTransit(m.to)
  <2>1. (CHOOSE n \in Completes : TRUE) = m
    BY <1>2 DEF CompleteIsTheToken
  <2>2. ~(\E s \in Shards : Simulates(s)) /\ Completes # {}
    BY <1>2 DEF CompleteIsTheToken
  <2> QED
    BY <2>1, <2>2 DEF TheToken, Abstract!InTransit
<1>3. Completes = {} /\ (\A s \in Shards : ~Simulates(s)) => TheToken = Abstract!Gone
  BY DEF TheToken, Abstract!Gone
<1> QED
  BY <1>1, <1>2, <1>3 DEF TokenReads

LEMMA TokensDiffer ==
    \A s : Abstract!Held(s) # Abstract!Gone /\ Abstract!InTransit(s) # Abstract!Gone
<1> SUFFICES ASSUME NEW s
             PROVE  Abstract!Held(s) # Abstract!Gone /\ Abstract!InTransit(s) # Abstract!Gone
  OBVIOUS
<1>1. Abstract!Held(s).state = "held" /\ Abstract!InTransit(s).state = "in transit"
      /\ Abstract!Gone.state = "gone"
  BY DEF Abstract!Held, Abstract!InTransit, Abstract!Gone
<1> QED
  BY <1>1

\* Every step is a step of the token, or leaves it where it is.
LEMMA TokenStep ==
    ASSUME Pair, PairInv, [Next]_vars
    PROVE  [Abstract!Next]_TheToken
<1>1. TokenReads /\ PairInv' /\ AtMostOneOwner' /\ CompleteIsTheToken'
  BY TokenIsRead, PairStep DEF PairInv
<1>2. TokenReads'
  <2>1. (AtMostOneOwner /\ CompleteIsTheToken => TokenReads)'
    BY TokenIsRead, PTL
  <2> QED
    BY <1>1, <2>1
<1>3. ASSUME \A s \in Shards : ~Simulates(s)', Completes' = {}
      PROVE  [Abstract!Next]_TheToken
  <2>1. TheToken' = Abstract!Gone
    BY <1>2, <1>3 DEF TokenReads
  <2> QED
    BY <2>1 DEF Abstract!Next, Abstract!Lose
<1>4. CASE Shrinks
  <2>1. CASE \E s \in Shards : Simulates(s)'
    BY <1>1, <1>2, <1>4, <2>1 DEF Shrinks, TokenReads
  <2>2. CASE Completes' # {}
    BY <1>1, <1>2, <1>4, <2>2 DEF Shrinks, TokenReads
  <2> QED
    BY <1>3, <2>1, <2>2
<1>5. CASE \E s \in Shards : CompleteHandoff(s)
  <2> PICK s \in Shards : CompleteHandoff(s)
    BY <1>5
  <2>1. TypeOK'
    BY <1>1 DEF PairInv
  <2>2. Simulates(s) /\ (\A t \in Shards : ~Simulates(t)')
        /\ \A m \in Completes' : m.to \in Neighbours(s)
    BY <2>1, CompletionStep
  <2>3. TheToken = Abstract!Held(s)
    BY <1>1, <2>2 DEF TokenReads
  <2>4. ASSUME NEW m \in Completes' PROVE Abstract!Next
    <3>1. TheToken' = Abstract!InTransit(m.to)
      BY <1>2 DEF TokenReads
    <3>2. m.to \in Shards /\ m.to # s
      BY <2>2, ShardsAreAddresses DEF Neighbours
    <3> QED
      BY <2>3, <3>1, <3>2 DEF Abstract!Next, Abstract!Moves, Abstract!Release
  <2> QED
    BY <1>3, <2>2, <2>4
<1>6. CASE \E m \in net : HearComplete(m)
  <2> PICK m \in net : HearComplete(m)
    BY <1>6
  <2>1. TypeOK'
    BY <1>1 DEF PairInv
  <2>2. m \in Completes /\ m.to \in Shards /\ Completes' = {}
        /\ \A s \in Shards : Simulates(s)' => s = m.to
    BY <2>1, PromotionStep
  <2>3. TheToken = Abstract!InTransit(m.to)
    BY <1>1, <2>2 DEF TokenReads
  <2>4. CASE Simulates(m.to)'
    <3>1. TheToken' = Abstract!Held(m.to)
      BY <1>2, <2>2, <2>4 DEF TokenReads
    <3> QED
      BY <2>2, <2>3, <3>1 DEF Abstract!Next, Abstract!Moves, Abstract!TakeUp
  <2> QED
    BY <1>3, <2>2, <2>4
<1> QED
  BY <1>4, <1>5, <1>6, PairStep

\* With two shards the protocol implements Authority: whatever is lost or
\* overtaken, only the holder releases the entity, only the addressee takes it
\* up, and an entity that is gone stays gone.
THEOREM RefinesAuthority == Pair => (Spec => ImplementsAuthority)
<1> SUFFICES ASSUME Pair PROVE Spec => ImplementsAuthority
  OBVIOUS
<1>1. Init => PairInv /\ Abstract!Init
  <2> SUFFICES ASSUME Init PROVE PairInv /\ Abstract!Init
    OBVIOUS
  <2>1. PairInv /\ TokenReads
    BY PairInitially, TokenIsRead DEF PairInv
  <2>2. Home \in Shards /\ Simulates(Home)
    BY DEF Init, Pair, Simulates, Dummy, Fresh
  <2> QED
    BY <2>1, <2>2 DEF TokenReads, Abstract!Init
<1>2. PairInv /\ [Next]_vars => PairInv' /\ [Abstract!Next]_TheToken
  BY PairStep, TokenStep
<1> QED
  BY <1>1, <1>2, PTL DEF Spec, ImplementsAuthority, Abstract!Spec

-----------------------------------------------------------------------------
(* A prompt network, one that loses nothing and is faster than a tick:     *)
(* between two shards the hand-off does what it is for, wherever the band, *)
(* the margin, the abort and the speed lie.                                *)

\* Two shards that do not die and a dummy, with the spatial service or not.
PromptPair ==
    /\ ShardCount = 2 /\ Prompt
    /\ Steering = {} /\ Crashable = {} /\ Home \in Shards

Other(s) == 1 - s

Slow(v) == -Speed <= v /\ v <= Speed

Listening == \A s \in Shards : Hearers(s) \cap Shards = {Other(s)}

PromptKinds == {"HandoffRequest", "HandoffAccept", "GhostUpdate", "HandoffComplete",
                "PositionUpdate", "CrossingAlert"}

\* An alert that starts nothing: where one is due the shard's own test has
\* already made the entity pending.
Ignored(a) == copy[a.to].authority = "Owned" => ~MovingToward(copy[a.to].vel, a.to, a.about)

\* The sender's copy has not changed since.
AsSent(m) == m.pos = copy[m.from].pos /\ m.vel = copy[m.from].vel

RequestOK(m) ==
    /\ m.from = Other(m.to) /\ Slow(m.vel) /\ NearFrontier(m.pos, m.to)
    /\ copy[m.from].authority = "PendingHandoff" /\ AsSent(m)

GhostUpdateOK(m) ==
    /\ m.from = Other(m.to) /\ Slow(m.vel)
    /\ copy[m.from].authority # "Owned" => AsSent(m)

CompleteOK(m) ==
    /\ m.from = Other(m.to)
    /\ copy[m.to].authority = "Ghost" /\ copy[m.from].authority = "Ghost"
    /\ Slow(copy[m.to].pos - copy[m.from].pos)
    /\ \A n \in net : n.kind \notin {"PositionUpdate", "CrossingAlert"}

MessageOK(m) ==
    /\ m.kind \in PromptKinds
    /\ m.kind = "HandoffRequest" => RequestOK(m)
    /\ m.kind = "GhostUpdate" => GhostUpdateOK(m)
    /\ m.kind = "HandoffComplete" => CompleteOK(m)
    /\ m.kind = "CrossingAlert" => Ignored(m)
    /\ m.kind = "PositionUpdate" => \A a \in Alert(m.pos) : Ignored(a)

MessagesOK == \A m \in net : MessageOK(m)

\* Only one shard at a time tells the other where the entity is.
Tells(m) == m.kind \in {"HandoffRequest", "GhostUpdate"}
OneVoice == \A m, n \in net : Tells(m) /\ Tells(n) => m.from = n.from

Sent(kind, s) == \E m \in net : m.kind = kind /\ m.from = s

SameImage(c, d) == c.pos = d.pos /\ c.vel = d.vel

\* The other shard has a ghost of what s holds, or is about to have one.
Shadowed(s) ==
    \/ Sent("HandoffRequest", s)
    \/ /\ copy[Other(s)].authority = "Ghost"
       /\ Sent("GhostUpdate", s) \/ SameImage(copy[Other(s)], copy[s])

\* A pending copy moves towards its target, which shadows it.
CopyOK(s) ==
    /\ Slow(copy[s].vel)
    /\ copy[s].authority = "PendingHandoff" =>
          copy[s].target = Other(s) /\ MovingToward(copy[s].vel, s, Other(s)) /\ Shadowed(s)

CopiesOK == \A s \in Shards : CopyOK(s)

Holds(s) == Simulates(s) /\ ~Simulates(Other(s))

HolderOK ==
    /\ \A m, n \in Completes : m = n
    /\ Completes = {} => \E s \in Shards : Holds(s)

\* Inductive: what is conserved is the image as well as the authority, as a
\* HandoffComplete is only worth something to a shard that has a ghost.
PromptInv ==
    /\ TypeOK /\ running = Shards /\ unnoticed = {}
    /\ Listening /\ MessagesOK /\ OneVoice /\ CopiesOK /\ HolderOK

-----------------------------------------------------------------------------
(* Two shards and what they publish. *)

LEMMA TwoShards ==
    ASSUME PromptPair
    PROVE  /\ Shards = {0, 1} /\ Other(0) = 1 /\ Other(1) = 0
           /\ \A s \in Shards : Other(s) \in Shards /\ Other(s) # s /\ Other(Other(s)) = s
           /\ \A s, t \in Shards : t = s \/ t = Other(s)
           /\ Neighbours(0) = {1} /\ Neighbours(1) = {0}
           /\ Left(0) = 0 /\ Right(0) = Width /\ Left(1) = Width /\ Right(1) = 2 * Width
<1>1. Shards = {0, 1}
  BY DEF PromptPair, Shards
<1> QED
  BY <1>1, GeometryAssumption DEF PromptPair, Neighbours, Left, Right, Other

LEMMA SlowFacts ==
    /\ Slow(0) /\ Slow(Speed) /\ Speed \in Nat
    /\ \A v \in Int : Slow(v) => Slow(-v) /\ Slow(Abs(v)) /\ Slow(-Abs(v))
BY GeometryAssumption DEF Slow, Abs

\* A message to the other shard.
Says(kind, s, p, v) == [kind |-> kind, from |-> s, to |-> Other(s), pos |-> p, vel |-> v, about |-> NoShard]

LEMMA PromptPublications ==
    ASSUME PromptPair, Listening, NEW s \in Shards, NEW kind, NEW p, NEW v
    PROVE  /\ kind # "PositionUpdate" => Publish(kind, s, p, v) = {Says(kind, s, p, v)}
           /\ \A m \in Publish("PositionUpdate", s, p, v) : m.kind = "PositionUpdate" /\ m.pos = p
           /\ Says(kind, s, p, v).kind = kind /\ Says(kind, s, p, v).from = s
           /\ Says(kind, s, p, v).to = Other(s)
           /\ Says(kind, s, p, v).pos = p /\ Says(kind, s, p, v).vel = v
<1>1. Hearers(s) \cap Shards = {Other(s)}
  BY DEF Listening
<1>2. kind # "PositionUpdate" => Publish(kind, s, p, v) = {Says(kind, s, p, v)}
  BY <1>1 DEF Publish, Says
<1>3. \A m \in Publish("PositionUpdate", s, p, v) : m.kind = "PositionUpdate" /\ m.pos = p
  BY DEF Publish
<1> QED
  BY <1>2, <1>3 DEF Says

\* What a prompt network does with ms.
LEMMA PromptTransmit ==
    ASSUME PromptPair, NEW kept, NEW ms, Transmit(kept, ms)
    PROVE  net' = kept \cup ms
BY DEF Transmit, PromptPair

\* A shard ticks when nothing is under way; then there is one holder.
LEMMA TickState ==
    ASSUME PromptPair, PromptInv, NEW s \in Shards, MayTick(s), Simulates(s)
    PROVE  net = {} /\ ~Simulates(Other(s))
<1>1. net = {}
  BY DEF MayTick, PromptPair
<1>2. PICK t \in Shards : Holds(t)
  BY <1>1 DEF PromptInv, HolderOK, Completes
<1> QED
  BY <1>1, <1>2, TwoShards DEF Holds

\* In the margin of the frontier between them, an entity that moves towards
\* the other shard is leaving by its shard's own test.
LEMMA AlertsComeLate ==
    ASSUME PromptPair, TypeOK, NEW s \in Shards, NEW c \in Copies, ~Leaving(s, c),
           NEW a \in Alert(c.pos), a.to = s
    PROVE  ~MovingToward(c.vel, s, a.about)
<1>1. c.pos \in Int /\ c.vel \in Int
  BY DEF Copies
<1>2. s = Band(c.pos) /\ a.about \in ShardsNear(c.pos) \ {s}
  BY <1>1, AlertType
<1>3. s * Width <= c.pos /\ c.pos < s * Width + Width
  BY <1>1, <1>2, GeometryAssumption DEF Band
<1>4. a.about = Other(s)
  BY <1>2, TwoShards DEF ShardsNear
<1>5. Left(a.about) < c.pos + Margin /\ c.pos - Margin < Right(a.about)
  BY <1>2 DEF ShardsNear
<1>6. CASE s = 0
  <2>1. c.pos < Width /\ a.about = 1 /\ Width < c.pos + Margin
    BY <1>3, <1>4, <1>5, <1>6, TwoShards, GeometryAssumption
  <2>2. PositionTarget(c.pos, s) = 1
    BY <1>1, <1>6, <2>1, TwoShards, GeometryAssumption DEF PositionTarget, PromptPair
  <2> QED
    BY <1>1, <1>6, <2>1, <2>2 DEF Leaving, MovingToward
<1>7. CASE s = 1
  <2>1. Width <= c.pos /\ a.about = 0 /\ c.pos - Margin < Width
    BY <1>3, <1>4, <1>5, <1>7, TwoShards, GeometryAssumption
  <2>2. PositionTarget(c.pos, s) = 0
    BY <1>1, <1>7, <2>1, TwoShards, GeometryAssumption DEF PositionTarget, PromptPair
  <2> QED
    BY <1>1, <1>7, <2>1, <2>2 DEF Leaving, MovingToward
<1> QED
  BY <1>6, <1>7, TwoShards

-----------------------------------------------------------------------------
(* The ticks: all that is under way afterwards is what they send. *)

\* All that is under way is what s has sent in a tick.
OneSender(s) ==
    \A m \in net : /\ m.kind \in {"HandoffRequest", "GhostUpdate", "PositionUpdate"}
                   /\ MessageOK(m)
                   /\ Tells(m) => m.from = s

\* What remains to be shown of a tick once its new copy and what it sends
\* are known.
LEMMA AfterTick ==
    ASSUME PromptPair, PromptInv, NEW s \in Shards, MayTick(s), Simulates(s),
           NEW c \in Copies, copy' = [copy EXCEPT ![s] = c], UNCHANGED <<audience, running, incarnation>>,
           c.authority \in {"Owned", "PendingHandoff"}, CopyOK(s)', OneSender(s)'
    PROVE  (Listening /\ MessagesOK /\ OneVoice /\ CopiesOK /\ HolderOK)'
<1>0. copy \in [Shards -> Copies] /\ net = {} /\ ~Simulates(Other(s))
  BY TickState DEF PromptInv, TypeOK
<1>1. copy'[s] = c /\ copy'[Other(s)] = copy[Other(s)] /\ Other(s) \in Shards /\ Other(s) # s
  BY <1>0, TwoShards
<1>2. Listening'
  BY SameHearers DEF PromptInv, Listening
<1>3. MessagesOK' /\ OneVoice'
  BY DEF MessagesOK, OneVoice, OneSender
<1>4. CopiesOK'
  <2>1. CopyOK(Other(s))'
    BY <1>0, <1>1 DEF CopyOK, PromptInv, CopiesOK, Simulates
  <2> QED
    BY <2>1, TwoShards DEF CopiesOK
<1>5. HolderOK'
  <2>1. Completes' = {}
    BY DEF Completes, OneSender
  <2>2. Holds(s)'
    BY <1>0, <1>1 DEF Holds, Simulates
  <2> QED
    BY <2>1, <2>2 DEF HolderOK
<1> QED
  BY <1>2, <1>3, <1>4, <1>5

\* The position a tick publishes is one whose alert comes late.
LEMMA PositionsAreIgnored ==
    ASSUME PromptPair, PromptInv, NEW s \in Shards, MayTick(s), Simulates(s),
           NEW c \in Copies, copy' = [copy EXCEPT ![s] = c], UNCHANGED <<audience, running, incarnation>>,
           NEW x \in Int,
           \A a \in Alert(x) :
              a.to = s /\ c.authority = "Owned" => ~MovingToward(c.vel, s, a.about),
           NEW m \in Publish("PositionUpdate", s, x, 0)
    PROVE  m.kind = "PositionUpdate" /\ MessageOK(m)' /\ ~Tells(m)
<1>0. copy \in [Shards -> Copies] /\ ~Simulates(Other(s)) /\ TypeOK /\ Listening
  BY TickState DEF PromptInv, TypeOK
<1>1. m.kind = "PositionUpdate" /\ m.pos = x
  BY <1>0, PromptPublications
<1>2. Alert(x)' = Alert(x)
  BY DEF Alert
<1>3. ASSUME NEW a \in Alert(x) PROVE Ignored(a)'
  <2>1. a.to \in Shards
    BY <1>0, AlertType DEF TypeOK
  <2>2. CASE a.to = s
    BY <1>0, <2>2 DEF Ignored
  <2>3. CASE a.to = Other(s)
    BY <1>0, <2>1, <2>3, TwoShards DEF Ignored, Simulates
  <2> QED
    BY <2>1, <2>2, <2>3, TwoShards
<1> QED
  BY <1>1, <1>2, <1>3 DEF MessageOK, PromptKinds, Tells

LEMMA MovedSlowly ==
    ASSUME NEW s \in Shards, NEW c \in Copies, Slow(c.vel)
    PROVE  Slow(Moved(s, c).vel)
<1>1. c.vel \in Int
  BY DEF Copies
<1>2. Moved(s, c).vel \in {c.vel, Abs(c.vel), -Abs(c.vel), 0, -0}
  BY <1>1 DEF Moved, Copies, Abs
<1> QED
  BY <1>1, <1>2, SlowFacts DEF Abs

LEMMA PromptMove ==
    ASSUME PromptPair, PromptInv, NEW s \in Shards, MoveOwned(s)
    PROVE  (Listening /\ MessagesOK /\ OneVoice /\ CopiesOK /\ HolderOK)'
<1> DEFINE c == Moved(s, copy[s])
<1>1. copy[s] \in Copies /\ Slow(copy[s].vel) /\ TypeOK
  BY DEF PromptInv, TypeOK, CopiesOK, CopyOK
<1>2. c \in Copies /\ c.pos \in Int /\ c.authority = "Owned" /\ Slow(c.vel)
  BY <1>1, MovedType, MovedSlowly DEF MoveOwned, Copies
<1>3. /\ MayTick(s) /\ Simulates(s) /\ ~Leaving(s, c)
      /\ copy' = [copy EXCEPT ![s] = c] /\ UNCHANGED <<audience, running, incarnation>>
      /\ Transmit(net, Publish("PositionUpdate", s, c.pos, 0))
  BY DEF MoveOwned, Simulates, PublishPosition
<1> HIDE DEF c
<1>4. net' = Publish("PositionUpdate", s, c.pos, 0)
  BY <1>3, TickState, PromptTransmit
<1>5. \A a \in Alert(c.pos) : a.to = s => ~MovingToward(c.vel, s, a.about)
  BY <1>1, <1>2, <1>3, AlertsComeLate
<1>6. OneSender(s)'
  BY <1>2, <1>3, <1>4, <1>5, PositionsAreIgnored DEF OneSender, Tells
<1>7. CopyOK(s)'
  <2>1. copy'[s] = c
    BY <1>3 DEF PromptInv, TypeOK
  <2> QED
    BY <1>2, <2>1 DEF CopyOK
<1> QED
  BY <1>2, <1>3, <1>6, <1>7, AfterTick

LEMMA PromptRequest ==
    ASSUME PromptPair, PromptInv, NEW s \in Shards, RequestHandoff(s)
    PROVE  (Listening /\ MessagesOK /\ OneVoice /\ CopiesOK /\ HolderOK)'
<1>1. copy \in [Shards -> Copies] /\ copy[s] \in Copies /\ Slow(copy[s].vel) /\ Listening
  BY DEF PromptInv, TypeOK, CopiesOK, CopyOK
<1>2. PICK c : c = Moved(s, copy[s])
  OBVIOUS
<1>3. /\ c \in Copies /\ c.pos \in Int /\ c.vel \in Int /\ c.authority = "Owned" /\ Slow(c.vel)
      /\ Left(s) <= c.pos /\ c.pos <= Right(s)
  BY <1>1, <1>2, MovedType, MovedSlowly DEF RequestHandoff, Copies
<1>4. PICK t : t = PositionTarget(c.pos, s)
  OBVIOUS
<1>5. /\ MayTick(s) /\ Simulates(s) /\ Leaving(s, c) /\ UNCHANGED <<audience, running, incarnation>>
      /\ copy' = [copy EXCEPT ![s] = Pending(c, t)]
      /\ Transmit(net, Publish("HandoffRequest", s, c.pos, c.vel)
                        \cup Publish("PositionUpdate", s, c.pos, 0))
  BY <1>2, <1>4 DEF RequestHandoff, Simulates, PublishPosition
<1>6. t = Other(s) /\ MovingToward(c.vel, s, Other(s))
  <2>1. t # NoShard /\ MovingToward(c.vel, s, t)
    BY <1>4, <1>5 DEF Leaving
  <2>2. t \in Neighbours(s)
    BY <1>3, <1>4, <2>1, TargetIsNeighbour
  <2> QED
    BY <2>1, <2>2, TwoShards
<1>7. PICK d : d = Pending(c, t)
  OBVIOUS
<1>8. /\ d \in Copies /\ d.authority = "PendingHandoff" /\ d.target = Other(s)
      /\ d.pos = c.pos /\ d.vel = c.vel
  <2>1. t \in NoShard .. ShardCount
    BY <1>6, TwoShards DEF PromptPair
  <2>2. d \in Copies
    BY <1>3, <1>7, <2>1, CopyUpdatesType
  <2>3. d.authority = "PendingHandoff" /\ d.target = t /\ d.pos = c.pos /\ d.vel = c.vel
    BY <1>3, <1>7 DEF Pending, Copies
  <2> QED
    BY <1>6, <2>2, <2>3
<1>9. copy' = [copy EXCEPT ![s] = d] /\ copy'[s] = d
  BY <1>1, <1>5, <1>7
<1>10. PICK request : request = Says("HandoffRequest", s, c.pos, c.vel)
  OBVIOUS
<1>11. net' = {request} \cup Publish("PositionUpdate", s, c.pos, 0)
  BY <1>1, <1>5, <1>10, TickState, PromptTransmit, PromptPublications
<1>12. /\ request.kind = "HandoffRequest" /\ request.from = s /\ request.to = Other(s)
       /\ request.pos = c.pos /\ request.vel = c.vel
  BY <1>1, <1>10, PromptPublications
<1>13. NearFrontier(c.pos, Other(s))
  <2>1. CASE s = 0
    BY <1>3, <1>5, <2>1, TwoShards, GeometryAssumption
    DEF PromptPair, Leaving, PositionTarget, NearFrontier, Abs
  <2>2. CASE s = 1
    BY <1>3, <1>5, <2>2, TwoShards, GeometryAssumption
    DEF PromptPair, Leaving, PositionTarget, NearFrontier, Abs
  <2> QED
    BY <2>1, <2>2, TwoShards
<1>14. MessageOK(request)'
  <2>1. RequestOK(request)'
    BY <1>3, <1>8, <1>9, <1>12, <1>13, TwoShards DEF RequestOK, AsSent
  <2> QED
    BY <1>12, <2>1 DEF MessageOK, PromptKinds
<1>15. \A m \in Publish("PositionUpdate", s, c.pos, 0) :
          m.kind = "PositionUpdate" /\ MessageOK(m)' /\ ~Tells(m)
  BY <1>3, <1>5, <1>8, <1>9, PositionsAreIgnored
<1>16. Shadowed(s)'
  BY <1>11, <1>12 DEF Shadowed, Sent
<1>17. OneSender(s)'
  BY <1>11, <1>12, <1>14, <1>15 DEF OneSender, Tells
<1>18. CopyOK(s)'
  BY <1>3, <1>6, <1>8, <1>9, <1>16 DEF CopyOK
<1>19. MayTick(s) /\ Simulates(s) /\ UNCHANGED <<audience, running, incarnation>>
  BY <1>5
<1> QED
  BY <1>8, <1>9, <1>17, <1>18, <1>19, AfterTick

\* A pending copy moves on in the direction it is given up in, and when
\* nothing is under way the other shard has its image.
LEMMA PendingState ==
    ASSUME PromptPair, PromptInv, NEW s \in Shards, MayTick(s),
           copy[s].authority = "PendingHandoff", NEW c, c = Advanced(copy[s])
    PROVE  /\ c \in Copies /\ c.authority = "PendingHandoff" /\ c.target = Other(s)
           /\ c.pos = copy[s].pos + c.vel /\ c.pos \in Int /\ c.vel \in Int
           /\ Slow(c.vel) /\ MovingToward(c.vel, s, Other(s))
           /\ Simulates(s) /\ copy[Other(s)].authority = "Ghost"
           /\ SameImage(copy[Other(s)], copy[s])
<1>1. copy[s] \in Copies /\ CopyOK(s)
  BY DEF PromptInv, TypeOK, CopiesOK
<1>2. Simulates(s)
  BY DEF Simulates
<1>3. net = {}
  BY <1>2, TickState
<1>4. Shadowed(s) /\ MovingToward(copy[s].vel, s, Other(s))
      /\ copy[s].target = Other(s) /\ Slow(copy[s].vel)
  BY <1>1 DEF CopyOK
<1>5. copy[Other(s)].authority = "Ghost" /\ SameImage(copy[Other(s)], copy[s])
  BY <1>3, <1>4 DEF Shadowed, Sent
<1>6. c \in Copies
  BY <1>1, CopyUpdatesType
<1>7. c.authority = copy[s].authority /\ c.target = copy[s].target /\ c.vel = copy[s].vel
      /\ c.pos = copy[s].pos + copy[s].vel
  BY <1>1 DEF Advanced, Copies
<1>8. c.pos \in Int /\ c.vel \in Int
  BY <1>6 DEF Copies
<1> QED
  BY <1>2, <1>4, <1>5, <1>6, <1>7, <1>8

\* A hand-off that goes on, or that is given up.
LEMMA PromptPending ==
    ASSUME PromptPair, PromptInv, NEW s \in Shards, AdvancePending(s) \/ AbortHandoff(s)
    PROVE  (Listening /\ MessagesOK /\ OneVoice /\ CopiesOK /\ HolderOK)'
<1>1. copy \in [Shards -> Copies] /\ Listening /\ TypeOK
  BY DEF PromptInv, TypeOK
<1>2. PICK c : c = Advanced(copy[s])
  OBVIOUS
<1>3. MayTick(s) /\ copy[s].authority = "PendingHandoff"
  BY DEF AdvancePending, AbortHandoff, TickPending
<1>4. /\ c \in Copies /\ c.authority = "PendingHandoff" /\ c.target = Other(s)
      /\ c.pos \in Int /\ c.vel \in Int
      /\ Slow(c.vel) /\ MovingToward(c.vel, s, Other(s))
      /\ Simulates(s) /\ copy[Other(s)].authority = "Ghost"
  BY <1>2, <1>3, PendingState
<1>5. PICK d : d = IF AdvancePending(s) THEN c ELSE TurnedBack(c)
  OBVIOUS
<1>6. /\ d \in Copies /\ d.pos = c.pos /\ Slow(d.vel)
      /\ \/ d = c
         \/ d.authority = "Owned" /\ d.vel = -c.vel
  <2>1. CASE d = c
    BY <1>4, <2>1
  <2>2. CASE d = TurnedBack(c)
    <3>1. d \in Copies
      BY <1>4, <2>2, CopyUpdatesType
    <3>2. d.authority = "Owned" /\ d.vel = -c.vel /\ d.pos = c.pos
      BY <1>4, <2>2 DEF TurnedBack, Copies
    <3> QED
      BY <1>4, <3>1, <3>2, SlowFacts
  <2> QED
    BY <1>5, <2>1, <2>2
<1>7. /\ copy' = [copy EXCEPT ![s] = d] /\ UNCHANGED <<audience, running, incarnation>>
      /\ Transmit(net, GhostCast(s, c) \cup Publish("PositionUpdate", s, c.pos, 0))
  <2>1. CASE AdvancePending(s)
    BY <1>2, <1>5, <2>1 DEF AdvancePending, TickPending, PublishPosition
  <2>2. CASE ~AdvancePending(s)
    BY <1>2, <1>5, <1>6, <2>2 DEF AbortHandoff, TickPending, PublishPosition
  <2> QED
    BY <2>1, <2>2
<1>8. copy'[s] = d /\ copy'[Other(s)] = copy[Other(s)]
  BY <1>1, <1>7, TwoShards
<1>9. PICK ghost : ghost = Says("GhostUpdate", s, c.pos, c.vel)
  OBVIOUS
<1>10. net' = {ghost} \cup Publish("PositionUpdate", s, c.pos, 0)
  BY <1>1, <1>3, <1>4, <1>7, <1>9, TickState, PromptTransmit, PromptPublications DEF GhostCast
<1>11. /\ ghost.kind = "GhostUpdate" /\ ghost.from = s /\ ghost.to = Other(s)
       /\ ghost.pos = c.pos /\ ghost.vel = c.vel
  BY <1>1, <1>9, PromptPublications
<1>12. MessageOK(ghost)'
  <2>1. GhostUpdateOK(ghost)'
    BY <1>4, <1>6, <1>8, <1>11, TwoShards DEF GhostUpdateOK, AsSent
  <2> QED
    BY <1>11, <2>1 DEF MessageOK, PromptKinds
<1>13. \A a \in Alert(c.pos) :
          a.to = s /\ d.authority = "Owned" => ~MovingToward(d.vel, s, a.about)
  <2> SUFFICES ASSUME NEW a \in Alert(c.pos), a.to = s, d.authority = "Owned"
               PROVE  ~MovingToward(d.vel, s, a.about)
    OBVIOUS
  <2>1. a.about \in ShardsNear(c.pos) \ {s}
    BY <1>1, <1>4, AlertType
  <2>2. a.about = Other(s)
    BY <2>1, TwoShards DEF ShardsNear
  <2>3. d.vel = -c.vel
    BY <1>4, <1>6
  <2> QED
    BY <1>4, <2>2, <2>3 DEF MovingToward
<1>14. \A m \in Publish("PositionUpdate", s, c.pos, 0) :
          m.kind = "PositionUpdate" /\ MessageOK(m)' /\ ~Tells(m)
  BY <1>3, <1>4, <1>6, <1>7, <1>13, PositionsAreIgnored
<1>15. OneSender(s)'
  BY <1>10, <1>11, <1>12, <1>14 DEF OneSender, Tells
<1>16. CopyOK(s)'
  <2>1. Shadowed(s)'
    BY <1>4, <1>8, <1>10, <1>11 DEF Shadowed, Sent
  <2> QED
    BY <1>4, <1>6, <1>8, <2>1 DEF CopyOK
<1>17. d.authority \in {"Owned", "PendingHandoff"}
  BY <1>4, <1>6
<1> QED
  BY <1>3, <1>4, <1>6, <1>7, <1>15, <1>16, <1>17, AfterTick

\* The source gives the entity up to a ghost one step behind.
LEMMA PromptCompletion ==
    ASSUME PromptPair, PromptInv, NEW s \in Shards, CompleteHandoff(s)
    PROVE  /\ (Listening /\ MessagesOK /\ OneVoice /\ CopiesOK /\ HolderOK)'
           /\ copy[copy[s].target].authority = "Ghost"
<1>1. copy \in [Shards -> Copies] /\ Listening /\ TypeOK
  BY DEF PromptInv, TypeOK
<1>2. PICK c : c = Advanced(copy[s])
  OBVIOUS
<1>3. MayTick(s) /\ copy[s].authority = "PendingHandoff" /\ copy[s].target = Other(s)
  BY DEF CompleteHandoff, TickPending, PromptInv, CopiesOK, CopyOK
<1>4. /\ c \in Copies /\ c.pos = copy[s].pos + c.vel /\ c.pos \in Int /\ c.vel \in Int
      /\ Slow(c.vel) /\ Simulates(s) /\ copy[Other(s)].authority = "Ghost"
      /\ SameImage(copy[Other(s)], copy[s])
  BY <1>2, <1>3, PendingState
<1>5. PICK d : d = Relinquished(c)
  OBVIOUS
<1>6. d.authority = "Ghost" /\ d.pos = c.pos /\ d.vel = c.vel
  BY <1>4, <1>5 DEF Relinquished, Copies
<1>7. /\ copy' = [copy EXCEPT ![s] = d] /\ UNCHANGED <<audience, running, incarnation>>
      /\ Transmit(net, GhostCast(s, c) \cup Publish("HandoffComplete", s, 0, 0))
  BY <1>2, <1>5 DEF CompleteHandoff, TickPending
<1>8. copy'[s] = d /\ copy'[Other(s)] = copy[Other(s)]
  BY <1>1, <1>7, TwoShards
<1>9. PICK ghost, complete : ghost = Says("GhostUpdate", s, c.pos, c.vel)
                             /\ complete = Says("HandoffComplete", s, 0, 0)
  OBVIOUS
<1>10. net' = {ghost, complete}
  BY <1>1, <1>3, <1>4, <1>7, <1>9, TickState, PromptTransmit, PromptPublications DEF GhostCast
<1>11. /\ ghost.kind = "GhostUpdate" /\ ghost.from = s /\ ghost.to = Other(s)
       /\ ghost.pos = c.pos /\ ghost.vel = c.vel
       /\ complete.kind = "HandoffComplete" /\ complete.from = s /\ complete.to = Other(s)
  BY <1>1, <1>9, PromptPublications
<1>12. MessageOK(ghost)'
  <2>1. GhostUpdateOK(ghost)'
    BY <1>4, <1>6, <1>8, <1>11, TwoShards DEF GhostUpdateOK, AsSent
  <2> QED
    BY <1>11, <2>1 DEF MessageOK, PromptKinds
<1>13. MessageOK(complete)'
  <2>1. Slow(copy'[Other(s)].pos - copy'[s].pos)
    <3>1. copy'[Other(s)].pos - copy'[s].pos = -c.vel
      BY <1>1, <1>4, <1>6, <1>8 DEF SameImage, Copies
    <3> QED
      BY <1>4, <3>1, SlowFacts
  <2>2. CompleteOK(complete)'
    BY <1>4, <1>6, <1>8, <1>10, <1>11, <2>1, TwoShards DEF CompleteOK
  <2> QED
    BY <1>11, <2>2 DEF MessageOK, PromptKinds
<1>14. MessagesOK' /\ OneVoice'
  BY <1>10, <1>11, <1>12, <1>13 DEF MessagesOK, OneVoice, Tells
<1>15. Listening'
  BY <1>7, SameHearers DEF PromptInv, Listening
<1>16. CopiesOK'
  <2>1. CopyOK(s)'
    BY <1>4, <1>6, <1>8 DEF CopyOK
  <2>2. CopyOK(Other(s))'
    BY <1>4, <1>8, TwoShards DEF CopyOK, PromptInv, CopiesOK
  <2> QED
    BY <2>1, <2>2, TwoShards DEF CopiesOK
<1>17. HolderOK'
  <2>1. Completes' = {complete}
    BY <1>10, <1>11 DEF Completes
  <2> QED
    BY <2>1 DEF HolderOK
<1> QED
  BY <1>3, <1>4, <1>14, <1>15, <1>16, <1>17

-----------------------------------------------------------------------------
(* The messages. *)

\* Who a message is to and from; an alert is to a shard.
LEMMA Addresses ==
    ASSUME PromptPair, PromptInv, NEW m \in net
    PROVE  /\ m.kind # "PositionUpdate" => m.to \in Shards
           /\ m.kind \in {"HandoffRequest", "GhostUpdate", "HandoffComplete"}
                 => m.from \in Shards /\ m.from = Other(m.to) /\ m.to = Other(m.from)
           /\ m \in Messages /\ MessageOK(m)
<1>1. /\ m.kind # "PositionUpdate" => m.to \in Shards
      /\ m \in Messages /\ MessageOK(m)
  BY DEF PromptInv, TypeOK, Addressed, MessagesOK
<1>2. m.kind \in {"HandoffRequest", "GhostUpdate", "HandoffComplete"} => m.from = Other(m.to)
  BY <1>1 DEF MessageOK, RequestOK, GhostUpdateOK, CompleteOK
<1> QED
  BY <1>1, <1>2, TwoShards

\* While somebody is pending no HandoffComplete is under way.
LEMMA NobodyPending ==
    ASSUME PromptPair, PromptInv, NEW s \in Shards, Simulates(s)
    PROVE  Completes = {} /\ ~Simulates(Other(s))
<1>1. ASSUME NEW m \in Completes PROVE FALSE
  <2>1. m \in net /\ m.kind = "HandoffComplete"
    BY <1>1 DEF Completes
  <2>2. m.to \in Shards /\ m.from = Other(m.to) /\ CompleteOK(m)
    BY <2>1, Addresses DEF MessageOK
  <2> QED
    BY <2>2, TwoShards DEF CompleteOK, Simulates
<1> QED
  BY <1>1, TwoShards DEF PromptInv, HolderOK, Holds

\* Nothing changes that a message under way speaks of, and at most alerts are
\* added that start nothing.
LEMMA NothingTold ==
    ASSUME PromptPair, PromptInv, UNCHANGED <<audience, running, incarnation>>,
           \A s \in Shards : /\ copy'[s].authority = copy[s].authority
                             /\ copy'[s].target = copy[s].target
                             /\ SameImage(copy'[s], copy[s]),
           NEW alerts, net' \subseteq net \cup alerts, Completes' = Completes,
           \A a \in alerts : a.kind = "CrossingAlert" /\ a.to \in Shards /\ Ignored(a),
           alerts # {} => Completes = {},
           \A s \in Shards : copy[s].authority = "PendingHandoff" => Shadowed(s)'
    PROVE  (Listening /\ MessagesOK /\ OneVoice /\ CopiesOK /\ HolderOK)'
<1>1. ASSUME NEW a, a.to \in Shards, Ignored(a) PROVE Ignored(a)'
  BY <1>1 DEF Ignored, SameImage
<1>2. ASSUME NEW n \in net' PROVE MessageOK(n)'
  <2>1. CASE n \in alerts
    BY <1>1, <2>1 DEF MessageOK, PromptKinds
  <2>2. CASE n \in net
    <3>0. /\ MessageOK(n) /\ (n.kind # "PositionUpdate" => n.to \in Shards)
          /\ n.kind \in {"HandoffRequest", "GhostUpdate", "HandoffComplete"} => n.from \in Shards
      BY <2>2, Addresses
    <3>1. n.kind = "HandoffRequest" => RequestOK(n)'
      BY <3>0 DEF MessageOK, RequestOK, AsSent, SameImage
    <3>2. n.kind = "GhostUpdate" => GhostUpdateOK(n)'
      BY <3>0 DEF MessageOK, GhostUpdateOK, AsSent, SameImage
    <3>3. n.kind = "HandoffComplete" => CompleteOK(n)'
      <4>1. n.kind = "HandoffComplete" => alerts = {}
        BY <2>2 DEF Completes
      <4> QED
        BY <3>0, <4>1 DEF MessageOK, CompleteOK, SameImage
    <3>4. n.kind = "CrossingAlert" => Ignored(n)'
      BY <1>1, <3>0 DEF MessageOK
    <3>5. n.kind = "PositionUpdate" => \A a \in Alert(n.pos)' : Ignored(a)'
      <4> SUFFICES ASSUME n.kind = "PositionUpdate", NEW a \in Alert(n.pos)' PROVE Ignored(a)'
        OBVIOUS
      <4>1. Alert(n.pos)' = Alert(n.pos)
        BY DEF Alert
      <4>2. n.pos \in Int /\ TypeOK
        BY <2>2, Addresses DEF Messages, PromptInv
      <4>3. a.to \in running
        BY <4>1, <4>2, AlertType
      <4> QED
        BY <1>1, <3>0, <4>1, <4>2, <4>3 DEF MessageOK, TypeOK
    <3> QED
      BY <3>0, <3>1, <3>2, <3>3, <3>4, <3>5 DEF MessageOK
  <2> QED
    BY <2>1, <2>2
<1>3. MessagesOK' /\ Listening'
  BY <1>2, SameHearers DEF MessagesOK, PromptInv, Listening
<1>4. OneVoice'
  BY DEF PromptInv, OneVoice, Tells
<1>5. CopiesOK'
  <2> SUFFICES ASSUME NEW s \in Shards PROVE CopyOK(s)'
    BY DEF CopiesOK
  <2>1. CopyOK(s)
    BY DEF PromptInv, CopiesOK
  <2> QED
    BY <2>1 DEF CopyOK, SameImage
<1>6. HolderOK'
  <2>1. \A s \in Shards : Holds(s) => Holds(s)'
    BY TwoShards DEF Holds, Simulates
  <2> QED
    BY <2>1 DEF PromptInv, HolderOK
<1> QED
  BY <1>3, <1>4, <1>5, <1>6

\* The same, with nothing added.
LEMMA NothingSaid ==
    ASSUME PromptPair, PromptInv, UNCHANGED <<audience, running, incarnation>>,
           \A s \in Shards : /\ copy'[s].authority = copy[s].authority
                             /\ copy'[s].target = copy[s].target
                             /\ SameImage(copy'[s], copy[s]),
           net' \subseteq net, Completes' = Completes,
           \A s \in Shards : copy[s].authority = "PendingHandoff" => Shadowed(s)'
    PROVE  (Listening /\ MessagesOK /\ OneVoice /\ CopiesOK /\ HolderOK)'
<1>1. PICK none : none = {}
  OBVIOUS
<1>2. net' \subseteq net \cup none /\ ~(none # {})
      /\ \A a \in none : a.kind = "CrossingAlert" /\ a.to \in Shards /\ Ignored(a)
  BY <1>1
<1> QED
  BY <1>2, NothingTold

\* The shard t that does not simulate the entity takes the image of the other's.
LEMMA GhostTaken ==
    ASSUME PromptPair, PromptInv, UNCHANGED <<audience, running, incarnation>>,
           NEW t \in Shards, ~Simulates(t), NEW c, copy' = [copy EXCEPT ![t] = c],
           c.authority = "Ghost", Slow(c.vel),
           copy[Other(t)].authority # "Owned" => SameImage(c, copy[Other(t)]),
           \A n \in net : Tells(n) => n.from = Other(t),
           \A n \in net' : n \in net \/ n.kind = "HandoffAccept",
           Completes' = Completes
    PROVE  (Listening /\ MessagesOK /\ OneVoice /\ CopiesOK /\ HolderOK)'
<1>0. /\ copy \in [Shards -> Copies] /\ copy'[t] = c /\ copy'[Other(t)] = copy[Other(t)]
      /\ Other(t) \in Shards /\ Other(t) # t /\ Other(Other(t)) = t
      /\ \A u \in Shards : u = t \/ u = Other(t)
  BY TwoShards DEF PromptInv, TypeOK
<1>1. ASSUME NEW a, a.to \in Shards, Ignored(a) PROVE Ignored(a)'
  BY <1>0, <1>1 DEF Ignored
<1>2. ASSUME NEW n \in net' PROVE MessageOK(n)'
  <2>1. CASE n.kind = "HandoffAccept"
    BY <2>1 DEF MessageOK, PromptKinds
  <2>2. CASE n \in net
    <3>0. /\ MessageOK(n) /\ (n.kind # "PositionUpdate" => n.to \in Shards)
          /\ n.kind \in {"HandoffRequest", "GhostUpdate", "HandoffComplete"}
                => n.from \in Shards /\ n.from = Other(n.to)
      BY <2>2, Addresses
    <3>1. n.kind = "HandoffRequest" => RequestOK(n)'
      BY <1>0, <2>2, <3>0 DEF MessageOK, RequestOK, AsSent, Tells
    <3>2. n.kind = "GhostUpdate" => GhostUpdateOK(n)'
      BY <1>0, <2>2, <3>0 DEF MessageOK, GhostUpdateOK, AsSent, Tells
    <3>3. n.kind = "HandoffComplete" => CompleteOK(n)'
      <4> SUFFICES ASSUME n.kind = "HandoffComplete" PROVE CompleteOK(n)'
        OBVIOUS
      <4>1. CompleteOK(n)
        BY <3>0 DEF MessageOK
      <4>2. copy[Other(t)].authority = "Ghost" /\ copy[Other(t)].pos \in Int
        BY <1>0, <3>0, <4>1 DEF CompleteOK, Copies
      <4>3. c.pos = copy[Other(t)].pos
        BY <4>2 DEF SameImage
      <4>4. copy'[n.to].pos - copy'[n.from].pos = 0
        BY <1>0, <3>0, <4>2, <4>3
      <4>5. \A k \in net' : k.kind \notin {"PositionUpdate", "CrossingAlert"}
        BY <4>1 DEF CompleteOK
      <4> QED
        BY <1>0, <3>0, <4>2, <4>4, <4>5, SlowFacts DEF CompleteOK
    <3>4. n.kind = "CrossingAlert" => Ignored(n)'
      BY <1>1, <3>0 DEF MessageOK
    <3>5. n.kind = "PositionUpdate" => \A a \in Alert(n.pos)' : Ignored(a)'
      <4> SUFFICES ASSUME n.kind = "PositionUpdate", NEW a \in Alert(n.pos)' PROVE Ignored(a)'
        OBVIOUS
      <4>1. Alert(n.pos)' = Alert(n.pos)
        BY DEF Alert
      <4>2. n.pos \in Int /\ TypeOK
        BY <2>2, Addresses DEF Messages, PromptInv
      <4>3. a.to \in running
        BY <4>1, <4>2, AlertType
      <4> QED
        BY <1>1, <3>0, <4>1, <4>2, <4>3 DEF MessageOK, TypeOK
    <3> QED
      BY <3>0, <3>1, <3>2, <3>3, <3>4, <3>5 DEF MessageOK
  <2> QED
    BY <2>1, <2>2
<1>3. MessagesOK' /\ Listening'
  BY <1>2, SameHearers DEF MessagesOK, PromptInv, Listening
<1>4. OneVoice'
  BY DEF OneVoice, Tells, PromptInv
<1>5. CopiesOK'
  <2>1. CopyOK(t)'
    BY <1>0 DEF CopyOK
  <2>2. CopyOK(Other(t))
    BY <1>0 DEF PromptInv, CopiesOK
  <2>3. copy[Other(t)].authority = "PendingHandoff" => Shadowed(Other(t))'
    BY <1>0 DEF Shadowed
  <2>4. CopyOK(Other(t))'
    BY <1>0, <2>2, <2>3 DEF CopyOK
  <2> QED
    BY <1>0, <2>1, <2>4 DEF CopiesOK
<1>6. HolderOK'
  <2>1. \A s \in Shards : Holds(s) => Holds(s)'
    BY <1>0 DEF Holds, Simulates
  <2> QED
    BY <2>1 DEF PromptInv, HolderOK
<1> QED
  BY <1>3, <1>4, <1>5, <1>6

\* A message that tells nothing leaves a shadow where it is.
LEMMA StillShadowed ==
    ASSUME PromptPair, PromptInv, NEW m \in net, ~Tells(m), net \ {m} \subseteq net',
           \A s \in Shards : /\ copy'[s].authority = copy[s].authority
                             /\ SameImage(copy'[s], copy[s]),
           NEW s \in Shards, copy[s].authority = "PendingHandoff"
    PROVE  Shadowed(s)'
<1>1. Shadowed(s) /\ Other(s) \in Shards
  BY TwoShards DEF PromptInv, CopiesOK, CopyOK
<1>2. ASSUME NEW kind \in {"HandoffRequest", "GhostUpdate"}, Sent(kind, s) PROVE Sent(kind, s)'
  BY <1>2 DEF Sent, Tells
<1> QED
  BY <1>1, <1>2 DEF Shadowed, SameImage

LEMMA PromptHearAccept ==
    ASSUME PromptPair, PromptInv, NEW m \in net, HearAccept(m)
    PROVE  (Listening /\ MessagesOK /\ OneVoice /\ CopiesOK /\ HolderOK)'
<1>1. m.kind = "HandoffAccept" /\ m.to \in Shards /\ copy \in [Shards -> Copies]
  BY Addresses DEF HearAccept, Arrives, PromptInv, TypeOK
<1>2. PICK c : c = Accepted(copy[m.to])
  OBVIOUS
<1>3. c.authority = copy[m.to].authority /\ c.target = copy[m.to].target /\ SameImage(c, copy[m.to])
  BY <1>1, <1>2 DEF Accepted, Copies, SameImage
<1>4. copy' = [copy EXCEPT ![m.to] = c] /\ net' = net \ {m} /\ UNCHANGED <<audience, running, incarnation>>
  BY <1>2 DEF HearAccept, Becomes
<1>5. \A s \in Shards : /\ copy'[s].authority = copy[s].authority
                        /\ copy'[s].target = copy[s].target
                        /\ SameImage(copy'[s], copy[s])
  BY <1>1, <1>3, <1>4 DEF SameImage
<1>6. \A s \in Shards : copy[s].authority = "PendingHandoff" => Shadowed(s)'
  BY <1>1, <1>4, <1>5, StillShadowed DEF Tells
<1>7. Completes' = Completes
  BY <1>1, <1>4 DEF Completes
<1>8. net' \subseteq net
  BY <1>4
<1> QED
  BY <1>4, <1>5, <1>6, <1>7, <1>8, NothingSaid

LEMMA PromptHearAlert ==
    ASSUME PromptPair, PromptInv, NEW m \in net, HearAlert(m)
    PROVE  (Listening /\ MessagesOK /\ OneVoice /\ CopiesOK /\ HolderOK)'
<1>1. m.kind = "CrossingAlert" /\ m.to \in Shards /\ copy \in [Shards -> Copies] /\ MessageOK(m)
  BY Addresses DEF HearAlert, Arrives, PromptInv, TypeOK
<1>2. Ignored(m)
  BY <1>1 DEF MessageOK
<1>3. copy' = copy /\ net' = net \ {m} /\ UNCHANGED <<audience, running, incarnation>>
  BY <1>2 DEF Ignored, HearAlert
<1>4. \A s \in Shards : /\ copy'[s].authority = copy[s].authority
                        /\ copy'[s].target = copy[s].target
                        /\ SameImage(copy'[s], copy[s])
  BY <1>3 DEF SameImage
<1>5. \A s \in Shards : copy[s].authority = "PendingHandoff" => Shadowed(s)'
  BY <1>1, <1>3, <1>4, StillShadowed DEF Tells
<1>6. Completes' = Completes
  BY <1>1, <1>3 DEF Completes
<1>7. net' \subseteq net
  BY <1>3
<1> QED
  BY <1>3, <1>4, <1>5, <1>6, <1>7, NothingSaid

LEMMA PromptTrackPosition ==
    ASSUME PromptPair, PromptInv, NEW m \in net, TrackPosition(m)
    PROVE  (Listening /\ MessagesOK /\ OneVoice /\ CopiesOK /\ HolderOK)'
<1>1. m.kind = "PositionUpdate" /\ MessageOK(m) /\ m \in Messages /\ m.pos \in Int /\ TypeOK
  BY Addresses DEF TrackPosition, Arrives, PromptInv, Messages
<1>2. PICK alerts : alerts = Alert(m.pos)
  OBVIOUS
<1>3. \A a \in alerts : a.kind = "CrossingAlert" /\ a.to \in Shards /\ Ignored(a)
  <2>1. \A a \in alerts : a.kind = "CrossingAlert" /\ a.to \in Shards
    BY <1>1, <1>2, AlertType DEF Alert, TypeOK
  <2> QED
    BY <1>1, <1>2, <2>1 DEF MessageOK
<1>4. net' = (net \ {m}) \cup alerts /\ UNCHANGED <<copy, audience, running, incarnation>>
  BY <1>2, PromptTransmit DEF TrackPosition
<1>5. \A s \in Shards : /\ copy'[s].authority = copy[s].authority
                        /\ copy'[s].target = copy[s].target
                        /\ SameImage(copy'[s], copy[s])
  BY <1>4 DEF SameImage
<1>6. \A s \in Shards : copy[s].authority = "PendingHandoff" => Shadowed(s)'
  BY <1>1, <1>4, <1>5, StillShadowed DEF Tells
<1>7. Completes = {} /\ Completes' = Completes
  <2>1. ASSUME NEW n \in net, n.kind = "HandoffComplete" PROVE FALSE
    <3>1. CompleteOK(n)
      BY <2>1, Addresses DEF MessageOK
    <3> QED
      BY <1>1, <3>1 DEF CompleteOK
  <2> QED
    BY <1>3, <1>4, <2>1 DEF Completes
<1> QED
  BY <1>3, <1>4, <1>5, <1>6, <1>7, NothingTold

\* The shard the hand-off is addressed to takes a ghost of the pending copy.
LEMMA PromptAcceptRequest ==
    ASSUME PromptPair, PromptInv, NEW m \in net, AcceptRequest(m)
    PROVE  (Listening /\ MessagesOK /\ OneVoice /\ CopiesOK /\ HolderOK)'
<1>1. m.kind = "HandoffRequest" /\ Listening
  BY DEF AcceptRequest, Arrives, PromptInv
<1>2. PICK t : t = m.to
  OBVIOUS
<1>3. t \in Shards /\ m.from = Other(t) /\ Other(t) \in Shards /\ Other(Other(t)) = t /\ RequestOK(m)
  BY <1>1, <1>2, Addresses, TwoShards DEF MessageOK
<1>4. Simulates(Other(t))
  BY <1>3 DEF RequestOK, Simulates
<1>5. Completes = {} /\ ~Simulates(t)
  BY <1>3, <1>4, NobodyPending
<1>6. PICK c : c = NewGhost(m)
  OBVIOUS
<1>7. c.authority = "Ghost" /\ Slow(c.vel) /\ SameImage(c, copy[Other(t)])
  BY <1>3, <1>6 DEF NewGhost, RequestOK, AsSent, SameImage
<1>8. PICK accept : accept = Says("HandoffAccept", t, 0, 0)
  OBVIOUS
<1>9. accept.kind = "HandoffAccept" /\ Publish("HandoffAccept", t, 0, 0) = {accept}
  BY <1>1, <1>3, <1>8, PromptPublications
<1>10. /\ copy' = [copy EXCEPT ![t] = c] /\ net' = (net \ {m}) \cup {accept}
       /\ UNCHANGED <<audience, running, incarnation>>
  BY <1>2, <1>6, <1>9, PromptTransmit DEF AcceptRequest
<1>11. \A n \in net : Tells(n) => n.from = Other(t)
  BY <1>1, <1>3 DEF PromptInv, OneVoice, Tells
<1>12. Completes' = Completes
  BY <1>1, <1>9, <1>10 DEF Completes
<1>13. \A n \in net' : n \in net \/ n.kind = "HandoffAccept"
  BY <1>9, <1>10
<1> QED
  BY <1>3, <1>5, <1>7, <1>10, <1>11, <1>12, <1>13, GhostTaken

\* An update brings the ghost to the pending copy it shadows, and moves no
\* other.
LEMMA PromptHearGhostUpdate ==
    ASSUME PromptPair, PromptInv, NEW m \in net, HearGhostUpdate(m)
    PROVE  (Listening /\ MessagesOK /\ OneVoice /\ CopiesOK /\ HolderOK)'
<1>1. m.kind = "GhostUpdate" /\ copy \in [Shards -> Copies]
  BY DEF HearGhostUpdate, Arrives, PromptInv, TypeOK
<1>2. PICK t : t = m.to
  OBVIOUS
<1>3. /\ t \in Shards /\ m.from = Other(t) /\ Other(t) \in Shards /\ Other(Other(t)) = t
      /\ Other(t) # t /\ GhostUpdateOK(m) /\ \A u \in Shards : u = t \/ u = Other(t)
  BY <1>1, <1>2, Addresses, TwoShards DEF MessageOK
<1>4. PICK c : c = Followed(copy[t], m)
  OBVIOUS
<1>5. copy' = [copy EXCEPT ![t] = c] /\ net' = net \ {m} /\ UNCHANGED <<audience, running, incarnation>>
  BY <1>2, <1>4 DEF HearGhostUpdate, Becomes
<1>6. Completes' = Completes
  BY <1>1, <1>5 DEF Completes
<1>7. \A n \in net : Tells(n) => n.from = Other(t)
  BY <1>1, <1>3 DEF PromptInv, OneVoice, Tells
<1>8. CASE copy[t].authority = "Ghost"
  <2>1. c.authority = "Ghost" /\ c.pos = m.pos /\ c.vel = m.vel
    BY <1>1, <1>3, <1>4, <1>8 DEF Followed, Copies
  <2>2. Slow(c.vel) /\ ~Simulates(t)
    BY <1>3, <1>8, <2>1 DEF GhostUpdateOK, Simulates
  <2>3. copy[Other(t)].authority # "Owned" => SameImage(c, copy[Other(t)])
    BY <1>3, <2>1 DEF GhostUpdateOK, AsSent, SameImage
  <2>4. \A n \in net' : n \in net \/ n.kind = "HandoffAccept"
    BY <1>5
  <2> QED
    BY <1>3, <1>5, <1>6, <1>7, <2>1, <2>2, <2>3, <2>4, GhostTaken
<1>9. CASE copy[t].authority # "Ghost"
  <2>1. copy[t].authority = "PendingHandoff" =>
           /\ copy[Other(t)].authority = "Ghost" /\ SameImage(copy[Other(t)], copy[t])
    <3> SUFFICES ASSUME copy[t].authority = "PendingHandoff"
                 PROVE  copy[Other(t)].authority = "Ghost" /\ SameImage(copy[Other(t)], copy[t])
      OBVIOUS
    <3>1. Shadowed(t)
      BY <1>3 DEF PromptInv, CopiesOK, CopyOK
    <3>2. ~Sent("HandoffRequest", t) /\ ~Sent("GhostUpdate", t)
      BY <1>3, <1>7 DEF Sent, Tells
    <3> QED
      BY <3>1, <3>2 DEF Shadowed
  <2>2. /\ c.authority = copy[t].authority /\ c.target = copy[t].target
        /\ SameImage(c, copy[t])
    BY <1>1, <1>3, <1>4, <1>9, <2>1 DEF Followed, Copies, SameImage, GhostUpdateOK, AsSent
  <2>3. \A s \in Shards : /\ copy'[s].authority = copy[s].authority
                          /\ copy'[s].target = copy[s].target
                          /\ SameImage(copy'[s], copy[s])
    BY <1>1, <1>3, <1>5, <2>2 DEF SameImage
  <2>4. ASSUME NEW s \in Shards, copy[s].authority = "PendingHandoff" PROVE Shadowed(s)'
    <3>1. CASE s = t
      BY <1>3, <2>1, <2>3, <2>4, <3>1 DEF Shadowed, SameImage
    <3>2. CASE s = Other(t)
      <4>1. Sent("HandoffRequest", s)
        BY <1>3, <1>9, <2>4, <3>2 DEF PromptInv, CopiesOK, CopyOK, Shadowed
      <4>2. Sent("HandoffRequest", s)'
        BY <1>1, <1>5, <4>1 DEF Sent
      <4> QED
        BY <4>2 DEF Shadowed
    <3> QED
      BY <1>3, <3>1, <3>2
  <2>5. net' \subseteq net
    BY <1>5
  <2> QED
    BY <1>5, <1>6, <2>3, <2>4, <2>5, NothingSaid
<1> QED
  BY <1>8, <1>9

\* The one HandoffComplete under way makes its recipient the holder.
LEMMA PromptHearComplete ==
    ASSUME PromptPair, PromptInv, NEW m \in net, HearComplete(m)
    PROVE  (Listening /\ MessagesOK /\ OneVoice /\ CopiesOK /\ HolderOK)'
<1>1. m.kind = "HandoffComplete" /\ copy \in [Shards -> Copies] /\ m \in Completes
  BY DEF HearComplete, Arrives, PromptInv, TypeOK, Completes
<1>2. PICK t : t = m.to
  OBVIOUS
<1>3. /\ t \in Shards /\ m.from = Other(t) /\ Other(t) \in Shards /\ Other(Other(t)) = t
      /\ Other(t) # t /\ CompleteOK(m) /\ \A u \in Shards : u = t \/ u = Other(t)
  BY <1>1, <1>2, Addresses, TwoShards DEF MessageOK
<1>4. PICK c : c = Promoted(copy[t])
  OBVIOUS
<1>5. copy[t].authority = "Ghost" /\ copy[Other(t)].authority = "Ghost"
  BY <1>2, <1>3 DEF CompleteOK
<1>6. c.authority = "Owned" /\ SameImage(c, copy[t])
  BY <1>1, <1>3, <1>4, <1>5 DEF Promoted, Copies, SameImage
<1>7. copy' = [copy EXCEPT ![t] = c] /\ net' = net \ {m} /\ UNCHANGED <<audience, running, incarnation>>
  BY <1>2, <1>4 DEF HearComplete, Becomes
<1>8. copy'[t] = c /\ copy'[Other(t)] = copy[Other(t)]
  BY <1>1, <1>3, <1>7
<1>9. \A n \in net' : n.kind # "HandoffComplete"
  BY <1>1, <1>7 DEF PromptInv, HolderOK, Completes
<1>10. ASSUME NEW n \in net' PROVE MessageOK(n)'
  <2>0. /\ MessageOK(n)
        /\ n.kind \in {"HandoffRequest", "GhostUpdate"} => n.from \in Shards
    BY <1>7, Addresses
  <2>1. n.kind # "HandoffRequest"
    BY <1>3, <1>5, <2>0 DEF MessageOK, RequestOK
  <2>2. n.kind = "GhostUpdate" => GhostUpdateOK(n)'
    BY <1>3, <1>6, <1>8, <2>0 DEF MessageOK, GhostUpdateOK, AsSent
  <2>3. n.kind \notin {"PositionUpdate", "CrossingAlert"}
    BY <1>3, <1>7 DEF CompleteOK
  <2> QED
    BY <1>9, <2>0, <2>1, <2>2, <2>3 DEF MessageOK
<1>11. MessagesOK' /\ OneVoice' /\ Listening'
  BY <1>7, <1>10, SameHearers DEF MessagesOK, OneVoice, Tells, PromptInv, Listening
<1>12. CopiesOK'
  <2>1. Slow(copy[t].vel) /\ Slow(copy[Other(t)].vel)
    BY <1>3 DEF PromptInv, CopiesOK, CopyOK
  <2>2. CopyOK(t)' /\ CopyOK(Other(t))'
    BY <1>5, <1>6, <1>8, <2>1 DEF CopyOK, SameImage
  <2> QED
    BY <1>3, <2>2 DEF CopiesOK
<1>13. HolderOK'
  <2>1. Completes' = {}
    BY <1>9 DEF Completes
  <2>2. Holds(t)'
    BY <1>5, <1>6, <1>8 DEF Holds, Simulates
  <2> QED
    BY <1>3, <2>1, <2>2 DEF HolderOK
<1> QED
  BY <1>11, <1>12, <1>13

LEMMA PromptReceive ==
    ASSUME PromptPair, PromptInv, NEW m \in net, Receive(m)
    PROVE  /\ (Listening /\ MessagesOK /\ OneVoice /\ CopiesOK /\ HolderOK)'
           /\ UNCHANGED <<running, unnoticed>>
<1>1. m.kind \in PromptKinds /\ (m.kind = "HandoffRequest" => NearFrontier(m.pos, m.to))
  BY Addresses DEF MessageOK, RequestOK
<1>2. ~RejectRequest(m) /\ ~HearReject(m) /\ ~HearInput(m)
  BY <1>1 DEF RejectRequest, HearReject, HearInput, Arrives, PromptKinds
<1>3. UNCHANGED <<running, unnoticed>>
  BY <1>2 DEF Receive, AcceptRequest, HearAccept, HearGhostUpdate, HearComplete, HearAlert,
              TrackPosition, Becomes
<1> QED
  BY <1>2, <1>3, PromptAcceptRequest, PromptHearAccept, PromptHearGhostUpdate,
     PromptHearComplete, PromptHearAlert, PromptTrackPosition DEF Receive

-----------------------------------------------------------------------------
LEMMA PromptInit ==
    ASSUME PromptPair, Init
    PROVE  PromptInv
<1>1. TypeOK
  BY InitType
<1>2. /\ net = {} /\ running = Shards /\ unnoticed = {} /\ copy[Home].authority = "Owned"
      /\ copy[Other(Home)].authority = "Absent"
  BY TwoShards DEF Init, PromptPair, Dummy, Fresh, NotHere
<1>3. Listening
  BY TwoShards DEF Init, Listening, PromptPair, Hearers, Connection, Neighbours, SpatialService
<1>4. CopiesOK
  BY SlowFacts DEF CopiesOK, CopyOK, Init, Dummy, Fresh, NotHere
<1>5. HolderOK
  BY <1>2 DEF HolderOK, Holds, Simulates, Completes, PromptPair
<1> QED
  BY <1>1, <1>2, <1>3, <1>4, <1>5 DEF PromptInv, MessagesOK, OneVoice

LEMMA PromptStep ==
    ASSUME PromptPair
    PROVE  PromptInv /\ [Next]_vars => PromptInv'
<1> SUFFICES ASSUME PromptInv, [Next]_vars PROVE PromptInv'
  OBVIOUS
<1>1. TypeOK'
  BY StepType DEF PromptInv
<1>2. /\ (Listening /\ MessagesOK /\ OneVoice /\ CopiesOK /\ HolderOK)'
      /\ UNCHANGED <<running, unnoticed>>
  <2>1. CASE \E s \in Shards : Tick(s)
    <3>1. PICK s \in Shards : Tick(s)
      BY <2>1
    <3>2. UNCHANGED <<running, unnoticed>>
      BY <3>1 DEF Tick, MoveOwned, RequestHandoff, AdvancePending, CompleteHandoff,
                  AbortHandoff, TickPending
    <3> QED
      BY <3>1, <3>2, PromptMove, PromptRequest, PromptPending, PromptCompletion DEF Tick
  <2>2. CASE \E s \in Shards : Crash(s) \/ Restart(s)
    BY <2>2 DEF Crash, Restart, PromptInv, PromptPair
  <2>3. CASE \E m \in net : Receive(m)
    BY <2>3, PromptReceive
  <2>4. CASE \E v \in Steering : Steer(v)
    BY <2>4 DEF PromptPair
  <2>5. CASE UNCHANGED vars
    <3>1. UNCHANGED <<copy, net, audience, running, incarnation, unnoticed>>
      BY <2>5 DEF vars
    <3>2. \A s \in Shards : copy[s].authority = "PendingHandoff" => Shadowed(s)'
      BY <3>1 DEF PromptInv, CopiesOK, CopyOK, Shadowed, Sent, SameImage
    <3>3. Completes' = Completes
      BY <3>1 DEF Completes
    <3> QED
      BY <3>1, <3>2, <3>3, NothingSaid DEF SameImage
  <2> QED
    BY <2>1, <2>2, <2>3, <2>4, <2>5 DEF Next, PromptInv
<1> QED
  BY <1>1, <1>2 DEF PromptInv, Shards

-----------------------------------------------------------------------------
(* What a reader should know of them. *)

\* On a prompt network the entity is never lost and never doubled: one shard
\* simulates it, or the shard that is to do so has a ghost of it and the
\* HandoffComplete on its way.
THEOREM NeverLost == PromptPair => (Spec => []AuthorityConserved)
<1> SUFFICES ASSUME PromptPair PROVE Spec => []AuthorityConserved
  OBVIOUS
<1>1. PromptInv => AuthorityConserved
  <2> SUFFICES ASSUME PromptInv PROVE AuthorityConserved
    OBVIOUS
  <2>1. CASE Completes = {}
    BY <2>1 DEF PromptInv, HolderOK, Holds, AuthorityConserved
  <2>2. ASSUME NEW m \in Completes PROVE AuthorityConserved
    <3>1. Completes = {m} /\ m \in net /\ m.kind = "HandoffComplete"
      BY <2>2 DEF PromptInv, HolderOK, Completes
    <3>2. m.to \in Shards /\ m.from = Other(m.to) /\ CompleteOK(m)
      BY <3>1, Addresses DEF MessageOK
    <3>3. \A s \in Shards : ~Simulates(s)
      BY <3>2, TwoShards DEF CompleteOK, Simulates
    <3> QED
      BY <3>1, <3>2, <3>3 DEF CompleteOK, AuthorityConserved
  <2> QED
    BY <2>1, <2>2
<1> QED
  BY <1>1, PromptInit, PromptStep, PTL DEF Spec

\* What PromptInv says of the token is what PairInv says of it.
LEMMA PromptTokens ==
    ASSUME PromptPair, PromptInv
    PROVE  AtMostOneOwner /\ CompleteIsTheToken
<1>1. CompleteIsTheToken
  <2>1. ASSUME NEW m \in Completes, NEW s \in Shards, Simulates(s) PROVE FALSE
    <3>1. m \in net /\ m.kind = "HandoffComplete" /\ m.to \in Shards /\ m.from = Other(m.to)
      BY <2>1, Addresses DEF Completes
    <3>2. copy[m.to].authority = "Ghost" /\ copy[m.from].authority = "Ghost"
      BY <3>1, Addresses DEF MessageOK, CompleteOK
    <3> QED
      BY <2>1, <3>1, <3>2, TwoShards DEF Simulates
  <2> QED
    BY <2>1 DEF CompleteIsTheToken, PromptInv, HolderOK
<1>2. AtMostOneOwner
  <2> SUFFICES ASSUME NEW s \in Shards, NEW t \in Shards, Simulates(s), Simulates(t)
               PROVE  s = t
    BY DEF AtMostOneOwner
  <2>1. Completes = {}
    BY <1>1 DEF CompleteIsTheToken
  <2>2. PICK h \in Shards : Holds(h)
    BY <2>1 DEF PromptInv, HolderOK
  <2> QED
    BY <2>2, TwoShards DEF Holds
<1> QED
  BY <1>1, <1>2

\* Nor do two shards ever simulate it, with the spatial service and its alerts
\* as without: whatever starts a hand-off, the source has stopped by the time
\* the destination begins.
THEOREM OneOwnerWhenPrompt == PromptPair => (Spec => []AtMostOneOwner)
<1> SUFFICES ASSUME PromptPair PROVE Spec => []AtMostOneOwner
  OBVIOUS
<1>1. PromptInv => AtMostOneOwner
  BY PromptTokens
<1> QED
  BY <1>1, PromptInit, PromptStep, PTL DEF Spec

\* Whenever everything has been delivered the ghost is where the pending copy
\* is and moves as it does: no update has been missed or applied late.
THEOREM GhostIsTheImage == PromptPair => (Spec => []GhostMirrors)
<1> SUFFICES ASSUME PromptPair PROVE Spec => []GhostMirrors
  OBVIOUS
<1>1. PromptInv => GhostMirrors
  <2> SUFFICES ASSUME PromptInv, net = {}, NEW s \in Shards, NEW t \in Shards,
                      copy[s].authority = "PendingHandoff", copy[s].target = t
               PROVE  /\ copy[t].authority = "Ghost"
                      /\ copy[t].pos = copy[s].pos /\ copy[t].vel = copy[s].vel
    BY DEF GhostMirrors
  <2>1. t = Other(s) /\ Shadowed(s)
    BY DEF PromptInv, CopiesOK, CopyOK
  <2> QED
    BY <2>1 DEF Shadowed, Sent, SameImage
<1> QED
  BY <1>1, PromptInit, PromptStep, PTL DEF Spec

\* The shard that takes over resumes within one tick's movement of where the
\* other stopped, as the HandoffComplete finds a ghost at most one update old.
THEOREM TakesOverSmoothly == PromptPair => (Spec => SmoothHandover)
<1> SUFFICES ASSUME PromptPair PROVE Spec => SmoothHandover
  OBVIOUS
<1>1. PromptInv /\ [Next]_vars =>
         [\A m \in net : HearComplete(m) /\ copy[m.to].authority = "Ghost"
            => Abs(copy[m.to].pos - copy[m.from].pos) <= Speed]_vars
  <2> SUFFICES ASSUME PromptInv, NEW m \in net, HearComplete(m)
               PROVE  Abs(copy[m.to].pos - copy[m.from].pos) <= Speed
    OBVIOUS
  <2>1. m.kind = "HandoffComplete"
    BY DEF HearComplete, Arrives
  <2>2. m.to \in Shards /\ m.from \in Shards /\ CompleteOK(m)
    BY <2>1, Addresses DEF MessageOK
  <2> QED
    BY <2>2, SlowFacts DEF CompleteOK, Slow, Abs, PromptInv, TypeOK, Copies
<1> QED
  BY <1>1, PromptInit, PromptStep, PTL DEF Spec, SmoothHandover

\* A shard gives the entity up only to one that has a ghost of it: nobody can
\* be promoted from nothing, although the source counts on no answer.
THEOREM GivenUpToAGhost == PromptPair => (Spec => CompleteOnlyToAGhost)
<1> SUFFICES ASSUME PromptPair PROVE Spec => CompleteOnlyToAGhost
  OBVIOUS
<1>1. PromptInv /\ [Next]_vars =>
         [\A s \in Shards : CompleteHandoff(s) => copy[copy[s].target].authority = "Ghost"]_vars
  BY PromptCompletion
<1> QED
  BY <1>1, PromptInit, PromptStep, PTL DEF Spec, CompleteOnlyToAGhost

-----------------------------------------------------------------------------
(* On a prompt network two shards implement Authority without its loss. *)

LEMMA OneCopyShrinksAlone ==
    ASSUME PromptInv, NEW s \in Shards, NEW c, copy' = [copy EXCEPT ![s] = c],
           c.authority \in {"Owned", "PendingHandoff"} => Simulates(s),
           NEW ms, net' \subseteq net \cup ms, \A m \in ms : m.kind # "HandoffComplete"
    PROVE  Shrinks
BY DEF Shrinks, Simulates, Completes, PromptInv, TypeOK

LEMMA PublishedKind ==
    \A kind, s, p, v : \A m \in Publish(kind, s, p, v) : m.kind = kind
BY DEF Publish

\* As with PairStep, two kinds of step alone move the token.
LEMMA PromptShrinks ==
    ASSUME PromptPair, PromptInv, [Next]_vars
    PROVE  \/ Shrinks
           \/ \E s \in Shards : CompleteHandoff(s)
           \/ \E m \in net : HearComplete(m)
<1>0. copy \in [Shards -> Copies]
  BY DEF PromptInv, TypeOK
<1>1. CASE UNCHANGED vars
  BY <1>1 DEF vars, Shrinks, Simulates, Completes
<1>2. ASSUME NEW s \in Shards, Tick(s), ~CompleteHandoff(s) PROVE Shrinks
  <2>1. Simulates(s)
    BY <1>2 DEF Tick, MoveOwned, RequestHandoff, AdvancePending, AbortHandoff, TickPending, Simulates
  <2>2. CASE MoveOwned(s)
    <3> DEFINE c == Moved(s, copy[s])
               ms == PublishPosition(s, c)
    <3>1. copy' = [copy EXCEPT ![s] = c] /\ net' \subseteq net \cup ms
      BY <2>2, TransmitKeeps DEF MoveOwned
    <3>2. \A m \in ms : m.kind # "HandoffComplete"
      BY PublishedKind DEF PublishPosition
    <3> HIDE DEF c, ms
    <3> QED
      BY <2>1, <3>1, <3>2, OneCopyShrinksAlone
  <2>3. CASE RequestHandoff(s)
    <3> DEFINE c == Moved(s, copy[s])
               d == Pending(c, PositionTarget(c.pos, s))
               ms == Publish("HandoffRequest", s, c.pos, c.vel) \cup PublishPosition(s, c)
    <3>1. copy' = [copy EXCEPT ![s] = d] /\ net' \subseteq net \cup ms
      BY <2>3, TransmitKeeps DEF RequestHandoff
    <3>2. \A m \in ms : m.kind # "HandoffComplete"
      BY PublishedKind DEF PublishPosition
    <3> HIDE DEF d, ms
    <3> QED
      BY <2>1, <3>1, <3>2, OneCopyShrinksAlone
  <2>4. ASSUME NEW c, NEW d, NEW p, TickPending(s, c, d, Publish("PositionUpdate", s, p, 0))
        PROVE  Shrinks
    <3> DEFINE ms == GhostCast(s, c) \cup Publish("PositionUpdate", s, p, 0)
    <3>1. copy' = [copy EXCEPT ![s] = d] /\ net' \subseteq net \cup ms
      BY <2>4, TransmitKeeps DEF TickPending
    <3>2. \A m \in ms : m.kind # "HandoffComplete"
      BY PublishedKind DEF GhostCast
    <3> HIDE DEF ms
    <3> QED
      BY <2>1, <3>1, <3>2, OneCopyShrinksAlone
  <2>5. CASE AdvancePending(s)
    BY <2>4, <2>5 DEF AdvancePending, PublishPosition
  <2>6. CASE AbortHandoff(s)
    BY <2>4, <2>6 DEF AbortHandoff, PublishPosition
  <2> QED
    BY <1>2, <2>2, <2>3, <2>5, <2>6 DEF Tick
<1>3. ASSUME NEW m \in net, Receive(m), ~HearComplete(m) PROVE Shrinks
  <2>1. m.kind \in PromptKinds /\ (m.kind = "HandoffRequest" => NearFrontier(m.pos, m.to))
        /\ (m.kind # "PositionUpdate" => m.to \in Shards)
    BY <1>3, Addresses DEF MessageOK, RequestOK
  <2>2. ~RejectRequest(m) /\ ~HearReject(m) /\ ~HearInput(m)
    BY <2>1 DEF RejectRequest, HearReject, HearInput, Arrives, PromptKinds
  <2>3. ASSUME NEW c, Becomes(m, c), m.to \in Shards, c.authority = copy[m.to].authority
        PROVE  Shrinks
    BY <1>0, <2>3 DEF Becomes, Shrinks, Simulates, Completes
  <2>4. CASE AcceptRequest(m)
    <3>1. NewGhost(m).authority = "Ghost" /\ m.to \in Shards
      BY <2>1, <2>4 DEF NewGhost, AcceptRequest, Arrives
    <3>2. net' \subseteq net \cup Publish("HandoffAccept", m.to, 0, 0)
      BY <2>4, TransmitKeeps DEF AcceptRequest
    <3> QED
      BY <2>4, <3>1, <3>2, PublishedKind, OneCopyShrinksAlone DEF AcceptRequest
  <2>5. CASE HearAccept(m)
    <3>1. m.to \in Shards /\ Accepted(copy[m.to]).authority = copy[m.to].authority
      BY <1>0, <2>1, <2>5 DEF HearAccept, Arrives, Accepted, Copies
    <3> QED
      BY <2>5, <2>3, <3>1 DEF HearAccept
  <2>6. CASE HearGhostUpdate(m)
    <3>1. m.to \in Shards /\ Followed(copy[m.to], m).authority = copy[m.to].authority
      BY <1>0, <2>1, <2>6 DEF HearGhostUpdate, Arrives, Followed, Copies
    <3> QED
      BY <2>6, <2>3, <3>1 DEF HearGhostUpdate
  <2>7. CASE HearAlert(m)
    <3>1. copy' = copy /\ net' = net \ {m}
      BY <2>7, Addresses DEF HearAlert, Arrives, MessageOK, Ignored
    <3> QED
      BY <3>1 DEF Shrinks, Simulates, Completes
  <2>8. CASE TrackPosition(m)
    <3>1. copy' = copy /\ net' \subseteq net \cup Alert(m.pos)
      BY <2>8, TransmitKeeps DEF TrackPosition
    <3>2. \A a \in Alert(m.pos) : a.kind = "CrossingAlert"
      BY DEF Alert
    <3> QED
      BY <3>1, <3>2 DEF Shrinks, Simulates, Completes
  <2> QED
    BY <1>3, <2>2, <2>4, <2>5, <2>6, <2>7, <2>8 DEF Receive
<1>4. ~(\E s \in Shards : Crash(s) \/ Restart(s)) /\ ~(\E v \in Steering : Steer(v))
      /\ ~(\E c \in unnoticed : RemoveService(c))
  BY DEF Crash, Restart, PromptPair, PromptInv
<1> QED
  BY <1>1, <1>2, <1>3, <1>4 DEF Next

\* The token is always somewhere, as there is a holder or a HandoffComplete.
LEMMA LosslessTokenStep ==
    ASSUME PromptPair, PromptInv, [Next]_vars
    PROVE  [Abstract!Moves]_TheToken
<1>1. PromptInv' /\ TokenReads
  BY PromptStep, PromptTokens, TokenIsRead
<1>2. AtMostOneOwner' /\ CompleteIsTheToken'
  <2>1. (PromptInv => AtMostOneOwner /\ CompleteIsTheToken)'
    BY PromptTokens, PTL
  <2> QED
    BY <1>1, <2>1
<1>3. TokenReads'
  <2>1. (AtMostOneOwner /\ CompleteIsTheToken => TokenReads)'
    BY TokenIsRead, PTL
  <2> QED
    BY <1>2, <2>1
<1>4. CASE Shrinks
  <2>1. Completes' # {} \/ \E s \in Shards : Simulates(s)'
    BY <1>1 DEF PromptInv, HolderOK, Holds
  <2> QED
    BY <1>1, <1>3, <1>4, <2>1 DEF Shrinks, TokenReads
<1>5. ASSUME NEW s \in Shards, CompleteHandoff(s) PROVE Abstract!Moves
  <2> DEFINE m == Says("HandoffComplete", s, 0, 0)
  <2>1. Listening /\ Simulates(s) /\ Other(s) \in Shards /\ Other(s) # s
    BY <1>5, TwoShards DEF PromptInv, CompleteHandoff, TickPending, Simulates
  <2>2. m \in Completes' /\ m.to = Other(s)
    <3>1. Publish("HandoffComplete", s, 0, 0) = {m} /\ m.kind = "HandoffComplete" /\ m.to = Other(s)
      BY <2>1, PromptPublications
    <3>2. m \in net'
      BY <1>5, <3>1, PromptTransmit DEF CompleteHandoff, TickPending
    <3> QED
      BY <3>1, <3>2 DEF Completes
  <2>3. TheToken = Abstract!Held(s)
    BY <1>1, <2>1 DEF TokenReads
  <2>4. TheToken' = Abstract!InTransit(Other(s))
    BY <1>3, <2>2 DEF TokenReads
  <2> QED
    BY <2>1, <2>3, <2>4 DEF Abstract!Moves, Abstract!Release
<1>6. ASSUME NEW m \in net, HearComplete(m) PROVE Abstract!Moves
  <2>1. m \in Completes /\ m.to \in Shards /\ copy \in [Shards -> Copies]
    BY <1>6, Addresses DEF HearComplete, Arrives, Completes, PromptInv, TypeOK
  <2>2. copy[m.to] \in Copies /\ copy[m.to].authority = "Ghost"
    BY <2>1, Addresses DEF Completes, MessageOK, CompleteOK
  <2>3. Simulates(m.to)'
    BY <1>6, <2>1, <2>2 DEF HearComplete, Becomes, Promoted, Simulates, Copies
  <2>4. TheToken = Abstract!InTransit(m.to)
    BY <1>1, <2>1 DEF TokenReads
  <2>5. TheToken' = Abstract!Held(m.to)
    BY <1>3, <2>1, <2>3 DEF TokenReads
  <2> QED
    BY <2>1, <2>4, <2>5 DEF Abstract!Moves, Abstract!TakeUp
<1> QED
  BY <1>4, <1>5, <1>6, PromptShrinks

\* With two shards on a prompt network the protocol implements Authority with
\* reliable delivery: the holder releases the entity to the other shard, which
\* takes it up, and at no time is it gone.
THEOREM RefinesLosslessAuthority == PromptPair => (Spec => ImplementsLosslessAuthority)
<1> SUFFICES ASSUME PromptPair PROVE Spec => ImplementsLosslessAuthority
  OBVIOUS
<1>1. Init => PromptInv /\ Abstract!Init
  <2> SUFFICES ASSUME Init PROVE PromptInv /\ Abstract!Init
    OBVIOUS
  <2>1. PromptInv /\ TokenReads
    BY PromptInit, PromptTokens, TokenIsRead
  <2>2. Home \in Shards /\ Simulates(Home)
    BY DEF Init, PromptPair, Simulates, Dummy, Fresh
  <2> QED
    BY <2>1, <2>2 DEF TokenReads, Abstract!Init
<1>2. PromptInv /\ [Next]_vars => PromptInv' /\ [Abstract!Moves]_TheToken
  BY PromptStep, LosslessTokenStep
<1> QED
  BY <1>1, <1>2, PTL DEF Spec, ImplementsLosslessAuthority, Abstract!LosslessSpec

=============================================================================
