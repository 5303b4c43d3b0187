------------------------------- MODULE Handoff -------------------------------
(***************************************************************************)
(* Authority over one entity, as the dedicated servers (the "shards") pass *)
(* it along the x axis of the world.  Each shard simulates a band of the   *)
(* world; when an entity it owns nears the edge of the band the shard asks *)
(* the neighbour to take a ghost copy of it, keeps simulating it as        *)
(* PendingHandoff, and at the edge itself publishes HandoffComplete, which *)
(* turns the ghost into the owner.                                         *)
(*                                                                         *)
(* All gameplay messages travel on unreliable streams through the broker:  *)
(* a message may be lost or overtaken by a later one.  A shard publishes   *)
(* on its topic Snapshot(s) and never names a recipient; audience[s] holds *)
(* the connections that are subscribed to that topic.  The entity is one   *)
(* element of every shard's PlayerRegistry: entities do not interact in    *)
(* this protocol.                                                          *)
(***************************************************************************)
EXTENDS Integers, FiniteSets

CONSTANTS
    ShardCount,    \* SHARD_COUNT, how many bands the world has
    Width,         \* shard_width
    Margin,        \* HANDOFF_MARGIN, 24 world units in the code
    Slack,         \* the 2.0 of the crossing test
    AbortAfter,    \* the 30 ticks of the local safety abort
    Speed,         \* DUMMY_SPEED, in world units per tick
    Home,          \* the shard started with SPAWN_DUMMY, or NoShard
    Spatial,       \* TRUE iff the spatial service is deployed
    Steering,      \* x velocities a client's input can ask for, {} if none plays
    Prompt,        \* TRUE iff the network loses nothing and is faster than a tick
    Crashable,     \* the shards whose process may die
    MaxCrashes,    \* bound on the number of process deaths
    MaxInFlight,   \* bound on the number of messages in the network
    MaxDrift       \* bound on how far outside the world a GhostUpdate can place an entity

Shards == 0 .. ShardCount - 1
NoShard == -1
SpatialService == ShardCount     \* the service's address: no shard has it

\* What the start-up scripts guarantee of the configuration: at least one
\* band, wide enough that its two frontiers do not overlap.
ASSUME ShardsAssumption == ShardCount \in Nat \ {0}
ASSUME GeometryAssumption ==
    /\ Width \in Nat /\ Margin \in Nat /\ Slack \in Nat /\ Speed \in Nat
    /\ Slack < Margin /\ 2 * Margin < Width
ASSUME AbortAssumption == AbortAfter \in Nat
ASSUME HomeAssumption == Home \in Shards \cup {NoShard}
ASSUME DeploymentAssumption ==
    Spatial \in BOOLEAN /\ Prompt \in BOOLEAN /\ Steering \subseteq Int
\* The leaves of the spatial service's quadtree, four across the world at its
\* depth of 2, do not straddle two bands: TreeProofs!TreeKnowsBands shows that
\* the tree then knows the band of every position, and only then.
ASSUME QuadTreeAssumption == Spatial => ShardCount \in {1, 2, 4}
ASSUME CrashAssumption == Crashable \subseteq Shards /\ MaxCrashes \in Nat
ASSUME BoundAssumption == MaxInFlight \in Nat /\ MaxDrift \in Nat

VARIABLES
    copy,       \* copy[s]: the entity in shard s's PlayerRegistry
    net,        \* the gameplay messages in flight
    audience,   \* audience[s]: the connections subscribed to Snapshot(s)
    running,    \* the shards with a live, registered process
    incarnation, \* incarnation[n]: which of n's processes is, or was, the last
    unnoticed,  \* the dead processes' connections that the broker still keeps
    crashes     \* how many processes have died

vars == <<copy, net, audience, running, incarnation, unnoticed, crashes>>

-----------------------------------------------------------------------------
(* The data. *)

Authorities == {"Absent", "Owned", "PendingHandoff", "Ghost"}

Copies == [authority : Authorities, pos : Int, vel : Int,
           target : NoShard .. ShardCount, ticks : Nat, bounce : BOOLEAN]

Kinds == {"HandoffRequest", "HandoffAccept", "HandoffReject", "GhostUpdate",
          "HandoffComplete", "PositionUpdate", "CrossingAlert", "ClientInput"}

\* A message in flight to one subscriber.  "about" is the target shard of a
\* CrossingAlert; "pos" and "vel" are 0 in the messages that carry neither.
Messages == [kind : Kinds, from : NoShard .. ShardCount, to : 0 .. ShardCount,
             pos : Int, vel : Int, about : NoShard .. ShardCount]

Left(s) == s * Width
Right(s) == s * Width + Width

NotHere == [authority |-> "Absent", pos |-> 0, vel |-> 0,
            target |-> NoShard, ticks |-> 0, bounce |-> FALSE]

Fresh(p, v, b) == [authority |-> "Owned", pos |-> p, vel |-> v,
                   target |-> NoShard, ticks |-> 0, bounce |-> b]

SpawnPoint(s) == Left(s) + Width \div 2

Dummy == Fresh(SpawnPoint(Home), Speed, TRUE)

Neighbours(s) == {n \in Shards : n = s - 1 \/ n = s + 1}

\* The shard that simulates the entity: it is the one that moves it.
Simulates(s) == copy[s].authority \in {"Owned", "PendingHandoff"}

Abs(n) == IF n < 0 THEN -n ELSE n

-----------------------------------------------------------------------------
(* The network. *)

\* Every process has a connection of its own to the broker.
Connection(n) == <<n, incarnation[n]>>

\* Who hears what shard s publishes.  The broker sends to the connections of
\* dead processes as well, until it notices; nothing comes of that.
Hearers(s) == {n \in running \cup {SpatialService} : Connection(n) \in audience[s]}

\* What a shard's publication on its Snapshot topic puts in flight, for those
\* of its subscribers that act on this kind of message.
Publish(kind, s, p, v) ==
    {[kind |-> kind, from |-> s, to |-> n, pos |-> p, vel |-> v, about |-> NoShard] :
        n \in Hearers(s) \cap (IF kind = "PositionUpdate" THEN {SpatialService} ELSE Shards)}

PublishPosition(s, c) == Publish("PositionUpdate", s, c.pos, 0)

\* Sends the messages ms while keeping those of kept: an unreliable stream
\* loses any of them, unless the network is prompt.
Transmit(kept, ms) ==
    \E arriving \in SUBSET ms :
        /\ Prompt => arriving = ms
        /\ Cardinality(kept \cup arriving) <= MaxInFlight
        /\ net' = kept \cup arriving

\* A prompt network has delivered everything before the next 20 Hz tick.
MayTick(s) == s \in running /\ (Prompt => net = {})

-----------------------------------------------------------------------------
Init ==
    /\ copy = [s \in Shards |-> IF s = Home THEN Dummy ELSE NotHere]
    /\ net = {}
    /\ audience = [s \in Shards |->
                      (Neighbours(s) \cup (IF Spatial THEN {SpatialService} ELSE {})) \X {0}]
    /\ running = Shards
    /\ incarnation = [n \in 0 .. ShardCount |-> 0]
    /\ unnoticed = {}
    /\ crashes = 0

-----------------------------------------------------------------------------
(* simulate_and_publish, one tick of a shard for this entity. *)

\* An owned entity moves and is kept inside the band.
Moved(s, c) ==
    LET x == c.pos + c.vel
        rebound == IF c.bounce THEN Abs(c.vel) ELSE 0
    IN  IF x < Left(s) THEN [c EXCEPT !.pos = Left(s), !.vel = rebound]
        ELSE IF x > Right(s) THEN [c EXCEPT !.pos = Right(s), !.vel = -rebound]
        ELSE [c EXCEPT !.pos = x]

PositionTarget(x, s) ==
    IF x <= Left(s) + Margin /\ s > 0 THEN s - 1
    ELSE IF x >= Right(s) - Margin /\ s + 1 < ShardCount THEN s + 1
    ELSE NoShard

MovingToward(v, s, t) == IF t > s THEN v > 0 ELSE v < 0

Leaving(s, c) ==
    LET t == PositionTarget(c.pos, s)
    IN  t # NoShard /\ MovingToward(c.vel, s, t)

\* Mutant: the hand-off does not note where it goes.
PendingNowhere(c, t) == [c EXCEPT !.authority = "PendingHandoff", !.ticks = 0]

Pending(c, t) == [c EXCEPT !.authority = "PendingHandoff", !.target = t, !.ticks = 0]

\* An owned entity that is not about to leave the band.
MoveOwned(s) ==
    /\ MayTick(s)
    /\ copy[s].authority = "Owned"
    /\ LET c == Moved(s, copy[s])
       IN  /\ ~Leaving(s, c)
           /\ copy' = [copy EXCEPT ![s] = c]
           /\ Transmit(net, PublishPosition(s, c))
    /\ UNCHANGED <<audience, running, incarnation, unnoticed, crashes>>

\* An owned entity that has come to the frontier: the hand-off begins.
RequestHandoff(s) ==
    /\ MayTick(s)
    /\ copy[s].authority = "Owned"
    /\ LET c == Moved(s, copy[s])
       IN  /\ Leaving(s, c)
           /\ copy' = [copy EXCEPT ![s] = Pending(c, PositionTarget(c.pos, s))]
           /\ Transmit(net, Publish("HandoffRequest", s, c.pos, c.vel) \cup PublishPosition(s, c))
    /\ UNCHANGED <<audience, running, incarnation, unnoticed, crashes>>

\* A pending entity moves without a clamp and counts its ticks.
Advanced(c) == [c EXCEPT !.pos = c.pos + c.vel, !.ticks = c.ticks + 1]

Crossed(s, c) ==
    \/ c.target > s /\ c.pos >= Right(s) - Slack
    \/ c.target < s /\ c.pos <= Left(s) + Slack

TimedOut(c) == c.ticks > AbortAfter

\* Mutant: the update carries no velocity.
GhostCastStill(s, c) == Publish("GhostUpdate", s, c.pos, 0)

GhostCast(s, c) == Publish("GhostUpdate", s, c.pos, c.vel)

Relinquished(c) == [c EXCEPT !.authority = "Ghost", !.ticks = 0]

\* Mutant: the abort turns the entity round but leaves it pending.
TurnedBackPending(c) == [c EXCEPT !.ticks = 0, !.vel = -c.vel]

TurnedBack(c) ==
    [c EXCEPT !.authority = "Owned", !.target = NoShard, !.ticks = 0, !.vel = -c.vel]

\* The tick that makes the pending copy of shard s "after", having moved to
\* c; the GhostUpdate goes out first, before anything else about it changes.
TickPending(s, c, after, ms) ==
    /\ MayTick(s)
    /\ copy[s].authority = "PendingHandoff"
    /\ copy' = [copy EXCEPT ![s] = after]
    /\ Transmit(net, GhostCast(s, c) \cup ms)
    /\ UNCHANGED <<audience, running, incarnation, unnoticed, crashes>>

AdvancePending(s) ==
    LET c == Advanced(copy[s])
    IN  /\ ~Crossed(s, c) /\ ~TimedOut(c)
        /\ TickPending(s, c, c, PublishPosition(s, c))

\* At the edge the source gives the entity up, whatever it has heard.
CompleteHandoff(s) ==
    LET c == Advanced(copy[s])
    IN  /\ Crossed(s, c)
        /\ TickPending(s, c, Relinquished(c), Publish("HandoffComplete", s, 0, 0))

\* The local safety abort: too many ticks without reaching the edge.
AbortHandoff(s) ==
    LET c == Advanced(copy[s])
    IN  /\ ~Crossed(s, c) /\ TimedOut(c)
        /\ TickPending(s, c, TurnedBack(c), PublishPosition(s, TurnedBack(c)))

Tick(s) ==
    \/ MoveOwned(s)
    \/ RequestHandoff(s)
    \/ AdvancePending(s)
    \/ CompleteHandoff(s)
    \/ AbortHandoff(s)

-----------------------------------------------------------------------------
(* handle_gameplay_message: a shard takes one message off the network. *)

Arrives(m, kind) == m \in net /\ m.kind = kind

\* Mutant: only the left edge of the band counts as a frontier.
NearLeftFrontier(x, s) == Abs(x - Left(s)) <= Margin

NearFrontier(x, s) == Abs(x - Left(s)) <= Margin \/ Abs(x - Right(s)) <= Margin

\* Where the destination believes the entity comes from: u32 saturating_sub
\* at shard 0.
SourceOf(x, s) ==
    IF x <= Left(s) + Margin THEN IF s = 0 THEN 0 ELSE s - 1
    ELSE IF x >= Right(s) - Margin THEN s + 1
    ELSE s

\* Mutant: the destination takes authority at once.
NewOwned(m) ==
    [authority |-> "Owned", pos |-> m.pos, vel |-> m.vel,
     target |-> NoShard, ticks |-> 0, bounce |-> TRUE]

\* Mutant: an entity the destination does not know yet is not inserted.
KnownGhost(m) ==
    IF copy[m.to].authority = "Absent" THEN NotHere
    ELSE [copy[m.to] EXCEPT !.authority = "Ghost", !.pos = m.pos, !.vel = m.vel]

\* The ghost copy the destination takes, whatever it held before; an entity
\* it did not know is inserted with bounce set.
NewGhost(m) ==
    [authority |-> "Ghost", pos |-> m.pos, vel |-> m.vel,
     target |-> SourceOf(m.pos, m.to), ticks |-> 0,
     bounce |-> copy[m.to].authority = "Absent" \/ copy[m.to].bounce]

AcceptRequest(m) ==
    /\ Arrives(m, "HandoffRequest")
    /\ NearFrontier(m.pos, m.to)
    /\ copy' = [copy EXCEPT ![m.to] = NewGhost(m)]
    /\ Transmit(net \ {m}, Publish("HandoffAccept", m.to, 0, 0))
    /\ UNCHANGED <<audience, running, incarnation, unnoticed, crashes>>

RejectRequest(m) ==
    /\ Arrives(m, "HandoffRequest")
    /\ ~NearFrontier(m.pos, m.to)
    /\ Transmit(net \ {m}, Publish("HandoffReject", m.to, 0, 0))
    /\ UNCHANGED <<copy, audience, running, incarnation, unnoticed, crashes>>

\* What a message that only changes the recipient's copy, or is ignored,
\* leaves behind.
Becomes(m, c) ==
    /\ copy' = [copy EXCEPT ![m.to] = c]
    /\ net' = net \ {m}
    /\ UNCHANGED <<audience, running, incarnation, unnoticed, crashes>>

\* Mutant: an Accept makes any copy pending, a ghost's too.
AcceptedAnyway(c) == [c EXCEPT !.authority = "PendingHandoff", !.ticks = 0]

Accepted(c) == IF c.authority = "PendingHandoff" THEN [c EXCEPT !.ticks = 0] ELSE c

\* The shard owns the entity again, whatever it was to it.
Rejected(c) ==
    IF c.authority = "Absent" THEN c
    ELSE [c EXCEPT !.authority = "Owned", !.target = NoShard, !.ticks = 0, !.vel = -c.vel]

\* Mutant: a ghost does not follow the updates.
FollowedIfPending(c, m) ==
    IF c.authority = "PendingHandoff" THEN [c EXCEPT !.pos = m.pos, !.vel = m.vel] ELSE c

Followed(c, m) ==
    IF c.authority \in {"Ghost", "PendingHandoff"}
    THEN [c EXCEPT !.pos = m.pos, !.vel = m.vel] ELSE c

\* Mutant: HandoffComplete is taken as the answer to one's own hand-off.
PromotedIfPending(c) ==
    IF c.authority = "PendingHandoff"
    THEN [c EXCEPT !.authority = "Owned", !.target = NoShard, !.ticks = 0] ELSE c

\* Any copy becomes the owner's, whoever it hears the HandoffComplete from.
Promoted(c) ==
    IF c.authority = "Absent" THEN c
    ELSE [c EXCEPT !.authority = "Owned", !.target = NoShard, !.ticks = 0]

HearAccept(m) == Arrives(m, "HandoffAccept") /\ Becomes(m, Accepted(copy[m.to]))

HearReject(m) == Arrives(m, "HandoffReject") /\ Becomes(m, Rejected(copy[m.to]))

\* A stale update moves a pending copy too, out of the world if repeated:
\* the guard on m.pos is the bound MaxDrift, not the code's.
HearGhostUpdate(m) ==
    /\ Arrives(m, "GhostUpdate")
    /\ m.pos \in -MaxDrift .. ShardCount * Width + MaxDrift
    /\ Becomes(m, Followed(copy[m.to], m))

HearComplete(m) == Arrives(m, "HandoffComplete") /\ Becomes(m, Promoted(copy[m.to]))

\* An alert starts a hand-off from where the entity is now, on the word of
\* the spatial service alone; every shard but the one it names drops it.
HearAlert(m) ==
    LET s == m.to
        c == copy[s]
    IN  /\ Arrives(m, "CrossingAlert")
        /\ IF c.authority = "Owned" /\ MovingToward(c.vel, s, m.about)
           THEN /\ copy' = [copy EXCEPT ![s] = Pending(c, m.about)]
                /\ Transmit(net \ {m}, Publish("HandoffRequest", s, c.pos, c.vel))
           ELSE net' = net \ {m} /\ UNCHANGED copy
        /\ UNCHANGED <<audience, running, incarnation, unnoticed, crashes>>

EnsurePlayer(s) ==
    IF copy[s].authority = "Absent" THEN Fresh(SpawnPoint(s), 0, FALSE) ELSE copy[s]

ApplyClientInput(c, v) == [c EXCEPT !.vel = v]

\* No shard asks who has authority.
HearInput(m) ==
    /\ Arrives(m, "ClientInput")
    /\ Becomes(m, ApplyClientInput(EnsurePlayer(m.to), m.vel))

-----------------------------------------------------------------------------
(* The spatial service and the client. *)

\* shard_for: the band of the world that holds x, if the world does.
InWorld(x) == 0 <= x /\ x < ShardCount * Width
Band(x) == x \div Width

\* shards_near(pos, HANDOFF_MARGIN): the bands that the open interval of
\* radius Margin around x meets.
ShardsNear(x) == {s \in Shards : Left(s) < x + Margin /\ x - Margin < Right(s)}

\* The alert for a position in the margin of a frontier, to the shard whose
\* band the position is in and about the first other shard that is near.
Alert(x) ==
    LET here == Band(x)
        others == ShardsNear(x) \ {here}
    IN  {[kind |-> "CrossingAlert", from |-> SpatialService, to |-> here,
          pos |-> 0, vel |-> 0, about |-> t] :
            t \in {u \in others : InWorld(x) /\ here \in running /\ \A w \in others : u <= w}}

TrackPosition(m) ==
    /\ Arrives(m, "PositionUpdate")
    /\ Transmit(net \ {m}, Alert(m.pos))
    /\ UNCHANGED <<copy, audience, running, incarnation, unnoticed, crashes>>

\* The entity's client steers: every shard is subscribed to Input(0).
Steer(v) ==
    /\ Transmit(net, {[kind |-> "ClientInput", from |-> NoShard, to |-> s,
                       pos |-> 0, vel |-> v, about |-> NoShard] : s \in running})
    /\ UNCHANGED <<copy, audience, running, incarnation, unnoticed, crashes>>

-----------------------------------------------------------------------------
(* A shard's process dies, the orchestrator respawns it, and the broker    *)
(* notices that the old connection is gone: by timeouts of their own, so   *)
(* the broker may come last, when the new process has subscribed already.  *)

Crash(s) ==
    /\ s \in running \cap Crashable
    /\ crashes < MaxCrashes
    /\ crashes' = crashes + 1
    /\ running' = running \ {s}
    /\ unnoticed' = unnoticed \cup {Connection(s)}
    /\ copy' = [copy EXCEPT ![s] = NotHere]
    /\ net' = {m \in net : m.to # s}
    /\ UNCHANGED <<audience, incarnation>>

\* The new process subscribes to its neighbours' topics; nobody who was
\* subscribed to its own does so again.
AudienceAfterReturnOf(s) ==
    [n \in Shards |-> IF n \in Neighbours(s)
                      THEN audience[n] \cup {<<s, incarnation[s] + 1>>} ELSE audience[n]]

Restart(s) ==
    /\ s \notin running
    /\ running' = running \cup {s}
    /\ incarnation' = [incarnation EXCEPT ![s] = @ + 1]
    /\ copy' = [copy EXCEPT ![s] = IF s = Home THEN Dummy ELSE NotHere]
    /\ audience' = AudienceAfterReturnOf(s)
    /\ UNCHANGED <<net, unnoticed, crashes>>

\* Mutant: only the subscriptions to the lost shard's own topic end.
AudienceStillSent(c) == [audience EXCEPT ![c[1]] = {}]

\* Mutant: the subscriptions of every connection of the lost shard end.
AudienceWithoutShard(c) ==
    [n \in Shards |-> IF n = c[1] THEN {} ELSE {d \in audience[n] : d[1] # c[1]}]

\* The connection's subscriptions end, and with the topic it published
\* everyone's subscription to that.
AudienceAfterLossOf(c) == [n \in Shards |-> IF n = c[1] THEN {} ELSE audience[n] \ {c}]

\* The broker's remove_service, for a connection that is gone.
RemoveService(c) ==
    /\ unnoticed' = unnoticed \ {c}
    /\ audience' = AudienceAfterLossOf(c)
    /\ UNCHANGED <<copy, net, running, incarnation, crashes>>

-----------------------------------------------------------------------------
Receive(m) ==
    \/ AcceptRequest(m)
    \/ RejectRequest(m)
    \/ HearAccept(m)
    \/ HearReject(m)
    \/ HearGhostUpdate(m)
    \/ HearComplete(m)
    \/ HearAlert(m)
    \/ HearInput(m)
    \/ TrackPosition(m)

Next ==
    \/ \E s \in Shards : Tick(s) \/ Crash(s) \/ Restart(s)
    \/ \E c \in unnoticed : RemoveService(c)
    \/ \E m \in net : Receive(m)
    \/ \E v \in Steering : Steer(v)

Spec == Init /\ [][Next]_vars

\* Every process keeps ticking at 20 Hz, and a prompt network delivers.
Fairness ==
    /\ \A s \in Shards : WF_vars(Tick(s))
    /\ Prompt => WF_vars(\E m \in net : Receive(m))

FairSpec == Spec /\ Fairness

-----------------------------------------------------------------------------
(* Properties. *)

\* A message in flight is for somebody that is alive and acts on its kind.
Addressed(m) ==
    m.to \in IF m.kind = "PositionUpdate" THEN {SpatialService} ELSE running

\* A connection the broker has yet to notice the loss of is a dead process's.
Dead(c) ==
    c[2] < incarnation[c[1]] \/ (c[2] = incarnation[c[1]] /\ c[1] \notin running)

\* The variables have their types, only the living and the dead whose loss the
\* broker has not noticed are subscribed to anything, and nothing is in flight
\* to a dead shard.
TypeOK ==
    /\ copy \in [Shards -> Copies]
    /\ net \subseteq Messages
    /\ audience \in [Shards -> SUBSET ((0 .. ShardCount) \X Nat)]
    /\ running \subseteq Shards
    /\ incarnation \in [0 .. ShardCount -> Nat]
    /\ unnoticed \subseteq Shards \X Nat
    /\ crashes \in Nat
    /\ \A c \in unnoticed : Dead(c)
    /\ \A s \in Shards :
          audience[s] \subseteq unnoticed \cup {Connection(n) : n \in running \cup {SpatialService}}
    /\ \A m \in net : Addressed(m)

\* The authority states are there so that one shard at most simulates the
\* entity: never two shards that both move it and publish its position.
AtMostOneOwner ==
    \A s, t \in Shards : Simulates(s) /\ Simulates(t) => s = t

Completes == {m \in net : m.kind = "HandoffComplete"}

\* The deployment of run_tp2.ps1 without its spatial service and without
\* players: two shards, and the dummy's process does not die.
Pair ==
    /\ ShardCount = 2 /\ ~Spatial /\ Steering = {}
    /\ Home \in Shards \ Crashable

\* On a prompt network, where no message is lost or later than the next tick,
\* the entity is never lost either: one shard simulates it, or the one that is
\* to do so holds a ghost of it and has the HandoffComplete on its way.
AuthorityConserved ==
    \/ /\ Completes = {}
       /\ \E s \in Shards : Simulates(s)
    \/ \E m \in Completes :
          /\ Completes = {m}
          /\ copy[m.to].authority = "Ghost"
          /\ \A s \in Shards : ~Simulates(s)

\* Once everything has been delivered the ghost is the exact image of the
\* pending copy it shadows.
GhostMirrors ==
    \A s, t \in Shards :
        (net = {} /\ copy[s].authority = "PendingHandoff" /\ copy[s].target = t)
            => /\ copy[t].authority = "Ghost"
               /\ copy[t].pos = copy[s].pos
               /\ copy[t].vel = copy[s].vel

\* A hand-off in progress names a neighbour and has not outlived the abort:
\* no handler leaves a pending copy that its own ticks cannot resolve.
PendingIsBounded ==
    \A s \in Shards : copy[s].authority = "PendingHandoff" =>
        copy[s].target \in Neighbours(s) /\ copy[s].ticks <= AbortAfter

\* The connections of shard s that have come to an end.
Ended(s) ==
    {<<s, k>> : k \in 0 .. incarnation[s] - 1} \cup (IF s \in running THEN {} ELSE {Connection(s)})

\* As long as the broker has not noticed a death of shard t every living
\* neighbour hears t, however often the neighbours have died and come back and
\* however late the broker is to notice that: a late notice takes nothing from
\* the process that has come since.
HeardUntilNoticed ==
    \A t \in Shards : \A s \in running \cap Neighbours(t) :
        Ended(t) \subseteq unnoticed => s \in Hearers(t)

\* The shard that takes over resumes within one tick's movement of where the
\* previous owner stopped, even if the last GhostUpdate is still in flight.
SmoothHandover ==
    [][\A m \in net :
          HearComplete(m) /\ copy[m.to].authority = "Ghost"
            => Abs(copy[m.to].pos - copy[m.from].pos) <= Speed]_vars

\* A shard gives the entity up only to a neighbour that has taken a ghost copy
\* of it, and so has sent an Accept.
CompleteOnlyToAGhost ==
    [][\A s \in Shards :
          CompleteHandoff(s) => copy[copy[s].target].authority = "Ghost"]_vars

\* Only the shard a hand-off is addressed to can refuse it.
RejectOnlyFromTarget ==
    [][\A m \in net :
          HearReject(m) /\ copy[m.to].authority = "PendingHandoff"
            => m.from = copy[m.to].target]_vars

\* A hand-off is decided one way or the other, lossy network or not.
PendingResolves ==
    \A s \in Shards :
        copy[s].authority = "PendingHandoff" ~> copy[s].authority # "PendingHandoff"

\* On a prompt network an entity that keeps bouncing between the ends of the
\* world keeps visiting every shard.
KeepsMigrating ==
    \A s \in Shards : []<>(copy[s].authority = "Owned")

\* The token of the abstract specification.
TheToken ==
    IF \E s \in Shards : Simulates(s)
    THEN [state |-> "held", at |-> CHOOSE s \in Shards : Simulates(s)]
    ELSE IF Completes # {}
    THEN [state |-> "in transit", at |-> (CHOOSE m \in Completes : TRUE).to]
    ELSE [state |-> "gone"]

Abstract == INSTANCE Authority WITH Shards <- Shards, token <- TheToken

\* Between two shards, messages lost and overtaken: authority over the entity
\* moves as a token does, and what is lost never comes back.
ImplementsAuthority == Abstract!Spec

\* Between two shards on a prompt network, spatial service or not: authority
\* moves as a token that is never lost, and whoever it is sent to takes it up.
ImplementsLosslessAuthority == Abstract!LosslessSpec

=============================================================================
