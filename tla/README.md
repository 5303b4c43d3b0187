# A TLA+ model of mmorpg-lab

mmorpg-lab is a small multiplayer game server: a publish-subscribe broker, dedicated servers
("shards") that each simulate one vertical band of the world, a spatial service that tells the
broker which shard's snapshots a client is to receive, an orchestrator that keeps the shards'
processes running, a gatekeeper for logins, and a client. This directory models the parts whose
behaviour depends on the order of messages, failures and time, model-checks them with TLC on
small instances, and proves the main results for all instances with TLAPS.

## The system

| Component | State | Operations | Talks to |
|---|---|---|---|
| Broker (`broker/src`) | services (lifeline stream, publications, subscriptions), topics (subscribers), client ids | JOIN, Pub, StopPub, Sub, StopSub, the last two also with a target, End, publish, loss of a connection | everyone, by reliable and unreliable streams |
| Shard (`dedicated_server`) | one `PlayerState` per entity it knows (authority, position, velocity, target, ticks), enemies, projectiles, wave, its broker session | a 20 Hz tick that polls the broker and then simulates; the handlers of the messages 0x05 to 0x30 | neighbours and clients through the broker, the orchestrator by UDP |
| Spatial service | quadtree, `entity_shard` | position updates: moves subscriptions, publishes alerts | broker, shards |
| Orchestrator | `fleet`: when each shard was last heard of | heartbeat listener, supervisor tick, spawning | shards, by UDP and by starting processes |
| Client | `NetworkClient` (session), `AppState`, `WorldView` | login, JOIN, registration, input, display | broker, gatekeeper |
| `shared` | quadtree; messages | `shard_for`, `shards_near`, `same_leaf`; serialization | linked into the others |
| Gatekeeper | none | login: a fresh id and the broker's address | client |

What is hard in it:

* **Hand-off.** Authority over an entity migrates by five message types that travel on
  unreliable streams, carry no recipient and no sequence number, are broadcast to everyone
  subscribed to the sender's topic, and are obeyed with few checks of the receiver's own state.
  It should never be simulated twice, and should not be lost when the network does not lose it.
* **Broker.** Subscriptions are recorded twice, in the topic and in the service, and changed
  from six handlers; a topic is removed with the first of its publishers; client ids outlive
  connections. The two records must agree and closed connections must hear nothing.
* **Routing.** A client's subscriptions are changed by itself and by the spatial service, over
  different connections. It must end up with the snapshots of the band its entity is in.
* **Supervision.** Silence is the only sign of death, heartbeats are datagrams, and the
  orchestrator's memory dies with it. A shard that runs must not be started twice, a dead one
  must be started again.
* **Sessions.** A process asks for two streams, is told of them in any order, joins on the one
  and names the other in its registration. Nothing is answered but the JOIN, nothing is sent
  again but the JOIN of a client, and the broker drops without a word what comes out of turn.
* **Combat.** The systems of a tick read one another's registries; some of them do nothing while
  the shard is not registered and some go on; players come, go, die and are handed off between
  them, while their projectiles fly. Kills must be scored once, shots must be spaced and the
  registries must not outgrow their caps.
* **View.** A client's screen is the sum of the updates and despawns it has heard, on unreliable
  streams and without sequence numbers. What it shows must be what lives.

`PROJECT.json` lists every component and every such hazard at its line.

## The modules

| Module | What it is |
|---|---|
| `Authority` | abstract: the right to simulate an entity is a token that is held, in transit, or gone |
| `Handoff` | the shards' `PlayerRegistry` for one entity, all gameplay messages about it, the alerts, a steering client, deaths and restarts; refines `Authority` |
| `MCHandoff` | values for TLC |
| `HandoffProofs` | theorems about `Handoff`: in any world, between two shards, and between two on a prompt network, which loses nothing and delivers before the next tick |
| `Broker`, `MCBroker`, `BrokerProofs` | the broker's event loop, and the same for it |
| `Routing`, `MCRouting`, `RoutingProofs` | the broker composed with the clients and the spatial service, by FIFO queues for the reliable streams |
| `Supervision`, `SupervisionProofs` | the orchestrator, the shards' processes and heartbeats, in discrete time |
| `Session`, `MCSession`, `SessionProofs` | the broker composed with the connections, streams and registrations of all its peers |
| `QuadTree`, `TreeProofs` | `Rect` and `QuadTree` as operators, used by `Combat`, and the theorems about them |
| `Combat`, `CombatProofs` | the systems of a shard's tick: players' fights, enemies, waves, projectiles |
| `View`, `MCView`, `ViewProofs` | `Combat` composed with a client that shows what it hears of it |

### Handoff

`copy[s]` is the entity in shard `s`'s registry (`authority = "Absent"` where the code has no
key), `net` the messages in flight, `audience[s]` the connections subscribed to
`Topic::Snapshot(s)`.
One action per branch of `simulate_and_publish` (`MoveOwned`, `RequestHandoff`,
`AdvancePending`, `CompleteHandoff`, `AbortHandoff`), one per message handler
(`AcceptRequest` and `RejectRequest` for `handle_handoff_request`, then `HearAccept`,
`HearReject`, `HearGhostUpdate`, `HearComplete`, `HearAlert`, `HearInput`), `TrackPosition`
for the spatial service, `Steer` for a client, `Crash` and `Restart` for a process and
`RemoveService` for the broker's `Disconnected`.
Everything a branch publishes is part of its action. `Transmit` decides which of the messages
arrive: any subset, delivered in any order, or all of them before the next tick if `Prompt`.

The death of a process, its respawn and the broker's notice of the old connection's loss are
three steps: the orchestrator acts on its TTL and the broker on the transport's timeout, so the
notice may come when the new process has subscribed already. `incarnation[n]` numbers the
processes of a shard, so that `Connection(n)` tells the new one's subscriptions from the old
one's, and `unnoticed` holds the connections of dead processes that the broker still keeps;
until it removes them it goes on sending to them, in vain. `Restart` takes the respawn and the
new process's registration as one step (`Session` has what lies between), and no process loses
its connection while it lives: a shard that did would be deaf for good, as `poll_broker` never
connects again. That case is `Session`'s.

One entity is enough, as the protocol never reads two. Only the x axis is kept: the bands, the
margins and the velocity tests are about x alone. `state_blob` is left out since no one reads
it. Positions are integers; the code's floats hold these integers exactly. A steering client's
velocities are taken from the constant `Steering`. The spatial service's quadtree is replaced
by the bands it represents. That is right for one, two or four shards (`QuadTreeAssumption`), as
`TreeProofs` shows: the tree knows the bands if and only if the number of shards divides that of
the leaves across, which is 4 at the depth of the code. `MCHandoff` has TLC evaluate the same on
small worlds whenever it runs an instance.

### Broker

A handler of the event loop runs to its end before the next event, so each is one action.
`topics` and `subscriptions` are the two records of who hears what. `Named` is what the stream
field of a control message may be: `unwrap_or(stream)` falls back on the lifeline. A `HashMap`
iteration is a choice: `ForgetOneStreamOf` and `TargetStreams`. Publishing changes nothing;
`Recipients` is whom it reaches.

### Routing

`Routing` extends `Broker` and conjoins its actions with queues: `queue[c]` is the reliable
stream from `c` to the broker. A client sends JOIN when it connects and its registration when
it is welcomed; the spatial service likewise, and afterwards a StopSub and a Sub with a target
for every change of band. Positions are unreliable and come from every shard that believes it
owns the entity, so the band of a position is any. The loss of a connection takes its queue.
`players` are the ids the shards have made a player for; they keep it when the client has gone.
`followed` is a history variable that no action reads: the ids whose entity the service has had
in band 0 when the broker had handled the client's own Pub and Sub (`NowFollowed`). The code
cannot tell these clients from the others, but only for them is its promise kept.

### Supervision

Time is discrete. `due` counts down to each process's next heartbeat, `beats` holds those under
way with their age, `fleet` the time since each shard was seen (`Never` where the code has no
key), `timer` the supervisor's next tick. `TimePasses` is only possible when nothing is due.
`lost` counts the heartbeats of a shard lost since the last that arrived (or since the
orchestrator was started), `downFor` how long it has had no process and `outage` how long the
orchestrator has not run, in all; they are the only history variables. `StopOrchestrator` and
`StartOrchestrator` are apart: while `timer` is `Stopped` time goes on, processes die and
heartbeats arrive at nobody (`Unheard`). Two assumptions: the supervisor's tick is not late, and
the listener's blocking write to Redis after every heartbeat takes no longer than what `MaxDelay`
leaves for it, as the next heartbeat waits until it is done.

### Session

`Session` extends `Broker`, as `Routing` does, for what comes before: `session[c]` is what the
process on connection `c` holds (`BrokerConnection`, the two streams, `joined`, `welcomed`,
`registered`), `app[c]` a client's `AppState`, `up[c]` and `down[c]` the reliable stream each
way, `lost` the connections that have broken. `LogIn` to `HearLost` are the events of a
connection, `SendJoin`, `RepeatJoin`, `HearWelcome`, `EnterGame` and `Register` what
`drive_broker_session`, `connection_request` and `register_pubsub` do about them. `Registration`
is the Pub and the Subs a process sends in one go, with the stream they name. `Handle` gives the
broker the next message: `Admit` for the JOIN of somebody new, `Ignore` for a JOIN of a service
and for anything else from somebody who is none, `Obey` for the rest. Both sides notice the loss
of a connection in their own time, after what had arrived before it.

### QuadTree

The tree is built once to its full depth, so it is known by its levels, the recursive function
`Nodes`. A position in no leaf is the empty set where the code has `None`. Coordinates are
integers, and `ExactHalves` keeps the halves so: `Across` is how many nodes of a depth lie side by
side. `LeafFor` and `LeavesNear` say which leaves an answer is made of, `LeavesFound` and
`LeavesMet` how the code looks for them, from the root into the children of those nodes that pass
its test (`leaf_for` and `shard_for`, `collect_intersecting`). They are the same, so the other
modules use the former.

### Combat

`phase` is the system that runs next in the chain of `main`, `todo` what a loop over a `HashMap`
has left, in any order. `EndPoll` is the end of `poll_broker` and `drive_broker_session`; before
it `HearInput`, `GiveUp`, `TakeGhost` and `TakeOver` are what the messages of a tick can do to
the players as the fights see them. `Simulate` is what `simulate_and_publish` can do to them,
`AdvanceWaves`, `SpawnEnemies`, `UpdateAndCull` the next three systems; a player's turn in
`combat` is `HoldFire` or `Fire`, a projectile's in `update_projectiles` is `Expire`, `Miss` or
`Hit`. `Skip` is the early return of the systems that publish. The random angle is a side of
the lane, at its two ends 0 and pi; the y axis, the acceleration of the players and the hand-off
itself are left out: an owned player moves by any step of its speed, and is given up and taken
back whenever a message or a tick of `Handoff` could do so. `slain` and `forfeited` are history
variables.

### View

`View` extends `Combat` and gives every step of the shard what it publishes: `Updated` and
`Despawned`. Of that the client hears some in turn, some late (`late`), and some never. `Shown`
is what `network_poll` does to its maps. `doubtful` is a history variable: the things whose last
message the client has not heard, or not in turn; `Enter` puts what lives already among them.

## The runs

All take about two minutes or less on two workers.

| Run | Question | Instance |
|---|---|---|
| `handoff_pair` | Is the dummy ever simulated twice, is authority a token, is every hand-off decided, however messages are lost, delayed and reordered? | two bands of 5, margin 2, abort after 2 ticks, 3 messages in flight |
| `handoff_prompt` | On a network faster than a tick: is authority conserved, does the ghost mirror the source, is the takeover smooth, is a hand-off only completed to a ghost, is authority a token that is never lost, does it go on for ever? | two bands of 9, margin 3, abort after 3, with the spatial service |
| `handoff_world` | With alerts, a steering client, deaths, restarts and late notices of them: is no copy pending beyond its abort, is a shard heard by its neighbours until the broker notices that it has died? | two bands of 5, both shards may die, three times in all, 1 message in flight |
| `handoff_three` | violation: can only the target of a hand-off refuse it? | three bands of 9 |
| `handoff_lost_request` | violation: is a hand-off only completed to a ghost when messages may be lost? | as `handoff_prompt`, lossy |
| `broker` | Do the two records agree, does no closed connection hear anything? | three connections, two topics, one client id |
| `broker_end` | violation: does the end of one publisher leave the others' topic alone? | the same |
| `routing` | Is no client left with the snapshots of a band its entity has left, or of band 0 once the service has followed it there? | two clients, the spatial service, three bands, 4 targeted messages under way |
| `routing_move` | violation: does the Sub that ends a move subscribe the client? | the same |
| `supervision` | Is no live shard respawned and every dead one, in time? | two shards, TTL 6, period 3, heartbeats every 2, one lost in a row, a delay of 1, one death, one failed spawn, the orchestrator down once for up to 3 |
| `combat` | Are kills scored once, shots spaced, enemies capped, near players and never left dead, is the tree right about the players, and the client's screen about them all? | the left one of two shards, 4 wide and 8 high, a tree of 4 leaves; one player, one client, 2 enemies at once of 3 ever, 2 projectiles ever, 2 waves; one late message and one thing in doubt at once |
| `session` | Does everybody register, in time, on the right stream and with all it wants, whatever order things come in? | a shard, the spatial service and a client; 2 JOINs under way, one connection that breaks |

Why the bounds are enough. In the code an entity needs 22 ticks from the margin to the edge and
the abort takes 30; the instances keep that order (2 < 3 in `handoff_prompt`), and
`handoff_pair` has margin and abort such that edge, abort and answer race each other. Three
messages in flight allow one of each of two hand-offs to overtake another; the steps that are
not bounded in the code, `MaxInFlight` and `MaxDrift`, are bounded in guards and drop or delay
messages, which a lossy network may do anyway. In `handoff_prompt` `MaxInFlight` is never
reached. Three deaths let one shard die twice before the broker has noticed the first, with the
other in any state (803,338 states). Two shards are the deployment of `run_tp2.ps1`; a middle
shard needs three. For the
broker two topics make a topic's end affect another's, and three connections a publisher, a
second publisher and a subscriber. Three bands make two successive moves possible, and the two
clients a targeted message to the wrong one. `Supervision` needs two processes of one shard to
see that there is never a second one; an outage of 3 is as long as the supervisor's period and
longer than a heartbeat's. In `combat` the second shard makes the right edge of the
band a frontier and the third enemy one that is spawned after a kill; an enemy dies by one hit
or two, as the waves make it stronger, and a player by two. Two projectiles are what
spacing needs, and they may strike the same enemy. `MaxProjectileId` makes players hold their
fire and `MaxEnemyId` ends the spawning, which only cuts behaviours short; `MaxWave` keeps the
last batch size and the last health. A client's enemies and projectiles do not depend on each
other, so one in doubt at a time is enough. In `session` each kind of process occurs once, as
they meet only in the broker's topics; two JOINs under way are enough for one to come before
and one after the registration. What the instances leave open the proofs do not:
they hold for all values of the constants.

Fairness. `FairSpec` assumes that each shard goes on ticking, which the run loop does every 50 ms
and no handler blocks, and, of a `Prompt` network alone, that it delivers. A lossy network is
given no fairness, and `PendingResolves` is checked under it. The safety runs assume none.
`SessionSpec` assumes that streams are created and deliver while the connection lasts, that the
processes go on with their frames and that the broker polls: no handler of theirs waits for a
message. It asks no more than that somebody advances, somebody repeats its JOIN and somebody is
served, when it can: nobody advances for ever, so nobody is left behind; only a JOIN may be
repeated for ever, hence a condition of its own. `CHECK_DEADLOCK FALSE` stands where the system
may stop: nobody simulates the entity any more, all connections have closed, or everybody is
registered. `supervision`, `combat` and `handoff_prompt` never stop, and are checked for it.

`Prompt` deserves a word: the streams are unreliable but on one host or a local network a
message arrives within a tick of 50 ms. `handoff_prompt` says what the protocol is worth there,
and `handoff_pair` what is left of it where that is not so: authority may be lost but it is not
duplicated.

## What the violations show

* `handoff_three`: a shard's `HandoffRequest` reaches both neighbours. The one on the far side
  finds the entity away from its own frontier and rejects it, and `handle_handoff_reject` obeys
  (main.rs:545-547 gives the decision to the destination). On a lossy network the same
  instance also violates `AtMostOneOwner`: a late Reject turns a Ghost into an owner.
* `handoff_lost_request`: no Accept is needed. The edge is reached before the abort of
  main.rs:895-898 expires, so that a lost request leaves the entity without an owner.
* `broker_end`: `remove_service` suppresses the topics the service published although others
  publish them (netmessage.rs:238 speaks of what is related to the sender). All clients publish
  `Input(0)`: when one leaves, the shards no longer hear the others.
* `routing_move`: the targeted StopSub takes the client's last subscription and with it the
  stream the targeted Sub needs (spatial_service main.rs:154-156 means to move it).

One disagreement more has no run of its own, since the exception in `NoStaleView` names it:
`routing` with `n = 0 /\ entity_shard[id] = NoShard` in the place of `n = 0 /\ id \notin followed`,
that is, for every entity the service has seen, is violated. A client subscribes
itself to `Snapshot(0)` whatever band it is in, and the service ends only subscriptions it has
made (spatial_service main.rs:157-163). An entity that it first sees in band 1 gets `Sub(1)`
alone, and TLC's trace of 16 states ends with its client hearing shards 0 and 1; one that it sees
in band 0 and then in band 1 before the client's own `Sub(0)` is handled gets a `StopSub(0)` that
finds nothing to end and a `Sub(1)` that finds no stream, and hears shard 0 alone, for ever.
tp2_mmo_pubsub_spatial.md:24 and :79, and the comment at main.rs:154-156, have every client
subscribed to the shard of its position and moved with it. `NoStaleView` and its theorem say when
that cannot happen: for all other bands never, and for band 0 once the service has had the entity
there after the client's own `Sub(0)`.

Three more facts found with the same modules, of which no document says otherwise. Two
neighbours may both be deaf to each other for good, after one death of each: both are respawned
and subscribe, then the broker notices the two old connections, and `remove_service` suppresses
`Snapshot(0)` and `Snapshot(1)` with the new subscriptions. `HeardUntilNoticed` therefore promises
nothing of a shard once one of its deaths has been noticed. A shard
respawned with `SPAWN_DUMMY` owns a second dummy if the first has migrated (`AtMostOneOwner`
fails with `Crashable = {0}` and one crash in the instance of `handoff_prompt`). And with the
spatial service on a lossy network a stale alert starts a hand-off away from the frontier, whose
late Reject makes two owners. This is why `Pair`, the assumption of the theorem on
`AtMostOneOwner`, excludes both. On a prompt network no alert is stale, and `OneOwnerWhenPrompt`
allows for the spatial service.

## The proofs

`tlapm` checks every theorem; nothing is assumed but the named assumptions on the constants,
which TLC evaluates in the runs.

| Theorem | Statement |
|---|---|
| `HandoffProofs!TypeCorrect` | `Spec => []TypeOK`, any world |
| `HandoffProofs!PendingBounded` | `Spec => []PendingIsBounded`, any world |
| `HandoffProofs!OneOwner` | `Pair => (Spec => []AtMostOneOwner)` |
| `HandoffProofs!HeardUntilTheBrokerNotices` | `Spec => []HeardUntilNoticed`, any world, with deaths, returns and late notices |
| `HandoffProofs!RefinesAuthority` | `Pair => (Spec => ImplementsAuthority)` |
| `HandoffProofs!NeverLost`, `OneOwnerWhenPrompt`, `GhostIsTheImage` | `PromptPair => (Spec => []AuthorityConserved)`, `[]AtMostOneOwner`, `[]GhostMirrors` |
| `HandoffProofs!TakesOverSmoothly`, `GivenUpToAGhost` | `PromptPair => (Spec => SmoothHandover)`, `CompleteOnlyToAGhost` |
| `HandoffProofs!RefinesLosslessAuthority` | `PromptPair => (Spec => ImplementsLosslessAuthority)` |
| `TreeProofs!TreeKnowsBands` | `TreeFollowsBands <=> LeavesFitBands`, for any world and depth |
| `TreeProofs!TreeKnowsTheFrontiers` | `TreeFollowsBands => NearFollowsBands(margin)`, for any margin |
| `TreeProofs!SearchIsExact` | `LeavesFound` is `LeafFor` and `LeavesMet` is `LeavesNear`, of any point |
| `BrokerProofs!TypeCorrect`, `SubscribersAreServed` | `Spec => []TypeOK`, `Spec => []SubscribedIsServed` |
| `BrokerProofs!ServedAreSubscribers`, `TheClosedHearNothing` | if all services name one stream, `Spec => []ServedIsSubscribed`, `[]ClosedHearNothing` |
| `RoutingProofs!RoutingIsABroker`, `RoutingSparesTheClosed` | `RoutingSpec => Spec` of `Broker`; hence `[]ClosedHearNothing` |
| `RoutingProofs!RoutingTypeCorrect`, `NoViewIsStale` | `RoutingSpec => []RoutingTypeOK`, `[]NoStaleView` |
| `SupervisionProofs!TypeCorrect` | `Spec => []TypeOK` |
| `SupervisionProofs!OneProcessPerStart` | `Spec => []AtMostOneProcessPerStart` |
| `SupervisionProofs!DeadAreRespawned` | `Spec => []RespawnedInTime` |
| `CombatProofs!CombatTypes`, `EnemiesStayBounded`, `ShotsStaySpaced` | `CombatSpec => []CombatTypeOK`, `[]EnemiesAreBounded`, `[]ShotsAreSpaced` |
| `CombatProofs!EnemiesStayWithPlayers`, `KillsAreScoredOnce` | `CombatSpec => []EnemiesKeepToPlayers`, `[]EveryKillIsScoredOnce` |
| `CombatProofs!TreeAndClampAgree` | `LeavesFitBands => (CombatSpec => []TreeKnowsTheShard)` |
| `ViewProofs!ViewRunsCombat` | `ViewSpec => CombatSpec`, hence all of `CombatProofs` with a client watching |
| `ViewProofs!ViewTypes`, `ImagesStayTrue` | `ViewSpec => []ViewTypeOK`, `[]ImagesAreTrue` |
| `SessionProofs!SessionIsABroker` | `SessionSpec => Spec` of `Broker`, and with it what `BrokerProofs` says of one stream |
| `SessionProofs!SessionTypes`, `InGameAreKnown` | `SessionSpec => []SessionTypeOK`, `[]InGameIsKnown` |
| `SessionProofs!GameplayIsUnreliable`, `TheRegisteredAreServed` | `SessionSpec => []GameplayStaysUnreliable`, `[]RegisteredIsServed` |

How they go:

* **PendingBounded.** Inductive with the fact that an alert in flight names a neighbour of the
  shard it goes to: a pending copy's target comes from `PositionTarget` or from an alert.
* **OneOwner.** `AtMostOneOwner` is not inductive: a `HandoffComplete` that arrives makes an
  owner, so it has to be known that there is none when it does. `PairInv` adds that while one is
  in flight nobody simulates the entity and there is no second one (`CompleteIsTheToken`), and
  that nothing in flight can refuse a hand-off or start one from outside (`OnlyPairMessages`): a
  request is only sent from within the margin of the frontier at which both bands meet, so it is
  never rejected. That is why the theorem needs two shards and no alerts, and it is exactly what
  `handoff_three` breaks.
* **RefinesAuthority.** The token is held by the shard that simulates, in transit while a
  `HandoffComplete` is in flight, and gone otherwise; by `PairInv` each action is one step of
  it, or none.
* **NeverLost** and the other theorems under `PromptPair` rest on one invariant, `PromptInv`,
  for two shards that neither die nor are steered, with the spatial service or without it. That
  authority is conserved is not inductive: a `HandoffComplete` is worth something only to a shard
  that has a ghost by then. So a pending copy is shadowed (`Shadowed`): its request is under way,
  or the other shard has a ghost that is its image or will be with the update under way. One
  shard at a time tells the other where the entity is (`OneVoice`), hence no update is stale, and
  an alert of the spatial service always comes too late to start anything (`Ignored`): where it
  is due, the shard's own test has made the entity pending in the tick that published the
  position.
* **RefinesLosslessAuthority.** By `PromptInv` there is always a shard that simulates or a
  `HandoffComplete` in flight, so the token is never gone; all steps but `CompleteHandoff` and
  `HearComplete` leave both sets as they are or smaller, and hence the token where it is.
* **TreeKnowsBands.** By `Grid` the leaves are the cells of a regular grid, `Across[QuadDepth]` by as
  many: each level halves the one above. A recursive function over the depths is followed by
  taking the least depth that is an exception, which the well-foundedness of the numbers gives.
  So leaves are apart and cover the world, and the band of a leaf's centre is that of all of it when
  the edges of the bands are edges of leaves. Otherwise some band's edge is inside a leaf, which
  then holds positions of two bands and has one centre.
* **SearchIsExact.** A quarter lies inside its node, so what contains a point or meets a rectangle
  does so at every level above: no branch the descent leaves out has anything to find.
* **Broker.** Every action changes the two records in one of five ways (`FiveEffects`); each
  property is shown for the five. With two streams a second subscription leaves the first
  Subscriber behind, hence `OneStream`.
* **RoutingIsABroker.** A step of `Routing` is a step of the broker on its own variables, or
  leaves them alone.
* **OneProcessPerStart.** For a process whose shard has been seen, either the time since then
  and the time to its next heartbeat fit into `FirstBeat` and the heartbeats lost, or that
  heartbeat is under way and they fit into one more (`Punctual`); `TtlIsLongEnough` then
  leaves no room for the supervisor's test. Each process is accounted for by a start of the
  orchestrator (`Accounted`).
* **DeadAreRespawned.** A heartbeat under way of a shard that is down is at least as old as
  the time it has been down, and a shard that is down and seen has been so for no longer than
  the failed spawns, the outage and the time since account for (`SeenWhenDown`). While the
  orchestrator is down both sides of the bound grow alike, and its first tick is at once.

* **NoViewIsStale.** Of a band its entity has left a client hears nothing and no Sub for it is
  under way, or a StopSub is, with no Sub behind it (`LeftOK`): the spatial service sends it when
  the entity leaves. The client itself asks for the first band alone (`ClientsAsk`), so that for
  this band the same holds only of those that have been `followed`: they have sent their last
  message, and it has been handled (`FollowedOK`). When nothing is under way, nothing is heard.
* **HeardUntilTheBrokerNotices.** A living shard is subscribed to a neighbour's topic from its
  start; only `RemoveService` takes that away, for its own connection, which is no dead one's, or
  for one of the neighbour's, which is then noticed. Which connection is whose is what
  `incarnation` keeps apart (`TypeOK`: only the dead are `unnoticed`).
* **ShotsStaySpaced.** A projectile and the cooldown of its owner start together and are counted
  down in different systems, of which the second may be skipped. The invariant bounds the
  cooldown a player has left by the age of each of its projectiles in flight (`Young`), in a form
  for either side of its turn in the loop of `combat` (`Waiting`), and a new shot is only fired
  at a cooldown of zero.
* **ImagesStayTrue.** Of a thing not in doubt the screen is right between two ticks; within one,
  an update or a despawn is still to come (`Pending`): an enemy is spawned two systems before it
  is first published, and a projectile in the system before. `LivesShown` allows for what is
  pending, `ShownLives` for nothing, and at the end of a tick nothing is.
* **TheRegisteredAreServed.** Each message of a registration is under way, or done, or undone by
  the loss of a publisher of its topic (`ServedOK`). None of it comes too early, as who has been
  welcomed has been admitted (`AdmittedOK`), and all of it names the gameplay stream, as nobody
  registers without both streams (`QueuesOK`): the broker's `unwrap_or` never falls back.
* **EnemiesStayWithPlayers.** `UpdateAndCull` keeps the enemies that have their prey in their leaf and
  moves them a step towards it. Leaves are intervals of the lane and apart, so the step ends in the
  leaf of the prey or less than a step past it; the fights that follow move nobody.
* **TreeAndClampAgree.** The clamp keeps an owned player in the closed band; by the facts behind
  `TreeKnowsBands` the tree gives all of it but the right edge to the shard, and that edge to the
  next, or to nobody where the world ends.
* **KillsAreScoredOnce.** That the scores add up is not inductive: a projectile that strikes twice, or
  strikes what is no longer there, would score again. `ScoresAddUp` adds that the slain are none of
  the living and that scores are numbers. The sum over the players is a fold in an arbitrary
  order; that it does not depend on it is shown for the only changes there are, of one player's
  score, one more player and one less.

Only model-checked: liveness (`PendingResolves`, `KeepsMigrating`, `EverybodyRegisters`), which is
out of the prover's reach. All other properties of the runs that pass are theorems.

## Not modelled, and what is left

* The gatekeeper is stateless (a fresh id and the broker's address for any login) and Redis is
  written and never read; the byte encodings and the logs have no state.
* `forced_create_topic` and `forced_subscribe` of the broker are not called, ForcedPub and
  ForcedSub are never sent, so the shard's handlers of them never run; the broker never sends a
  REJECT, so no client is ever `Rejected`; `InputMessage` is a ring nobody uses.
* Of the client the login screen, the drawing, the players on the screen and the statistics are
  left out. Players are never removed from the screen, so there is nothing their image could
  agree with; the statistics are right again with the next message.
* A client that hears two shards at once confuses their enemies and projectiles, which every
  shard numbers from 1; `View` has one shard.
* `Combat` leaves out the y axis, and so the ring on which enemies are spawned around a player.
* `hp`, `score` and cooldowns are not part of a hand-off. `Combat` keeps those of a copy for
  its next visit, as the code does, and joins them with no other shard's.
* A shard that has lost the broker goes on with its heartbeats, so the orchestrator leaves it as
  it is; `Session` and `Supervision` say as much apart and are not composed.

What would add most from here: a composition of `Session` with `Routing`, in which a client's
registration and the targeted messages meet the loss of the spatial service.
