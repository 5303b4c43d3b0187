--------------------------------- MODULE View ---------------------------------
(***************************************************************************)
(* What a client shows of a shard's enemies and projectiles: the maps of   *)
(* its WorldView, fed by the updates and despawns that the shard publishes *)
(* on Snapshot(ShardId) while it runs the systems of Combat.  Everything   *)
(* travels on unreliable streams: any message may be lost, or come late,   *)
(* after others that were sent after it.                                   *)
(***************************************************************************)
EXTENDS Combat

CONSTANTS
    MaxLate,    \* bound: the late messages on their way at once
    MaxDoubt    \* bound: the things in doubt at once

ASSUME ViewBounds == MaxLate \in Nat /\ MaxDoubt \in Nat

VARIABLES
    client,    \* "away" until it is subscribed, "in" the game, "gone" for good
    screen,    \* the enemies and the projectiles in its WorldView
    late,      \* the messages to it that others have overtaken
    doubtful   \* the things whose last message it has not had, or not in turn

clientVars == <<client, screen, late, doubtful>>
viewVars == <<combatVars, clientVars>>

Enemy(e) == [kind |-> "enemy", id |-> e]
Projectile(i) == [kind |-> "projectile", id |-> i]

EnemiesLive == {Enemy(e) : e \in DOMAIN enemies}
ProjectilesLive == {Projectile(i) : i \in DOMAIN projectiles}
Live == EnemiesLive \cup ProjectilesLive

ViewInit ==
    /\ Init
    /\ client = "away" /\ screen = {} /\ late = {} /\ doubtful = {}

-----------------------------------------------------------------------------
(* What a step of the shard publishes. *)

\* publish_enemy_update for every enemy that survives the cull, and
\* publish_projectile_update for every projectile that flies on.
Updated ==
    IF phase = "cull" /\ Online THEN EnemiesLive'
    ELSE IF phase = "projectiles" /\ Online THEN {Projectile(i) : i \in (todo \ todo') \ dead'}
    ELSE {}

\* Mutant: the despawn of a killed enemy is forgotten.
DespawnedByCull ==
    (IF phase = "cull" THEN EnemiesLive \ EnemiesLive' ELSE {}) \cup (ProjectilesLive \ ProjectilesLive')

\* publish_enemy_despawn for an enemy that is culled or killed, and
\* publish_projectile_despawn for the dead when the flight is over.
Despawned == Live \ Live'

Updates(things) == {[says |-> "update", of |-> t] : t \in things}
Despawns(things) == {[says |-> "despawn", of |-> t] : t \in things}
Of(ms) == {m.of : m \in ms}

-----------------------------------------------------------------------------
(* network_poll of the client. *)

\* A message inserts what it is an update of, whatever was known of it, and
\* removes what it is the despawn of.
Shown(shown, ms) ==
    (shown \cup Of({m \in ms : m.says = "update"})) \ Of({m \in ms : m.says = "despawn"})

\* The client is sent the messages ms, and hears some of them in their turn.
Hear(ms) ==
    \E heard \in SUBSET ms, delayed \in SUBSET ms :
        /\ heard \cap delayed = {}
        /\ Cardinality(late \cup delayed) <= MaxLate
        /\ screen' = Shown(screen, heard)
        /\ late' = late \cup delayed
        /\ doubtful' = (doubtful \ (Of(heard) \ Of(late))) \cup Of(ms \ heard)
        /\ Cardinality(doubtful') <= MaxDoubt
        /\ UNCHANGED client

\* A step of the shard, with what the client makes of its publications.
ShardTurn ==
    /\ Turn
    /\ IF client = "in" THEN Hear(Updates(Updated) \cup Despawns(Despawned))
       ELSE UNCHANGED clientVars

ShardReceive == Receive /\ UNCHANGED clientVars

HearLate(m) ==
    /\ m \in late
    /\ screen' = Shown(screen, {m})
    /\ late' = late \ {m}
    /\ UNCHANGED <<client, doubtful, combatVars>>

\* The broker welcomes the client and takes its subscription.
Enter ==
    /\ client = "away" /\ Cardinality(Live) <= MaxDoubt
    /\ client' = "in" /\ doubtful' = Live
    /\ UNCHANGED <<screen, late, combatVars>>

\* Mutant: the view stays on the screen.
LeaveShowing ==
    /\ client = "in"
    /\ client' = "gone" /\ late' = {} /\ doubtful' = {}
    /\ UNCHANGED <<screen, combatVars>>

\* Disconnected clears the view; the client does not come back.
Leave ==
    /\ client = "in"
    /\ client' = "gone" /\ screen' = {} /\ late' = {} /\ doubtful' = {}
    /\ UNCHANGED combatVars

ViewNext ==
    \/ ShardTurn
    \/ ShardReceive
    \/ \E m \in late : HearLate(m)
    \/ Enter
    \/ Leave

ViewSpec == ViewInit /\ [][ViewNext]_viewVars

-----------------------------------------------------------------------------
(* Properties. *)

Things == {Enemy(e) : e \in 1 .. next_enemy - 1} \cup {Projectile(i) : i \in 1 .. next_projectile - 1}

\* The variables have their types, and what a late message is about is in
\* doubt until the client has left.
ViewTypeOK ==
    /\ client \in {"away", "in", "gone"}
    /\ screen \cup doubtful \subseteq Things
    /\ late \subseteq Updates(Things) \cup Despawns(Things)
    /\ Of(late) \subseteq doubtful
    /\ client # "in" => screen \cup doubtful \cup late = {}

\* Between two ticks the client shows what lives on the shard and nothing
\* else, save for the things whose last message was lost or came late, and
\* those it has had no message of since it came: the one message after which
\* there is no other, a despawn, is the one whose loss is never made good.
ImagesAreTrue ==
    (client = "in" /\ phase = "poll" /\ Online) =>
        \A t \in Things \ doubtful : t \in screen <=> t \in Live

=============================================================================
