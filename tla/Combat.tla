-------------------------------- MODULE Combat --------------------------------
(***************************************************************************)
(* Enemies, waves, fights and projectiles of one dedicated server: the     *)
(* systems it runs one after the other on every 20 Hz tick.  "phase" is    *)
(* the system that runs next; "todo" is what a loop over the keys of a     *)
(* HashMap has left, in any order.                                         *)
(*                                                                         *)
(* Everything happens on one lane of the world, along x.  Which shard has  *)
(* authority over a player is the business of Handoff: here a player is    *)
(* owned or not, and may change from one to the other whenever a message   *)
(* or a tick of that protocol can make it.                                 *)
(***************************************************************************)
EXTENDS QuadTree, FiniteSets, FiniteSetsExt, Functions

CONSTANTS
    ShardId,             \* this server's band of the world
    Lane,                \* the y of everybody
    Players,             \* the ids of the clients
    Dummies,             \* the players inserted at start-up if SPAWN_DUMMY is set
    Drift,               \* how far outside the band a hand-off may leave a player
    PlayerSpeed, EnemySpeed, ProjectileSpeed,
    PlayerMaxHp, EnemyBaseHp, ContactDamage, AttackDamage,
    SpawnInterval, SpawnBatch, MaxEnemies, EnemySpawnRadius,
    LeastSpawnRadius,    \* the 8.0 of spawn_enemies
    WaveInterval,
    ContactRange, AttackRange, HitRadius,
    DamageCooldown, AttackCooldown, ProjectileTtl,
    MaxWave,             \* bound: the waves counted
    MaxEnemyId,          \* bound: the enemies ever spawned
    MaxProjectileId      \* bound: the projectiles ever fired

ASSUME PlaceAssumption ==
    ShardId \in 0 .. ShardCount - 1 /\ Lane \in 0 .. WorldHeight - 1 /\ Drift \in Nat
ASSUME PlayersAssumption == IsFiniteSet(Players) /\ Dummies \subseteq Players
ASSUME FightAssumption ==
    /\ {PlayerSpeed, EnemySpeed, ProjectileSpeed, MaxEnemies, EnemySpawnRadius,
        LeastSpawnRadius, ContactRange, AttackRange, HitRadius, SpawnBatch} \subseteq Nat
    /\ {PlayerMaxHp, EnemyBaseHp, ContactDamage, AttackDamage, SpawnInterval,
        WaveInterval, DamageCooldown, AttackCooldown, ProjectileTtl} \subseteq Nat \ {0}
ASSUME CombatBounds == {MaxWave, MaxEnemyId, MaxProjectileId} \subseteq Nat

VARIABLES
    phase,             \* the system of the tick that runs next
    session,           \* "starting", "registered" with the broker, or "lost"
    players,           \* PlayerRegistry, by the id of a player
    enemies,           \* EnemyRegistry, by the id of an enemy
    next_enemy,        \* its next_id
    spawn_clock,       \* its clock
    projectiles,       \* ProjectileRegistry
    next_projectile,   \* its next_id
    wave, wave_clock,  \* GameState
    todo,              \* the keys the current loop has not come to
    dead,              \* the projectiles the current loop has found finished
    slain,             \* history: the enemies that were killed
    forfeited          \* history: the score lost by players that died

fight == <<enemies, projectiles, next_projectile>>
clocks == <<next_enemy, spawn_clock, wave, wave_clock>>
loop == <<todo, dead>>
tally == <<slain, forfeited>>
combatVars == <<phase, session, players, fight, clocks, loop, tally>>

-----------------------------------------------------------------------------
Left == ShardId * ShardWidth
Right == Left + ShardWidth
At(x) == Point(x, Lane)

Distance(x, y) == IF x < y THEN y - x ELSE x - y
Toward(x, y) == IF x < y THEN 1 ELSE IF x > y THEN -1 ELSE 0
Clamp(x, low, high) == IF x < low THEN low ELSE IF x > high THEN high ELSE x
Less(n) == IF n = 0 THEN 0 ELSE n - 1          \* saturating_sub(1)

\* In the registry and its authority is Owned.
Owned == {p \in DOMAIN players : players[p].owned}

\* connection, unreliable_stream and registered: what every system that
\* publishes asks for.
Online == session = "registered"

Fresh(x) == [owned |-> TRUE, pos |-> x, hp |-> PlayerMaxHp, score |-> 0,
             attack_cd |-> 0, damage_cd |-> 0]
SpawnPoint == Left + ShardWidth \div 2

Init ==
    /\ phase = "poll" /\ session = "starting"
    /\ \E ps \in {{}, Dummies} : players = [p \in ps |-> Fresh(SpawnPoint)]
    /\ enemies = << >> /\ next_enemy = 1 /\ spawn_clock = 0
    /\ projectiles = << >> /\ next_projectile = 1
    /\ wave = 0 /\ wave_clock = 0
    /\ todo = {} /\ dead = {}
    /\ slain = {} /\ forfeited = 0

-----------------------------------------------------------------------------
(* poll_broker and drive_broker_session. *)

\* Nothing here asks where a player is that this shard does not own: it is
\* given a place when the hand-off leaves it to this shard.
GivenUp(q) == [q EXCEPT !.owned = FALSE, !.pos = SpawnPoint]

\* ensure_player; the velocity it sets is chosen when the player moves.
HearInput(p) ==
    /\ phase = "poll" /\ Online
    /\ p \notin DOMAIN players
    /\ players' = [q \in DOMAIN players \cup {p} |->
                     IF q = p THEN Fresh(SpawnPoint) ELSE players[q]]
    /\ UNCHANGED <<phase, session, fight, clocks, loop, tally>>

\* A crossing alert makes a player pending.
GiveUp(p) ==
    /\ phase = "poll" /\ Online
    /\ p \in Owned
    /\ players' = [players EXCEPT ![p] = GivenUp(@)]
    /\ UNCHANGED <<phase, session, fight, clocks, loop, tally>>

Reach == Left - Drift .. Right + Drift

TakenBack(q, x) == [q EXCEPT !.owned = TRUE, !.pos = x]

\* A HandoffReject or a HandoffComplete makes a copy this shard holds owned,
\* where the hand-off has left it; its health and score are what they were.
TakeOver(p, x) ==
    /\ phase = "poll" /\ Online
    /\ p \in DOMAIN players \ Owned
    /\ players' = [players EXCEPT ![p] = TakenBack(@, x)]
    /\ UNCHANGED <<phase, session, fight, clocks, loop, tally>>

\* A HandoffRequest for an unknown player inserts a ghost of it.
TakeGhost(p) ==
    /\ phase = "poll" /\ Online
    /\ p \notin DOMAIN players
    /\ players' = [q \in DOMAIN players \cup {p} |->
                     IF q = p THEN GivenUp(Fresh(SpawnPoint)) ELSE players[q]]
    /\ UNCHANGED <<phase, session, fight, clocks, loop, tally>>

Progress == [starting |-> {"starting", "registered", "lost"},
             registered |-> {"registered", "lost"}, lost |-> {"lost"}]

\* Nothing ever connects again.
EndPoll ==
    /\ phase = "poll"
    /\ session' \in Progress[session]
    /\ phase' = "simulate"
    /\ UNCHANGED <<players, fight, clocks, loop, tally>>

\* simulate_and_publish, for what the other systems see of it: the owned
\* players move within the band, and may be given up there; the abort of a
\* hand-off takes a player back.
Moved(q, x) == [q EXCEPT !.pos = Clamp(x, Left, Right)]

Simulate ==
    /\ phase = "simulate" /\ Online
    /\ \E to \in [DOMAIN players -> Reach], mine \in SUBSET DOMAIN players :
          /\ \A p \in Owned : Distance(to[p], players[p].pos) <= PlayerSpeed
          /\ players' = [p \in DOMAIN players |->
                IF p \notin mine THEN GivenUp(players[p])
                ELSE IF p \in Owned THEN Moved(players[p], to[p])
                ELSE TakenBack(players[p], to[p])]
    /\ phase' = "waves"
    /\ UNCHANGED <<session, fight, clocks, loop, tally>>

-----------------------------------------------------------------------------
AdvanceWaves ==
    /\ phase = "waves"
    /\ IF wave_clock + 1 >= WaveInterval
       THEN wave_clock' = 0 /\ wave' = Min({wave + 1, MaxWave})
       ELSE wave_clock' = wave_clock + 1 /\ UNCHANGED wave
    /\ phase' = "spawn"
    /\ UNCHANGED <<session, players, fight, next_enemy, spawn_clock, loop, tally>>

-----------------------------------------------------------------------------
(* spawn_enemies: it does not ask whether the shard is registered. *)

SpawnRadius(leaf) ==
    LET side == Min({leaf.max.x - leaf.min.x, leaf.max.y - leaf.min.y})
    IN  Max({LeastSpawnRadius, Min({EnemySpawnRadius, (9 * side) \div 20})})

\* Mutant: a batch does not stop at the cap.
BatchUncapped == Min({SpawnBatch + wave, MaxEnemyId + 1 - next_enemy})

Batch ==
    Min({SpawnBatch + wave, MaxEnemies - Cardinality(DOMAIN enemies),
         MaxEnemyId + 1 - next_enemy})

NewEnemies == next_enemy .. next_enemy + Batch - 1

Spawned(x, leaf, side) ==
    [pos |-> Clamp(x + side * SpawnRadius(leaf), leaf.min.x, leaf.max.x),
     hp |-> EnemyBaseHp + wave \div 2]

\* The first owned player the registry yields is the target, and there is
\* nothing to spawn when it is in no leaf.
SpawnAround(p) ==
    \E side \in [NewEnemies -> {-1, 1}] :
        \E leaf \in LeafFor(At(players[p].pos)) :
            /\ enemies' = [e \in DOMAIN enemies \cup NewEnemies |->
                    IF e \in NewEnemies THEN Spawned(players[p].pos, leaf, side[e])
                    ELSE enemies[e]]
            /\ next_enemy' = next_enemy + Batch

SpawnNothing == UNCHANGED <<enemies, next_enemy>>

SpawnEnemies ==
    /\ phase = "spawn"
    /\ IF spawn_clock + 1 < SpawnInterval
       THEN spawn_clock' = spawn_clock + 1 /\ SpawnNothing
       ELSE /\ spawn_clock' = 0
            /\ IF Cardinality(DOMAIN enemies) >= MaxEnemies \/ Owned = {}
               THEN SpawnNothing
               ELSE \E p \in Owned :
                       IF LeafFor(At(players[p].pos)) = {} THEN SpawnNothing ELSE SpawnAround(p)
    /\ phase' = "cull"
    /\ UNCHANGED <<session, players, projectiles, next_projectile, wave, wave_clock, loop, tally>>

-----------------------------------------------------------------------------
(* update_and_cull_enemies *)

Nearest(x) ==
    {p \in Owned : \A q \in Owned : Distance(x, players[p].pos) <= Distance(x, players[q].pos)}

\* Mutant: an enemy follows its prey into another leaf.
FollowsAnywhere(e, p) == Owned # {}

Follows(e, p) == Owned # {} /\ SameLeaf(At(enemies[e].pos), At(players[p].pos))

\* It may step past its prey.
Chasing(e, p) ==
    [enemies[e] EXCEPT !.pos = @ + Toward(@, players[p].pos) * EnemySpeed]

UpdateAndCull ==
    /\ phase = "cull" /\ Online
    /\ \E prey \in [DOMAIN enemies -> Players] :
          /\ Owned # {} => \A e \in DOMAIN enemies : prey[e] \in Nearest(enemies[e].pos)
          /\ enemies' = [e \in {f \in DOMAIN enemies : Follows(f, prey[f])} |-> Chasing(e, prey[e])]
    /\ phase' = "combat" /\ todo' = Owned
    /\ UNCHANGED <<session, players, projectiles, next_projectile, clocks, dead, tally>>

-----------------------------------------------------------------------------
(* combat *)

Within(range, x) == {e \in DOMAIN enemies : Distance(enemies[e].pos, x) <= range}

Closest(x) ==
    {e \in Within(AttackRange, x) :
        \A f \in DOMAIN enemies : Distance(enemies[e].pos, x) <= Distance(enemies[f].pos, x)}

\* Mutant: a shot does not start the cooldown.
LoadedAfterShot == 0

LoadedAfter == AttackCooldown

\* The bound MaxProjectileId makes players hold their fire.
Shoots(q) == Less(q.attack_cd) = 0 /\ Closest(q.pos) # {} /\ next_projectile <= MaxProjectileId

Touched(q) == Less(q.damage_cd) = 0 /\ Within(ContactRange, q.pos) # {}

Respawned(q) == [q EXCEPT !.hp = PlayerMaxHp, !.score = 0]

Hurt(q) == [q EXCEPT !.hp = @ - ContactDamage, !.damage_cd = DamageCooldown]

\* Mutant: a player at zero health goes on.
DiesBelowZero(q) == Touched(q) /\ q.hp < ContactDamage

Dies(q) == Touched(q) /\ q.hp <= ContactDamage

\* The player after its turn, "loaded" being its attack cooldown.
Fought(q, loaded) ==
    LET cooled == [q EXCEPT !.attack_cd = loaded, !.damage_cd = Less(@)]
    IN  IF Dies(q) THEN Respawned(Hurt(cooled))
        ELSE IF Touched(q) THEN Hurt(cooled)
        ELSE cooled

TakeTurn(p, loaded) ==
    /\ players' = [players EXCEPT ![p] = Fought(@, loaded)]
    /\ forfeited' = forfeited + (IF Dies(players[p]) THEN players[p].score ELSE 0)
    /\ todo' = todo \ {p}
    /\ UNCHANGED <<phase, session, enemies, clocks, dead, slain>>

HoldFire(p) ==
    /\ phase = "combat" /\ p \in todo
    /\ ~Shoots(players[p])
    /\ TakeTurn(p, Less(players[p].attack_cd))
    /\ UNCHANGED <<projectiles, next_projectile>>

Shot(p, dir) == [pos |-> players[p].pos, dir |-> dir, owner |-> p, ttl |-> ProjectileTtl]

\* At an enemy it stands on a player fires nothing, and must reload.
Fire(p) ==
    /\ phase = "combat" /\ p \in todo
    /\ Shoots(players[p])
    /\ TakeTurn(p, LoadedAfter)
    /\ \E e \in Closest(players[p].pos) :
          LET dir == Toward(players[p].pos, enemies[e].pos)
          IN  IF dir = 0 THEN UNCHANGED <<projectiles, next_projectile>>
              ELSE /\ projectiles' = [i \in DOMAIN projectiles \cup {next_projectile} |->
                          IF i = next_projectile THEN Shot(p, dir) ELSE projectiles[i]]
                   /\ next_projectile' = next_projectile + 1

EndCombat ==
    /\ phase = "combat" /\ Online /\ todo = {}
    /\ phase' = "projectiles" /\ todo' = DOMAIN projectiles
    /\ UNCHANGED <<session, players, fight, clocks, dead, tally>>

-----------------------------------------------------------------------------
(* update_projectiles *)

Flown(shot) == [shot EXCEPT !.pos = @ + shot.dir * ProjectileSpeed, !.ttl = Less(@)]

InArena(x) == 0 <= x /\ x <= ShardCount * ShardWidth

Spent(shot) == shot.ttl = 0 \/ ~InArena(shot.pos)

FlyTo(i) ==
    /\ phase = "projectiles" /\ i \in todo
    /\ projectiles' = [projectiles EXCEPT ![i] = Flown(@)]
    /\ todo' = todo \ {i}
    /\ UNCHANGED <<phase, session, next_projectile, clocks, forfeited>>

\* Out of time or of the world.
Expire(i) ==
    /\ FlyTo(i)
    /\ Spent(Flown(projectiles[i]))
    /\ dead' = dead \cup {i}
    /\ UNCHANGED <<players, enemies, slain>>

Miss(i) ==
    /\ FlyTo(i)
    /\ ~Spent(Flown(projectiles[i]))
    /\ Within(HitRadius, Flown(projectiles[i]).pos) = {}
    /\ UNCHANGED <<players, enemies, dead, slain>>

Weakened(e) == [enemies EXCEPT ![e].hp = @ - AttackDamage]

\* Mutant: a killed enemy stays for the other projectiles to hit.
StillThere(e) == Weakened(e)

Without(e) == Restrict(enemies, DOMAIN enemies \ {e})

\* The first enemy found within the radius, and the owner's score if it was
\* killed: the owner need not be owned any more.
Hit(i, e) ==
    /\ FlyTo(i)
    /\ ~Spent(Flown(projectiles[i]))
    /\ e \in Within(HitRadius, Flown(projectiles[i]).pos)
    /\ dead' = dead \cup {i}
    /\ IF enemies[e].hp <= AttackDamage
       THEN /\ enemies' = Without(e)
            /\ slain' = slain \cup {e}
            /\ players' = [players EXCEPT ![projectiles[i].owner].score = @ + 1]
       ELSE enemies' = Weakened(e) /\ UNCHANGED <<players, slain>>

EndFlight ==
    /\ phase = "projectiles" /\ Online /\ todo = {}
    /\ projectiles' = Restrict(projectiles, DOMAIN projectiles \ dead)
    /\ phase' = "poll" /\ dead' = {}
    /\ UNCHANGED <<session, players, enemies, next_projectile, clocks, todo, tally>>

-----------------------------------------------------------------------------
(* The systems that return at once while the shard is not registered. *)
Following == [simulate |-> "waves", cull |-> "combat", combat |-> "projectiles",
              projectiles |-> "poll"]

Skip ==
    /\ ~Online
    /\ phase \in DOMAIN Following
    /\ phase' = Following[phase]
    /\ UNCHANGED <<session, players, fight, clocks, loop, tally>>

Turn ==
    \/ EndPoll \/ Simulate \/ AdvanceWaves \/ SpawnEnemies \/ UpdateAndCull
    \/ \E p \in todo : HoldFire(p) \/ Fire(p)
    \/ EndCombat
    \/ \E i \in todo : Expire(i) \/ Miss(i) \/ \E e \in DOMAIN enemies : Hit(i, e)
    \/ EndFlight
    \/ Skip

Receive ==
    \E p \in Players :
        \/ HearInput(p)
        \/ GiveUp(p)
        \/ TakeGhost(p)
        \/ \E x \in Reach : TakeOver(p, x)

Next == Turn \/ Receive

CombatSpec == Init /\ [][Next]_combatVars

-----------------------------------------------------------------------------
(* Properties. *)

Phases == {"poll", "simulate", "waves", "spawn", "cull", "combat", "projectiles"}

PlayerStates == [owned : BOOLEAN, pos : Reach, hp : 1 .. PlayerMaxHp, score : Nat,
                 attack_cd : 0 .. AttackCooldown, damage_cd : 0 .. DamageCooldown]

\* The variables have their types: nobody alive is at zero health, a fight
\* leaves no player and no enemy dead in a registry, and what a loop has left
\* is still there.
CombatTypeOK ==
    /\ phase \in Phases /\ session \in DOMAIN Progress
    /\ DOMAIN players \subseteq Players
    /\ \A p \in DOMAIN players : players[p] \in PlayerStates
    /\ DOMAIN enemies \subseteq 1 .. next_enemy - 1
    /\ \A e \in DOMAIN enemies :
          /\ enemies[e] = [pos |-> enemies[e].pos, hp |-> enemies[e].hp]
          /\ enemies[e].hp \in 1 .. EnemyBaseHp + MaxWave
    /\ DOMAIN projectiles \subseteq 1 .. next_projectile - 1
    /\ \A i \in DOMAIN projectiles : projectiles[i] \in
          [pos : Int, dir : {-1, 1}, owner : DOMAIN players, ttl : 0 .. ProjectileTtl]
    /\ next_enemy \in 1 .. MaxEnemyId + 1 /\ next_projectile \in 1 .. MaxProjectileId + 1
    /\ spawn_clock \in 0 .. SpawnInterval /\ wave_clock \in 0 .. WaveInterval
    /\ wave \in 0 .. MaxWave
    /\ phase = "combat" => todo \subseteq Owned
    /\ phase = "projectiles" => todo \cup dead \subseteq DOMAIN projectiles
    /\ slain \subseteq 1 .. next_enemy - 1 /\ forfeited \in Nat

\* The registry of enemies does not outgrow its cap, however many waves pass
\* while the shard is offline and nothing culls them.
EnemiesAreBounded == Cardinality(DOMAIN enemies) <= MaxEnemies

\* Every kill is one point for one player, whichever projectiles struck last
\* and whoever has authority over their owner by then: the scores of the
\* players and what the dead among them have lost add up to the kills.
EveryKillIsScoredOnce ==
    MapThenSumSet(LAMBDA p : players[p].score, DOMAIN players) + forfeited = Cardinality(slain)

\* What a projectile has left to live once this tick's flight is over.
TtlLeft(i) ==
    IF phase = "projectiles" /\ i \in todo THEN Less(projectiles[i].ttl) ELSE projectiles[i].ttl

\* A player's shots are at least a cooldown apart, through deaths, hand-offs
\* and a lost session: two of its projectiles in flight tell by their age.
ShotsAreSpaced ==
    \A i, j \in DOMAIN projectiles :
        (i < j /\ projectiles[i].owner = projectiles[j].owner)
            => TtlLeft(i) + AttackCooldown <= TtlLeft(j)

\* After the cull of a registered shard every enemy is near prey: in the leaf
\* of an owned player, or a step past one.  Nobody to chase, no enemies.
EnemiesKeepToPlayers ==
    phase = "combat" /\ Online =>
        \A e \in DOMAIN enemies : \E p \in Owned :
            \/ SameLeaf(At(enemies[e].pos), At(players[p].pos))
            \/ Distance(enemies[e].pos, players[p].pos) <= EnemySpeed

\* The quadtree, which knows a leaf by its centre, and the clamp of the
\* simulation, which knows the band, agree whose an owned player is; on the
\* right edge the tree says the next shard, and no shard at the world's end.
TreeKnowsTheShard ==
    phase \in {"waves", "spawn", "cull"} =>
        \A p \in Owned :
            LET x == players[p].pos
            IN  /\ Left <= x /\ x < Right => ShardFor(At(x)) = {ShardId}
                /\ x = Right => ShardFor(At(x)) = {ShardId + 1} \cap 0 .. ShardCount - 1

=============================================================================
