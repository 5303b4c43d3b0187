----------------------------- MODULE CombatProofs -----------------------------
(***************************************************************************)
(* Theorems about Combat, for any players, speeds, ranges, cooldowns and   *)
(* bounds; the quadtree is known by the theorems of TreeProofs.            *)
(***************************************************************************)
EXTENDS Combat, TreeProofs, FiniteSetTheorems

-----------------------------------------------------------------------------
(* The parts of CombatTypeOK. *)

PlayersOK ==
    /\ DOMAIN players \subseteq Players
    /\ \A p \in DOMAIN players : players[p] \in PlayerStates

EnemiesOK ==
    /\ next_enemy \in 1 .. MaxEnemyId + 1
    /\ DOMAIN enemies \subseteq 1 .. next_enemy - 1
    /\ \A e \in DOMAIN enemies :
          /\ enemies[e] = [pos |-> enemies[e].pos, hp |-> enemies[e].hp]
          /\ enemies[e].hp \in 1 .. EnemyBaseHp + MaxWave
    /\ slain \subseteq 1 .. next_enemy - 1

ProjectileStates ==
    [pos : Int, dir : {-1, 1}, owner : DOMAIN players, ttl : 0 .. ProjectileTtl]

ProjectilesOK ==
    /\ next_projectile \in 1 .. MaxProjectileId + 1
    /\ DOMAIN projectiles \subseteq 1 .. next_projectile - 1
    /\ \A i \in DOMAIN projectiles : projectiles[i] \in ProjectileStates

ClocksOK ==
    /\ phase \in Phases /\ session \in DOMAIN Progress
    /\ spawn_clock \in 0 .. SpawnInterval /\ wave_clock \in 0 .. WaveInterval
    /\ wave \in 0 .. MaxWave
    /\ forfeited \in Nat

\* What a loop has left is there, and outside the loops nothing is left.
LoopsOK ==
    /\ phase = "combat" => todo \subseteq Owned
    /\ phase = "projectiles" => todo \cup dead \subseteq DOMAIN projectiles
    /\ phase \notin {"combat", "projectiles"} => todo = {}
    /\ phase # "projectiles" => dead = {}
    /\ ~Online => todo = {} /\ dead = {}

CombatInv == PlayersOK /\ EnemiesOK /\ ProjectilesOK /\ ClocksOK /\ LoopsOK

LEMMA InvIsTyped == CombatInv => CombatTypeOK
BY DEF CombatInv, PlayersOK, EnemiesOK, ProjectilesOK, ProjectileStates, ClocksOK, LoopsOK, CombatTypeOK

LEMMA Constants ==
    /\ PlayerMaxHp \in Nat \ {0} /\ EnemyBaseHp \in Nat \ {0} /\ ContactDamage \in Nat \ {0}
    /\ AttackDamage \in Nat \ {0} /\ SpawnInterval \in Nat \ {0} /\ WaveInterval \in Nat \ {0}
    /\ DamageCooldown \in Nat \ {0} /\ AttackCooldown \in Nat \ {0} /\ ProjectileTtl \in Nat \ {0}
    /\ ProjectileSpeed \in Nat /\ MaxEnemies \in Nat /\ SpawnBatch \in Nat
    /\ MaxWave \in Nat /\ MaxEnemyId \in Nat /\ MaxProjectileId \in Nat
    /\ Left \in Nat /\ Right \in Nat /\ Left <= Right /\ Drift \in Nat
<1>1. ShardId \in Nat /\ ShardWidth \in Nat
  BY PlaceAssumption, TreeAssumption
<1>2. ShardId * ShardWidth \in Nat
  BY <1>1
<1> QED
  BY <1>1, <1>2, PlaceAssumption, FightAssumption, CombatBounds DEF Left, Right

LEMMA Least ==
    /\ \A a, b \in Int : Min({a, b}) \in {a, b} /\ Min({a, b}) <= a /\ Min({a, b}) <= b
    /\ \A a, b, c \in Int :
          /\ Min({a, b, c}) \in {a, b, c}
          /\ Min({a, b, c}) <= a /\ Min({a, b, c}) <= b /\ Min({a, b, c}) <= c
<1>1. ASSUME NEW a \in Int, NEW b \in Int
      PROVE  Min({a, b}) \in {a, b} /\ Min({a, b}) <= a /\ Min({a, b}) <= b
  <2>1. \E x \in {a, b} : \A y \in {a, b} : x <= y
    OBVIOUS
  <2> QED
    BY <2>1 DEF Min
<1>2. ASSUME NEW a \in Int, NEW b \in Int, NEW c \in Int
      PROVE  /\ Min({a, b, c}) \in {a, b, c}
             /\ Min({a, b, c}) <= a /\ Min({a, b, c}) <= b /\ Min({a, b, c}) <= c
  <2>1. \E x \in {a, b, c} : \A y \in {a, b, c} : x <= y
    OBVIOUS
  <2> QED
    BY <2>1 DEF Min
<1> QED
  BY <1>1, <1>2

-----------------------------------------------------------------------------
(* What happens to a player, an enemy and a projectile. *)

LEMMA FreshType == ASSUME NEW x \in Reach PROVE Fresh(x) \in PlayerStates
BY Constants DEF Fresh, PlayerStates

LEMMA SpawnPointType == SpawnPoint \in Reach
BY Constants, TreeAssumption DEF SpawnPoint, Reach, Right, Left

LEMMA TransferType ==
    ASSUME NEW q \in PlayerStates, NEW x \in Reach
    PROVE  /\ GivenUp(q) \in PlayerStates /\ GivenUp(q).attack_cd = q.attack_cd
           /\ TakenBack(q, x) \in PlayerStates /\ TakenBack(q, x).attack_cd = q.attack_cd
           /\ Moved(q, x) \in PlayerStates /\ Moved(q, x).attack_cd = q.attack_cd
           /\ Moved(q, x).owned = q.owned /\ TakenBack(q, x).owned /\ ~GivenUp(q).owned
<1>1. Clamp(x, Left, Right) \in Reach
  BY Constants DEF Clamp, Reach
<1> QED
  BY <1>1, SpawnPointType DEF GivenUp, TakenBack, Moved, PlayerStates

LEMMA FoughtType ==
    ASSUME NEW q \in PlayerStates, NEW loaded \in 0 .. AttackCooldown
    PROVE  /\ Fought(q, loaded) \in PlayerStates
           /\ Fought(q, loaded).attack_cd = loaded
           /\ Fought(q, loaded).owned = q.owned
<1>1. PICK calm \in 0 .. DamageCooldown : calm = Less(q.damage_cd)
  <2>1. q.damage_cd \in 0 .. DamageCooldown
    BY DEF PlayerStates
  <2> QED
    BY <2>1, Constants DEF Less
<1> DEFINE cooled == [q EXCEPT !.attack_cd = loaded, !.damage_cd = calm]
<1>2. /\ cooled \in PlayerStates /\ cooled.attack_cd = loaded /\ cooled.owned = q.owned
      /\ cooled.hp = q.hp
  BY DEF PlayerStates
<1>3. [q EXCEPT !.attack_cd = loaded, !.damage_cd = Less(@)] = cooled
  BY <1>1 DEF PlayerStates
<1> HIDE DEF cooled
<1> DEFINE hit(health, points) ==
      [cooled EXCEPT !.hp = health, !.score = points, !.damage_cd = DamageCooldown]
<1>4. ASSUME NEW health \in 1 .. PlayerMaxHp, NEW points \in Nat
      PROVE  /\ hit(health, points) \in PlayerStates
             /\ hit(health, points).attack_cd = loaded /\ hit(health, points).owned = q.owned
  <2>1. DamageCooldown \in 0 .. DamageCooldown
    BY Constants
  <2> QED
    BY <1>2, <2>1 DEF PlayerStates
<1>5. CASE Dies(q)
  <2>1. Fought(q, loaded) = Respawned(Hurt(cooled))
    BY <1>3, <1>5 DEF Fought
  <2>2. Respawned(Hurt(cooled)) = hit(PlayerMaxHp, 0)
    BY <1>2 DEF Respawned, Hurt, PlayerStates
  <2>3. PlayerMaxHp \in 1 .. PlayerMaxHp /\ 0 \in Nat
    BY Constants
  <2> HIDE DEF hit
  <2> QED
    BY <1>4, <2>1, <2>2, <2>3
<1>6. CASE ~Dies(q) /\ Touched(q)
  <2>1. Fought(q, loaded) = Hurt(cooled)
    BY <1>3, <1>6 DEF Fought
  <2>2. q.hp \in 1 .. PlayerMaxHp
    BY DEF PlayerStates
  <2>3. cooled.hp - ContactDamage \in 1 .. PlayerMaxHp
    BY <1>2, <1>6, <2>2, Constants DEF Dies
  <2>4. Hurt(cooled) = hit(cooled.hp - ContactDamage, cooled.score)
    BY <1>2 DEF Hurt, PlayerStates
  <2>5. cooled.score \in Nat
    BY <1>2 DEF PlayerStates
  <2> HIDE DEF hit
  <2> QED
    BY <1>4, <2>1, <2>3, <2>4, <2>5
<1>7. CASE ~Dies(q) /\ ~Touched(q)
  BY <1>2, <1>3, <1>7 DEF Fought
<1> QED
  BY <1>5, <1>6, <1>7

LEMMA FlownType ==
    ASSUME NEW shot \in ProjectileStates
    PROVE  /\ Flown(shot) \in ProjectileStates
           /\ Flown(shot).ttl = Less(shot.ttl) /\ Flown(shot).owner = shot.owner
<1>1. /\ shot.pos \in Int /\ shot.dir \in {-1, 1} /\ shot.ttl \in 0 .. ProjectileTtl
  BY DEF ProjectileStates
<1>2. PICK place \in Int : place = shot.pos + shot.dir * ProjectileSpeed
  BY <1>1, Constants
<1>3. PICK left \in 0 .. ProjectileTtl : left = Less(shot.ttl)
  BY <1>1, Constants DEF Less
<1>4. Flown(shot) = [shot EXCEPT !.pos = place, !.ttl = left]
  BY <1>2, <1>3 DEF Flown
<1> QED
  BY <1>3, <1>4 DEF ProjectileStates

-----------------------------------------------------------------------------
(* The players. *)

Keeps(p) == players'[p].attack_cd = players[p].attack_cd

Kept == DOMAIN players \subseteq DOMAIN players' /\ \A p \in DOMAIN players : Keeps(p)

LEMMA TurnEffect ==
    ASSUME CombatInv, NEW p \in todo, phase = "combat",
           NEW loaded \in 0 .. AttackCooldown, TakeTurn(p, loaded)
    PROVE  /\ PlayersOK' /\ DOMAIN players' = DOMAIN players
           /\ p \in DOMAIN players /\ players'[p].attack_cd = loaded
           /\ \A q \in DOMAIN players : players'[q].owned = players[q].owned
           /\ \A q \in DOMAIN players \ {p} : Keeps(q)
<1>1. p \in DOMAIN players /\ players[p] \in PlayerStates
  BY DEF CombatInv, LoopsOK, Owned, PlayersOK
<1>2. players' = [players EXCEPT ![p] = Fought(players[p], loaded)]
  BY DEF TakeTurn
<1>3. /\ Fought(players[p], loaded) \in PlayerStates
      /\ Fought(players[p], loaded).attack_cd = loaded
      /\ Fought(players[p], loaded).owned = players[p].owned
  BY <1>1, FoughtType
<1> QED
  BY <1>1, <1>2, <1>3 DEF CombatInv, PlayersOK, Keeps

\* What a turn leaves of the cooldown.
LEMMA CooldownType ==
    ASSUME CombatInv, NEW p \in DOMAIN players
    PROVE  /\ players[p].attack_cd \in 0 .. AttackCooldown
           /\ Less(players[p].attack_cd) \in 0 .. AttackCooldown
           /\ LoadedAfter \in 0 .. AttackCooldown
BY Constants DEF CombatInv, PlayersOK, PlayerStates, Less, LoadedAfter

LEMMA TurnStep ==
    ASSUME CombatInv, NEW p \in todo, HoldFire(p) \/ Fire(p)
    PROVE  /\ p \in DOMAIN players
           /\ PlayersOK' /\ DOMAIN players' = DOMAIN players
           /\ \A q \in DOMAIN players : players'[q].owned = players[q].owned
           /\ \A q \in DOMAIN players \ {p} : Keeps(q)
           /\ HoldFire(p) => players'[p].attack_cd = Less(players[p].attack_cd)
           /\ Fire(p) => players'[p].attack_cd = AttackCooldown
<1>1. phase = "combat" /\ p \in DOMAIN players
  BY DEF HoldFire, Fire, CombatInv, LoopsOK, Owned
<1>2. CASE HoldFire(p)
  <2>1. TakeTurn(p, Less(players[p].attack_cd))
    BY <1>2 DEF HoldFire
  <2>2. ~Fire(p)
    BY <1>2 DEF HoldFire, Fire
  <2> QED
    BY <1>1, <2>1, <2>2, CooldownType, TurnEffect
<1>3. CASE Fire(p)
  <2>1. TakeTurn(p, LoadedAfter)
    BY <1>3 DEF Fire
  <2>2. ~HoldFire(p)
    BY <1>3 DEF HoldFire, Fire
  <2> QED
    BY <1>1, <2>1, <2>2, CooldownType, TurnEffect DEF LoadedAfter
<1> QED
  BY <1>2, <1>3

LEMMA ReceiveStep ==
    ASSUME CombatInv, Receive
    PROVE  PlayersOK' /\ Kept
<1>1. ASSUME NEW p \in Players, NEW q \in PlayerStates, p \notin DOMAIN players,
             players' = [r \in DOMAIN players \cup {p} |-> IF r = p THEN q ELSE players[r]]
      PROVE  PlayersOK' /\ Kept
  BY <1>1 DEF CombatInv, PlayersOK, Kept, Keeps
<1>2. ASSUME NEW p \in DOMAIN players, NEW q \in PlayerStates, q.attack_cd = players[p].attack_cd,
             players' = [players EXCEPT ![p] = q]
      PROVE  PlayersOK' /\ Kept
  BY <1>2 DEF CombatInv, PlayersOK, Kept, Keeps
<1>3. ASSUME NEW p \in Players, HearInput(p) PROVE PlayersOK' /\ Kept
  BY <1>1, <1>3, SpawnPointType, FreshType DEF HearInput
<1>4. ASSUME NEW p \in Players, GiveUp(p) PROVE PlayersOK' /\ Kept
  <2>1. p \in DOMAIN players /\ players[p] \in PlayerStates
    BY <1>4 DEF GiveUp, Owned, CombatInv, PlayersOK
  <2> QED
    BY <1>2, <1>4, <2>1, SpawnPointType, TransferType DEF GiveUp
<1>5. ASSUME NEW p \in Players, TakeGhost(p) PROVE PlayersOK' /\ Kept
  <2>1. GivenUp(Fresh(SpawnPoint)) \in PlayerStates
    BY SpawnPointType, FreshType, TransferType
  <2> QED
    BY <1>1, <1>5, <2>1 DEF TakeGhost
<1>6. ASSUME NEW p \in Players, NEW x \in Reach, TakeOver(p, x) PROVE PlayersOK' /\ Kept
  <2>1. p \in DOMAIN players /\ players[p] \in PlayerStates
    BY <1>6 DEF TakeOver, CombatInv, PlayersOK
  <2>2. players' = [players EXCEPT ![p] = TakenBack(players[p], x)]
    BY <1>6 DEF TakeOver
  <2>3. TakenBack(players[p], x) \in PlayerStates
        /\ TakenBack(players[p], x).attack_cd = players[p].attack_cd
    BY <2>1, TransferType
  <2> QED
    BY <1>2, <2>1, <2>2, <2>3
<1> QED
  BY <1>3, <1>4, <1>5, <1>6 DEF Receive

LEMMA SimulateStep ==
    ASSUME CombatInv, Simulate
    PROVE  PlayersOK' /\ Kept
<1>1. PICK to \in [DOMAIN players -> Reach], mine \in SUBSET DOMAIN players :
        players' = [p \in DOMAIN players |->
                IF p \notin mine THEN GivenUp(players[p])
                ELSE IF p \in Owned THEN Moved(players[p], to[p])
                ELSE TakenBack(players[p], to[p])]
  BY DEF Simulate
<1>2. ASSUME NEW p \in DOMAIN players
      PROVE  players'[p] \in PlayerStates /\ Keeps(p)
  <2>1. players[p] \in PlayerStates /\ to[p] \in Reach
    BY <1>1 DEF CombatInv, PlayersOK
  <2> QED
    BY <1>1, <2>1, SpawnPointType, TransferType DEF Keeps
<1> QED
  BY <1>1, <1>2 DEF CombatInv, PlayersOK, Kept

LEMMA HitStep ==
    ASSUME CombatInv, NEW i \in todo, NEW e \in DOMAIN enemies, Hit(i, e)
    PROVE  PlayersOK' /\ Kept /\ DOMAIN players' = DOMAIN players
<1>1. i \in DOMAIN projectiles /\ projectiles[i] \in ProjectileStates
  BY DEF Hit, FlyTo, CombatInv, LoopsOK, ProjectilesOK
<1> DEFINE p == projectiles[i].owner
<1>2. p \in DOMAIN players /\ players[p] \in PlayerStates
  BY <1>1 DEF ProjectileStates, CombatInv, PlayersOK
<1>3. CASE players' = [players EXCEPT ![p].score = @ + 1]
  <2>1. [players[p] EXCEPT !.score = @ + 1] \in PlayerStates
        /\ [players[p] EXCEPT !.score = @ + 1].attack_cd = players[p].attack_cd
    BY <1>2 DEF PlayerStates
  <2>2. players' = [players EXCEPT ![p] = [players[p] EXCEPT !.score = @ + 1]]
    BY <1>3
  <2> QED
    BY <1>2, <2>1, <2>2 DEF CombatInv, PlayersOK, Kept, Keeps
<1>4. CASE UNCHANGED players
  BY <1>4 DEF CombatInv, PlayersOK, Kept, Keeps
<1> QED
  BY <1>3, <1>4 DEF Hit

\* A step keeps the players and their cooldowns, but for the cooldown of the
\* one whose turn it is.
LEMMA PlayersStep ==
    ASSUME CombatInv, [Next]_combatVars
    PROVE  PlayersOK' /\ DOMAIN players \subseteq DOMAIN players'
           /\ (Kept \/ \E p \in todo : HoldFire(p) \/ Fire(p))
<1>1. CASE Receive
  BY <1>1, ReceiveStep DEF Kept
<1>2. CASE Simulate
  BY <1>2, SimulateStep DEF Kept
<1>3. ASSUME NEW p \in todo, HoldFire(p) \/ Fire(p)
      PROVE  PlayersOK' /\ DOMAIN players \subseteq DOMAIN players'
  BY <1>3, TurnStep
<1>4. ASSUME NEW i \in todo, NEW e \in DOMAIN enemies, Hit(i, e)
      PROVE  PlayersOK' /\ Kept
  BY <1>4, HitStep
<1>5. CASE UNCHANGED players
  BY <1>5 DEF CombatInv, PlayersOK, Kept, Keeps
<1> QED
  BY <1>1, <1>2, <1>3, <1>4, <1>5
  DEF Next, Turn, EndPoll, AdvanceWaves, SpawnEnemies, UpdateAndCull, EndCombat, Expire, Miss,
      EndFlight, Skip, combatVars, Kept

-----------------------------------------------------------------------------
(* The enemies. *)

EnemyOK(e) == e = [pos |-> e.pos, hp |-> e.hp] /\ e.hp \in 1 .. EnemyBaseHp + MaxWave

LEMMA EnemiesAreOK == CombatInv => \A e \in DOMAIN enemies : EnemyOK(enemies[e])
BY DEF CombatInv, EnemiesOK, EnemyOK

LEMMA EnemiesAreFinite ==
    ASSUME CombatInv
    PROVE  IsFiniteSet(DOMAIN enemies) /\ Cardinality(DOMAIN enemies) \in Nat
<1>1. IsFiniteSet(1 .. next_enemy - 1)
  BY FS_Interval DEF CombatInv, EnemiesOK
<1> QED
  BY <1>1, FS_Subset, FS_CardinalityType DEF CombatInv, EnemiesOK

LEMMA SpawnedType ==
    ASSUME CombatInv, NEW x, NEW leaf, NEW side
    PROVE  EnemyOK(Spawned(x, leaf, side))
<1>1. wave \in Nat /\ wave <= MaxWave
  BY Constants DEF CombatInv, ClocksOK
<1>2. EnemyBaseHp + wave \div 2 \in 1 .. EnemyBaseHp + MaxWave
  BY <1>1, Constants
<1> QED
  BY <1>2 DEF Spawned, EnemyOK

\* A batch of enemies: as many as there is room for.
LEMMA BatchEffect ==
    ASSUME CombatInv, NEW p, Cardinality(DOMAIN enemies) <= MaxEnemies, SpawnAround(p)
    PROVE  /\ next_enemy' \in 1 .. MaxEnemyId + 1 /\ next_enemy <= next_enemy'
           /\ DOMAIN enemies' = DOMAIN enemies \cup next_enemy .. next_enemy' - 1
           /\ next_enemy' - next_enemy <= MaxEnemies - Cardinality(DOMAIN enemies)
           /\ \A e \in DOMAIN enemies' : EnemyOK(enemies'[e])
<1>1. Cardinality(DOMAIN enemies) \in Nat /\ next_enemy \in 1 .. MaxEnemyId + 1 /\ wave \in Nat
  BY EnemiesAreFinite, Constants DEF CombatInv, EnemiesOK, ClocksOK
<1>2. /\ Batch \in Nat
      /\ Batch <= MaxEnemies - Cardinality(DOMAIN enemies)
      /\ Batch <= MaxEnemyId + 1 - next_enemy
  <2> DEFINE a == SpawnBatch + wave
             b == MaxEnemies - Cardinality(DOMAIN enemies)
             c == MaxEnemyId + 1 - next_enemy
  <2>1. a \in Nat /\ b \in Nat /\ c \in Nat
    BY <1>1, Constants
  <2>2. Batch = Min({a, b, c})
    BY DEF Batch
  <2> HIDE DEF a, b, c
  <2>3. Min({a, b, c}) \in {a, b, c} /\ Min({a, b, c}) <= b /\ Min({a, b, c}) <= c
    BY <2>1, Least
  <2> QED
    BY <2>1, <2>2, <2>3 DEF b, c
<1>3. next_enemy' = next_enemy + Batch
  BY DEF SpawnAround
<1>4. PICK side \in [NewEnemies -> {-1, 1}], leaf \in LeafFor(At(players[p].pos)) :
         enemies' = [e \in DOMAIN enemies \cup NewEnemies |->
                       IF e \in NewEnemies THEN Spawned(players[p].pos, leaf, side[e])
                       ELSE enemies[e]]
  BY DEF SpawnAround
<1>5. \A e \in DOMAIN enemies' : EnemyOK(enemies'[e])
  BY <1>4, SpawnedType, EnemiesAreOK
<1>6. DOMAIN enemies' = DOMAIN enemies \cup next_enemy .. next_enemy' - 1
  <2>1. NewEnemies = next_enemy .. next_enemy' - 1
    BY <1>1, <1>2, <1>3 DEF NewEnemies
  <2>2. DOMAIN enemies' = DOMAIN enemies \cup NewEnemies
    BY <1>4
  <2> QED
    BY <2>1, <2>2
<1>7. /\ next_enemy' \in 1 .. MaxEnemyId + 1 /\ next_enemy <= next_enemy'
      /\ next_enemy' - next_enemy <= MaxEnemies - Cardinality(DOMAIN enemies)
  BY <1>1, <1>2, <1>3, Constants
<1> QED
  BY <1>5, <1>6, <1>7

LEMMA SpawnStep ==
    ASSUME CombatInv, SpawnEnemies
    PROVE  \/ UNCHANGED <<enemies, next_enemy>>
           \/ \E p : SpawnAround(p) /\ Cardinality(DOMAIN enemies) <= MaxEnemies
<1>1. Cardinality(DOMAIN enemies) \in Nat /\ MaxEnemies \in Nat
  BY EnemiesAreFinite, Constants
<1> QED
  BY <1>1 DEF SpawnEnemies, SpawnNothing

LEMMA CullEffect ==
    ASSUME CombatInv, UpdateAndCull
    PROVE  DOMAIN enemies' \subseteq DOMAIN enemies /\ \A e \in DOMAIN enemies' : EnemyOK(enemies'[e])
<1>1. PICK prey \in [DOMAIN enemies -> Players] :
        enemies' = [e \in {f \in DOMAIN enemies : Follows(f, prey[f])} |-> Chasing(e, prey[e])]
  BY DEF UpdateAndCull
<1>2. ASSUME NEW e \in DOMAIN enemies, NEW p PROVE EnemyOK(Chasing(e, p))
  <2>1. enemies[e] = [pos |-> enemies[e].pos, hp |-> enemies[e].hp]
        /\ enemies[e].hp \in 1 .. EnemyBaseHp + MaxWave
    BY DEF CombatInv, EnemiesOK
  <2>2. Chasing(e, p) = [pos |-> enemies[e].pos + Toward(enemies[e].pos, players[p].pos) * EnemySpeed,
                         hp |-> enemies[e].hp]
    BY <2>1 DEF Chasing
  <2> QED
    BY <2>1, <2>2 DEF EnemyOK
<1> QED
  BY <1>1, <1>2

LEMMA WeakenEffect ==
    ASSUME CombatInv, NEW i \in todo, NEW e \in DOMAIN enemies, Hit(i, e)
    PROVE  /\ DOMAIN enemies' \subseteq DOMAIN enemies
           /\ \A f \in DOMAIN enemies' : EnemyOK(enemies'[f])
           /\ slain' \subseteq slain \cup {e}
<1>1. CASE enemies[e].hp <= AttackDamage /\ enemies' = Without(e) /\ slain' = slain \cup {e}
  BY <1>1, EnemiesAreOK DEF Without, Restrict
<1>2. CASE enemies[e].hp > AttackDamage /\ enemies' = Weakened(e) /\ UNCHANGED slain
  <2>1. enemies[e] = [pos |-> enemies[e].pos, hp |-> enemies[e].hp]
        /\ enemies[e].hp \in 1 .. EnemyBaseHp + MaxWave
    BY DEF CombatInv, EnemiesOK
  <2>2. PICK health \in 1 .. EnemyBaseHp + MaxWave : health = enemies[e].hp - AttackDamage
    BY <1>2, <2>1, Constants
  <2>3. [enemies[e] EXCEPT !.hp = health] = [pos |-> enemies[e].pos, hp |-> health]
    BY <2>1
  <2>4. enemies' = [enemies EXCEPT ![e] = [enemies[e] EXCEPT !.hp = health]]
    BY <1>2, <2>2 DEF Weakened
  <2>5. EnemyOK([pos |-> enemies[e].pos, hp |-> health])
    BY <2>2 DEF EnemyOK
  <2> QED
    BY <1>2, <2>3, <2>4, <2>5, EnemiesAreOK
<1>3. enemies[e].hp \in Int /\ AttackDamage \in Int
  BY Constants DEF CombatInv, EnemiesOK
<1> QED
  BY <1>1, <1>2, <1>3 DEF Hit

LEMMA EnemiesStep ==
    ASSUME CombatInv, [Next]_combatVars
    PROVE  EnemiesOK'
<1>1. CASE SpawnEnemies
  <2>1. slain' = slain
    BY <1>1 DEF SpawnEnemies, loop, tally
  <2> QED
    BY <1>1, <2>1, SpawnStep, BatchEffect, Constants DEF CombatInv, EnemiesOK, EnemyOK
<1>2. CASE UpdateAndCull
  <2>1. slain' = slain /\ next_enemy' = next_enemy
    BY <1>2 DEF UpdateAndCull, clocks, tally
  <2> QED
    BY <1>2, <2>1, CullEffect DEF CombatInv, EnemiesOK, EnemyOK
<1>3. ASSUME NEW i \in todo, NEW e \in DOMAIN enemies, Hit(i, e)
      PROVE  EnemiesOK'
  <2>1. next_enemy' = next_enemy
    BY <1>3 DEF Hit, FlyTo, clocks
  <2> QED
    BY <1>3, <2>1, WeakenEffect DEF CombatInv, EnemiesOK, EnemyOK
<1>4. CASE UNCHANGED <<enemies, next_enemy, slain>>
  BY <1>4 DEF CombatInv, EnemiesOK
<1> QED
  BY <1>1, <1>2, <1>3, <1>4
  DEF Next, Turn, Receive, EndPoll, Simulate, AdvanceWaves, HoldFire, Fire, TakeTurn, EndCombat,
      Expire, Miss, FlyTo, EndFlight, Skip, HearInput, GiveUp, TakeGhost, TakeOver, combatVars,
      fight, clocks, loop, tally

-----------------------------------------------------------------------------
(* The projectiles. *)

LEMMA ShotType ==
    ASSUME CombatInv, NEW p \in DOMAIN players, NEW dir \in {-1, 1}
    PROVE  Shot(p, dir) \in ProjectileStates /\ Shot(p, dir).ttl = ProjectileTtl /\ Shot(p, dir).owner = p
<1>1. players[p].pos \in Int
  BY Constants DEF CombatInv, PlayersOK, PlayerStates, Reach
<1> QED
  BY <1>1, Constants DEF Shot, ProjectileStates

LEMMA FireEffect ==
    ASSUME CombatInv, NEW p \in todo, Fire(p)
    PROVE  /\ ProjectilesOK'
           /\ \/ UNCHANGED <<projectiles, next_projectile>>
              \/ \E dir \in {-1, 1} :
                    /\ projectiles' = [i \in DOMAIN projectiles \cup {next_projectile} |->
                                         IF i = next_projectile THEN Shot(p, dir) ELSE projectiles[i]]
                    /\ next_projectile' = next_projectile + 1
<1>1. DOMAIN players' = DOMAIN players /\ p \in DOMAIN players
  BY TurnStep
<1>2. next_projectile \in 1 .. MaxProjectileId
  BY Constants DEF Fire, Shoots, CombatInv, ProjectilesOK
<1>3. PICK e \in Closest(players[p].pos) :
        LET dir == Toward(players[p].pos, enemies[e].pos)
        IN  IF dir = 0 THEN UNCHANGED <<projectiles, next_projectile>>
            ELSE /\ projectiles' = [i \in DOMAIN projectiles \cup {next_projectile} |->
                        IF i = next_projectile THEN Shot(p, dir) ELSE projectiles[i]]
                 /\ next_projectile' = next_projectile + 1
  BY DEF Fire
<1>4. CASE UNCHANGED <<projectiles, next_projectile>>
  BY <1>1, <1>4 DEF CombatInv, ProjectilesOK, ProjectileStates
<1>5. ASSUME NEW dir \in {-1, 1},
             projectiles' = [i \in DOMAIN projectiles \cup {next_projectile} |->
                               IF i = next_projectile THEN Shot(p, dir) ELSE projectiles[i]],
             next_projectile' = next_projectile + 1
      PROVE  ProjectilesOK'
  <2>1. Shot(p, dir) \in ProjectileStates
    BY <1>1, ShotType
  <2>2. ProjectileStates' = ProjectileStates
    BY <1>1 DEF ProjectileStates
  <2>3. \A i \in DOMAIN projectiles' : projectiles'[i] \in ProjectileStates'
    BY <1>5, <2>1, <2>2 DEF CombatInv, ProjectilesOK
  <2> QED
    BY <1>2, <1>5, <2>3, Constants DEF CombatInv, ProjectilesOK
<1>6. Toward(players[p].pos, enemies[e].pos) \in {-1, 0, 1}
  BY DEF Toward
<1> QED
  BY <1>3, <1>4, <1>5, <1>6

LEMMA FlyEffect ==
    ASSUME CombatInv, NEW i \in todo, FlyTo(i), DOMAIN players' = DOMAIN players
    PROVE  /\ ProjectilesOK' /\ DOMAIN projectiles' = DOMAIN projectiles
           /\ i \in DOMAIN projectiles
           /\ projectiles' = [projectiles EXCEPT ![i] = Flown(projectiles[i])]
<1>1. phase = "projectiles" /\ i \in DOMAIN projectiles /\ projectiles[i] \in ProjectileStates
  BY DEF FlyTo, CombatInv, LoopsOK, ProjectilesOK
<1>2. Flown(projectiles[i]) \in ProjectileStates
  BY <1>1, FlownType
<1>3. ProjectileStates' = ProjectileStates
  BY DEF ProjectileStates
<1>4. projectiles' = [projectiles EXCEPT ![i] = Flown(projectiles[i])] /\ UNCHANGED next_projectile
  BY DEF FlyTo
<1> QED
  BY <1>1, <1>2, <1>3, <1>4 DEF CombatInv, ProjectilesOK

\* A turn of the loop over the projectiles.
LEMMA FlightStep ==
    ASSUME CombatInv, NEW i \in todo, Expire(i) \/ Miss(i) \/ \E e \in DOMAIN enemies : Hit(i, e)
    PROVE  /\ FlyTo(i) /\ DOMAIN players' = DOMAIN players
           /\ dead' \in {dead, dead \cup {i}}
           /\ Less(projectiles[i].ttl) = 0 => i \in dead'
<1>1. phase = "projectiles" /\ i \in DOMAIN projectiles /\ projectiles[i] \in ProjectileStates
  BY DEF Expire, Miss, Hit, FlyTo, CombatInv, LoopsOK, ProjectilesOK
<1>2. Flown(projectiles[i]).ttl = Less(projectiles[i].ttl)
  BY <1>1, FlownType
<1> QED
  BY <1>2, HitStep DEF Expire, Miss, Hit, Spent

LEMMA ProjectilesStep ==
    ASSUME CombatInv, [Next]_combatVars
    PROVE  ProjectilesOK'
<1>1. DOMAIN players \subseteq DOMAIN players'
  BY PlayersStep
<1>2. ASSUME NEW p \in todo, Fire(p) PROVE ProjectilesOK'
  BY <1>2, FireEffect
<1>3. ASSUME NEW i \in todo, Expire(i) \/ Miss(i) \/ \E e \in DOMAIN enemies : Hit(i, e)
      PROVE  ProjectilesOK'
  BY <1>3, FlightStep, FlyEffect
<1>4. CASE EndFlight
  BY <1>1, <1>4 DEF EndFlight, Restrict, CombatInv, ProjectilesOK, ProjectileStates
<1>5. CASE UNCHANGED <<projectiles, next_projectile>>
  BY <1>1, <1>5 DEF CombatInv, ProjectilesOK, ProjectileStates
<1> QED
  BY <1>2, <1>3, <1>4, <1>5
  DEF Next, Turn, Receive, EndPoll, Simulate, AdvanceWaves, SpawnEnemies, UpdateAndCull, HoldFire,
      EndCombat, Skip, HearInput, GiveUp, TakeGhost, TakeOver, combatVars, fight

-----------------------------------------------------------------------------
(* The rest. *)

LEMMA ClocksStep ==
    ASSUME CombatInv, [Next]_combatVars
    PROVE  ClocksOK'
<1>1. CASE AdvanceWaves
  <2>1. wave + 1 \in Int /\ MaxWave \in Nat /\ wave \in 0 .. MaxWave
    BY Constants DEF CombatInv, ClocksOK
  <2>2. Min({wave + 1, MaxWave}) \in 0 .. MaxWave
    BY <2>1, Least
  <2> QED
    BY <1>1, <2>2, Constants DEF AdvanceWaves, CombatInv, ClocksOK, Phases, tally, loop
<1>2. CASE SpawnEnemies
  BY <1>2, Constants DEF SpawnEnemies, CombatInv, ClocksOK, Phases, tally, loop
<1>3. ASSUME NEW p \in todo, HoldFire(p) \/ Fire(p) PROVE ClocksOK'
  <2>1. p \in DOMAIN players /\ players[p].score \in Nat
    BY <1>3, TurnStep DEF CombatInv, PlayersOK, PlayerStates
  <2> QED
    BY <1>3, <2>1 DEF HoldFire, Fire, TakeTurn, CombatInv, ClocksOK, clocks
<1>4. CASE EndPoll
  BY <1>4 DEF EndPoll, Progress, Phases, CombatInv, ClocksOK, clocks, tally
<1>5. CASE Skip
  BY <1>5 DEF Skip, Following, Phases, CombatInv, ClocksOK, clocks, tally
<1>6. CASE UNCHANGED <<session, clocks, forfeited>> /\ phase' \in Phases
  BY <1>6 DEF CombatInv, ClocksOK, clocks
<1> QED
  BY <1>1, <1>2, <1>3, <1>4, <1>5, <1>6
  DEF Next, Turn, Receive, Simulate, UpdateAndCull, EndCombat, Expire, Miss, Hit, FlyTo, EndFlight,
      HearInput, GiveUp, TakeGhost, TakeOver, combatVars, tally, Phases, CombatInv, ClocksOK

LEMMA LoopsStep ==
    ASSUME CombatInv, [Next]_combatVars
    PROVE  LoopsOK'
<1> USE DEF CombatInv, LoopsOK, Online
<1>1. ASSUME NEW p \in todo, HoldFire(p) \/ Fire(p) PROVE LoopsOK'
  <2>1. \A q \in DOMAIN players : players'[q].owned = players[q].owned
        /\ DOMAIN players' = DOMAIN players
    BY <1>1, TurnStep
  <2> QED
    BY <1>1, <2>1 DEF HoldFire, Fire, TakeTurn, Owned
<1>2. ASSUME NEW i \in todo, Expire(i) \/ Miss(i) \/ \E e \in DOMAIN enemies : Hit(i, e)
      PROVE  LoopsOK'
  <2>1. FlyTo(i) /\ dead' \in {dead, dead \cup {i}} /\ DOMAIN projectiles' = DOMAIN projectiles
        /\ i \in DOMAIN projectiles
    BY <1>2, FlightStep, FlyEffect
  <2> QED
    BY <2>1 DEF FlyTo
<1>3. CASE EndPoll
  BY <1>3 DEF EndPoll, loop
<1>4. CASE Skip
  BY <1>4 DEF Skip, Following, loop
<1>5. CASE UpdateAndCull
  BY <1>5 DEF UpdateAndCull, Owned
<1>6. CASE EndCombat
  BY <1>6 DEF EndCombat, fight
<1>7. CASE EndFlight
  BY <1>7 DEF EndFlight
<1>8. CASE Simulate \/ AdvanceWaves \/ SpawnEnemies \/ Receive
  BY <1>8 DEF Simulate, AdvanceWaves, SpawnEnemies, Receive, HearInput, GiveUp, TakeGhost, TakeOver, loop
<1>9. CASE UNCHANGED combatVars
  BY <1>9 DEF combatVars, loop, fight, Owned
<1> QED
  BY <1>1, <1>2, <1>3, <1>4, <1>5, <1>6, <1>7, <1>8, <1>9 DEF Next, Turn

LEMMA InvInit == Init => CombatInv
<1> SUFFICES ASSUME Init PROVE CombatInv
  OBVIOUS
<1>1. PlayersOK
  BY SpawnPointType, FreshType, PlayersAssumption DEF Init, PlayersOK
<1>2. EnemiesOK /\ ProjectilesOK
  BY Constants DEF Init, EnemiesOK, ProjectilesOK
<1>3. ClocksOK /\ LoopsOK
  BY Constants DEF Init, ClocksOK, LoopsOK, Phases, Progress, Online
<1> QED
  BY <1>1, <1>2, <1>3 DEF CombatInv

LEMMA InvStep == CombatInv /\ [Next]_combatVars => CombatInv'
<1> SUFFICES ASSUME CombatInv, [Next]_combatVars PROVE CombatInv'
  OBVIOUS
<1>1. PlayersOK' /\ EnemiesOK' /\ ProjectilesOK' /\ ClocksOK' /\ LoopsOK'
  BY PlayersStep, EnemiesStep, ProjectilesStep, ClocksStep, LoopsStep
<1> QED
  BY <1>1 DEF CombatInv

LEMMA InvHolds == CombatSpec => []CombatInv
BY InvInit, InvStep, PTL DEF CombatSpec

\* The types hold for any players and constants: a fight leaves nobody in a
\* registry with no health, and no loop comes upon a key that is gone.
THEOREM CombatTypes == CombatSpec => []CombatTypeOK
BY InvHolds, InvIsTyped, PTL

-----------------------------------------------------------------------------
(* The cap on the enemies. *)

LEMMA RoomTaken ==
    ASSUME NEW S, IsFiniteSet(S), NEW a \in Int, NEW n \in Int, a <= n
    PROVE  /\ Cardinality(S \cup a .. n - 1) \in Nat
           /\ Cardinality(S \cup a .. n - 1) <= Cardinality(S) + (n - a)
<1>1. PICK b \in Int : b = n - 1
  OBVIOUS
<1>2. IsFiniteSet(a .. b) /\ Cardinality(a .. b) = IF a > b THEN 0 ELSE b - a + 1
  BY FS_Interval
<1>3. Cardinality(a .. b) = n - a
  BY <1>1, <1>2
<1> DEFINE T == a .. b
<1> HIDE DEF T
<1>4. IsFiniteSet(T) /\ IsFiniteSet(S \cap T) /\ IsFiniteSet(S \cup T)
      /\ Cardinality(S \cup T) = Cardinality(S) + Cardinality(T) - Cardinality(S \cap T)
  BY <1>2, FS_Subset, FS_Union DEF T
<1>5. Cardinality(S) \in Nat /\ Cardinality(S \cap T) \in Nat /\ Cardinality(S \cup T) \in Nat
  BY <1>4, FS_CardinalityType
<1>6. Cardinality(T) = n - a /\ a .. n - 1 = T
  BY <1>1, <1>3 DEF T
<1>7. Cardinality(S \cup T) <= Cardinality(S) + (n - a)
  BY <1>4, <1>5, <1>6
<1> QED
  BY <1>5, <1>6, <1>7

LEMMA BoundedStep ==
    ASSUME CombatInv, EnemiesAreBounded, [Next]_combatVars
    PROVE  EnemiesAreBounded'
<1>1. /\ IsFiniteSet(DOMAIN enemies) /\ Cardinality(DOMAIN enemies) \in Nat
      /\ Cardinality(DOMAIN enemies) <= MaxEnemies /\ MaxEnemies \in Nat
  BY EnemiesAreFinite, Constants DEF EnemiesAreBounded
<1>2. CASE DOMAIN enemies' \subseteq DOMAIN enemies
  BY <1>1, <1>2, FS_Subset, FS_CardinalityType DEF EnemiesAreBounded
<1>3. ASSUME NEW p, SpawnAround(p) PROVE EnemiesAreBounded'
  <2>1. PICK n \in Int : n = next_enemy'
    BY <1>1, <1>3, BatchEffect, Constants
  <2>2. /\ DOMAIN enemies' = DOMAIN enemies \cup next_enemy .. n - 1
        /\ next_enemy \in Int /\ next_enemy <= n
        /\ n - next_enemy <= MaxEnemies - Cardinality(DOMAIN enemies)
    BY <1>1, <1>3, <2>1, BatchEffect, Constants DEF CombatInv, EnemiesOK
  <2>3. /\ Cardinality(DOMAIN enemies') \in Nat
        /\ Cardinality(DOMAIN enemies') <= Cardinality(DOMAIN enemies) + (n - next_enemy)
    BY <1>1, <2>2, RoomTaken
  <2> QED
    BY <1>1, <2>2, <2>3 DEF EnemiesAreBounded
<1>4. CASE SpawnEnemies
  BY <1>2, <1>3, <1>4, SpawnStep
<1>5. CASE UpdateAndCull
  BY <1>2, <1>5, CullEffect
<1>6. ASSUME NEW i \in todo, NEW e \in DOMAIN enemies, Hit(i, e)
      PROVE  DOMAIN enemies' \subseteq DOMAIN enemies
  BY <1>6, WeakenEffect
<1>7. CASE UNCHANGED enemies
  BY <1>2, <1>7
<1> QED
  BY <1>2, <1>4, <1>5, <1>6, <1>7
  DEF Next, Turn, Receive, EndPoll, Simulate, AdvanceWaves, HoldFire, Fire, TakeTurn, EndCombat,
      Expire, Miss, EndFlight, Skip, HearInput, GiveUp, TakeGhost, TakeOver, combatVars, fight

\* However the batches grow with the waves and however long nobody culls, the
\* registry of enemies stays within its cap.
THEOREM EnemiesStayBounded == CombatSpec => []EnemiesAreBounded
<1>1. Init => EnemiesAreBounded
  <2> SUFFICES ASSUME Init PROVE EnemiesAreBounded
    OBVIOUS
  <2>1. DOMAIN enemies = {}
    BY DEF Init
  <2> QED
    BY <2>1, FS_EmptySet, Constants DEF EnemiesAreBounded
<1>2. CombatInv /\ EnemiesAreBounded /\ [Next]_combatVars => EnemiesAreBounded'
  BY BoundedStep
<1> QED
  BY <1>1, <1>2, InvHolds, PTL DEF CombatSpec

-----------------------------------------------------------------------------
(* The shots of a player. *)

\* A projectile that has run out of time is gone by the end of the flight.
FlightInv ==
    /\ \A i \in DOMAIN projectiles : projectiles[i].ttl = 0 => phase = "projectiles" /\ i \in dead
    /\ phase = "projectiles" => todo \cap dead = {}

\* The fights of this tick, if there are any, have not come to p yet.
Waiting(p) == phase # "combat" \/ p \in todo \/ ~Online

Young(i) ==
    LET p == projectiles[i].owner
    IN  TtlLeft(i) + AttackCooldown + (IF Waiting(p) THEN 1 ELSE 0)
            <= ProjectileTtl + players[p].attack_cd

\* The cooldown of a player tells how long ago it last shot, at least.
ShotsAreYoung == \A i \in DOMAIN projectiles : Young(i)

LEMMA ShotTypes ==
    ASSUME CombatInv, NEW i \in DOMAIN projectiles
    PROVE  /\ projectiles[i].owner \in DOMAIN players
           /\ projectiles[i].ttl \in 0 .. ProjectileTtl
           /\ TtlLeft(i) \in 0 .. ProjectileTtl
           /\ players[projectiles[i].owner].attack_cd \in 0 .. AttackCooldown
<1>1. /\ projectiles[i].owner \in DOMAIN players /\ projectiles[i].ttl \in 0 .. ProjectileTtl
  BY DEF CombatInv, ProjectilesOK, ProjectileStates
<1> QED
  BY <1>1, CooldownType, Constants DEF TtlLeft, Less

\* Nothing that happens outside the fights and the flight brings two shots
\* closer.
LEMMA Steady ==
    ASSUME CombatInv, ShotsAreYoung, ShotsAreSpaced, Kept, UNCHANGED projectiles,
           \A i \in DOMAIN projectiles : TtlLeft(i)' = TtlLeft(i),
           \A p \in DOMAIN players : Waiting(p)' => Waiting(p)
    PROVE  ShotsAreYoung' /\ ShotsAreSpaced'
<1>1. ShotsAreSpaced'
  BY DEF ShotsAreSpaced
<1>2. ASSUME NEW i \in DOMAIN projectiles PROVE Young(i)'
  <2> DEFINE p == projectiles[i].owner
  <2>1. p \in DOMAIN players /\ players'[p].attack_cd = players[p].attack_cd
    BY ShotTypes DEF Kept, Keeps
  <2>2. TtlLeft(i) \in Int /\ players[p].attack_cd \in Int /\ AttackCooldown \in Int /\ ProjectileTtl \in Int
    BY ShotTypes, Constants
  <2>3. (Waiting(p)' => Waiting(p)) /\ Young(i) /\ TtlLeft(i)' = TtlLeft(i)
    BY <2>1 DEF ShotsAreYoung
  <2> HIDE DEF p
  <2>4. projectiles'[i].owner = p
    BY DEF p
  <2> QED
    BY <2>1, <2>2, <2>3, <2>4 DEF Young, p
<1> QED
  BY <1>1, <1>2 DEF ShotsAreYoung

LEMMA HoldFireSpaced ==
    ASSUME CombatInv, FlightInv, ShotsAreYoung, ShotsAreSpaced, NEW p \in todo, HoldFire(p)
    PROVE  FlightInv' /\ ShotsAreYoung' /\ ShotsAreSpaced'
<1>1. /\ phase = "combat" /\ phase' = "combat" /\ UNCHANGED <<projectiles, dead, session>>
      /\ todo' = todo \ {p}
  BY DEF HoldFire, TakeTurn
<1>2. /\ players'[p].attack_cd = Less(players[p].attack_cd)
      /\ \A q \in DOMAIN players \ {p} : Keeps(q)
  BY TurnStep
<1>3. \A i \in DOMAIN projectiles : TtlLeft(i)' = TtlLeft(i)
  BY <1>1 DEF TtlLeft
<1>4. ASSUME NEW i \in DOMAIN projectiles PROVE Young(i)'
  <2>1. TtlLeft(i) \in Int /\ AttackCooldown \in Int /\ ProjectileTtl \in Int
        /\ projectiles[i].owner \in DOMAIN players
        /\ players[projectiles[i].owner].attack_cd \in Nat
        /\ TtlLeft(i) <= ProjectileTtl
    BY ShotTypes, Constants
  <2>2. Young(i) /\ projectiles'[i].owner = projectiles[i].owner
    BY <1>1 DEF ShotsAreYoung
  <2>3. CASE projectiles[i].owner = p
    <3>1. Waiting(p) /\ (Waiting(p)' => ~Online)
      BY <1>1 DEF Waiting, Online
    <3>2. Online
      BY DEF CombatInv, LoopsOK
    <3> QED
      BY <1>1, <1>2, <1>3, <2>1, <2>2, <2>3, <3>1, <3>2 DEF Young, Less
  <2>4. CASE projectiles[i].owner # p
    <3>1. Waiting(projectiles[i].owner)' = Waiting(projectiles[i].owner)
      BY <1>1, <2>4 DEF Waiting, Online
    <3>2. players'[projectiles[i].owner].attack_cd = players[projectiles[i].owner].attack_cd
      BY <1>2, <2>1, <2>4 DEF Keeps
    <3> QED
      BY <1>3, <2>1, <2>2, <3>1, <3>2 DEF Young
  <2> QED
    BY <2>3, <2>4
<1> QED
  BY <1>1, <1>3, <1>4 DEF FlightInv, ShotsAreYoung, ShotsAreSpaced

LEMMA FireSpaced ==
    ASSUME CombatInv, FlightInv, ShotsAreYoung, ShotsAreSpaced, NEW p \in todo, Fire(p)
    PROVE  FlightInv' /\ ShotsAreYoung' /\ ShotsAreSpaced'
<1>1. /\ phase = "combat" /\ phase' = "combat" /\ UNCHANGED <<dead, session>>
      /\ todo' = todo \ {p} /\ Less(players[p].attack_cd) = 0
  BY DEF Fire, TakeTurn, Shoots
<1>2. /\ p \in DOMAIN players /\ players'[p].attack_cd = AttackCooldown
      /\ \A q \in DOMAIN players \ {p} : Keeps(q)
  BY TurnStep
<1>3. Online /\ Online'
  BY <1>1 DEF CombatInv, LoopsOK, Online
\* The shots already in flight.
<1>4. ASSUME NEW i \in DOMAIN projectiles, projectiles'[i] = projectiles[i]
      PROVE  /\ TtlLeft(i)' = TtlLeft(i) /\ Young(i)'
             /\ projectiles[i].owner = p => TtlLeft(i) + AttackCooldown <= ProjectileTtl
  <2>1. TtlLeft(i) \in Int /\ AttackCooldown \in Int /\ ProjectileTtl \in Int
        /\ projectiles[i].owner \in DOMAIN players
        /\ players[projectiles[i].owner].attack_cd \in Nat
        /\ TtlLeft(i) <= ProjectileTtl
    BY ShotTypes, Constants
  <2>2. Young(i) /\ projectiles'[i].owner = projectiles[i].owner
    BY <1>4 DEF ShotsAreYoung
  <2>3. TtlLeft(i)' = TtlLeft(i)
    BY <1>1, <1>4 DEF TtlLeft
  <2>4. CASE projectiles[i].owner = p
    <3>1. Waiting(p) /\ ~Waiting(p)'
      BY <1>1, <1>3 DEF Waiting
    <3>2. players[p].attack_cd <= 1
      BY <1>1, <2>1, <2>4 DEF Less
    <3> QED
      BY <1>2, <2>1, <2>2, <2>3, <2>4, <3>1, <3>2 DEF Young
  <2>5. CASE projectiles[i].owner # p
    <3>1. Waiting(projectiles[i].owner)' = Waiting(projectiles[i].owner)
      BY <1>1, <2>2, <2>5 DEF Waiting, Online
    <3>2. players'[projectiles[i].owner].attack_cd = players[projectiles[i].owner].attack_cd
      BY <1>2, <2>1, <2>5 DEF Keeps
    <3> QED
      BY <2>1, <2>2, <2>3, <2>5, <3>1, <3>2 DEF Young
  <2> QED
    BY <2>4, <2>5, <2>3
<1>5. CASE UNCHANGED <<projectiles, next_projectile>>
  <2>1. \A i \in DOMAIN projectiles : TtlLeft(i)' = TtlLeft(i) /\ Young(i)'
    BY <1>4, <1>5
  <2> QED
    BY <1>1, <1>5, <2>1 DEF FlightInv, ShotsAreYoung, ShotsAreSpaced
<1>6. ASSUME NEW dir \in {-1, 1},
             projectiles' = [i \in DOMAIN projectiles \cup {next_projectile} |->
                               IF i = next_projectile THEN Shot(p, dir) ELSE projectiles[i]]
      PROVE  FlightInv' /\ ShotsAreYoung' /\ ShotsAreSpaced'
  <2>1. PICK new \in Int : new = next_projectile /\ \A i \in DOMAIN projectiles : i \in Int /\ i < new
    BY Constants DEF CombatInv, ProjectilesOK
  <2>2. projectiles'[new].ttl = ProjectileTtl /\ projectiles'[new].owner = p
    BY <1>2, <1>6, <2>1, ShotType
  <2>3. TtlLeft(new)' = ProjectileTtl
    BY <1>1, <2>2 DEF TtlLeft
  <2>4. Young(new)'
    <3>1. ~Waiting(p)'
      BY <1>1, <1>3 DEF Waiting
    <3> QED
      BY <1>2, <2>2, <2>3, <3>1, Constants DEF Young
  <2>5. \A i \in DOMAIN projectiles : projectiles'[i] = projectiles[i]
    BY <1>6, <2>1
  <2>6. DOMAIN projectiles' = DOMAIN projectiles \cup {new}
    BY <1>6, <2>1
  <2>7. FlightInv'
    BY <1>1, <2>2, <2>5, <2>6, Constants DEF FlightInv
  <2>8. ShotsAreYoung'
    BY <1>4, <2>4, <2>5, <2>6 DEF ShotsAreYoung
  <2>9. ASSUME NEW i \in DOMAIN projectiles', NEW j \in DOMAIN projectiles', i < j,
               projectiles'[i].owner = projectiles'[j].owner
        PROVE  TtlLeft(i)' + AttackCooldown <= TtlLeft(j)'
    <3>1. i \in DOMAIN projectiles
      BY <2>1, <2>6, <2>9
    <3>2. CASE j = new
      BY <1>4, <2>2, <2>3, <2>5, <2>9, <3>1, <3>2
    <3>3. CASE j \in DOMAIN projectiles
      BY <1>4, <2>5, <2>9, <3>1, <3>3 DEF ShotsAreSpaced
    <3> QED
      BY <2>6, <3>2, <3>3
  <2> QED
    BY <2>7, <2>8, <2>9 DEF ShotsAreSpaced
<1> QED
  BY <1>5, <1>6, FireEffect

LEMMA EndCombatSpaced ==
    ASSUME CombatInv, FlightInv, ShotsAreYoung, ShotsAreSpaced, EndCombat
    PROVE  FlightInv' /\ ShotsAreYoung' /\ ShotsAreSpaced'
<1>1. /\ phase = "combat" /\ Online /\ todo = {} /\ phase' = "projectiles" /\ todo' = DOMAIN projectiles
      /\ UNCHANGED <<players, projectiles, dead>> /\ dead = {}
  BY DEF EndCombat, fight, CombatInv, LoopsOK
<1>2. \A i \in DOMAIN projectiles :
        /\ TtlLeft(i) \in Int /\ TtlLeft(i)' = TtlLeft(i) - 1
        /\ projectiles[i].ttl >= 1
  <2> TAKE i \in DOMAIN projectiles
  <2>1. projectiles[i].ttl \in Nat /\ projectiles[i].ttl # 0
    BY <1>1, ShotTypes DEF FlightInv
  <2>2. TtlLeft(i) = projectiles[i].ttl /\ TtlLeft(i)' = Less(projectiles[i].ttl)
    BY <1>1 DEF TtlLeft
  <2> QED
    BY <2>1, <2>2 DEF Less
<1>3. ASSUME NEW i \in DOMAIN projectiles PROVE Young(i)'
  <2> DEFINE p == projectiles[i].owner
  <2>1. ~Waiting(p) /\ Young(i)
    BY <1>1 DEF Waiting, ShotsAreYoung
  <2>2. players[p].attack_cd \in Int /\ AttackCooldown \in Int /\ ProjectileTtl \in Int
    BY ShotTypes, Constants
  <2> QED
    BY <1>1, <1>2, <2>1, <2>2 DEF Young
<1>4. FlightInv'
  BY <1>1, <1>2 DEF FlightInv
<1>5. ShotsAreSpaced'
  BY <1>1, <1>2, Constants DEF ShotsAreSpaced
<1> QED
  BY <1>1, <1>3, <1>4, <1>5 DEF ShotsAreYoung

LEMMA FlightSpaced ==
    ASSUME CombatInv, FlightInv, ShotsAreYoung, ShotsAreSpaced, NEW i \in todo,
           Expire(i) \/ Miss(i) \/ \E e \in DOMAIN enemies : Hit(i, e)
    PROVE  FlightInv' /\ ShotsAreYoung' /\ ShotsAreSpaced'
<1>1. /\ phase = "projectiles" /\ phase' = "projectiles" /\ UNCHANGED session
      /\ todo' = todo \ {i} /\ dead' \in {dead, dead \cup {i}}
      /\ Less(projectiles[i].ttl) = 0 => i \in dead'
      /\ i \in DOMAIN projectiles /\ DOMAIN projectiles' = DOMAIN projectiles
      /\ projectiles' = [projectiles EXCEPT ![i] = Flown(projectiles[i])]
  BY FlightStep, FlyEffect DEF FlyTo
<1>2. Kept /\ DOMAIN players' = DOMAIN players
  BY FlightStep, HitStep DEF Expire, Miss, Hit, Kept, Keeps
<1>3. /\ Flown(projectiles[i]).ttl = Less(projectiles[i].ttl)
      /\ Flown(projectiles[i]).owner = projectiles[i].owner
  BY <1>1, FlownType DEF CombatInv, ProjectilesOK
<1>4. \A j \in DOMAIN projectiles :
        TtlLeft(j)' = TtlLeft(j) /\ projectiles'[j].owner = projectiles[j].owner
  BY <1>1, <1>3 DEF TtlLeft
<1>5. FlightInv'
  BY <1>1, <1>3 DEF FlightInv
<1>6. ASSUME NEW j \in DOMAIN projectiles PROVE Young(j)'
  <2>1. Young(j) /\ projectiles[j].owner \in DOMAIN players
    BY ShotTypes DEF ShotsAreYoung
  <2>2. Waiting(projectiles[j].owner) /\ Waiting(projectiles[j].owner)'
    BY <1>1 DEF Waiting
  <2>3. players'[projectiles[j].owner].attack_cd = players[projectiles[j].owner].attack_cd
    BY <1>2, <2>1 DEF Kept, Keeps
  <2> QED
    BY <1>4, <2>1, <2>2, <2>3 DEF Young
<1> QED
  BY <1>1, <1>4, <1>5, <1>6 DEF ShotsAreYoung, ShotsAreSpaced

LEMMA EndFlightSpaced ==
    ASSUME CombatInv, FlightInv, ShotsAreYoung, ShotsAreSpaced, EndFlight
    PROVE  FlightInv' /\ ShotsAreYoung' /\ ShotsAreSpaced'
<1>1. /\ phase = "projectiles" /\ phase' = "poll" /\ todo = {} /\ UNCHANGED <<players, todo, session>>
      /\ DOMAIN projectiles' = DOMAIN projectiles \ dead
      /\ \A i \in DOMAIN projectiles \ dead : projectiles'[i] = projectiles[i]
  BY DEF EndFlight, Restrict
<1>2. \A i \in DOMAIN projectiles' : TtlLeft(i)' = TtlLeft(i)
  BY <1>1 DEF TtlLeft
<1>3. FlightInv'
  BY <1>1 DEF FlightInv
<1>4. ASSUME NEW i \in DOMAIN projectiles' PROVE Young(i)'
  <2>1. Young(i) /\ projectiles'[i] = projectiles[i]
    BY <1>1 DEF ShotsAreYoung
  <2>2. Waiting(projectiles[i].owner) /\ Waiting(projectiles[i].owner)'
    BY <1>1 DEF Waiting
  <2> QED
    BY <1>1, <1>2, <2>1, <2>2 DEF Young
<1> QED
  BY <1>1, <1>2, <1>3, <1>4 DEF ShotsAreYoung, ShotsAreSpaced

LEMMA ElsewhereSpaced ==
    ASSUME CombatInv, FlightInv, ShotsAreYoung, ShotsAreSpaced, Kept, UNCHANGED <<projectiles, dead>>,
           \/ phase \notin {"combat", "projectiles"} /\ phase' # "projectiles"
           \/ ~Online /\ UNCHANGED <<session, todo>>
           \/ UNCHANGED <<phase, todo, session>>
    PROVE  FlightInv' /\ ShotsAreYoung' /\ ShotsAreSpaced'
<1>1. dead = {} \/ phase = "projectiles"
  BY DEF CombatInv, LoopsOK
<1>2. ~Online => todo = {} /\ dead = {}
  BY DEF CombatInv, LoopsOK
<1>3. \A i \in DOMAIN projectiles : TtlLeft(i)' = TtlLeft(i)
  BY <1>2 DEF TtlLeft
<1>4. \A p \in DOMAIN players : Waiting(p)' => Waiting(p)
  BY DEF Waiting, Online
<1>5. FlightInv'
  BY <1>1, <1>2 DEF FlightInv
<1> QED
  BY <1>3, <1>4, <1>5, Steady

LEMMA SpacedStep ==
    ASSUME CombatInv, FlightInv, ShotsAreYoung, ShotsAreSpaced, [Next]_combatVars
    PROVE  FlightInv' /\ ShotsAreYoung' /\ ShotsAreSpaced'
<1>1. ASSUME NEW p \in todo, HoldFire(p) \/ Fire(p)
      PROVE  FlightInv' /\ ShotsAreYoung' /\ ShotsAreSpaced'
  BY <1>1, HoldFireSpaced, FireSpaced
<1>2. ASSUME NEW i \in todo, Expire(i) \/ Miss(i) \/ \E e \in DOMAIN enemies : Hit(i, e)
      PROVE  FlightInv' /\ ShotsAreYoung' /\ ShotsAreSpaced'
  BY <1>2, FlightSpaced
<1>3. CASE EndCombat \/ EndFlight
  BY <1>3, EndCombatSpaced, EndFlightSpaced
<1>4. CASE Receive
  <2>1. Kept /\ phase = "poll" /\ UNCHANGED <<phase, projectiles, dead>>
    BY <1>4, ReceiveStep DEF Receive, HearInput, GiveUp, TakeGhost, TakeOver, fight, loop
  <2> QED
    BY <2>1, ElsewhereSpaced
<1>5. CASE Simulate
  <2>1. Kept /\ phase = "simulate" /\ phase' = "waves" /\ UNCHANGED <<projectiles, dead>>
    BY <1>5, SimulateStep DEF Simulate, fight, loop
  <2> QED
    BY <2>1, ElsewhereSpaced
<1>6. CASE EndPoll \/ AdvanceWaves \/ SpawnEnemies \/ UpdateAndCull
  <2>1. Kept /\ UNCHANGED <<projectiles, dead>>
    BY <1>6 DEF EndPoll, AdvanceWaves, SpawnEnemies, UpdateAndCull, fight, loop, Kept, Keeps
  <2>2. phase \notin {"combat", "projectiles"} /\ phase' # "projectiles"
    BY <1>6 DEF EndPoll, AdvanceWaves, SpawnEnemies, UpdateAndCull
  <2> QED
    BY <2>1, <2>2, ElsewhereSpaced
<1>7. CASE Skip
  <2>1. Kept /\ ~Online /\ UNCHANGED <<session, todo, projectiles, dead>>
    BY <1>7 DEF Skip, fight, loop, Kept, Keeps
  <2> QED
    BY <2>1, ElsewhereSpaced
<1>8. CASE UNCHANGED combatVars
  <2>1. Kept /\ UNCHANGED <<phase, session, todo, projectiles, dead>>
    BY <1>8 DEF combatVars, fight, loop, Kept, Keeps
  <2> QED
    BY <2>1, ElsewhereSpaced
<1> QED
  BY <1>1, <1>2, <1>3, <1>4, <1>5, <1>6, <1>7, <1>8 DEF Next, Turn

\* The shots of a player are a cooldown apart, for any cooldown and time to
\* live, however its copy is given up, taken back, killed and skipped.
THEOREM ShotsStaySpaced == CombatSpec => []ShotsAreSpaced
<1> DEFINE Inv == FlightInv /\ ShotsAreYoung /\ ShotsAreSpaced
<1>1. Init => Inv
  BY DEF Init, FlightInv, ShotsAreYoung, ShotsAreSpaced
<1>2. CombatInv /\ Inv /\ [Next]_combatVars => Inv'
  BY SpacedStep
<1>3. Inv => ShotsAreSpaced
  OBVIOUS
<1> HIDE DEF Inv
<1> QED
  BY <1>1, <1>2, <1>3, InvHolds, PTL DEF CombatSpec

-----------------------------------------------------------------------------
(* The quadtree, of which the rest asks only that it is one. *)

LEMMA PlayersArePlaced == CombatInv => \A p \in DOMAIN players : players[p].pos \in Int
BY Constants DEF CombatInv, PlayersOK, PlayerStates, Reach

LEMMA LaneIsInWorld == Lane \in Int /\ 0 <= Lane /\ Lane < WorldHeight
BY PlaceAssumption, Lengths

LEMMA BandIsInWorld ==
    /\ 0 <= Left /\ Left < Right /\ Right <= ShardCount * ShardWidth
    /\ Left = ShardId * ShardWidth /\ Right = (ShardId + 1) * ShardWidth
    /\ ShardId + 1 < ShardCount => Right < ShardCount * ShardWidth
    /\ ShardId + 1 = ShardCount => Right = ShardCount * ShardWidth
<1>1. PICK n \in Nat \ {0}, W \in Nat \ {0} : n = ShardCount /\ W = ShardWidth
  BY Lengths
<1>2. ShardId \in Nat /\ ShardId < n
  BY <1>1, PlaceAssumption
<1>3. ShardId * W >= 0 /\ (n - (ShardId + 1)) * W >= 0
  BY <1>2
<1>4. ShardId + 1 < n => (n - (ShardId + 1)) * W > 0
  BY <1>2
<1> QED
  BY <1>1, <1>2, <1>3, <1>4 DEF Left, Right

LEMMA ShardOfPlace ==
    ASSUME LeavesFitBands, NEW x \in Int
    PROVE  /\ Left <= x /\ x < Right => ShardFor(At(x)) = {ShardId}
           /\ x = Right => ShardFor(At(x)) = {ShardId + 1} \cap 0 .. ShardCount - 1
<1> USE DEF At
<1>1. ShardId \in Nat /\ ShardId + 1 <= ShardCount /\ ShardCount \in Nat
  BY PlaceAssumption, Lengths
<1>2. ASSUME NEW s \in Int, s * ShardWidth <= x, x < (s + 1) * ShardWidth,
             0 <= x, x < ShardCount * ShardWidth
      PROVE  ShardFor(At(x)) = {s}
  <2>1. PICK leaf : leaf \in LeafFor(At(x))
    BY <1>2, LaneIsInWorld, WorldIsCovered
  <2>2. x \div ShardWidth = s
    BY <1>2, Quotient, Lengths
  <2> QED
    BY <2>1, <2>2, LaneIsInWorld, BandOfAPlace
<1>3. Left \in Int /\ Right \in Int /\ ShardCount * ShardWidth \in Int
  BY Constants, Lengths
<1>4. ASSUME Left <= x, x < Right PROVE ShardFor(At(x)) = {ShardId}
  <2>1. 0 <= x /\ x < ShardCount * ShardWidth
    BY <1>3, <1>4, BandIsInWorld
  <2> QED
    BY <1>1, <1>2, <1>4, <2>1, BandIsInWorld
<1>5. ASSUME x = Right, ShardId + 1 < ShardCount PROVE ShardFor(At(x)) = {ShardId + 1}
  <2>1. 0 <= x /\ x < ShardCount * ShardWidth
    BY <1>3, <1>5, BandIsInWorld
  <2>2. x = (ShardId + 1) * ShardWidth /\ x < (ShardId + 1 + 1) * ShardWidth
    <3>1. (ShardId + 1 + 1) * ShardWidth = (ShardId + 1) * ShardWidth + ShardWidth
      BY <1>1, Lengths
    <3> QED
      BY <1>3, <1>5, <3>1, BandIsInWorld, Lengths
  <2> QED
    BY <1>1, <1>2, <2>1, <2>2
<1>6. ASSUME x = Right, ShardId + 1 = ShardCount PROVE ShardFor(At(x)) = {}
  <2>1. LeafFor(At(x)) = {}
    BY <1>3, <1>6, BandIsInWorld, LaneIsInWorld, WorldIsCovered
  <2> QED
    BY <2>1 DEF ShardFor
<1> QED
  BY <1>1, <1>4, <1>5, <1>6

\* Where the edges of the bands are edges of leaves, the tree and the clamp of
\* the simulation agree whose an owned player is, at the edge as they do it.
THEOREM TreeAndClampAgree == LeavesFitBands => (CombatSpec => []TreeKnowsTheShard)
<1> SUFFICES ASSUME LeavesFitBands PROVE CombatSpec => []TreeKnowsTheShard
  OBVIOUS
<1>1. CombatInv => TreeKnowsTheShard
  BY PlayersArePlaced, ShardOfPlace DEF TreeKnowsTheShard, Owned
<1> QED
  BY <1>1, InvHolds, PTL

-----------------------------------------------------------------------------
(* Where the enemies are. *)

EnemiesArePlaced == \A e \in DOMAIN enemies : enemies[e].pos \in Int

LEMMA LeafPlace ==
    ASSUME NEW leaf \in Leaves
    PROVE  leaf.min.x \in Int /\ leaf.max.x \in Int /\ leaf.min.y \in Int /\ leaf.max.y \in Int
BY ChildrenAreInside, Lengths DEF Leaves

LEMMA SpawnedPlace ==
    ASSUME NEW x \in Int, NEW leaf \in Leaves, NEW side \in {-1, 1}
    PROVE  Spawned(x, leaf, side).pos \in Int
<1>1. /\ leaf.min.x \in Int /\ leaf.max.x \in Int
      /\ leaf.max.x - leaf.min.x \in Int /\ leaf.max.y - leaf.min.y \in Int
  BY LeafPlace
<1>2. PICK room \in Int : room = Min({leaf.max.x - leaf.min.x, leaf.max.y - leaf.min.y})
  BY <1>1, Least
<1>3. PICK reach \in Int : reach = Min({EnemySpawnRadius, (9 * room) \div 20})
  <2>1. EnemySpawnRadius \in Int /\ (9 * room) \div 20 \in Int
    BY FightAssumption
  <2> QED
    BY <2>1, Least
<1>4. Max({LeastSpawnRadius, reach}) \in Int
  <2>1. LeastSpawnRadius \in Int
    BY FightAssumption
  <2>2. \E z \in {LeastSpawnRadius, reach} : \A y \in {LeastSpawnRadius, reach} : z >= y
    BY <2>1
  <2> QED
    BY <2>1, <2>2 DEF Max
<1>5. PICK radius \in Int : radius = SpawnRadius(leaf)
  BY <1>2, <1>3, <1>4 DEF SpawnRadius
<1>6. x + side * radius \in Int
  OBVIOUS
<1> QED
  BY <1>1, <1>5, <1>6 DEF Spawned, Clamp

LEMMA PlacedStep ==
    ASSUME CombatInv, EnemiesArePlaced, [Next]_combatVars
    PROVE  EnemiesArePlaced'
<1>1. ASSUME NEW p \in Owned, SpawnAround(p) PROVE EnemiesArePlaced'
  <2>1. PICK side \in [NewEnemies -> {-1, 1}], leaf \in LeafFor(At(players[p].pos)) :
           enemies' = [e \in DOMAIN enemies \cup NewEnemies |->
                         IF e \in NewEnemies THEN Spawned(players[p].pos, leaf, side[e])
                         ELSE enemies[e]]
    BY <1>1 DEF SpawnAround
  <2>2. leaf \in Leaves /\ players[p].pos \in Int
    BY PlayersArePlaced DEF LeafFor, Owned
  <2> QED
    BY <2>1, <2>2, SpawnedPlace DEF EnemiesArePlaced
<1>2. CASE SpawnEnemies
  BY <1>1, <1>2 DEF SpawnEnemies, SpawnNothing, EnemiesArePlaced
<1>3. CASE UpdateAndCull
  <2>1. PICK prey \in [DOMAIN enemies -> Players] :
           enemies' = [e \in {f \in DOMAIN enemies : Follows(f, prey[f])} |-> Chasing(e, prey[e])]
    BY <1>3 DEF UpdateAndCull
  <2>2. ASSUME NEW e \in DOMAIN enemies, NEW p PROVE Chasing(e, p).pos \in Int
    <3>1. PICK step \in {-1, 0, 1} : step = Toward(enemies[e].pos, players[p].pos)
      BY DEF Toward
    <3>2. enemies[e].pos + step * EnemySpeed \in Int
      BY FightAssumption DEF EnemiesArePlaced
    <3> QED
      BY <3>1, <3>2, EnemiesAreOK DEF Chasing, EnemyOK
  <2> QED
    BY <2>1, <2>2 DEF EnemiesArePlaced
<1>4. ASSUME NEW i \in todo, NEW e \in DOMAIN enemies, Hit(i, e) PROVE EnemiesArePlaced'
  <2>1. CASE enemies' = Without(e)
    BY <2>1 DEF Without, Restrict, EnemiesArePlaced
  <2>2. CASE enemies' = Weakened(e)
    BY <2>2, EnemiesAreOK DEF Weakened, EnemiesArePlaced, EnemyOK
  <2> QED
    BY <1>4, <2>1, <2>2 DEF Hit
<1>5. CASE UNCHANGED enemies
  BY <1>5 DEF EnemiesArePlaced
<1> QED
  BY <1>2, <1>3, <1>4, <1>5
  DEF Next, Turn, Receive, EndPoll, Simulate, AdvanceWaves, HoldFire, Fire, TakeTurn, EndCombat,
      Expire, Miss, EndFlight, Skip, HearInput, GiveUp, TakeGhost, TakeOver, combatVars, fight

\* A leaf is an interval of the lane, and no two of them overlap.
LEMMA BetweenInLeaf ==
    ASSUME NEW a \in Int, NEW p \in Int, SameLeaf(At(a), At(p)),
           NEW z \in Int, (a <= z /\ z <= p) \/ (p <= z /\ z <= a)
    PROVE  SameLeaf(At(z), At(p))
<1> USE DEF At
<1>1. PICK leaf : leaf \in LeafFor(At(p)) /\ leaf \in LeafFor(At(a))
  BY DEF SameLeaf
<1>2. /\ leaf \in Leaves /\ leaf.min.x \in Int /\ leaf.max.x \in Int
      /\ leaf.min.x <= a /\ a < leaf.max.x /\ leaf.min.x <= p /\ p < leaf.max.x
      /\ leaf.min.y <= Lane /\ Lane < leaf.max.y
  BY <1>1, LeafPlace DEF LeafFor, Contains, Point
<1>3. leaf \in LeafFor(At(z))
  BY <1>2 DEF LeafFor, Contains, Point
<1>4. LeafFor(At(z)) = {leaf} /\ LeafFor(At(p)) = {leaf}
  BY <1>1, <1>3, LaneIsInWorld, LeavesAreApart
<1> QED
  BY <1>4 DEF SameLeaf

\* A step towards the prey ends in its leaf or less than a step past it.
LEMMA ChaseEnds ==
    ASSUME NEW a \in Int, NEW p \in Int, SameLeaf(At(a), At(p))
    PROVE  LET z == a + Toward(a, p) * EnemySpeed
           IN  SameLeaf(At(z), At(p)) \/ Distance(z, p) <= EnemySpeed
<1> DEFINE Ends(z) == SameLeaf(At(z), At(p)) \/ Distance(z, p) <= EnemySpeed
<1>1. EnemySpeed \in Nat
  BY FightAssumption
<1>2. ASSUME a < p PROVE Ends(a + EnemySpeed)
  <2>1. PICK z \in Int : z = a + EnemySpeed /\ a <= z
    BY <1>1
  <2>2. CASE z <= p
    BY <2>1, <2>2, BetweenInLeaf
  <2>3. CASE p < z
    BY <1>1, <1>2, <2>1, <2>3 DEF Distance
  <2> QED
    BY <2>1, <2>2, <2>3
<1>3. ASSUME a > p PROVE Ends(a - EnemySpeed)
  <2>1. PICK z \in Int : z = a - EnemySpeed /\ z <= a
    BY <1>1
  <2>2. CASE p <= z
    BY <2>1, <2>2, BetweenInLeaf
  <2>3. CASE z < p
    BY <1>1, <1>3, <2>1, <2>3 DEF Distance
  <2> QED
    BY <2>1, <2>2, <2>3
<1>4. ASSUME a = p PROVE Ends(a)
  BY <1>1, <1>4 DEF Distance
<1> HIDE DEF Ends
<1>5. Ends(a + Toward(a, p) * EnemySpeed)
  BY <1>1, <1>2, <1>3, <1>4 DEF Toward
<1> QED
  BY <1>5 DEF Ends

LEMMA CullKeepsToPlayers ==
    ASSUME CombatInv, EnemiesArePlaced, UpdateAndCull
    PROVE  EnemiesKeepToPlayers'
<1>1. PICK prey \in [DOMAIN enemies -> Players] :
         /\ Owned # {} => \A e \in DOMAIN enemies : prey[e] \in Nearest(enemies[e].pos)
         /\ enemies' = [e \in {f \in DOMAIN enemies : Follows(f, prey[f])} |-> Chasing(e, prey[e])]
  BY DEF UpdateAndCull
<1>2. players' = players /\ Owned' = Owned
  BY DEF UpdateAndCull, Owned
<1>3. ASSUME NEW e \in DOMAIN enemies'
      PROVE  \E p \in Owned :
                \/ SameLeaf(At(enemies'[e].pos), At(players[p].pos))
                \/ Distance(enemies'[e].pos, players[p].pos) <= EnemySpeed
  <2>1. e \in DOMAIN enemies /\ Follows(e, prey[e]) /\ enemies'[e] = Chasing(e, prey[e])
    BY <1>1
  <2>2. prey[e] \in Owned /\ SameLeaf(At(enemies[e].pos), At(players[prey[e]].pos))
    BY <1>1, <2>1 DEF Follows, Nearest
  <2>3. enemies[e].pos \in Int /\ players[prey[e]].pos \in Int
    BY <2>1, <2>2, PlayersArePlaced DEF EnemiesArePlaced, Owned
  <2>4. enemies'[e].pos =
          enemies[e].pos + Toward(enemies[e].pos, players[prey[e]].pos) * EnemySpeed
    BY <2>1, EnemiesAreOK DEF Chasing, EnemyOK
  <2> QED
    BY <2>2, <2>3, <2>4, ChaseEnds
<1> QED
  BY <1>2, <1>3 DEF EnemiesKeepToPlayers

LEMMA FightersStay ==
    ASSUME CombatInv, NEW p \in todo, HoldFire(p) \/ Fire(p)
    PROVE  /\ Owned' = Owned /\ enemies' = enemies /\ phase = "combat" /\ session' = session
           /\ \A q \in DOMAIN players : players'[q].pos = players[q].pos
<1>1. p \in DOMAIN players /\ players[p] \in PlayerStates
  BY TurnStep DEF CombatInv, PlayersOK
<1>2. ASSUME NEW loaded PROVE Fought(players[p], loaded).pos = players[p].pos
  BY <1>1 DEF Fought, Respawned, Hurt, PlayerStates
<1>3. PICK loaded : TakeTurn(p, loaded)
  BY DEF HoldFire, Fire
<1>4. \A q \in DOMAIN players : players'[q].pos = players[q].pos
  BY <1>1, <1>2, <1>3 DEF TakeTurn
<1>5. Owned' = Owned
  BY TurnStep DEF Owned
<1> QED
  BY <1>3, <1>4, <1>5 DEF TakeTurn, HoldFire, Fire

LEMMA KeepToPlayersStep ==
    ASSUME CombatInv, EnemiesArePlaced, EnemiesKeepToPlayers, [Next]_combatVars
    PROVE  EnemiesKeepToPlayers'
<1>1. CASE UpdateAndCull
  BY <1>1, CullKeepsToPlayers
<1>2. ASSUME NEW p \in todo, HoldFire(p) \/ Fire(p) PROVE EnemiesKeepToPlayers'
  <2>1. /\ Owned' = Owned /\ enemies' = enemies /\ phase = "combat" /\ session' = session
        /\ \A q \in Owned : players'[q].pos = players[q].pos
    BY <1>2, FightersStay DEF Owned
  <2> QED
    BY <2>1 DEF EnemiesKeepToPlayers, Online
<1>3. CASE UNCHANGED combatVars
  BY <1>3 DEF EnemiesKeepToPlayers, Owned, Online, combatVars, fight
<1>4. CASE phase' # "combat" \/ ~Online'
  BY <1>4 DEF EnemiesKeepToPlayers
<1> QED
  BY <1>1, <1>2, <1>3, <1>4
  DEF Next, Turn, Receive, EndPoll, Simulate, AdvanceWaves, SpawnEnemies, EndCombat, Expire, Miss,
      Hit, FlyTo, EndFlight, Skip, HearInput, GiveUp, TakeGhost, TakeOver, Online

\* After every cull each enemy is in the leaf of an owned player or less than
\* a step past one, for any tree, speeds and places: a chase never leads it
\* away from everybody.
THEOREM EnemiesStayWithPlayers == CombatSpec => []EnemiesKeepToPlayers
<1>1. Init => EnemiesArePlaced /\ EnemiesKeepToPlayers
  BY DEF Init, EnemiesArePlaced, EnemiesKeepToPlayers
<1>2. CombatInv /\ EnemiesArePlaced /\ EnemiesKeepToPlayers /\ [Next]_combatVars
         => EnemiesArePlaced' /\ EnemiesKeepToPlayers'
  BY PlacedStep, KeepToPlayersStep
<1> QED
  BY <1>1, <1>2, InvHolds, PTL DEF CombatSpec

-----------------------------------------------------------------------------
(* The sum of the scores, which is a fold: over the elements of a finite   *)
(* set in the order in which CHOOSE yields them, and so in any order.      *)

Total(q, S) == MapThenSumSet(LAMBDA p : q[p].score, S)

\* Of the subsets of a finite set some are minimal.
LEMMA Smallest ==
    ASSUME NEW S, IsFiniteSet(S), NEW T, T \subseteq SUBSET S, T # {}
    PROVE  \E s \in T : \A t \in T : t \subseteq s => t = s
<1>1. PICK R : R = StrictSubsetOrdering(S)
  OBVIOUS
<1>2. IsWellFoundedOn(R, SUBSET S)
  BY <1>1, FS_StrictSubsetOrderingWellFounded, FS_FiniteSubsetsOfFinite
<1>3. PICK s \in T : \A t \in T : <<t, s>> \notin R
  BY <1>2, WFMin
<1> QED
  BY <1>1, <1>3 DEF StrictSubsetOrdering

Some(s) == CHOOSE x \in s : TRUE

LEMMA SomeIsIn == \A s : s # {} => Some(s) \in s
BY DEF Some

\* The recursion of the fold, over the members of D.
Sums(g, q, D) ==
    g = [s \in D |-> IF s = {} THEN 0 ELSE q[Some(s)].score + g[s \ {Some(s)}]]

Folds(g, q, S) == Sums(g, q, SUBSET S)

LEMMA SumsExist ==
    ASSUME NEW q, NEW S, IsFiniteSet(S)
    PROVE  \E g : Folds(g, q, S)
<1> DEFINE UpTo(n) == {s \in SUBSET S : Cardinality(s) <= n}
<1> DEFINE T == {n \in Nat : \E g : Sums(g, q, UpTo(n))}
<1>1. \A s \in SUBSET S : IsFiniteSet(s) /\ Cardinality(s) \in Nat /\ (Cardinality(s) = 0 => s = {})
  BY FS_Subset, FS_CardinalityType, FS_EmptySet
<1>2. \A s \in SUBSET S : s # {} =>
        s \ {Some(s)} \in SUBSET S /\ Cardinality(s \ {Some(s)}) = Cardinality(s) - 1
  BY <1>1, SomeIsIn, FS_RemoveElement
<1>3. 0 \in T
  <2>1. \A s \in UpTo(0) : s = {}
    BY <1>1
  <2>2. Sums([s \in UpTo(0) |-> 0], q, UpTo(0))
    BY <2>1 DEF Sums
  <2> QED
    BY <2>2
<1>4. ASSUME NEW n \in T PROVE n + 1 \in T
  <2>1. PICK g : Sums(g, q, UpTo(n))
    BY <1>4
  <2>2. PICK h : h = [s \in UpTo(n + 1) |-> IF s = {} THEN 0 ELSE q[Some(s)].score + g[s \ {Some(s)}]]
    OBVIOUS
  <2>3. UpTo(n) \subseteq UpTo(n + 1)
    BY <1>1, <1>4
  <2>4. \A s \in UpTo(n) : h[s] = g[s]
    BY <2>1, <2>2, <2>3 DEF Sums
  <2>5. ASSUME NEW s \in UpTo(n + 1), s # {} PROVE s \ {Some(s)} \in UpTo(n)
    BY <1>1, <1>2, <1>4, <2>5
  <2>6. Sums(h, q, UpTo(n + 1))
    <3> HIDE DEF UpTo
    <3>1. \A s \in UpTo(n + 1) :
             h[s] = IF s = {} THEN 0 ELSE q[Some(s)].score + h[s \ {Some(s)}]
      BY <2>2, <2>4, <2>5
    <3>2. \A s \in UpTo(n + 1) : s # {} => h[s \ {Some(s)}] = g[s \ {Some(s)}]
      BY <2>4, <2>5
    <3> QED
      BY <2>2, <3>2 DEF Sums
  <2> HIDE DEF UpTo
  <2>7. \E f : Sums(f, q, UpTo(n + 1))
    BY <2>6
  <2>8. n + 1 \in Nat
    BY <1>4
  <2> QED
    BY <2>7, <2>8
<1>5. T = Nat
  <2> HIDE DEF T
  <2>1. T \subseteq Nat
    BY DEF T
  <2> QED
    BY <1>3, <1>4, <2>1, AllNumbers
<1>6. PICK n \in Nat : n = Cardinality(S)
  BY FS_CardinalityType
<1>7. UpTo(n) = SUBSET S
  BY <1>1, <1>6, FS_Subset
<1>8. n \in T
  <2> HIDE DEF T
  <2> QED
    BY <1>5
<1> QED
  BY <1>7, <1>8 DEF Folds

LEMMA SumsAreUnique ==
    ASSUME NEW q, NEW S, IsFiniteSet(S), NEW R, R \subseteq S,
           NEW g, Folds(g, q, S), NEW h, Folds(h, q, R)
    PROVE  g[R] = h[R]
<1> DEFINE T == {s \in SUBSET R : g[s] # h[s]}
<1> SUFFICES ASSUME T # {} PROVE FALSE
  OBVIOUS
<1>1. IsFiniteSet(R)
  BY FS_Subset
<1>2. PICK s \in T : \A t \in T : t \subseteq s => t = s
  <2>1. T \subseteq SUBSET R
    OBVIOUS
  <2> HIDE DEF T
  <2> QED
    BY <1>1, <2>1, Smallest
<1>3. s \in SUBSET R /\ s \in SUBSET S /\ g[s] # h[s]
  OBVIOUS
<1>4. /\ g[s] = IF s = {} THEN 0 ELSE q[Some(s)].score + g[s \ {Some(s)}]
      /\ h[s] = IF s = {} THEN 0 ELSE q[Some(s)].score + h[s \ {Some(s)}]
  BY <1>3 DEF Folds, Sums
<1>5. s # {} /\ g[s \ {Some(s)}] # h[s \ {Some(s)}]
  BY <1>3, <1>4
<1>6. s \ {Some(s)} \in T /\ s \ {Some(s)} # s /\ s \ {Some(s)} \subseteq s
  BY <1>3, <1>5, SomeIsIn
<1> QED
  BY <1>2, <1>6

LEMMA TotalIsSum ==
    ASSUME NEW q, NEW S, IsFiniteSet(S)
    PROVE  \E g : Folds(g, q, S) /\ Total(q, S) = g[S]
<1>1. PICK g : g = CHOOSE f : Folds(f, q, S)
  OBVIOUS
<1>2. Folds(g, q, S)
  BY <1>1, SumsExist
<1>3. Total(q, S) = (CHOOSE f : f = [s \in SUBSET S |-> IF s = {} THEN 0 ELSE q[CHOOSE x \in s: TRUE].score + f[s \ {CHOOSE x \in s: TRUE}]])[S]
  BY DEF Total, MapThenSumSet, MapThenFoldSet
<1>4. Total(q, S) = g[S]
  BY <1>1, <1>3 DEF Folds, Sums, Some
<1> QED
  BY <1>2, <1>4

LEMMA TotalStep ==
    ASSUME NEW q, NEW S, IsFiniteSet(S)
    PROVE  Total(q, S) = IF S = {} THEN 0 ELSE q[Some(S)].score + Total(q, S \ {Some(S)})
<1>1. PICK g : Folds(g, q, S) /\ Total(q, S) = g[S]
  BY TotalIsSum
<1>2. g[S] = IF S = {} THEN 0 ELSE q[Some(S)].score + g[S \ {Some(S)}]
  BY <1>1 DEF Folds, Sums
<1>3. ASSUME S # {} PROVE g[S \ {Some(S)}] = Total(q, S \ {Some(S)})
  <2>1. PICK R : R = S \ {Some(S)}
    OBVIOUS
  <2>2. IsFiniteSet(R) /\ R \subseteq S
    BY <2>1, FS_Subset
  <2>3. PICK h : Folds(h, q, R) /\ Total(q, R) = h[R]
    BY <2>2, TotalIsSum
  <2>4. g[R] = h[R]
    BY <1>1, <2>2, <2>3, SumsAreUnique
  <2> QED
    BY <2>1, <2>3, <2>4
<1> QED
  BY <1>1, <1>2, <1>3

\* An induction over the subsets of a finite set is done by a smallest
\* exception.
LEMMA TotalType ==
    ASSUME NEW q, NEW S, IsFiniteSet(S), \A p \in S : q[p].score \in Nat
    PROVE  Total(q, S) \in Nat
<1> DEFINE T == {s \in SUBSET S : Total(q, s) \notin Nat}
<1> SUFFICES ASSUME T # {} PROVE FALSE
  OBVIOUS
<1>1. PICK s \in T : \A t \in T : t \subseteq s => t = s
  <2>1. T \subseteq SUBSET S
    OBVIOUS
  <2> HIDE DEF T
  <2> QED
    BY <2>1, Smallest
<1>2. IsFiniteSet(s) /\ s \subseteq S
  BY FS_Subset
<1>3. Total(q, s) = IF s = {} THEN 0 ELSE q[Some(s)].score + Total(q, s \ {Some(s)})
  BY <1>2, TotalStep
<1>4. s # {} => Some(s) \in s /\ s \ {Some(s)} \notin T
  BY <1>1, SomeIsIn
<1>5. s # {} => Total(q, s \ {Some(s)}) \in Nat /\ q[Some(s)].score \in Nat
  BY <1>2, <1>4
<1> QED
  BY <1>3, <1>5

\* The order does not matter.
LEMMA TotalOfAny ==
    ASSUME NEW q, NEW S, IsFiniteSet(S), \A p \in S : q[p].score \in Nat, NEW p \in S
    PROVE  Total(q, S) = q[p].score + Total(q, S \ {p})
<1> DEFINE T == {s \in SUBSET S : \E x \in s : Total(q, s) # q[x].score + Total(q, s \ {x})}
<1> SUFFICES ASSUME T # {} PROVE FALSE
  OBVIOUS
<1>1. PICK s \in T : \A t \in T : t \subseteq s => t = s
  <2>1. T \subseteq SUBSET S
    OBVIOUS
  <2> HIDE DEF T
  <2> QED
    BY <2>1, Smallest
<1>2. PICK x \in s : Total(q, s) # q[x].score + Total(q, s \ {x})
  OBVIOUS
<1>3. PICK c \in s : c = Some(s)
  BY <1>2, SomeIsIn
<1>4. s \subseteq S /\ IsFiniteSet(s) /\ IsFiniteSet(s \ {c}) /\ IsFiniteSet(s \ {x})
      /\ IsFiniteSet((s \ {c}) \ {x})
  BY FS_Subset
<1>5. Total(q, s) = q[c].score + Total(q, s \ {c})
  BY <1>3, <1>4, TotalStep
<1>6. x # c
  BY <1>2, <1>5
<1>7. ASSUME NEW t \in SUBSET s, t # s, NEW y \in t
      PROVE  Total(q, t) = q[y].score + Total(q, t \ {y})
  <2>1. t \notin T /\ t \in SUBSET S
    BY <1>1, <1>4, <1>7
  <2> QED
    BY <2>1
<1>8. Total(q, s \ {c}) = q[x].score + Total(q, (s \ {c}) \ {x})
  BY <1>6, <1>7
<1>9. Total(q, s \ {x}) = q[c].score + Total(q, (s \ {x}) \ {c})
  BY <1>6, <1>7
<1>10. (s \ {c}) \ {x} = (s \ {x}) \ {c}
  OBVIOUS
<1>11. q[x].score \in Nat /\ q[c].score \in Nat /\ Total(q, (s \ {c}) \ {x}) \in Nat
  BY <1>4, TotalType
<1>12. PICK a \in Nat, b \in Nat, rest \in Nat :
          a = q[x].score /\ b = q[c].score /\ rest = Total(q, (s \ {c}) \ {x})
  BY <1>11
<1>13. Total(q, s) = b + (a + rest)
  BY <1>5, <1>8, <1>12
<1>14. q[x].score + Total(q, s \ {x}) = a + (b + rest)
  BY <1>9, <1>10, <1>12
<1> HIDE DEF T
<1> QED
  BY <1>2, <1>12, <1>13, <1>14

LEMMA TotalOfSame ==
    ASSUME NEW q, NEW r, NEW S, IsFiniteSet(S), \A p \in S : q[p].score = r[p].score
    PROVE  Total(q, S) = Total(r, S)
<1> DEFINE T == {s \in SUBSET S : Total(q, s) # Total(r, s)}
<1> SUFFICES ASSUME T # {} PROVE FALSE
  OBVIOUS
<1>1. PICK s \in T : \A t \in T : t \subseteq s => t = s
  <2>1. T \subseteq SUBSET S
    OBVIOUS
  <2> HIDE DEF T
  <2> QED
    BY <2>1, Smallest
<1>2. IsFiniteSet(s) /\ s \subseteq S /\ Total(q, s) # Total(r, s)
  BY FS_Subset
<1>3. /\ Total(q, s) = IF s = {} THEN 0 ELSE q[Some(s)].score + Total(q, s \ {Some(s)})
      /\ Total(r, s) = IF s = {} THEN 0 ELSE r[Some(s)].score + Total(r, s \ {Some(s)})
  BY <1>2, TotalStep
<1>4. s # {} => Some(s) \in s /\ s \ {Some(s)} \notin T
  BY <1>1, SomeIsIn
<1>5. s # {} => /\ Total(q, s \ {Some(s)}) = Total(r, s \ {Some(s)})
                /\ q[Some(s)].score = r[Some(s)].score
  BY <1>2, <1>4
<1> QED
  BY <1>2, <1>3, <1>5

\* What the sum gains when one score changes.
LEMMA TotalOfChange ==
    ASSUME NEW q, NEW r, NEW S, IsFiniteSet(S), NEW p \in S,
           \A x \in S : q[x].score \in Nat /\ r[x].score \in Nat,
           \A x \in S \ {p} : q[x].score = r[x].score
    PROVE  /\ Total(q, S) \in Nat /\ Total(r, S) \in Nat
           /\ Total(r, S) = Total(q, S) - q[p].score + r[p].score
<1>1. IsFiniteSet(S \ {p})
  BY FS_Subset
<1>2. Total(q, S) = q[p].score + Total(q, S \ {p}) /\ Total(r, S) = r[p].score + Total(r, S \ {p})
  BY TotalOfAny
<1>3. Total(q, S \ {p}) = Total(r, S \ {p})
  BY <1>1, TotalOfSame
<1>4. Total(q, S \ {p}) \in Nat /\ Total(q, S) \in Nat /\ Total(r, S) \in Nat
  BY <1>1, TotalType
<1> QED
  BY <1>2, <1>3, <1>4

\* Somebody with no score adds nothing.
LEMMA TotalOfNewcomer ==
    ASSUME NEW q, NEW r, NEW S, IsFiniteSet(S), NEW p, p \notin S,
           \A x \in S : q[x].score \in Nat /\ r[x].score = q[x].score, r[p].score = 0
    PROVE  Total(r, S \cup {p}) = Total(q, S)
<1>1. IsFiniteSet(S \cup {p}) /\ (S \cup {p}) \ {p} = S
  BY FS_AddElement
<1>2. \A x \in S \cup {p} : r[x].score \in Nat
  OBVIOUS
<1>3. Total(r, S \cup {p}) = r[p].score + Total(r, (S \cup {p}) \ {p})
  BY <1>1, <1>2, TotalOfAny
<1>4. Total(r, S) = Total(q, S) /\ Total(q, S) \in Nat
  BY TotalOfSame, TotalType
<1>5. Total(r, S \cup {p}) = 0 + Total(r, S)
  BY <1>1, <1>3
<1> QED
  BY <1>4, <1>5

\* Before anything has been scored.
LEMMA TotalOfNothing ==
    ASSUME NEW q, NEW S, IsFiniteSet(S), \A p \in S : q[p].score = 0
    PROVE  Total(q, S) = 0
<1> DEFINE T == {s \in SUBSET S : Total(q, s) # 0}
<1> SUFFICES ASSUME T # {} PROVE FALSE
  OBVIOUS
<1>1. PICK s \in T : \A t \in T : t \subseteq s => t = s
  <2>1. T \subseteq SUBSET S
    OBVIOUS
  <2> HIDE DEF T
  <2> QED
    BY <2>1, Smallest
<1>2. IsFiniteSet(s) /\ s \subseteq S /\ Total(q, s) # 0
  BY FS_Subset
<1>3. Total(q, s) = IF s = {} THEN 0 ELSE q[Some(s)].score + Total(q, s \ {Some(s)})
  BY <1>2, TotalStep
<1>4. s # {} => Some(s) \in s /\ s \ {Some(s)} \notin T
  BY <1>1, SomeIsIn
<1>5. s # {} => Total(q, s \ {Some(s)}) = 0 /\ q[Some(s)].score = 0
  BY <1>2, <1>4
<1> QED
  BY <1>2, <1>3, <1>5

-----------------------------------------------------------------------------
(* The score. *)

\* Inductive: an enemy that has been killed is in the registry no more, so
\* that nobody can score it again.
ScoresAddUp ==
    /\ slain \cap DOMAIN enemies = {}
    /\ Total(players, DOMAIN players) + forfeited = Cardinality(slain)

LEMMA ScoresAreTotals == ScoresAddUp => EveryKillIsScoredOnce
BY DEF ScoresAddUp, EveryKillIsScoredOnce, Total

LEMMA ScoreTypes ==
    ASSUME CombatInv
    PROVE  /\ IsFiniteSet(DOMAIN players) /\ IsFiniteSet(slain) /\ Cardinality(slain) \in Nat
           /\ \A p \in DOMAIN players : players[p].score \in Nat
           /\ Total(players, DOMAIN players) \in Nat /\ forfeited \in Nat
<1>1. IsFiniteSet(1 .. next_enemy - 1)
  BY FS_Interval DEF CombatInv, EnemiesOK
<1>2. IsFiniteSet(DOMAIN players) /\ IsFiniteSet(slain) /\ Cardinality(slain) \in Nat
  BY <1>1, PlayersAssumption, FS_Subset, FS_CardinalityType DEF CombatInv, PlayersOK, EnemiesOK
<1>3. \A p \in DOMAIN players : players[p].score \in Nat
  BY DEF CombatInv, PlayersOK, PlayerStates
<1> QED
  BY <1>2, <1>3, TotalType DEF CombatInv, ClocksOK

\* Nothing that leaves the scores alone disturbs the sum.
LEMMA ScoresKept ==
    ASSUME CombatInv, ScoresAddUp, UNCHANGED <<slain, forfeited>>,
           slain \cap DOMAIN enemies' = {},
           DOMAIN players' = DOMAIN players,
           \A p \in DOMAIN players : players'[p].score = players[p].score
    PROVE  ScoresAddUp'
<1>1. Total(players', DOMAIN players') = Total(players, DOMAIN players)
  BY ScoreTypes, TotalOfSame
<1> QED
  BY <1>1 DEF ScoresAddUp

LEMMA TransferScore ==
    ASSUME NEW q \in PlayerStates, NEW x
    PROVE  /\ GivenUp(q).score = q.score /\ TakenBack(q, x).score = q.score
           /\ Moved(q, x).score = q.score
BY DEF GivenUp, TakenBack, Moved, PlayerStates

LEMMA ReceiveScore ==
    ASSUME CombatInv, ScoresAddUp, Receive
    PROVE  ScoresAddUp'
<1>1. UNCHANGED <<slain, forfeited, enemies>>
  BY DEF Receive, HearInput, GiveUp, TakeGhost, TakeOver, tally, fight
<1>2. ASSUME NEW p \in Players, NEW q, q.score = 0, p \notin DOMAIN players,
             players' = [r \in DOMAIN players \cup {p} |-> IF r = p THEN q ELSE players[r]]
      PROVE  ScoresAddUp'
  <2>1. /\ DOMAIN players' = DOMAIN players \cup {p} /\ players'[p].score = 0
        /\ \A x \in DOMAIN players : players'[x].score = players[x].score
    BY <1>2
  <2>2. Total(players', DOMAIN players \cup {p}) = Total(players, DOMAIN players)
    BY <1>2, <2>1, ScoreTypes, TotalOfNewcomer
  <2> QED
    BY <1>1, <2>1, <2>2 DEF ScoresAddUp
<1>3. ASSUME NEW p \in DOMAIN players, NEW q, q.score = players[p].score,
             players' = [players EXCEPT ![p] = q]
      PROVE  ScoresAddUp'
  BY <1>1, <1>3, ScoresKept DEF ScoresAddUp
<1>4. ASSUME NEW p \in Players, HearInput(p) \/ TakeGhost(p) PROVE ScoresAddUp'
  <2>1. Fresh(SpawnPoint).score = 0 /\ GivenUp(Fresh(SpawnPoint)).score = 0
    BY DEF Fresh, GivenUp
  <2> QED
    BY <1>2, <1>4, <2>1 DEF HearInput, TakeGhost
<1>5. ASSUME NEW p \in Players, NEW x, GiveUp(p) \/ TakeOver(p, x) PROVE ScoresAddUp'
  <2>1. p \in DOMAIN players /\ players[p] \in PlayerStates
    BY <1>5 DEF GiveUp, TakeOver, Owned, CombatInv, PlayersOK
  <2>2. players' = [players EXCEPT ![p] = GivenUp(players[p])]
        \/ players' = [players EXCEPT ![p] = TakenBack(players[p], x)]
    BY <1>5 DEF GiveUp, TakeOver
  <2> QED
    BY <1>3, <2>1, <2>2, TransferScore
<1> QED
  BY <1>4, <1>5 DEF Receive

LEMMA TurnScore ==
    ASSUME CombatInv, ScoresAddUp, NEW p \in todo, HoldFire(p) \/ Fire(p)
    PROVE  ScoresAddUp'
<1>1. /\ p \in DOMAIN players /\ players[p] \in PlayerStates /\ PlayersOK'
      /\ DOMAIN players' = DOMAIN players
  BY TurnStep DEF CombatInv, PlayersOK
<1>2. PICK loaded : TakeTurn(p, loaded)
  BY DEF HoldFire, Fire
<1> DEFINE lost == IF Dies(players[p]) THEN players[p].score ELSE 0
<1>3. /\ players' = [players EXCEPT ![p] = Fought(players[p], loaded)]
      /\ forfeited' = forfeited + lost
      /\ UNCHANGED <<slain, enemies>>
  BY <1>2 DEF TakeTurn
<1>4. lost \in Nat /\ Fought(players[p], loaded).score = players[p].score - lost
  <2>1. players[p].score \in Nat
    BY <1>1 DEF PlayerStates
  <2> QED
    BY <1>1, <2>1 DEF Fought, Respawned, Hurt, PlayerStates
<1>5. players'[p].score = players[p].score - lost
  BY <1>1, <1>3, <1>4
<1> HIDE DEF lost
<1>6. Total(players', DOMAIN players) =
         Total(players, DOMAIN players) - players[p].score + players'[p].score
  <2>1. \A x \in DOMAIN players : players'[x].score \in Nat
    BY <1>1 DEF PlayersOK, PlayerStates
  <2>2. \A x \in DOMAIN players \ {p} : players'[x].score = players[x].score
    BY <1>1, <1>3
  <2> QED
    BY <1>1, <2>1, <2>2, ScoreTypes, TotalOfChange
<1>7. players[p].score \in Nat /\ Total(players, DOMAIN players) \in Nat /\ forfeited \in Nat
  BY <1>1, ScoreTypes
<1>8. Total(players', DOMAIN players) + forfeited' = Total(players, DOMAIN players) + forfeited
  BY <1>3, <1>4, <1>5, <1>6, <1>7
<1> QED
  BY <1>1, <1>3, <1>8 DEF ScoresAddUp

LEMMA HitScore ==
    ASSUME CombatInv, ScoresAddUp, NEW i \in todo, NEW e \in DOMAIN enemies, Hit(i, e)
    PROVE  ScoresAddUp'
<1>1. i \in DOMAIN projectiles /\ projectiles[i] \in ProjectileStates
  BY DEF Hit, FlyTo, CombatInv, LoopsOK, ProjectilesOK
<1>2. PICK p \in DOMAIN players : p = projectiles[i].owner
  BY <1>1 DEF ProjectileStates
<1>3. players[p] \in PlayerStates /\ UNCHANGED forfeited
  BY DEF CombatInv, PlayersOK, Hit, FlyTo
<1>4. CASE enemies' = Weakened(e) /\ UNCHANGED <<players, slain>>
  BY <1>3, <1>4 DEF ScoresAddUp, Weakened
<1>5. CASE /\ enemies' = Without(e) /\ slain' = slain \cup {e}
           /\ players' = [players EXCEPT ![p].score = @ + 1]
  <2>1. e \notin slain /\ slain' \cap DOMAIN enemies' = {}
    BY <1>5 DEF ScoresAddUp, Without, Restrict
  <2>2. Cardinality(slain') = Cardinality(slain) + 1
    BY <1>5, <2>1, ScoreTypes, FS_AddElement
  <2>3. /\ DOMAIN players' = DOMAIN players /\ players'[p].score = players[p].score + 1
        /\ \A x \in DOMAIN players \ {p} : players'[x].score = players[x].score
    BY <1>3, <1>5 DEF PlayerStates
  <2>4. \A x \in DOMAIN players : players'[x].score \in Nat
    BY <2>3, ScoreTypes
  <2>5. Total(players', DOMAIN players) =
           Total(players, DOMAIN players) - players[p].score + players'[p].score
    BY <2>3, <2>4, ScoreTypes, TotalOfChange
  <2>6. players[p].score \in Nat /\ Total(players, DOMAIN players) \in Nat /\ forfeited \in Nat
    BY ScoreTypes
  <2>7. Total(players', DOMAIN players) = Total(players, DOMAIN players) + 1
    BY <2>3, <2>5, <2>6
  <2> QED
    BY <1>3, <2>1, <2>2, <2>3, <2>6, <2>7 DEF ScoresAddUp
<1> QED
  BY <1>2, <1>4, <1>5 DEF Hit

LEMMA SimulateScore ==
    ASSUME CombatInv, ScoresAddUp, Simulate
    PROVE  ScoresAddUp'
<1>1. PICK to \in [DOMAIN players -> Reach], mine \in SUBSET DOMAIN players :
        players' = [p \in DOMAIN players |->
                IF p \notin mine THEN GivenUp(players[p])
                ELSE IF p \in Owned THEN Moved(players[p], to[p])
                ELSE TakenBack(players[p], to[p])]
  BY DEF Simulate
<1>2. ASSUME NEW p \in DOMAIN players PROVE players'[p].score = players[p].score
  <2>1. players[p] \in PlayerStates
    BY DEF CombatInv, PlayersOK
  <2> QED
    BY <1>1, <2>1, TransferScore
<1>3. UNCHANGED <<slain, forfeited, enemies>> /\ DOMAIN players' = DOMAIN players
  BY <1>1 DEF Simulate, tally, fight
<1> QED
  BY <1>2, <1>3, ScoresKept DEF ScoresAddUp

LEMMA ScoreStep ==
    ASSUME CombatInv, ScoresAddUp, [Next]_combatVars
    PROVE  ScoresAddUp'
<1>1. CASE Receive
  BY <1>1, ReceiveScore
<1>2. CASE Simulate
  BY <1>2, SimulateScore
<1>3. ASSUME NEW p \in todo, HoldFire(p) \/ Fire(p) PROVE ScoresAddUp'
  BY <1>3, TurnScore
<1>4. ASSUME NEW i \in todo, NEW e \in DOMAIN enemies, Hit(i, e) PROVE ScoresAddUp'
  BY <1>4, HitScore
<1>5. CASE SpawnEnemies
  <2>1. UNCHANGED <<players, slain, forfeited>>
    BY <1>5 DEF SpawnEnemies, tally
  <2>2. slain \cap DOMAIN enemies' = {}
    <3>1. CASE UNCHANGED enemies
      BY <3>1 DEF ScoresAddUp
    <3>2. ASSUME NEW p, SpawnAround(p), Cardinality(DOMAIN enemies) <= MaxEnemies
          PROVE  slain \cap DOMAIN enemies' = {}
      <4>1. PICK n \in Int : DOMAIN enemies' = DOMAIN enemies \cup next_enemy .. n
        BY <3>2, BatchEffect
      <4>2. slain \subseteq 1 .. next_enemy - 1 /\ next_enemy \in Int
        BY DEF CombatInv, EnemiesOK
      <4> QED
        BY <4>1, <4>2 DEF ScoresAddUp
    <3> QED
      BY <1>5, <3>1, <3>2, SpawnStep
  <2> QED
    BY <2>1, <2>2, ScoresKept
<1>6. CASE UpdateAndCull
  <2>1. UNCHANGED <<players, slain, forfeited>> /\ DOMAIN enemies' \subseteq DOMAIN enemies
    BY <1>6, CullEffect DEF UpdateAndCull, tally
  <2> QED
    BY <2>1, ScoresKept DEF ScoresAddUp
<1>7. CASE UNCHANGED <<players, enemies, tally>>
  BY <1>7 DEF ScoresAddUp, tally
<1> QED
  BY <1>1, <1>2, <1>3, <1>4, <1>5, <1>6, <1>7
  DEF Next, Turn, EndPoll, AdvanceWaves, EndCombat, Expire, Miss, FlyTo, EndFlight, Skip,
      combatVars, fight, tally

\* Every kill is one point and every point is one kill, for any number of
\* players, enemies and projectiles: however many shots meet in one enemy, and
\* whoever has died or been handed off by then, no score is lost or doubled.
THEOREM KillsAreScoredOnce == CombatSpec => []EveryKillIsScoredOnce
<1>1. Init => ScoresAddUp
  <2> SUFFICES ASSUME Init PROVE ScoresAddUp
    OBVIOUS
  <2>1. IsFiniteSet(DOMAIN players) /\ \A p \in DOMAIN players : players[p].score = 0
    BY PlayersAssumption, FS_Subset, FS_EmptySet DEF Init, Fresh
  <2>2. Total(players, DOMAIN players) = 0
    BY <2>1, TotalOfNothing
  <2>3. slain = {} /\ forfeited = 0 /\ Cardinality(slain) = 0
    BY FS_EmptySet DEF Init
  <2> QED
    BY <2>2, <2>3 DEF ScoresAddUp
<1>2. CombatInv /\ ScoresAddUp /\ [Next]_combatVars => ScoresAddUp'
  BY ScoreStep
<1> QED
  BY <1>1, <1>2, ScoresAreTotals, InvHolds, PTL DEF CombatSpec

=============================================================================
