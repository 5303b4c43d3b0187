SPECIFICATION ViewSpec
CONSTANTS
    player = player
    ShardCount = 2
    ShardWidth = 4
    WorldHeight = 8
    QuadDepth = 1
    ShardId = 0
    Lane = 0
    Players <- ThePlayer
    Dummies <- ThePlayer
    Drift = 0
    PlayerSpeed = 1
    EnemySpeed = 1
    ProjectileSpeed = 1
    PlayerMaxHp = 2
    EnemyBaseHp = 1
    ContactDamage = 1
    AttackDamage = 1
    SpawnInterval = 1
    SpawnBatch = 2
    MaxEnemies = 2
    EnemySpawnRadius = 3
    LeastSpawnRadius = 3
    WaveInterval = 1
    ContactRange = 0
    AttackRange = 3
    HitRadius = 0
    DamageCooldown = 1
    AttackCooldown = 2
    ProjectileTtl = 3
    MaxWave = 2
    MaxEnemyId = 3
    MaxProjectileId = 2
    MaxLate = 1
    MaxDoubt = 1
INVARIANTS
    CombatTypeOK
    EnemiesAreBounded
    EveryKillIsScoredOnce
    ShotsAreSpaced
    EnemiesKeepToPlayers
    TreeKnowsTheShard
    ViewTypeOK
    ImagesAreTrue
