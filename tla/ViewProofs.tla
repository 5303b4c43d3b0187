------------------------------ MODULE ViewProofs ------------------------------
(***************************************************************************)
(* Theorems about View, for any number of players, enemies, projectiles    *)
(* and late messages.                                                      *)
(***************************************************************************)
EXTENDS View, CombatProofs

-----------------------------------------------------------------------------
(* View leaves the shard to Combat. *)

LEMMA ShardSteps == [ViewNext]_viewVars => [Next]_combatVars
BY DEF ViewNext, ShardTurn, ShardReceive, HearLate, Enter, Leave, viewVars, Next

LEMMA ShardInv == ViewSpec => []CombatInv
<1>1. ViewInit => CombatInv
  BY InvInit DEF ViewInit
<1>2. CombatInv /\ [ViewNext]_viewVars => CombatInv'
  BY InvStep, ShardSteps
<1> QED
  BY <1>1, <1>2, PTL DEF ViewSpec

\* Clients do not interfere with the shard: all that is proved of Combat
\* holds while they come, hear and leave.
THEOREM ViewRunsCombat == ViewSpec => CombatSpec
<1>1. ViewInit => Init
  BY DEF ViewInit
<1> QED
  BY <1>1, ShardSteps, PTL DEF ViewSpec, CombatSpec

-----------------------------------------------------------------------------
(* What is alive, and what a step publishes. *)

LEMMA Names ==
    /\ \A e, f : Enemy(e) = Enemy(f) => e = f
    /\ \A i, j : Projectile(i) = Projectile(j) => i = j
    /\ \A e, i : Enemy(e) # Projectile(i)
BY DEF Enemy, Projectile

LEMMA TheLiving ==
    /\ \A e : Enemy(e) \in Live <=> e \in DOMAIN enemies
    /\ \A i : Projectile(i) \in Live <=> i \in DOMAIN projectiles
    /\ \A t \in Live : \/ \E e \in DOMAIN enemies : t = Enemy(e)
                       \/ \E i \in DOMAIN projectiles : t = Projectile(i)
BY Names DEF Live, EnemiesLive, ProjectilesLive

LEMMA TheLivingAreThings == CombatInv => Live \subseteq Things
BY DEF CombatInv, EnemiesOK, ProjectilesOK, Live, EnemiesLive, ProjectilesLive, Things

\* The messages about a thing that is still to be published about in this
\* tick, if it is not on the screen yet.
Pending(t) ==
    \/ \E e : t = Enemy(e) /\ phase \in {"simulate", "waves", "spawn", "cull"}
    \/ \E i : t = Projectile(i) /\ (phase = "combat" \/ (phase = "projectiles" /\ i \in todo \cup dead))

\* What a step leaves to be shown and does not publish was shown before, or
\* its turn is still to come.
LEMMA WhatIsPublished ==
    ASSUME CombatInv, CombatInv', Turn, Online
    PROVE  /\ Updated \subseteq Live'
           /\ Online' => \A t \in Live' \ Updated : Pending(t)' \/ (t \in Live /\ ~Pending(t))
<1> USE DEF Online
<1>1. CASE phase \in {"poll", "simulate", "waves", "spawn"}
  <2>1. Updated = {} /\ UNCHANGED projectiles
        /\ (phase = "poll" => phase' = "simulate" /\ UNCHANGED enemies)
        /\ phase' \in {"simulate", "waves", "spawn", "cull"}
    BY <1>1 DEF Turn, EndPoll, Simulate, AdvanceWaves, SpawnEnemies, UpdateAndCull, HoldFire, Fire, EndCombat,
                Expire, Miss, Hit, FlyTo, EndFlight, Skip, Updated, fight
  <2>2. ASSUME NEW t \in Live' PROVE Pending(t)' \/ (t \in Live /\ ~Pending(t))
    <3>1. CASE \E e : t = Enemy(e)
      BY <2>1, <3>1 DEF Pending
    <3>2. CASE \E i \in DOMAIN projectiles : t = Projectile(i)
      BY <1>1, <3>2, Names, TheLiving DEF Pending
    <3> QED
      BY <2>1, <3>1, <3>2 DEF Live, EnemiesLive, ProjectilesLive
  <2> QED
    BY <2>1, <2>2
<1>2. CASE phase = "cull"
  <2>1. Updated = EnemiesLive' /\ UNCHANGED projectiles
    BY <1>2 DEF Turn, EndPoll, Simulate, AdvanceWaves, SpawnEnemies, UpdateAndCull, HoldFire, Fire, EndCombat,
                Expire, Miss, Hit, FlyTo, EndFlight, Skip, Updated, fight
  <2>2. ASSUME NEW t \in Live' \ EnemiesLive' PROVE t \in Live /\ ~Pending(t)
    BY <1>2, <2>1, <2>2, Names DEF Live, ProjectilesLive, Pending
  <2> QED
    BY <2>1, <2>2 DEF Live
<1>3. CASE phase = "combat"
  <2>1. Updated = {} /\ UNCHANGED enemies
        /\ (phase' = "combat" \/ (phase' = "projectiles" /\ todo' = DOMAIN projectiles'))
    BY <1>3 DEF Turn, EndPoll, Simulate, AdvanceWaves, SpawnEnemies, UpdateAndCull, HoldFire, Fire, EndCombat,
                TakeTurn, Expire, Miss, Hit, FlyTo, EndFlight, Skip, Updated, fight
  <2>2. ASSUME NEW t \in Live' PROVE Pending(t)' \/ (t \in Live /\ ~Pending(t))
    <3>1. CASE \E e \in DOMAIN enemies : t = Enemy(e)
      BY <1>3, <3>1, Names, TheLiving DEF Pending
    <3>2. ASSUME NEW i \in DOMAIN projectiles', t = Projectile(i) PROVE Pending(t)'
      BY <2>1, <3>2 DEF Pending
    <3> QED
      BY <2>1, <3>1, <3>2 DEF Live, EnemiesLive, ProjectilesLive
  <2> QED
    BY <2>1, <2>2
<1>4. CASE phase = "projectiles" /\ \E i \in todo : Expire(i) \/ Miss(i) \/ \E e \in DOMAIN enemies : Hit(i, e)
  <2>1. PICK i \in todo : Expire(i) \/ Miss(i) \/ \E e \in DOMAIN enemies : Hit(i, e)
    BY <1>4
  <2>2. /\ todo' = todo \ {i} /\ dead' \in {dead, dead \cup {i}} /\ phase' = "projectiles"
        /\ i \in DOMAIN projectiles /\ DOMAIN projectiles' = DOMAIN projectiles
    BY <1>4, <2>1, FlightStep, FlyEffect DEF FlyTo
  <2>3. DOMAIN enemies' \subseteq DOMAIN enemies
    BY <2>1, WeakenEffect DEF Expire, Miss
  <2>4. Updated = {Projectile(j) : j \in {i} \ dead'}
    BY <1>4, <2>2 DEF Updated
  <2>5. ASSUME NEW t \in Live' \ Updated PROVE Pending(t)' \/ (t \in Live /\ ~Pending(t))
    <3>1. CASE \E e \in DOMAIN enemies : t = Enemy(e)
      BY <1>4, <3>1, Names, TheLiving DEF Pending
    <3>2. ASSUME NEW j \in DOMAIN projectiles, t = Projectile(j)
          PROVE  Pending(t)' \/ (t \in Live /\ ~Pending(t))
      <4>1. CASE j = i
        BY <2>2, <2>4, <2>5, <3>2, <4>1 DEF Pending
      <4>2. CASE j # i /\ j \in todo \cup dead
        BY <2>2, <3>2, <4>2 DEF Pending
      <4>3. CASE j # i /\ j \notin todo \cup dead
        BY <1>4, <3>2, <4>3, Names, TheLiving DEF Pending
      <4> QED
        BY <4>1, <4>2, <4>3
    <3> QED
      BY <2>2, <2>3, <3>1, <3>2 DEF Live, EnemiesLive, ProjectilesLive
  <2> QED
    BY <2>2, <2>4, <2>5 DEF Live, ProjectilesLive
<1>5. CASE phase = "projectiles" /\ EndFlight
  <2>1. /\ Updated = {} /\ UNCHANGED enemies /\ todo = {}
        /\ DOMAIN projectiles' = DOMAIN projectiles \ dead
    BY <1>5 DEF EndFlight, Updated, Restrict
  <2>2. ASSUME NEW t \in Live' PROVE t \in Live /\ ~Pending(t)
    <3>1. CASE \E e \in DOMAIN enemies : t = Enemy(e)
      BY <1>5, <3>1, Names, TheLiving DEF Pending
    <3>2. CASE \E j \in DOMAIN projectiles \ dead : t = Projectile(j)
      BY <1>5, <2>1, <3>2, Names, TheLiving DEF Pending
    <3> QED
      BY <2>1, <3>1, <3>2 DEF Live, EnemiesLive, ProjectilesLive
  <2> QED
    BY <2>1, <2>2
<1> QED
  BY <1>1, <1>2, <1>3, <1>4, <1>5
  DEF Turn, EndPoll, Simulate, AdvanceWaves, SpawnEnemies, UpdateAndCull, HoldFire, Fire, EndCombat,
      Skip, CombatInv, ClocksOK, Phases

LEMMA UpdatedAlive ==
    ASSUME CombatInv, CombatInv', Turn
    PROVE  /\ Updated \subseteq Live'
           /\ ~Online => Updated = {}
<1>1. ASSUME ~Online PROVE Updated = {}
  BY <1>1 DEF Updated
<1>2. ASSUME Online PROVE Updated \subseteq Live'
  BY <1>2, WhatIsPublished
<1> QED
  BY <1>1, <1>2

-----------------------------------------------------------------------------
(* What the client makes of what it is sent. *)

LEMMA Messages ==
    ASSUME NEW S
    PROVE  /\ \A m \in Updates(S) : m.says = "update" /\ m.of \in S
           /\ \A m \in Despawns(S) : m.says = "despawn" /\ m.of \in S
           /\ \A m, n \in Updates(S) : m.of = n.of => m = n
           /\ \A m, n \in Despawns(S) : m.of = n.of => m = n
           /\ \A t \in S : \E m \in Updates(S) : m.of = t
           /\ \A t \in S : \E m \in Despawns(S) : m.of = t
<1>1. ASSUME NEW t \in S
      PROVE  /\ [says |-> "update", of |-> t] \in Updates(S)
             /\ [says |-> "despawn", of |-> t] \in Despawns(S)
  BY DEF Updates, Despawns
<1>2. ASSUME NEW m \in Updates(S) PROVE \E t \in S : m = [says |-> "update", of |-> t]
  BY DEF Updates
<1>3. ASSUME NEW m \in Despawns(S) PROVE \E t \in S : m = [says |-> "despawn", of |-> t]
  BY DEF Despawns
<1>4. \A t \in S : [says |-> "update", of |-> t].of = t /\ [says |-> "despawn", of |-> t].of = t
  OBVIOUS
<1>5. /\ \A m \in Updates(S) : m.says = "update" /\ m.of \in S
      /\ \A m, n \in Updates(S) : m.of = n.of => m = n
  BY <1>2
<1>6. /\ \A m \in Despawns(S) : m.says = "despawn" /\ m.of \in S
      /\ \A m, n \in Despawns(S) : m.of = n.of => m = n
  BY <1>3
<1> QED
  BY <1>1, <1>4, <1>5, <1>6

\* A thing the client is not in doubt about afterwards was told of in its
\* turn, or not at all.
LEMMA HearEffect ==
    ASSUME NEW U, NEW D, U \cap D = {}, Of(late) \subseteq doubtful,
           Hear(Updates(U) \cup Despawns(D))
    PROVE  /\ UNCHANGED client
           /\ Of(late') \subseteq doubtful'
           /\ screen' \subseteq screen \cup U
           /\ doubtful' \subseteq doubtful \cup U \cup D
           /\ late' \subseteq late \cup Updates(U) \cup Despawns(D)
           /\ \A t : t \notin doubtful' =>
                  /\ t \in U => t \in screen'
                  /\ t \in D => t \notin screen'
                  /\ t \notin U \cup D => t \notin doubtful /\ (t \in screen' <=> t \in screen)
<1> DEFINE ms == Updates(U) \cup Despawns(D)
<1>1. PICK heard \in SUBSET ms, delayed \in SUBSET ms :
        /\ heard \cap delayed = {}
        /\ screen' = Shown(screen, heard)
        /\ late' = late \cup delayed
        /\ doubtful' = (doubtful \ (Of(heard) \ Of(late))) \cup Of(ms \ heard)
        /\ UNCHANGED client
  BY DEF Hear
<1>2. /\ \A m \in ms : (m.says = "update" /\ m.of \in U) \/ (m.says = "despawn" /\ m.of \in D)
      /\ \A m, n \in ms : m.of = n.of => m = n
      /\ \A t \in U : \E m \in ms : m.says = "update" /\ m.of = t
      /\ \A t \in D : \E m \in ms : m.says = "despawn" /\ m.of = t
  BY Messages
<1> HIDE DEF ms
<1>3. \A t : t \in Of(heard) <=> \E m \in heard : m.of = t
  BY DEF Of
<1>4. \A t : t \in Of(ms \ heard) <=> \E m \in ms \ heard : m.of = t
  BY DEF Of
<1>5. \A t : t \in screen' <=> /\ t \in screen \/ \E m \in heard : m.says = "update" /\ m.of = t
                             /\ ~\E m \in heard : m.says = "despawn" /\ m.of = t
  BY <1>1 DEF Shown, Of
<1>6. Of(late') \subseteq doubtful'
  <2>1. ASSUME NEW m \in late PROVE m.of \in doubtful'
    BY <1>1 DEF Of
  <2>2. ASSUME NEW m \in delayed PROVE m.of \in doubtful'
    BY <1>1, <1>4
  <2> QED
    BY <1>1, <2>1, <2>2 DEF Of
<1>7. screen' \subseteq screen \cup U
  BY <1>2, <1>5
<1>8. doubtful' \subseteq doubtful \cup U \cup D
  <2>1. ASSUME NEW t \in Of(ms \ heard) PROVE t \in U \cup D
    <3>1. PICK m \in ms \ heard : m.of = t
      BY <1>4, <2>1
    <3> QED
      BY <1>2, <3>1
  <2> QED
    BY <1>1, <2>1
<1>9. late' \subseteq late \cup Updates(U) \cup Despawns(D)
  BY <1>1 DEF ms
<1>10. ASSUME NEW t, t \notin doubtful'
       PROVE  /\ t \in U => t \in screen'
              /\ t \in D => t \notin screen'
              /\ t \notin U \cup D => t \notin doubtful /\ (t \in screen' <=> t \in screen)
  <2>1. \A m \in ms : m.of = t => m \in heard
    BY <1>1, <1>4, <1>10
  <2>2. ASSUME t \in U PROVE t \in screen'
    BY <1>2, <1>5, <2>1, <2>2
  <2>3. ASSUME t \in D PROVE t \notin screen'
    BY <1>2, <1>5, <2>1, <2>3
  <2>4. ASSUME t \notin U \cup D PROVE t \notin doubtful /\ (t \in screen' <=> t \in screen)
    <3>1. ~\E m \in heard : m.of = t
      BY <1>2, <2>4
    <3> QED
      BY <1>1, <1>3, <1>5, <1>10, <3>1
  <2> QED
    BY <2>2, <2>3, <2>4
<1> QED
  BY <1>1, <1>6, <1>7, <1>8, <1>9, <1>10
-----------------------------------------------------------------------------
(* The invariant. *)

\* Nothing is known of the view of a client that is not in the game, but that
\* it is empty.
NobodyLooks == client # "in" => screen = {} /\ late = {} /\ doubtful = {}

\* A shard that never was registered has published nothing and fired nothing.
NothingYet ==
    session = "starting" => screen = {} /\ late = {} /\ DOMAIN projectiles = {}

MessagesOK ==
    /\ client \in {"away", "in", "gone"}
    /\ screen \subseteq Things /\ doubtful \subseteq Things
    /\ late \subseteq Updates(Things) \cup Despawns(Things)
    /\ Of(late) \subseteq doubtful

\* What is on the screen lives, and what lives is on the screen or will be
\* before the tick is over.
ShownLives == \A t \in Things \ doubtful : t \in screen => t \in Live
LivesShown == \A t \in Things \ doubtful : t \in Live => t \in screen \/ Pending(t)
ImagesOK == client = "in" /\ Online => ShownLives /\ LivesShown

ViewInv == CombatInv /\ NobodyLooks /\ NothingYet /\ MessagesOK /\ ImagesOK

LEMMA ThingsGrow ==
    ASSUME CombatInv, [Next]_combatVars
    PROVE  Things \subseteq Things'
<1>1. next_enemy \in Nat /\ next_projectile \in Nat
  BY Constants DEF CombatInv, EnemiesOK, ProjectilesOK
<1>2. next_enemy' \in Nat /\ next_enemy <= next_enemy'
  <2>1. CASE SpawnEnemies
    <3>1. ASSUME NEW p, SpawnAround(p), Cardinality(DOMAIN enemies) <= MaxEnemies
          PROVE  next_enemy' \in Nat /\ next_enemy <= next_enemy'
      BY <3>1, BatchEffect, Constants
    <3> QED
      BY <1>1, <2>1, <3>1, SpawnStep
  <2>2. CASE UNCHANGED next_enemy
    BY <1>1, <2>2
  <2> QED
    BY <2>1, <2>2 DEF Next, Turn, Receive, EndPoll, Simulate, AdvanceWaves, UpdateAndCull, HoldFire, Fire,
        TakeTurn, EndCombat, Expire, Miss, Hit, FlyTo, EndFlight, Skip, HearInput, GiveUp, TakeGhost,
        TakeOver, combatVars, clocks
<1>3. next_projectile' \in Nat /\ next_projectile <= next_projectile'
  <2>1. CASE next_projectile' = next_projectile + 1
    BY <1>1, <2>1
  <2>2. CASE UNCHANGED next_projectile
    BY <1>1, <2>2
  <2> QED
    BY <2>1, <2>2 DEF Next, Turn, Receive, EndPoll, Simulate, AdvanceWaves, SpawnEnemies, UpdateAndCull,
        HoldFire, Fire, TakeTurn, EndCombat, Expire, Miss, Hit, FlyTo, EndFlight, Skip, HearInput, GiveUp,
        TakeGhost, TakeOver, combatVars, fight
<1>4. ASSUME NEW m \in Nat, NEW n \in Nat, m <= n PROVE \A k \in 1 .. m - 1 : k \in 1 .. n - 1
  BY <1>4
<1>5. \A e \in 1 .. next_enemy - 1 : e \in 1 .. next_enemy' - 1
  BY <1>1, <1>2, <1>4
<1>6. \A i \in 1 .. next_projectile - 1 : i \in 1 .. next_projectile' - 1
  BY <1>1, <1>3, <1>4
<1> QED
  BY <1>5, <1>6 DEF Things

LEMMA LateGrow ==
    ASSUME NEW S, NEW T, S \subseteq T
    PROVE  Updates(S) \cup Despawns(S) \subseteq Updates(T) \cup Despawns(T)
BY DEF Updates, Despawns
\* Off line the loops have nothing to do.
LEMMA TurnOffline ==
    ASSUME CombatInv, Turn, ~Online
    PROVE  EndPoll \/ AdvanceWaves \/ SpawnEnemies \/ Skip
<1>1. todo = {}
  BY DEF CombatInv, LoopsOK
<1> QED
  BY <1>1 DEF Turn, Simulate, UpdateAndCull, EndCombat, EndFlight

LEMMA SessionStep ==
    ASSUME CombatInv, Turn
    PROVE  /\ session' = "starting" => session = "starting" /\ ~Online
           /\ Online' => session \in {"starting", "registered"}
<1>1. CASE EndPoll
  <2>1. session \in {"starting", "registered", "lost"} /\ session' \in Progress[session]
    BY <1>1 DEF EndPoll, CombatInv, ClocksOK, Progress
  <2> QED
    BY <2>1 DEF Progress, Online
<1>2. CASE UNCHANGED session
  BY <1>2 DEF Online
<1> QED
  BY <1>1, <1>2 DEF Turn, Simulate, AdvanceWaves, SpawnEnemies, UpdateAndCull, HoldFire, Fire, TakeTurn,
      EndCombat, Expire, Miss, Hit, FlyTo, EndFlight, Skip

\* What every step of the client and the shard keeps, given what the client
\* hears of a turn.
LEMMA TurnView ==
    ASSUME ViewInv, CombatInv', Turn, client = "in",
           Hear(Updates(Updated) \cup Despawns(Despawned))
    PROVE  NobodyLooks' /\ NothingYet' /\ MessagesOK' /\ ImagesOK'
<1>0. PICK U, D : U = Updated /\ D = Despawned
  OBVIOUS
<1>1. /\ U \subseteq Live' /\ (~Online => U = {})
      /\ D = Live \ Live' /\ U \cap D = {}
      /\ CombatInv
  BY <1>0, UpdatedAlive DEF ViewInv, Despawned
<1>2. /\ UNCHANGED client
      /\ Of(late') \subseteq doubtful'
      /\ screen' \subseteq screen \cup U
      /\ doubtful' \subseteq doubtful \cup U \cup D
      /\ late' \subseteq late \cup Updates(U) \cup Despawns(D)
      /\ \A t : t \notin doubtful' =>
             /\ t \in U => t \in screen'
             /\ t \in D => t \notin screen'
             /\ t \notin U \cup D => t \notin doubtful /\ (t \in screen' <=> t \in screen)
  <2>1. Of(late) \subseteq doubtful /\ Hear(Updates(U) \cup Despawns(D))
    BY <1>0 DEF ViewInv, MessagesOK
  <2>2. U \cap D = {}
    BY <1>1
  <2> QED
    BY ONLY <2>1, <2>2, HearEffect
<1>3. NobodyLooks'
  BY <1>2 DEF NobodyLooks
<1>4. Things \subseteq Things' /\ U \subseteq Things' /\ D \subseteq Things'
  <2>1. Things \subseteq Things'
    BY <1>1, ThingsGrow DEF Next
  <2>2. Live \subseteq Things
    BY <1>1, TheLivingAreThings
  <2>3. Live' \subseteq Things'
    BY DEF CombatInv, EnemiesOK, ProjectilesOK, Live, EnemiesLive, ProjectilesLive, Things
  <2> QED
    BY <1>1, <2>1, <2>2, <2>3
<1>5. MessagesOK'
  <2>1. Updates(U) \subseteq Updates(Things') /\ Despawns(D) \subseteq Despawns(Things')
    BY <1>4 DEF Updates, Despawns
  <2>2. Updates(Things) \cup Despawns(Things) \subseteq Updates(Things') \cup Despawns(Things')
    BY <1>4, LateGrow
  <2>3. late' \subseteq Updates(Things') \cup Despawns(Things')
    BY <1>2, <2>1, <2>2 DEF ViewInv, MessagesOK
  <2>4. (Updates(Things) \cup Despawns(Things))' = Updates(Things') \cup Despawns(Things')
    BY DEF Updates, Despawns
  <2> QED
    BY <1>2, <1>4, <2>3, <2>4 DEF ViewInv, MessagesOK
<1>6. NothingYet'
  <2> SUFFICES ASSUME session' = "starting"
               PROVE  screen' = {} /\ late' = {} /\ DOMAIN projectiles' = {}
    BY DEF NothingYet
  <2>1. session = "starting" /\ ~Online
    BY <1>1, SessionStep
  <2>2. UNCHANGED projectiles /\ DOMAIN enemies \subseteq DOMAIN enemies'
    <3>1. CASE SpawnEnemies
      BY <3>1, SpawnStep, <1>1, BatchEffect DEF SpawnEnemies
    <3>2. CASE UNCHANGED <<enemies, projectiles>>
      BY <3>2
    <3> QED
      BY <1>1, <2>1, <3>1, <3>2, TurnOffline DEF EndPoll, AdvanceWaves, Skip, fight
  <2>3. D = {} /\ U = {}
    BY <1>1, <2>1, <2>2 DEF Live, EnemiesLive, ProjectilesLive
  <2>4. Updates(U) \cup Despawns(D) = {}
    BY <2>3 DEF Updates, Despawns
  <2> QED
    BY <1>2, <2>1, <2>2, <2>3, <2>4 DEF ViewInv, NothingYet
<1>7. ImagesOK'
  <2> SUFFICES ASSUME Online', NEW t \in Things' \ doubtful'
               PROVE  /\ t \in screen' => t \in Live'
                      /\ t \in Live' => t \in screen' \/ Pending(t)'
    BY DEF ImagesOK, ShownLives, LivesShown
  <2>1. CASE t \in U \/ t \in D
    BY <1>1, <1>2, <2>1
  <2>2. CASE t \notin U \cup D /\ Online
    <3>1. t \notin doubtful /\ (t \in screen' <=> t \in screen)
      BY <1>2, <2>2
    <3>2. t \in screen => t \in Things
      BY DEF ViewInv, MessagesOK
    <3>3. t \in Live => t \in Things
      BY <1>1, TheLivingAreThings
    <3>4. ShownLives /\ LivesShown
      BY <2>2 DEF ViewInv, ImagesOK
    <3>5. t \in Live' => Pending(t)' \/ (t \in Live /\ ~Pending(t))
      BY <1>0, <1>1, <2>2, WhatIsPublished
    <3>6. t \in screen => t \in Live
      BY <3>1, <3>2, <3>4 DEF ShownLives
    <3>7. t \in Live /\ ~Pending(t) => t \in screen
      BY <3>1, <3>3, <3>4 DEF LivesShown
    <3> QED
      BY <1>1, <2>2, <3>1, <3>5, <3>6, <3>7
  <2>3. CASE ~Online
    <3>1. EndPoll /\ session = "starting"
      BY <1>1, <2>3, SessionStep, TurnOffline DEF AdvanceWaves, SpawnEnemies, Skip, Online
    <3>2. screen' = {}
      BY <1>1, <1>2, <2>3, <3>1 DEF ViewInv, NothingYet
    <3>3. DOMAIN projectiles' = {} /\ phase' = "simulate"
      BY <3>1 DEF EndPoll, ViewInv, NothingYet, fight
    <3>4. t \in Live' => \E e : t = Enemy(e)
      BY <3>3 DEF Live, EnemiesLive, ProjectilesLive
    <3> QED
      BY <3>2, <3>3, <3>4 DEF Pending
  <2> QED
    BY <2>1, <2>2, <2>3
<1> QED
  BY <1>3, <1>5, <1>6, <1>7
\* While the client is not in the game, and in the shard's other steps.
LEMMA ShardView ==
    ASSUME ViewInv, CombatInv', [Next]_combatVars, UNCHANGED clientVars,
           client = "in" => UNCHANGED <<phase, session, enemies, projectiles, todo, dead>>
    PROVE  NobodyLooks' /\ NothingYet' /\ MessagesOK' /\ ImagesOK'
<1>1. NobodyLooks'
  BY DEF NobodyLooks, ViewInv, clientVars
<1>2. MessagesOK'
  <2>1. Things \subseteq Things'
    BY ThingsGrow DEF ViewInv
  <2>2. Updates(Things) \cup Despawns(Things) \subseteq Updates(Things') \cup Despawns(Things')
    BY <2>1, LateGrow
  <2>3. (Updates(Things) \cup Despawns(Things))' = Updates(Things') \cup Despawns(Things')
    BY DEF Updates, Despawns
  <2> QED
    BY <2>1, <2>2, <2>3 DEF MessagesOK, ViewInv, clientVars
<1>3. NothingYet'
  <2>1. CASE UNCHANGED <<session, projectiles>>
    BY <2>1 DEF NothingYet, ViewInv, clientVars
  <2>2. CASE Turn
    <3> SUFFICES ASSUME session' = "starting"
                 PROVE  screen' = {} /\ late' = {} /\ DOMAIN projectiles' = {}
      BY DEF NothingYet
    <3>1. session = "starting" /\ ~Online
      BY <2>2, SessionStep DEF ViewInv
    <3>2. UNCHANGED projectiles
      BY <2>2, <3>1, TurnOffline DEF ViewInv, EndPoll, AdvanceWaves, SpawnEnemies, Skip, fight
    <3> QED
      BY <3>1, <3>2 DEF NothingYet, ViewInv, clientVars
  <2> QED
    BY <2>1, <2>2 DEF Next, Receive, HearInput, GiveUp, TakeGhost, TakeOver, combatVars, fight
<1>4. ImagesOK'
  <2> SUFFICES ASSUME client' = "in", Online', NEW t \in Things' \ doubtful'
               PROVE  /\ t \in screen' => t \in Live'
                      /\ t \in Live' => t \in screen' \/ Pending(t)'
    BY DEF ImagesOK, ShownLives, LivesShown
  <2>1. /\ client = "in" /\ UNCHANGED <<screen, doubtful>>
        /\ UNCHANGED <<phase, session, enemies, projectiles, todo, dead>>
    BY DEF clientVars
  <2>2. Online /\ Live' = Live /\ (Pending(t)' <=> Pending(t))
    BY <2>1 DEF Online, Live, EnemiesLive, ProjectilesLive, Pending
  <2>3. ShownLives /\ LivesShown
    BY <2>1, <2>2 DEF ViewInv, ImagesOK
  <2>4. t \in screen => t \in Things
    BY DEF ViewInv, MessagesOK
  <2>5. t \in Live => t \in Things
    BY TheLivingAreThings DEF ViewInv
  <2>6. t \in screen => t \in Live
    BY <2>1, <2>3, <2>4 DEF ShownLives
  <2>7. t \in Live => t \in screen \/ Pending(t)
    BY <2>1, <2>3, <2>5 DEF LivesShown
  <2> QED
    BY <2>1, <2>2, <2>6, <2>7
<1> QED
  BY <1>1, <1>2, <1>3, <1>4

LEMMA HearLateView ==
    ASSUME ViewInv, NEW m \in late, HearLate(m)
    PROVE  NobodyLooks' /\ NothingYet' /\ MessagesOK' /\ ImagesOK'
<1>1. /\ UNCHANGED <<client, doubtful, combatVars>> /\ late' \subseteq late
      /\ m.of \in doubtful /\ screen' = Shown(screen, {m})
  BY DEF HearLate, ViewInv, MessagesOK, Of
<1>2. \A t : t # m.of => (t \in screen' <=> t \in screen)
  BY <1>1 DEF Shown, Of
<1>3. NobodyLooks' /\ NothingYet'
  BY <1>1 DEF ViewInv, NobodyLooks, NothingYet, combatVars, fight
<1>4. MessagesOK'
  <2>1. Things' = Things /\ doubtful' = doubtful
    BY <1>1 DEF Things, combatVars, clocks, fight
  <2>2. screen' \subseteq Things
    BY <1>1, <1>2 DEF ViewInv, MessagesOK
  <2>3. Of(late') \subseteq doubtful
    BY <1>1 DEF Of, ViewInv, MessagesOK
  <2>4. late' \subseteq (Updates(Things) \cup Despawns(Things))'
    BY <1>1, <2>1 DEF Updates, Despawns, ViewInv, MessagesOK
  <2> QED
    BY <1>1, <2>1, <2>2, <2>3, <2>4 DEF ViewInv, MessagesOK
<1>5. ImagesOK'
  <2>1. /\ Things' = Things /\ Live' = Live /\ (Online' <=> Online)
        /\ UNCHANGED <<client, doubtful, phase, todo, dead>>
    BY <1>1 DEF Things, Live, EnemiesLive, ProjectilesLive, Online, combatVars, clocks, fight, loop
  <2>2. \A t : Pending(t)' <=> Pending(t)
    BY <2>1 DEF Pending
  <2> QED
    BY <1>1, <1>2, <2>1, <2>2 DEF ViewInv, ImagesOK, ShownLives, LivesShown
<1> QED
  BY <1>3, <1>4, <1>5

LEMMA EnterView ==
    ASSUME ViewInv, Enter
    PROVE  NobodyLooks' /\ NothingYet' /\ MessagesOK' /\ ImagesOK'
<1>1. /\ client' = "in" /\ doubtful' = Live
      /\ UNCHANGED <<screen, late, combatVars>>
      /\ screen = {} /\ late = {}
  BY DEF Enter, ViewInv, NobodyLooks
<1>2. Things' = Things /\ Live' = Live /\ Live \subseteq Things
  BY <1>1, TheLivingAreThings DEF Things, Live, EnemiesLive, ProjectilesLive, combatVars, clocks, fight, ViewInv
<1>3. NobodyLooks' /\ NothingYet'
  BY <1>1 DEF ViewInv, NobodyLooks, NothingYet, combatVars, fight
<1>4. MessagesOK'
  BY <1>1, <1>2 DEF MessagesOK, Of
<1>5. ImagesOK'
  BY <1>1, <1>2 DEF ImagesOK, ShownLives, LivesShown
<1> QED
  BY <1>3, <1>4, <1>5

LEMMA LeaveView ==
    ASSUME ViewInv, Leave
    PROVE  NobodyLooks' /\ NothingYet' /\ MessagesOK' /\ ImagesOK'
<1>1. /\ client' = "gone" /\ screen' = {} /\ late' = {} /\ doubtful' = {}
      /\ UNCHANGED combatVars
  BY DEF Leave
<1>2. NobodyLooks' /\ NothingYet'
  BY <1>1 DEF ViewInv, NobodyLooks, NothingYet, combatVars, fight
<1>3. MessagesOK' /\ ImagesOK'
  BY <1>1 DEF MessagesOK, ImagesOK, Of
<1> QED
  BY <1>2, <1>3

-----------------------------------------------------------------------------
LEMMA ViewInvInit == ViewInit => ViewInv
<1> SUFFICES ASSUME ViewInit PROVE ViewInv
  OBVIOUS
<1>1. CombatInv
  BY InvInit DEF ViewInit
<1>2. NobodyLooks /\ MessagesOK /\ ImagesOK
  BY DEF ViewInit, NobodyLooks, MessagesOK, ImagesOK, Of
<1>3. NothingYet
  BY DEF ViewInit, Init, NothingYet
<1> QED
  BY <1>1, <1>2, <1>3 DEF ViewInv

LEMMA ViewInvStep == ViewInv /\ [ViewNext]_viewVars => ViewInv'
<1> SUFFICES ASSUME ViewInv, [ViewNext]_viewVars PROVE ViewInv'
  OBVIOUS
<1>1. [Next]_combatVars /\ CombatInv'
  BY ShardSteps, InvStep DEF ViewInv
<1>2. CASE ShardTurn /\ client = "in"
  BY <1>1, <1>2, TurnView DEF ShardTurn, ViewInv
<1>3. CASE ShardTurn /\ client # "in"
  BY <1>1, <1>3, ShardView DEF ShardTurn, ViewInv
<1>4. CASE ShardReceive
  BY <1>1, <1>4, ShardView
  DEF ShardReceive, Receive, HearInput, GiveUp, TakeGhost, TakeOver, fight, loop, ViewInv
<1>5. ASSUME NEW m \in late, HearLate(m) PROVE ViewInv'
  BY <1>1, <1>5, HearLateView DEF ViewInv
<1>6. CASE Enter
  BY <1>1, <1>6, EnterView DEF ViewInv
<1>7. CASE Leave
  BY <1>1, <1>7, LeaveView DEF ViewInv
<1>8. CASE UNCHANGED viewVars
  BY <1>1, <1>8, ShardView DEF viewVars, combatVars, fight, loop, ViewInv
<1> QED
  BY <1>2, <1>3, <1>4, <1>5, <1>6, <1>7, <1>8 DEF ViewNext

LEMMA ViewInvHolds == ViewSpec => []ViewInv
BY ViewInvInit, ViewInvStep, PTL DEF ViewSpec

\* What a client shows is of things that were, its late messages too, and
\* one that left shows nothing.
THEOREM ViewTypes == ViewSpec => []ViewTypeOK
<1>1. ViewInv => ViewTypeOK
  BY DEF ViewInv, NobodyLooks, MessagesOK, ViewTypeOK
<1> QED
  BY <1>1, ViewInvHolds, PTL

\* Between two ticks a client shows exactly what lives, save for what it is
\* in doubt about: no despawn and no update is ever left unsaid.
THEOREM ImagesStayTrue == ViewSpec => []ImagesAreTrue
<1>1. ASSUME ViewInv, client = "in", phase = "poll", Online, NEW t \in Things \ doubtful
      PROVE  t \in screen <=> t \in Live
  <2>1. ~Pending(t)
    BY <1>1 DEF Pending
  <2> QED
    BY <1>1, <2>1 DEF ViewInv, ImagesOK, ShownLives, LivesShown
<1>2. ViewInv => ImagesAreTrue
  BY <1>1 DEF ImagesAreTrue
<1> QED
  BY <1>2, ViewInvHolds, PTL
=============================================================================
