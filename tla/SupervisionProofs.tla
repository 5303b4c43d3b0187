-------------------------- MODULE SupervisionProofs --------------------------
(***************************************************************************)
(* Theorems about Supervision, for any number of shards and any times.     *)
(***************************************************************************)
EXTENDS Supervision, FiniteSetTheorems, TLAPS

-----------------------------------------------------------------------------
(* What the actions are made of. *)

USE DEF Dead, Never, Stopped

\* What the supervisor finds and leaves of the fleet.
LEMMA FleetNoted ==
    ASSUME TypeOK, NEW s \in Shards
    PROVE  FleetAfterSpawns[s] = IF Missing(s) THEN 0 ELSE fleet[s]
BY DEF FleetAfterSpawns

\* One tick of the supervisor, for each shard on its own.
LEMMA SupervisingAShard ==
    ASSUME TypeOK, Supervise
    PROVE  /\ timer = 0 /\ timer' = SuperviseEvery
           /\ UNCHANGED <<network, deaths, restarts, outage>>
           /\ fleet' = FleetAfterSpawns
           /\ failures' \in Nat /\ failures' >= failures
           /\ due' \in [Shards -> [Slots -> Dead .. FirstBeat]]
           /\ downFor' \in [Shards -> Nat]
           /\ \A s \in Shards :
                 \/ due'[s] = due[s] /\ downFor'[s] = downFor[s]
                    /\ (Missing(s) => failures' >= failures + 1)
                 \/ /\ Missing(s) /\ downFor'[s] = 0
                    /\ \E i \in Slots, first \in 0 .. FirstBeat :
                          due[s][i] = Dead /\ due'[s] = [due[s] EXCEPT ![i] = first]
<1> DEFINE missing == {s \in Shards : Missing(s)}
<1>1. PICK failed \in SUBSET missing :
        /\ failures' = failures + Cardinality(failed)
        /\ failures' <= MaxFailures
        /\ Spawn(missing \ failed)
  BY DEF Supervise
<1> DEFINE spawned == missing \ failed
<1>2. PICK slot \in [spawned -> Slots], first \in [spawned -> 0 .. FirstBeat] :
        /\ \A s \in spawned : due[s][slot[s]] = Dead
        /\ due' = [s \in Shards |->
                      IF s \in spawned THEN [due[s] EXCEPT ![slot[s]] = first[s]] ELSE due[s]]
        /\ downFor' = [s \in Shards |-> IF s \in spawned THEN 0 ELSE downFor[s]]
  BY <1>1 DEF Spawn
<1>3. IsFiniteSet(failed) /\ Cardinality(failed) \in Nat
  <2>1. 0 \in Int /\ ShardCount - 1 \in Int
    BY CountsAssumption
  <2>2. IsFiniteSet(Shards)
    BY <2>1, FS_Interval DEF Shards
  <2>3. failed \subseteq Shards
    OBVIOUS
  <2> QED
    BY <2>2, <2>3, FS_Subset, FS_CardinalityType
<1>4. failures' \in Nat /\ failures' >= failures
  BY <1>1, <1>3 DEF TypeOK
<1>5. ASSUME NEW s \in Shards, Missing(s), s \notin spawned PROVE failures' >= failures + 1
  <2>1. s \in failed
    BY <1>5
  <2>2. Cardinality(failed) # 0
    BY <2>1, <1>3, FS_EmptySet
  <2> QED
    BY <2>2, <1>1, <1>3 DEF TypeOK
<1>6. due' \in [Shards -> [Slots -> Dead .. FirstBeat]]
  <2>1. ASSUME NEW s \in Shards PROVE due'[s] \in [Slots -> Dead .. FirstBeat]
    <3>1. CASE s \in spawned
      <4>1. due'[s] = [due[s] EXCEPT ![slot[s]] = first[s]]
        BY <1>2, <3>1
      <4>2. first[s] \in Dead .. FirstBeat
        BY <3>1, TimesAssumption
      <4> QED
        BY <4>1, <4>2 DEF TypeOK
    <3>2. CASE s \notin spawned
      BY <1>2, <3>2 DEF TypeOK
    <3> QED
      BY <3>1, <3>2
  <2> QED
    BY <2>1, <1>2
<1>7. downFor' \in [Shards -> Nat]
  BY <1>2 DEF TypeOK
<1>8. ASSUME NEW s \in Shards
      PROVE  \/ due'[s] = due[s] /\ downFor'[s] = downFor[s]
                /\ (Missing(s) => failures' >= failures + 1)
             \/ /\ Missing(s) /\ downFor'[s] = 0
                /\ \E i \in Slots, f \in 0 .. FirstBeat :
                      due[s][i] = Dead /\ due'[s] = [due[s] EXCEPT ![i] = f]
  <2>1. CASE s \in spawned
    <3>1. due'[s] = [due[s] EXCEPT ![slot[s]] = first[s]] /\ downFor'[s] = 0
      BY <1>2, <2>1
    <3>2. slot[s] \in Slots /\ first[s] \in 0 .. FirstBeat /\ due[s][slot[s]] = Dead /\ Missing(s)
      BY <1>2, <2>1
    <3> QED
      BY <3>1, <3>2
  <2>2. CASE s \notin spawned
    BY <1>2, <1>5, <2>2
  <2> QED
    BY <2>1, <2>2
<1> QED
  BY <1>4, <1>6, <1>7, <1>8 DEF Supervise

-----------------------------------------------------------------------------
(* Types. *)

\* By the supervisor's next tick no shard has been unseen for longer than this.
FleetIsSwept == \A s \in Shards : fleet[s] + timer <= Ttl + SuperviseEvery

\* An orchestrator that does not run has heard of nobody.
StoppedKnowsNothing == timer = Stopped => \A s \in Shards : fleet[s] = Never

TypeInv == TypeOK /\ FleetIsSwept /\ StoppedKnowsNothing

LEMMA TypesInitially == Init => TypeInv
BY TimesAssumption, CountsAssumption DEF Init, TypeInv, TypeOK, FleetIsSwept, StoppedKnowsNothing, Shards, Slots

LEMMA TimerRuns ==
    ASSUME TypeOK, TimePasses, timer # Stopped
    PROVE  timer \in 1 .. SuperviseEvery /\ timer' = timer - 1 /\ outage' = outage
<1>1. timer # 0 /\ timer' = timer - 1 /\ outage' = outage
  BY DEF TimePasses, NothingIsDue
<1>2. timer \in Stopped .. SuperviseEvery /\ SuperviseEvery \in Nat
  BY TimesAssumption DEF TypeOK
<1> QED
  BY <1>1, <1>2

LEMMA TypesPreserved == TypeInv /\ [Next]_vars => TypeInv'
<1> SUFFICES ASSUME TypeInv, [Next]_vars PROVE TypeInv'
  OBVIOUS
<1> USE TimesAssumption, CountsAssumption, DelayAssumption DEF TypeInv, FleetIsSwept, StoppedKnowsNothing
<1>1. CASE TimePasses
  <2> USE <1>1 DEF TimePasses, NothingIsDue
  <2>1. (due \in [Shards -> [Slots -> Dead .. FirstBeat]])'
    BY DEF TypeOK, Sooner
  <2>2. (beats \subseteq [shard : Shards, age : 0 .. MaxDelay])'
    BY DEF TypeOK
  <2>3. (timer \in Stopped .. SuperviseEvery)' /\ outage' \in Nat
        /\ (timer' = Stopped => timer = Stopped)
    <3>1. timer \in Stopped .. SuperviseEvery /\ outage \in Nat
      BY DEF TypeOK
    <3>2. CASE timer = Stopped
      BY <3>1, <3>2
    <3>3. CASE timer # Stopped
      <4>1. timer \in 1 .. SuperviseEvery /\ timer' = timer - 1 /\ outage' = outage
        BY <3>3, TimerRuns
      <4> QED
        BY <3>1, <4>1
    <3> QED
      BY <3>2, <3>3
  <2>4. ASSUME NEW s \in Shards
        PROVE  fleet'[s] \in Never .. Ttl + SuperviseEvery /\ fleet'[s] + timer' <= Ttl + SuperviseEvery
    <3>1. fleet[s] \in Never .. Ttl + SuperviseEvery /\ timer \in Stopped .. SuperviseEvery
      BY DEF TypeOK
    <3>2. fleet'[s] = Older(fleet[s])
      OBVIOUS
    <3>3. CASE timer = Stopped
      <4>1. timer' = Stopped /\ fleet'[s] = Never
        BY <3>2, <3>3 DEF Older
      <4> QED
        BY <4>1
    <3>4. CASE timer # Stopped
      <4>1. timer \in 1 .. SuperviseEvery /\ timer' = timer - 1 /\ fleet[s] + timer <= Ttl + SuperviseEvery
        BY <3>4, TimerRuns
      <4> QED
        BY <3>1, <3>2, <4>1 DEF Older
    <3> QED
      BY <3>3, <3>4
  <2>5. (downFor \in [Shards -> Nat])'
    BY DEF TypeOK
  <2>6. fleet' \in [Shards -> Never .. Ttl + SuperviseEvery]
    BY <2>4
  <2> QED
    BY <2>1, <2>2, <2>3, <2>4, <2>5, <2>6 DEF TypeOK, Older
<1>2. ASSUME NEW s \in Shards, NEW i \in Slots, Beat(s, i) PROVE TypeInv'
  <2>1. (due \in [Shards -> [Slots -> Dead .. FirstBeat]])'
    BY <1>2 DEF Beat, TypeOK
  <2>2. (beats \subseteq [shard : Shards, age : 0 .. MaxDelay])'
    BY <1>2 DEF Beat, TypeOK
  <2> QED
    BY <1>2, <2>1, <2>2 DEF Beat, TypeOK, bounds, orchestrator
<1>3. ASSUME NEW s \in Shards, NEW i \in Slots, Die(s, i) PROVE TypeInv'
  <2>1. (due \in [Shards -> [Slots -> Dead .. FirstBeat]])'
    BY <1>3 DEF Die, TypeOK
  <2> QED
    BY <1>3, <2>1 DEF Die, TypeOK, network, orchestrator
<1>4. ASSUME NEW b \in beats, Lose(b) PROVE TypeInv'
  BY <1>4 DEF Lose, TypeOK, processes, orchestrator, bounds
<1>5. ASSUME NEW b \in beats, Hear(b) PROVE TypeInv'
  BY <1>5 DEF Hear, Seen, TypeOK, processes, bounds
<1>6. CASE Supervise
  <2> DEFINE now == FleetAfterSpawns
  <2>1. \A s \in Shards : now[s] = IF Missing(s) THEN 0 ELSE fleet[s]
    BY FleetNoted
  <2>2. \A s \in Shards : now[s] \in Never .. Ttl /\ now[s] + SuperviseEvery <= Ttl + SuperviseEvery
    BY <2>1 DEF TypeOK, Missing
  <2>3. now \in [Shards -> Never .. Ttl + SuperviseEvery]
    BY <2>2 DEF FleetAfterSpawns
  <2> HIDE DEF now
  <2> QED
    BY <1>6, <2>2, <2>3, SupervisingAShard DEF TypeOK, network, now
<1>7. CASE StopOrchestrator
  BY <1>7 DEF StopOrchestrator, TypeOK, processes, network, bounds
<1>8. CASE StartOrchestrator
  BY <1>8 DEF StartOrchestrator, TypeOK, processes
<1>9. ASSUME NEW b \in beats, Unheard(b) PROVE TypeInv'
  BY <1>9 DEF Unheard, TypeOK, processes, orchestrator, bounds
<1>10. CASE UNCHANGED vars
  BY <1>10 DEF vars, processes, network, orchestrator, bounds, TypeOK
<1> QED
  BY <1>1, <1>2, <1>3, <1>4, <1>5, <1>6, <1>7, <1>8, <1>9, <1>10 DEF Next

\* The variables have their types and no age outgrows its bound, however long
\* the orchestrator runs and whatever it restarts.
THEOREM TypeCorrect == Spec => []TypeOK
<1>1. Spec => []TypeInv
  BY TypesInitially, TypesPreserved, PTL DEF Spec
<1> QED
  BY <1>1, PTL DEF TypeInv

-----------------------------------------------------------------------------
(* A shard that is down is soon respawned. *)

LEMMA Products ==
    ASSUME NEW p \in Nat
    PROVE  \A m, n \in Nat : /\ n * p \in Nat
                             /\ (n + 1) * p = n * p + p
                             /\ m <= n => m * p <= n * p
<1>1. \A n \in Nat : n * p \in Nat /\ (n + 1) * p = n * p + p
  OBVIOUS
<1>2. ASSUME NEW m \in Nat, NEW n \in Nat, m <= n PROVE m * p <= n * p
  <2>1. n - m \in Nat
    BY <1>2
  <2>2. (n - m) * p \in Nat
    BY <2>1
  <2>3. n * p = m * p + (n - m) * p
    BY <2>1
  <2> QED
    BY <2>2, <2>3, <1>1
<1> QED
  BY <1>1, <1>2

\* What passing time does to the heartbeats under way.
LEMMA BeatsAge ==
    ASSUME TypeOK, TimePasses
    PROVE  /\ \A new \in beats' : \E b \in beats : new.shard = b.shard /\ new.age = b.age + 1
           /\ \A b \in beats : [shard |-> b.shard, age |-> b.age + 1] \in beats'
<1>1. beats' = {[b EXCEPT !.age = @ + 1] : b \in beats}
  BY DEF TimePasses
<1>2. \A b \in beats : [b EXCEPT !.age = @ + 1] = [shard |-> b.shard, age |-> b.age + 1]
  BY DEF TypeOK
<1> QED
  BY <1>1, <1>2

Period == Ttl + SuperviseEvery

\* A shard that is up has not been down; ...
UpIsNotDown == \A s \in Shards : Live(s) # {} => downFor[s] = 0
\* ... one that is down sends no heartbeat, so those under way are older; ...
BeatsOutliveTheDead == \A b \in beats : downFor[b.shard] <= b.age
\* ... and it went down, or its respawn failed, before it was last seen.
SeenWhenDown ==
    \A s \in Shards : IF fleet[s] = Never THEN timer \in {0, Stopped}
                      ELSE downFor[s] <= MaxDelay + failures * Period + fleet[s] + outage

DownInv == UpIsNotDown /\ BeatsOutliveTheDead /\ SeenWhenDown /\ RespawnedInTime

LEMMA DownInitially == Init => DownInv
<1> SUFFICES ASSUME Init PROVE DownInv
  OBVIOUS
<1>1. \A s \in Shards : Live(s) = {}
  BY DEF Init, Live
<1> QED
  BY <1>1, TimesAssumption
     DEF Init, DownInv, UpIsNotDown, BeatsOutliveTheDead, SeenWhenDown, RespawnedInTime

\* It is enough to bound the time since a shard that was seen went down.
LEMMA SeenIsInTime ==
    ASSUME NEW down \in Nat, NEW seen \in Nat, NEW n \in Nat, NEW out \in Nat,
           seen <= Period, down <= MaxDelay + n * Period + seen + out
    PROVE  down <= MaxDelay + (n + 1) * (Ttl + SuperviseEvery) + out
<1>1. Period \in Nat
  BY TimesAssumption DEF Period
<1>2. n * Period \in Nat /\ (n + 1) * Period = n * Period + Period
  BY <1>1, Products
<1>3. down <= MaxDelay + (n + 1) * Period + out
  BY <1>1, <1>2, TimesAssumption
<1> QED
  BY <1>3 DEF Period

LEMMA DownPreserved == TypeInv /\ TypeInv' /\ DownInv /\ [Next]_vars => DownInv'
<1> SUFFICES ASSUME TypeInv, TypeInv', DownInv, [Next]_vars PROVE DownInv'
  OBVIOUS
<1> USE TimesAssumption DEF TypeInv
<1>a. TypeOK /\ TypeOK'
  OBVIOUS
<1>b. UpIsNotDown /\ BeatsOutliveTheDead /\ SeenWhenDown /\ RespawnedInTime
  BY DEF DownInv
<1>c. Period \in Nat /\ failures \in Nat /\ failures * Period \in Nat
  BY Products DEF Period, TypeOK
<1>d. ASSUME UpIsNotDown', BeatsOutliveTheDead', SeenWhenDown', \A s \in Shards : fleet'[s] # Never
      PROVE  DownInv'
  <2>1. SUFFICES RespawnedInTime'
    BY <1>d DEF DownInv
  <2> SUFFICES ASSUME NEW s \in Shards
               PROVE  (downFor[s] <= MaxDelay + (failures + 1) * (Ttl + SuperviseEvery) + outage)'
    BY DEF RespawnedInTime
  <2>2. (downFor[s] <= MaxDelay + failures * Period + fleet[s] + outage)'
    BY <1>d DEF SeenWhenDown, Period
  <2>3. fleet'[s] \in Nat /\ fleet'[s] <= Period /\ downFor'[s] \in Nat /\ failures' \in Nat /\ outage' \in Nat
    BY <1>a, <1>d DEF TypeOK, Period
  <2> QED
    BY <2>2, <2>3, SeenIsInTime
<1>1. CASE TimePasses
  <2> USE <1>1 DEF TimePasses
  <2>1. \A s \in Shards : Live(s)' = Live(s)
    BY <1>a DEF Live, Sooner, TypeOK, NothingIsDue
  <2>2. \A s \in Shards : downFor'[s] = IF Live(s) = {} THEN downFor[s] + 1 ELSE 0
    OBVIOUS
  <2>3. UpIsNotDown'
    BY <2>1, <2>2 DEF UpIsNotDown
  <2>4. BeatsOutliveTheDead'
    BY <1>a, <1>b, <2>2, BeatsAge DEF BeatsOutliveTheDead, TypeOK
  <2>5. CASE timer # Stopped
    <3>1. \A s \in Shards : fleet[s] # Never /\ fleet'[s] = fleet[s] + 1
      BY <1>a, <1>b, <2>5 DEF SeenWhenDown, NothingIsDue, TypeOK, Older
    <3>2. SeenWhenDown'
      BY <1>a, <1>b, <1>c, <2>2, <2>5, <3>1 DEF SeenWhenDown, TypeOK, Period
    <3> QED
      BY <1>a, <1>d, <2>3, <2>4, <3>1, <3>2 DEF TypeOK
  <2>6. CASE timer = Stopped
    <3>1. \A s \in Shards : fleet'[s] = Never
      BY <2>6 DEF StoppedKnowsNothing, Older
    <3>2. SeenWhenDown'
      BY <2>6, <3>1 DEF SeenWhenDown
    <3>3. RespawnedInTime'
      <4> SUFFICES ASSUME NEW s \in Shards
                   PROVE  downFor'[s] <= MaxDelay + (failures' + 1) * (Ttl + SuperviseEvery) + outage'
        BY DEF RespawnedInTime
      <4> DEFINE bound == MaxDelay + (failures + 1) * (Ttl + SuperviseEvery)
      <4>1. downFor[s] <= bound + outage
        BY <1>b DEF RespawnedInTime
      <4>2. downFor[s] \in Nat /\ outage \in Nat /\ bound \in Nat
        <5>1. (failures + 1) * Period \in Nat
          <6>1. failures + 1 \in Nat
            BY <1>c
          <6> HIDE DEF Period
          <6> QED
            BY <6>1, <1>c, Products
        <5> QED
          BY <1>a, <5>1 DEF TypeOK, Period
      <4>3. outage' = outage + 1 /\ failures' = failures /\ downFor'[s] <= downFor[s] + 1
        BY <1>a, <2>2, <2>6, <4>2
      <4>4. downFor'[s] \in Nat
        BY <1>a DEF TypeOK
      <4>5. downFor'[s] <= bound + outage'
        <5> HIDE DEF bound
        <5> QED
          BY <4>1, <4>2, <4>3, <4>4
      <4> QED
        BY <4>3, <4>5
    <3> QED
      BY <2>3, <2>4, <3>2, <3>3 DEF DownInv
  <2> QED
    BY <2>5, <2>6
<1>2. ASSUME NEW s \in Shards, NEW i \in Slots, Beat(s, i) PROVE DownInv'
  <2>1. i \in Live(s)
    BY <1>2 DEF Beat, Live
  <2>2. \A r \in Shards : Live(r)' # {} => Live(r) # {}
    BY <1>2, <2>1, <1>a DEF Beat, Live, TypeOK
  <2>3. UpIsNotDown'
    BY <1>2, <1>b, <2>2 DEF Beat, UpIsNotDown
  <2>4. BeatsOutliveTheDead'
    BY <1>2, <1>b, <2>1 DEF Beat, BeatsOutliveTheDead, UpIsNotDown
  <2> QED
    BY <1>2, <1>b, <2>3, <2>4
       DEF Beat, DownInv, SeenWhenDown, RespawnedInTime, orchestrator, bounds, Period
<1>3. ASSUME NEW s \in Shards, NEW i \in Slots, Die(s, i) PROVE DownInv'
  <2>1. \A r \in Shards : Live(r)' # {} => Live(r) # {}
    BY <1>3, <1>a DEF Die, Live, TypeOK
  <2> QED
    BY <1>3, <1>b, <2>1
       DEF Die, DownInv, UpIsNotDown, BeatsOutliveTheDead, SeenWhenDown, RespawnedInTime,
           orchestrator, network, Period
<1>4. ASSUME NEW b \in beats, Lose(b) PROVE DownInv'
  <2>1. \A r \in Shards : Live(r)' = Live(r)
    BY <1>4 DEF Lose, Live, processes
  <2> QED
    BY <1>4, <1>b, <2>1
       DEF Lose, DownInv, UpIsNotDown, BeatsOutliveTheDead, SeenWhenDown, RespawnedInTime,
           orchestrator, processes, bounds, Period
<1>5. ASSUME NEW b \in beats, Hear(b) PROVE DownInv'
  <2>1. \A r \in Shards : Live(r)' = Live(r)
    BY <1>5 DEF Hear, Live, processes
  <2>2. UpIsNotDown' /\ BeatsOutliveTheDead'
    BY <1>5, <1>b, <2>1 DEF Hear, UpIsNotDown, BeatsOutliveTheDead, processes
  <2>3. downFor[b.shard] <= MaxDelay /\ b.shard \in Shards
    BY <1>a, <1>b DEF BeatsOutliveTheDead, TypeOK
  <2>4. \A s \in Shards : fleet'[s] = IF s = b.shard THEN 0 ELSE fleet[s]
    BY <1>5, <1>a DEF Hear, Seen, TypeOK
  <2>5. UNCHANGED <<downFor, failures, timer, outage>>
    BY <1>5 DEF Hear, processes, bounds
  <2> DEFINE before == MaxDelay + failures * Period
  <2>6. before \in Nat /\ before >= MaxDelay /\ outage \in Nat
    <3>1. before \in Nat /\ before >= MaxDelay
      BY <1>c
    <3> HIDE DEF before
    <3> QED
      BY <1>a, <3>1 DEF TypeOK
  <2>8. \A s \in Shards : IF fleet[s] = Never THEN timer \in {0, Stopped}
                          ELSE downFor[s] <= before + fleet[s] + outage
    BY <1>b DEF SeenWhenDown
  <2>9. \A s \in Shards : fleet'[s] = Never \/ downFor[s] <= before + fleet'[s] + outage
    <3> HIDE DEF before
    <3> SUFFICES ASSUME NEW s \in Shards PROVE fleet'[s] = Never \/ downFor[s] <= before + fleet'[s] + outage
      OBVIOUS
    <3>1. CASE s = b.shard
      <4>1. downFor[s] <= MaxDelay /\ fleet'[s] = 0 /\ downFor[s] \in Nat
        BY <3>1, <2>3, <2>4, <1>a DEF TypeOK
      <4> QED
        BY <4>1, <2>6
    <3>2. CASE s # b.shard
      BY <3>2, <2>4, <2>8
    <3> QED
      BY <3>1, <3>2
  <2>10. \A s \in Shards : fleet'[s] = Never => timer \in {0, Stopped}
    BY <2>4, <2>8
  <2>11. SeenWhenDown'
    BY <2>5, <2>9, <2>10 DEF SeenWhenDown, Period
  <2>7. RespawnedInTime'
    BY <1>b, <2>5 DEF RespawnedInTime
  <2> QED
    BY <2>2, <2>11, <2>7 DEF DownInv
<1>6. CASE Supervise
  <2>1. \A s \in Shards : fleet'[s] = IF Missing(s) THEN 0 ELSE fleet[s]
    BY <1>6, <1>a, SupervisingAShard, FleetNoted
  <2>2. \A s \in Shards : fleet'[s] # Never
    BY <1>a, <2>1 DEF Missing, TypeOK
  <2>3. beats' = beats /\ outage' = outage /\ outage \in Nat
    BY <1>6, <1>a, SupervisingAShard DEF network, TypeOK
  <2>4. \A s \in Shards : downFor'[s] <= downFor[s]
    BY <1>6, <1>a, SupervisingAShard DEF TypeOK
  <2>5. ASSUME NEW s \in Shards, Live(s)' # {} PROVE downFor'[s] = 0
    <3>1. CASE due'[s] = due[s] /\ downFor'[s] = downFor[s]
      <4>1. Live(s)' = Live(s)
        BY <3>1 DEF Live
      <4> QED
        BY <3>1, <4>1, <1>b, <2>5 DEF UpIsNotDown
    <3> QED
      BY <3>1, <1>6, <1>a, SupervisingAShard
  <2>6. BeatsOutliveTheDead'
    BY <1>a, <1>b, <2>3, <2>4 DEF BeatsOutliveTheDead, TypeOK
  <2>7. ASSUME NEW s \in Shards PROVE downFor'[s] <= MaxDelay + failures' * Period + fleet'[s] + outage'
    <3>1. failures' \in Nat /\ failures' >= failures /\ failures' * Period \in Nat
      BY <1>6, <1>a, <1>c, SupervisingAShard, Products
    <3>2. CASE ~Missing(s)
      <4>1. failures * Period <= failures' * Period
        BY <3>1, <1>c, Products
      <4>2. downFor[s] <= MaxDelay + failures * Period + fleet[s] + outage
        BY <3>2, <1>b DEF Missing, SeenWhenDown
      <4>3. fleet'[s] = fleet[s] /\ downFor'[s] <= downFor[s]
        BY <2>1, <2>4, <3>2
      <4>4. downFor[s] \in Nat /\ downFor'[s] \in Nat /\ fleet[s] \in Int
        BY <1>a DEF TypeOK
      <4> DEFINE before == failures * Period
                 after == failures' * Period
      <4>5. before \in Nat /\ after \in Nat /\ before <= after
        BY <3>1, <4>1, <1>c
      <4>6. downFor[s] <= MaxDelay + before + fleet[s] + outage
        BY <4>2
      <4> HIDE DEF before, after
      <4>7. downFor'[s] <= MaxDelay + after + fleet'[s] + outage
        BY <2>3, <4>3, <4>4, <4>5, <4>6
      <4> QED
        BY <2>3, <4>7 DEF after
    <3>3. CASE Missing(s) /\ downFor'[s] = 0
      BY <3>1, <3>3, <2>1, <2>3
    <3>4. CASE Missing(s) /\ failures' >= failures + 1 /\ downFor'[s] = downFor[s]
      <4>3. failures + 1 \in Nat /\ failures' \in Nat /\ failures + 1 <= failures'
        BY <3>1, <3>4, <1>c
      <4>1. (failures + 1) * Period <= failures' * Period /\ (failures + 1) * Period \in Nat
        <5> HIDE DEF Period
        <5> QED
          BY <4>3, <1>c, Products
      <4>2. downFor[s] <= MaxDelay + (failures + 1) * Period + outage
        BY <1>b DEF RespawnedInTime, Period
      <4> QED
        BY <3>1, <3>4, <4>1, <4>2, <2>1, <2>3, <1>a DEF TypeOK
    <3> QED
      BY <3>2, <3>3, <3>4, <1>6, <1>a, SupervisingAShard
  <2>8. UpIsNotDown' /\ SeenWhenDown'
    BY <2>2, <2>5, <2>7 DEF UpIsNotDown, SeenWhenDown, Period
  <2> QED
    BY <1>d, <2>2, <2>6, <2>8
<1>7. CASE StopOrchestrator
  <2>1. \A r \in Shards : Live(r)' = Live(r)
    BY <1>7 DEF StopOrchestrator, Live, processes
  <2> QED
    BY <1>7, <1>b, <2>1
       DEF StopOrchestrator, DownInv, UpIsNotDown, BeatsOutliveTheDead, SeenWhenDown,
           RespawnedInTime, processes, network, bounds
<1>8. CASE StartOrchestrator
  <2>1. \A r \in Shards : Live(r)' = Live(r) /\ fleet'[r] = Never
    BY <1>8 DEF StartOrchestrator, Live, processes, StoppedKnowsNothing
  <2> QED
    BY <1>8, <1>b, <2>1
       DEF StartOrchestrator, DownInv, UpIsNotDown, BeatsOutliveTheDead, SeenWhenDown,
           RespawnedInTime, processes
<1>9. ASSUME NEW b \in beats, Unheard(b) PROVE DownInv'
  <2>1. \A r \in Shards : Live(r)' = Live(r)
    BY <1>9 DEF Unheard, Live, processes
  <2> QED
    BY <1>9, <1>b, <2>1
       DEF Unheard, DownInv, UpIsNotDown, BeatsOutliveTheDead, SeenWhenDown, RespawnedInTime,
           orchestrator, processes, bounds, Period
<1>10. CASE UNCHANGED vars
  <2>1. \A r \in Shards : Live(r)' = Live(r)
    BY <1>10 DEF vars, Live, processes
  <2> QED
    BY <1>10, <1>b, <2>1
       DEF vars, DownInv, UpIsNotDown, BeatsOutliveTheDead, SeenWhenDown, RespawnedInTime,
           processes, network, orchestrator, bounds, Period
<1> QED
  BY <1>1, <1>2, <1>3, <1>4, <1>5, <1>6, <1>7, <1>8, <1>9, <1>10 DEF Next

\* A shard whose process has died has a new one within a heartbeat's delay, the
\* TTL and one period of the supervisor, as long again for each spawn that
\* failed, and the time for which no orchestrator ran.
THEOREM DeadAreRespawned == Spec => []RespawnedInTime
<1>1. TypeInv /\ DownInv /\ [Next]_vars => (TypeInv /\ DownInv)'
  BY TypesPreserved, DownPreserved
<1>2. Spec => [](TypeInv /\ DownInv)
  BY <1>1, TypesInitially, DownInitially, PTL DEF Spec
<1> QED
  BY <1>2, PTL DEF DownInv

-----------------------------------------------------------------------------
(* No shard that is alive is taken for dead. *)

UnderWay(s, age) == [shard |-> s, age |-> age] \in beats

\* Between two heartbeats that arrive, a process sends at most MaxLost that do
\* not: its next heartbeat, or the one it has under way, comes in time.
Punctual(s, i) ==
    \/ fleet[s] + due[s][i] <= FirstBeat + lost[s] * HeartbeatEvery
    \/ /\ due[s][i] <= HeartbeatEvery
       /\ UnderWay(s, HeartbeatEvery - due[s][i])
       /\ fleet[s] + due[s][i] <= FirstBeat + lost[s] * HeartbeatEvery + HeartbeatEvery

AllPunctual == \A s \in Shards : fleet[s] # Never => \A i \in Live(s) : Punctual(s, i)

\* A process is accounted for by the orchestrator that runs, or ran last, once
\* it has seen the shard, or by an earlier one.
Seeing(s) == fleet[s] # Never \/ timer = Stopped

Accounted ==
    \A s \in Shards : Cardinality(Live(s)) <= restarts + (IF Seeing(s) THEN 1 ELSE 0)

LiveInv == AllPunctual /\ Accounted

LEMMA LiveIsFinite ==
    \A s \in Shards : /\ IsFiniteSet(Live(s)) /\ Cardinality(Live(s)) \in Nat
                      /\ IsFiniteSet(Live(s)') /\ Cardinality(Live(s)') \in Nat
<1>1. IsFiniteSet(Slots)
  BY CountsAssumption, FS_Interval DEF Slots
<1>2. \A s \in Shards : Live(s) \subseteq Slots /\ Live(s)' \subseteq Slots
  BY DEF Live
<1> QED
  BY <1>1, <1>2, FS_Subset, FS_CardinalityType

\* With as many heartbeats lost as there may be, it still comes before the TTL
\* is over.
LEMMA PunctualIsAlive ==
    ASSUME TtlIsLongEnough, TypeOK, AllPunctual, NEW s \in Shards, Missing(s), fleet[s] # Never
    PROVE  Live(s) = {}
<1> SUFFICES ASSUME NEW i \in Live(s) PROVE FALSE
  OBVIOUS
<1> USE TimesAssumption, CountsAssumption, DelayAssumption
<1>1. Punctual(s, i)
  BY DEF AllPunctual
<1>2. i \in Slots /\ due[s][i] \in 0 .. FirstBeat
  BY DEF Live, TypeOK
<1> DEFINE late == lost[s] * HeartbeatEvery
           latest == MaxLost * HeartbeatEvery
<1>3. late \in Nat /\ latest \in Nat /\ late <= latest
  BY Products DEF TypeOK
<1>4. fleet[s] \in Nat /\ fleet[s] > Ttl
  BY DEF Missing, TypeOK
<1>5. FirstBeat + latest + MaxDelay <= Ttl
  BY DEF TtlIsLongEnough
<1>6. CASE fleet[s] + due[s][i] <= FirstBeat + late
  <2> HIDE DEF late, latest
  <2> QED
    BY <1>2, <1>3, <1>4, <1>5, <1>6
<1>7. CASE /\ UnderWay(s, HeartbeatEvery - due[s][i])
           /\ fleet[s] + due[s][i] <= FirstBeat + late + HeartbeatEvery
  <2>1. HeartbeatEvery - due[s][i] <= MaxDelay
    BY <1>2, <1>7 DEF UnderWay, TypeOK
  <2> HIDE DEF late, latest
  <2> QED
    BY <2>1, <1>2, <1>3, <1>4, <1>5, <1>7
<1> QED
  BY <1>1, <1>6, <1>7 DEF Punctual

LEMMA LiveInitially == Init => LiveInv
<1> SUFFICES ASSUME Init PROVE LiveInv
  OBVIOUS
<1>1. \A s \in Shards : Live(s) = {} /\ fleet[s] = Never
  BY DEF Init, Live
<1>2. Cardinality({}) = 0 /\ restarts = 0
  BY FS_EmptySet DEF Init
<1> QED
  BY <1>1, <1>2 DEF LiveInv, AllPunctual, Accounted, Seeing

\* Whoever is alive was so before, with as good an account of it.
LEMMA AccountKept ==
    ASSUME Accounted, restarts' = restarts,
           \A s \in Shards : Live(s)' \subseteq Live(s) /\ (Seeing(s) => Seeing(s)'),
           restarts \in Nat
    PROVE  Accounted'
<1> SUFFICES ASSUME NEW s \in Shards
             PROVE  Cardinality(Live(s)') <= restarts + (IF Seeing(s)' THEN 1 ELSE 0)
  BY DEF Accounted
<1>1. Cardinality(Live(s)') <= Cardinality(Live(s))
  BY LiveIsFinite, FS_Subset
<1>2. Cardinality(Live(s)) <= restarts + (IF Seeing(s) THEN 1 ELSE 0)
  BY DEF Accounted
<1>3. Cardinality(Live(s)) \in Nat /\ Cardinality(Live(s)') \in Nat
  BY LiveIsFinite
<1> QED
  BY <1>1, <1>2, <1>3

LEMMA LivePreserved ==
    ASSUME TtlIsLongEnough, TypeInv, LiveInv, [Next]_vars
    PROVE  LiveInv'
<1> USE TimesAssumption, DelayAssumption DEF LiveInv, Seeing
<1>a. TypeOK
  BY DEF TypeInv
<1>b. \A s \in Shards : lost[s] * HeartbeatEvery \in Nat
  BY <1>a, Products DEF TypeOK
<1>1. CASE TimePasses
  <2> USE <1>1 DEF TimePasses
  <2>1. \A s \in Shards : Live(s)' = Live(s)
    BY <1>a DEF Live, Sooner, TypeOK, NothingIsDue
  <2>2. \A s \in Shards : IF fleet[s] = Never THEN fleet'[s] = Never
                          ELSE fleet'[s] = fleet[s] + 1 /\ fleet'[s] # Never
    BY <1>a DEF Older, TypeOK
  <2>3. ASSUME NEW s \in Shards, fleet'[s] # Never, NEW i \in Live(s) PROVE Punctual(s, i)'
    <3>1. i \in Slots /\ due[s][i] \in Int /\ due'[s][i] = due[s][i] - 1 /\ fleet[s] \in Int
      BY <1>a DEF Live, Sooner, TypeOK
    <3>2. Punctual(s, i) /\ fleet'[s] = fleet[s] + 1
      BY <2>2, <2>3 DEF AllPunctual
    <3>3. fleet'[s] + due'[s][i] = fleet[s] + due[s][i] /\ lost' = lost
      <4>1. \A seen, left \in Int : (seen + 1) + (left - 1) = seen + left
        OBVIOUS
      <4>2. fleet'[s] + due'[s][i] = (fleet[s] + 1) + (due[s][i] - 1)
        BY <3>1, <3>2, Zenon
      <4> QED
        BY <3>1, <4>1, <4>2
    <3>4. ASSUME UnderWay(s, HeartbeatEvery - due[s][i])
          PROVE  UnderWay(s, HeartbeatEvery - due[s][i])'
      <4>1. [shard |-> s, age |-> HeartbeatEvery - due[s][i] + 1] \in beats'
        BY <3>4, <1>a, BeatsAge DEF UnderWay
      <4>2. HeartbeatEvery - due'[s][i] = HeartbeatEvery - due[s][i] + 1
        BY <3>1
      <4> QED
        BY <4>1, <4>2 DEF UnderWay
    <3>5. due[s][i] <= HeartbeatEvery => due'[s][i] <= HeartbeatEvery
      BY <3>1
    <3> QED
      BY <3>2, <3>3, <3>4, <3>5 DEF Punctual
  <2>4. AllPunctual'
    BY <2>1, <2>3 DEF AllPunctual
  <2>5. Accounted'
    BY <1>a, <2>1, <2>2, AccountKept DEF TypeOK
  <2> QED
    BY <2>4, <2>5
<1>2. ASSUME NEW s \in Shards, NEW i \in Slots, Beat(s, i) PROVE LiveInv'
  <2> USE <1>2 DEF Beat
  <2>1. \A r \in Shards : Live(r)' = Live(r)
    BY <1>a DEF Live, TypeOK
  <2>2. UNCHANGED <<lost, fleet, timer, restarts>>
    BY DEF orchestrator, bounds
  <2>3. ASSUME fleet[s] # Never PROVE Punctual(s, i)'
    <3>1. i \in Live(s)
      BY DEF Live
    <3>2. Punctual(s, i)
      BY <2>3, <3>1 DEF AllPunctual
    <3>3. ~UnderWay(s, HeartbeatEvery - due[s][i])
      BY <1>a DEF UnderWay, TypeOK
    <3>4. fleet[s] + due[s][i] <= FirstBeat + lost[s] * HeartbeatEvery
      BY <3>2, <3>3 DEF Punctual
    <3>5. fleet[s] <= FirstBeat + lost[s] * HeartbeatEvery
      BY <3>4, <1>a DEF TypeOK
    <3>6. fleet[s] + HeartbeatEvery <= FirstBeat + lost[s] * HeartbeatEvery + HeartbeatEvery
      <4> DEFINE late == lost[s] * HeartbeatEvery
      <4>1. late \in Nat /\ fleet[s] \in Int /\ fleet[s] <= FirstBeat + late
        BY <3>5, <1>a, <1>b DEF TypeOK
      <4> HIDE DEF late
      <4>2. fleet[s] + HeartbeatEvery <= FirstBeat + late + HeartbeatEvery
        BY <4>1
      <4> QED
        BY <4>2 DEF late
    <3>7. due'[s][i] = HeartbeatEvery /\ UnderWay(s, HeartbeatEvery - HeartbeatEvery)'
      BY <1>a DEF TypeOK, UnderWay
    <3> QED
      BY <2>2, <3>6, <3>7 DEF Punctual
  <2>4. ASSUME NEW r \in Shards, NEW j \in Live(r), fleet[r] # Never, r # s \/ j # i
        PROVE  Punctual(r, j)'
    <3>1. due'[r][j] = due[r][j]
      BY <2>4, <1>a DEF TypeOK
    <3>2. Punctual(r, j)
      BY <2>4 DEF AllPunctual
    <3> QED
      BY <2>2, <3>1, <3>2 DEF Punctual, UnderWay
  <2>5. AllPunctual'
    BY <2>1, <2>2, <2>3, <2>4 DEF AllPunctual
  <2> QED
    BY <1>a, <2>1, <2>2, <2>5, AccountKept DEF TypeOK
<1>3. ASSUME NEW s \in Shards, NEW i \in Slots, Die(s, i) PROVE LiveInv'
  <2> USE <1>3 DEF Die
  <2>1. \A r \in Shards : Live(r)' \subseteq Live(r)
    BY <1>a DEF Live, TypeOK
  <2>2. \A r \in Shards : \A j \in Live(r)' : due'[r][j] = due[r][j]
    BY <1>a DEF Live, TypeOK
  <2>3. UNCHANGED <<lost, beats, fleet, timer, restarts>>
    BY DEF network, orchestrator
  <2>4. AllPunctual'
    BY <2>1, <2>2, <2>3 DEF AllPunctual, Punctual, UnderWay
  <2> QED
    BY <1>a, <2>1, <2>3, <2>4, AccountKept DEF TypeOK
<1>4. ASSUME NEW b \in beats, Lose(b) PROVE LiveInv'
  <2> USE <1>4 DEF Lose
  <2>1. UNCHANGED <<due, fleet, timer, restarts>> /\ \A r \in Shards : Live(r)' = Live(r)
    BY DEF processes, orchestrator, bounds, Live
  <2>2. b.shard \in Shards /\ lost'[b.shard] = lost[b.shard] + 1
    BY <1>a DEF TypeOK
  <2>3. ASSUME NEW s \in Shards, NEW i \in Live(s), fleet[s] # Never PROVE Punctual(s, i)'
    <3>1. Punctual(s, i)
      BY <2>3 DEF AllPunctual
    <3>2. CASE s # b.shard
      <4>1. lost'[s] = lost[s] /\ \A age : UnderWay(s, age) => UnderWay(s, age)'
        BY <3>2, <1>a DEF TypeOK, UnderWay
      <4> QED
        BY <2>1, <3>1, <4>1 DEF Punctual
    <3>3. CASE s = b.shard
      <4>1. lost'[s] * HeartbeatEvery = lost[s] * HeartbeatEvery + HeartbeatEvery
        BY <2>2, <3>3, <1>a, Products DEF TypeOK
      <4>2. fleet[s] + due[s][i] <= FirstBeat + lost[s] * HeartbeatEvery + HeartbeatEvery
        <5>1. i \in Slots /\ fleet[s] + due[s][i] \in Int
          BY <1>a DEF Live, TypeOK
        <5> QED
          BY <3>1, <5>1, <1>b DEF Punctual
      <4>3. fleet[s] + due[s][i] <= FirstBeat + lost'[s] * HeartbeatEvery
        BY <4>1, <4>2, <1>b
      <4> QED
        BY <2>1, <4>3 DEF Punctual
    <3> QED
      BY <3>2, <3>3
  <2>4. AllPunctual'
    BY <2>1, <2>3 DEF AllPunctual
  <2> QED
    BY <1>a, <2>1, <2>4, AccountKept DEF TypeOK
<1>5. ASSUME NEW b \in beats, Hear(b) PROVE LiveInv'
  <2> USE <1>5 DEF Hear
  <2>1. UNCHANGED <<due, restarts>> /\ \A r \in Shards : Live(r)' = Live(r)
    BY DEF processes, bounds, Live
  <2>2. b.shard \in Shards /\ fleet'[b.shard] = 0 /\ lost'[b.shard] = 0
    BY <1>a DEF TypeOK, Seen
  <2>3. \A s \in Shards \ {b.shard} : fleet'[s] = fleet[s] /\ lost'[s] = lost[s]
    BY <1>a DEF TypeOK, Seen
  <2>4. ASSUME NEW s \in Shards, NEW i \in Live(s), fleet'[s] # Never PROVE Punctual(s, i)'
    <3>1. CASE s # b.shard
      <4>1. Punctual(s, i)
        BY <2>3, <2>4, <3>1 DEF AllPunctual
      <4>2. \A age : UnderWay(s, age) => UnderWay(s, age)'
        BY <3>1 DEF UnderWay
      <4> QED
        BY <2>1, <2>3, <3>1, <4>1, <4>2 DEF Punctual
    <3>2. CASE s = b.shard
      <4>1. i \in Slots /\ due'[s][i] <= FirstBeat /\ due'[s][i] \in Int
        BY <2>1, <1>a DEF Live, TypeOK
      <4>2. 0 * HeartbeatEvery = 0
        OBVIOUS
      <4> QED
        BY <2>2, <3>2, <4>1, <4>2 DEF Punctual
    <3> QED
      BY <3>1, <3>2
  <2>5. AllPunctual'
    BY <2>1, <2>4 DEF AllPunctual
  <2>6. \A s \in Shards : fleet[s] # Never => fleet'[s] # Never
    BY <2>2, <2>3
  <2> QED
    BY <1>a, <2>1, <2>5, <2>6, AccountKept DEF TypeOK
<1>6. CASE Supervise
  <2>1. /\ UNCHANGED <<lost, beats, restarts>>
        /\ due' \in [Shards -> [Slots -> Dead .. FirstBeat]]
        /\ timer # Stopped /\ timer' # Stopped
        /\ \A s \in Shards : fleet'[s] = IF Missing(s) THEN 0 ELSE fleet[s]
    BY <1>6, <1>a, SupervisingAShard, FleetNoted DEF network
  <2>2. ASSUME NEW s \in Shards, NEW i \in Live(s)', fleet'[s] # Never PROVE Punctual(s, i)'
    <3>1. i \in Slots /\ due'[s][i] <= FirstBeat /\ due'[s][i] \in Int
      BY <2>1 DEF Live
    <3>2. CASE Missing(s)
      <4>1. fleet'[s] = 0
        BY <2>1, <3>2
      <4>2. 0 + due'[s][i] <= FirstBeat + lost[s] * HeartbeatEvery
        <5> DEFINE late == lost[s] * HeartbeatEvery
        <5>1. late \in Nat
          BY <1>b
        <5> HIDE DEF late
        <5>2. 0 + due'[s][i] <= FirstBeat + late
          BY <3>1, <5>1
        <5> QED
          BY <5>2 DEF late
      <4> QED
        BY <2>1, <4>1, <4>2 DEF Punctual
    <3>3. CASE ~Missing(s)
      <4>1. due'[s] = due[s] /\ fleet'[s] = fleet[s]
        BY <1>6, <1>a, <2>1, <3>3, SupervisingAShard
      <4>2. Punctual(s, i)
        BY <2>2, <4>1 DEF AllPunctual, Live
      <4> QED
        BY <2>1, <4>1, <4>2 DEF Punctual, UnderWay
    <3> QED
      BY <3>2, <3>3
  <2>3. ASSUME NEW s \in Shards
        PROVE  Cardinality(Live(s)') <= restarts' + (IF Seeing(s)' THEN 1 ELSE 0)
    <3>1. Cardinality(Live(s)) <= restarts + (IF Seeing(s) THEN 1 ELSE 0)
      BY DEF Accounted
    <3>2. CASE due'[s] = due[s]
      <4>1. Live(s)' = Live(s) /\ (Seeing(s) => Seeing(s)')
        BY <2>1, <3>2 DEF Live
      <4>2. Cardinality(Live(s)') = Cardinality(Live(s)) /\ restarts' = restarts
        BY <4>1, <2>1
      <4> QED
        BY <3>1, <4>1, <4>2, <1>a, LiveIsFinite DEF TypeOK
    <3>3. CASE /\ Missing(s)
               /\ \E i \in Slots, first \in 0 .. FirstBeat :
                     due[s][i] = Dead /\ due'[s] = [due[s] EXCEPT ![i] = first]
      <4>1. PICK i \in Slots, first \in 0 .. FirstBeat :
                due[s][i] = Dead /\ due'[s] = [due[s] EXCEPT ![i] = first]
        BY <3>3
      <4>2. Live(s)' = Live(s) \cup {i} /\ i \notin Live(s)
        BY <4>1, <1>a DEF Live, TypeOK
      <4>3. Cardinality(Live(s)') = Cardinality(Live(s)) + 1
        BY <4>2, LiveIsFinite, FS_AddElement
      <4>4. Cardinality(Live(s)) <= restarts
        <5>1. CASE fleet[s] = Never
          BY <5>1, <2>1, <3>1, <1>a, LiveIsFinite DEF TypeOK
        <5>2. CASE fleet[s] # Never
          <6>1. Live(s) = {}
            BY <3>3, <5>2, <1>a, PunctualIsAlive
          <6> QED
            BY <6>1, FS_EmptySet, <1>a DEF TypeOK
        <5> QED
          BY <5>1, <5>2
      <4>5. fleet'[s] = 0 /\ restarts' = restarts
        BY <2>1, <3>3
      <4> QED
        BY <4>3, <4>4, <4>5, <1>a, LiveIsFinite DEF TypeOK
    <3> QED
      BY <3>2, <3>3, <1>6, <1>a, SupervisingAShard
  <2> QED
    BY <2>2, <2>3 DEF AllPunctual, Accounted
<1>7. CASE StopOrchestrator
  <2>1. \A s \in Shards : fleet'[s] = Never /\ Live(s)' = Live(s) /\ Seeing(s)'
    BY <1>7 DEF StopOrchestrator, processes, Live
  <2>2. restarts' = restarts /\ restarts \in Nat
    BY <1>7, <1>a DEF StopOrchestrator, bounds, TypeOK
  <2> QED
    BY <2>1, <2>2, AccountKept DEF AllPunctual
<1>8. CASE StartOrchestrator
  <2>1. \A s \in Shards : fleet'[s] = Never /\ Live(s)' = Live(s) /\ Seeing(s) /\ ~Seeing(s)'
    BY <1>8 DEF StartOrchestrator, processes, Live, TypeInv, StoppedKnowsNothing
  <2>2. ASSUME NEW s \in Shards PROVE Cardinality(Live(s)') <= restarts' + 0
    <3>1. Cardinality(Live(s)) <= restarts + 1
      BY <2>1 DEF Accounted
    <3>2. Cardinality(Live(s)) \in Nat /\ restarts \in Nat /\ restarts' = restarts + 1
      BY <1>8, <1>a, LiveIsFinite DEF StartOrchestrator, TypeOK
    <3>3. Cardinality(Live(s)') = Cardinality(Live(s))
      BY <2>1
    <3> QED
      BY <3>1, <3>2, <3>3
  <2>3. Accounted'
    <3> HIDE DEF Seeing
    <3> QED
      BY <2>1, <2>2 DEF Accounted
  <2> QED
    BY <2>1, <2>3 DEF AllPunctual
<1>9. ASSUME NEW b \in beats, Unheard(b) PROVE LiveInv'
  <2>1. /\ UNCHANGED <<fleet, timer, restarts>> /\ \A r \in Shards : Live(r)' = Live(r)
        /\ \A s \in Shards : fleet'[s] = Never
    BY <1>9 DEF Unheard, processes, orchestrator, bounds, Live, TypeInv, StoppedKnowsNothing
  <2>2. AllPunctual'
    BY <2>1 DEF AllPunctual
  <2> QED
    BY <1>a, <2>1, <2>2, AccountKept DEF TypeOK
<1>10. CASE UNCHANGED vars
  <2>1. UNCHANGED <<due, beats, lost, fleet, timer, restarts>> /\ \A r \in Shards : Live(r)' = Live(r)
    BY <1>10 DEF vars, processes, network, orchestrator, bounds, Live
  <2>2. AllPunctual'
    BY <2>1 DEF AllPunctual, Punctual, UnderWay
  <2> QED
    BY <1>a, <2>1, <2>2, AccountKept DEF TypeOK
<1> QED
  BY <1>1, <1>2, <1>3, <1>4, <1>5, <1>6, <1>7, <1>8, <1>9, <1>10 DEF Next

\* When the TTL allows for the heartbeats that are lost in a row, the supervisor
\* never takes a shard that runs for a dead one: each shard has at most one
\* process for every time the orchestrator was started.
THEOREM OneProcessPerStart == Spec => []AtMostOneProcessPerStart
<1>1. ASSUME TtlIsLongEnough PROVE Spec => [](TypeInv /\ LiveInv)
  <2>1. TypeInv /\ LiveInv /\ [Next]_vars => (TypeInv /\ LiveInv)'
    BY <1>1, TypesPreserved, LivePreserved
  <2> QED
    BY <2>1, TypesInitially, LiveInitially, PTL DEF Spec
<1>2. TypeInv /\ LiveInv => AtMostOneProcessPerStart
  <2> SUFFICES ASSUME TypeInv, LiveInv, NEW s \in Shards PROVE Cardinality(Live(s)) <= 1 + restarts
    BY DEF AtMostOneProcessPerStart
  <2>1. Cardinality(Live(s)) <= restarts + (IF Seeing(s) THEN 1 ELSE 0)
    BY DEF LiveInv, Accounted
  <2>2. Cardinality(Live(s)) \in Nat /\ restarts \in Nat
    BY LiveIsFinite DEF TypeInv, TypeOK
  <2> QED
    BY <2>1, <2>2
<1>3. ~TtlIsLongEnough => AtMostOneProcessPerStart
  BY DEF AtMostOneProcessPerStart
<1> QED
  <2>1. CASE TtlIsLongEnough
    BY <2>1, <1>1, <1>2, PTL
  <2>2. CASE ~TtlIsLongEnough
    <3>1. AtMostOneProcessPerStart
      BY <2>2, <1>3
    <3> QED
      BY <3>1, PTL
  <2> QED
    BY <2>1, <2>2

=============================================================================
