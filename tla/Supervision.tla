----------------------------- MODULE Supervision -----------------------------
(***************************************************************************)
(* The orchestrator keeps one process running for every shard.  It notes   *)
(* when it last heard a heartbeat of a shard, and at regular intervals     *)
(* spawns a process for every shard not heard of for longer than the TTL:  *)
(* that is all it knows, a shard that is silent and one that is dead look  *)
(* the same to it.                                                         *)
(*                                                                         *)
(* Time is discrete; what is due now happens before time goes on, ticks of *)
(* the supervisor included.  Times are kept as ages and countdowns.  The   *)
(* listener writes each heartbeat to Redis before it takes the next one;   *)
(* how long a heartbeat waits for that is part of its delay.               *)
(***************************************************************************)
EXTENDS Integers, FiniteSets

CONSTANTS
    ShardCount,      \* SHARD_COUNT
    Ttl,             \* HEARTBEAT_TTL, 10 s
    SuperviseEvery,  \* SUPERVISE_MS, 3 s
    HeartbeatEvery,  \* HEARTBEAT_INTERVAL_TICKS, 2 s
    FirstBeat,       \* how long after its spawn a process may send its first heartbeat
    MaxDelay,        \* how long a heartbeat may be under way, or wait to be read
    MaxLost,         \* bound on the heartbeats of a shard lost in a row
    MaxProcs,        \* bound on the processes of one shard at a time
    MaxDeaths,       \* bound on the processes that die
    MaxFailures,     \* bound on the spawns that fail
    MaxRestarts,     \* bound on the restarts of the orchestrator
    MaxOutage        \* bound on the time for which it does not run, in all

Shards == 0 .. ShardCount - 1
Slots == 1 .. MaxProcs

ASSUME CountsAssumption ==
    /\ ShardCount \in Nat /\ MaxProcs \in Nat
    /\ MaxLost \in Nat /\ MaxDeaths \in Nat /\ MaxFailures \in Nat /\ MaxRestarts \in Nat
    /\ MaxOutage \in Nat
ASSUME TimesAssumption ==
    /\ Ttl \in Nat /\ MaxDelay \in Nat
    /\ SuperviseEvery \in Nat \ {0} /\ HeartbeatEvery \in Nat \ {0} /\ FirstBeat \in Nat
\* One heartbeat of a process has arrived, or is lost, before the next.
ASSUME DelayAssumption == MaxDelay < HeartbeatEvery /\ HeartbeatEvery <= FirstBeat

VARIABLES
    due,       \* due[s][i]: when process i of shard s sends its next heartbeat, Dead if there is none
    beats,     \* the heartbeats under way, with their age
    lost,      \* lost[s]: how many of the shard's heartbeats were lost since one arrived
    fleet,     \* fleet[s]: the time since the shard was last seen, Never if it was not
    timer,     \* the time until the supervisor's next tick, Stopped if the
               \* orchestrator does not run
    downFor,   \* downFor[s]: how long the shard has been without a process
    deaths, failures, restarts,   \* how many there were of each
    outage     \* for how long the orchestrator has not run, in all

processes == <<due, downFor>>
network == <<beats, lost>>
orchestrator == <<fleet, timer>>
bounds == <<deaths, failures, restarts, outage>>
vars == <<processes, network, orchestrator, bounds>>

Dead == -1
Never == -1
Stopped == -1

Live(s) == {i \in Slots : due[s][i] # Dead}

Init ==
    /\ due = [s \in Shards |-> [i \in Slots |-> Dead]]
    /\ beats = {}
    /\ lost = [s \in Shards |-> 0]
    /\ fleet = [s \in Shards |-> Never]
    /\ timer = 0
    /\ downFor = [s \in Shards |-> 0]
    /\ deaths = 0 /\ failures = 0 /\ restarts = 0 /\ outage = 0

-----------------------------------------------------------------------------
(* Time. *)

NothingIsDue ==
    /\ timer # 0 /\ (timer = Stopped => outage < MaxOutage)
    /\ \A s \in Shards, i \in Slots : due[s][i] # 0
    /\ \A b \in beats : b.age < MaxDelay

Older(age) == IF age = Never THEN Never ELSE age + 1
Sooner(time) == IF time = Dead THEN Dead ELSE time - 1

TimePasses ==
    /\ NothingIsDue
    /\ due' = [s \in Shards |-> [i \in Slots |-> Sooner(due[s][i])]]
    /\ beats' = {[b EXCEPT !.age = @ + 1] : b \in beats}
    /\ fleet' = [s \in Shards |-> Older(fleet[s])]
    /\ IF timer = Stopped THEN timer' = timer /\ outage' = outage + 1
                          ELSE timer' = timer - 1 /\ outage' = outage
    /\ downFor' = [s \in Shards |-> IF Live(s) = {} THEN downFor[s] + 1 ELSE 0]
    /\ UNCHANGED <<lost, deaths, failures, restarts>>

-----------------------------------------------------------------------------
(* The shards' processes and their heartbeats. *)

\* send_heartbeat.
Beat(s, i) ==
    /\ due[s][i] = 0
    /\ due' = [due EXCEPT ![s][i] = HeartbeatEvery]
    /\ beats' = beats \cup {[shard |-> s, age |-> 0]}
    /\ UNCHANGED <<downFor, lost, orchestrator, bounds>>

Die(s, i) ==
    /\ i \in Live(s)
    /\ deaths < MaxDeaths
    /\ deaths' = deaths + 1
    /\ due' = [due EXCEPT ![s][i] = Dead]
    /\ UNCHANGED <<downFor, network, orchestrator, failures, restarts, outage>>

\* Heartbeats are datagrams.
Lose(b) ==
    /\ lost[b.shard] < MaxLost
    /\ beats' = beats \ {b}
    /\ lost' = [lost EXCEPT ![b.shard] = @ + 1]
    /\ UNCHANGED <<processes, orchestrator, bounds>>

-----------------------------------------------------------------------------
(* The orchestrator. *)

\* Mutant: the time of the first heartbeat is kept.
FirstSeen(s) == IF fleet[s] = Never THEN [fleet EXCEPT ![s] = 0] ELSE fleet

Seen(s) == [fleet EXCEPT ![s] = 0]

\* heartbeat_listener, for whatever process of the shard has sent it.
Hear(b) ==
    /\ timer # Stopped
    /\ fleet' = Seen(b.shard)
    /\ beats' = beats \ {b}
    /\ lost' = [lost EXCEPT ![b.shard] = 0]
    /\ UNCHANGED <<processes, timer, bounds>>

\* Nobody reads the heartbeats that arrive while the orchestrator does not run.
Unheard(b) ==
    /\ timer = Stopped
    /\ beats' = beats \ {b}
    /\ UNCHANGED <<processes, lost, orchestrator, bounds>>

\* Mutant: a shard that was never seen is given time to report.
KnownMissing(s) == fleet[s] > Ttl

Missing(s) == fleet[s] = Never \/ fleet[s] > Ttl

\* Mutant: a spawn is not noted.
FleetUnnoted == fleet

\* A shard it has spawned counts as seen, whether or not that succeeded.
FleetAfterSpawns == [s \in Shards |-> IF Missing(s) THEN 0 ELSE fleet[s]]

\* The shards of "spawned" get a process each in a free slot.
Spawn(spawned) ==
    \E slot \in [spawned -> Slots], first \in [spawned -> 0 .. FirstBeat] :
        /\ \A s \in spawned : due[s][slot[s]] = Dead
        /\ due' = [s \in Shards |->
                      IF s \in spawned THEN [due[s] EXCEPT ![slot[s]] = first[s]] ELSE due[s]]
        /\ downFor' = [s \in Shards |-> IF s \in spawned THEN 0 ELSE downFor[s]]

\* One tick of the supervisor.
Supervise ==
    /\ timer = 0
    /\ timer' = SuperviseEvery
    /\ \E failed \in SUBSET {s \in Shards : Missing(s)} :
          /\ failures' = failures + Cardinality(failed)
          /\ failures' <= MaxFailures
          /\ Spawn({s \in Shards : Missing(s)} \ failed)
    /\ fleet' = FleetAfterSpawns
    /\ UNCHANGED <<network, deaths, restarts, outage>>

\* The fleet is kept in memory only.
StopOrchestrator ==
    /\ timer # Stopped /\ restarts < MaxRestarts
    /\ timer' = Stopped
    /\ fleet' = [s \in Shards |-> Never]
    /\ UNCHANGED <<processes, network, bounds>>

\* It is started again; the first tick comes at once.  The heartbeats lost in a
\* row are counted anew: it has heard none before.
StartOrchestrator ==
    /\ timer = Stopped
    /\ timer' = 0
    /\ restarts' = restarts + 1
    /\ lost' = [s \in Shards |-> 0]
    /\ UNCHANGED <<processes, beats, fleet, deaths, failures, outage>>

-----------------------------------------------------------------------------
Next ==
    \/ TimePasses
    \/ \E s \in Shards, i \in Slots : Beat(s, i) \/ Die(s, i)
    \/ \E b \in beats : Lose(b) \/ Hear(b) \/ Unheard(b)
    \/ Supervise
    \/ StopOrchestrator \/ StartOrchestrator

Spec == Init /\ [][Next]_vars

-----------------------------------------------------------------------------
(* Properties. *)

\* The variables have their types and no age or countdown exceeds its period.
TypeOK ==
    /\ due \in [Shards -> [Slots -> Dead .. FirstBeat]]
    /\ beats \subseteq [shard : Shards, age : 0 .. MaxDelay]
    /\ lost \in [Shards -> 0 .. MaxLost]
    /\ fleet \in [Shards -> Never .. Ttl + SuperviseEvery]
    /\ timer \in Stopped .. SuperviseEvery
    /\ downFor \in [Shards -> Nat]
    /\ deaths \in Nat /\ failures \in Nat /\ restarts \in Nat /\ outage \in Nat

\* The TTL outlasts MaxLost heartbeats lost in a row and the delay of the next.
TtlIsLongEnough == FirstBeat + MaxLost * HeartbeatEvery + MaxDelay <= Ttl

\* If so, no shard that is alive is taken for dead: it has no second process,
\* but for those that restarts of the orchestrator account for.
AtMostOneProcessPerStart ==
    TtlIsLongEnough => \A s \in Shards : Cardinality(Live(s)) <= 1 + restarts

\* A shard without a process is given one in bounded time, although a late
\* heartbeat of the dead one, and each spawn that fails, makes it look alive.
\* What comes on top is only the time for which no orchestrator ran: a new one
\* has forgotten what its predecessor had heard, but waits for nothing.
RespawnedInTime ==
    \A s \in Shards :
        downFor[s] <= MaxDelay + (failures + 1) * (Ttl + SuperviseEvery) + outage

=============================================================================
