---------------------------- MODULE NodeRegistry ----------------------------
(***************************************************************************)
(* The registry of nodes: the workers of src/internal/app/app.go resolve   *)
(* the host of a message and touch its node, and the watchdog turns the    *)
(* flag is_active on and off; both use src/internal/storage/postgres.go.   *)
(*                                                                         *)
(* The database holds a row per host.  The process holds a cache from      *)
(* hosts to node ids and the time of the last message of each node, under  *)
(* a lock each.  The watchdog works on a copy of these times, one UPDATE   *)
(* after the other, while the workers go on.  The process may crash and    *)
(* start again: the cache is then read back, the times are not.            *)
(*                                                                         *)
(* Times are kept as ages, counted in ticks of a coarse clock and capped   *)
(* just above Timeout.  The column last_seen_at, which no program reads,   *)
(* is left out.                                                            *)
(***************************************************************************)
EXTENDS Naturals, FiniteSets

CONSTANTS
    Workers,      \* goroutines startWorkers may start
    Hosts,        \* hosts that may send messages
    Deployments,  \* the workers that are started and the hosts that send
    Timeout,      \* NodeTimeout, also the period of the watchdog's ticker
    MaxFaults,    \* bound: failed statements of the database
    MaxRestarts   \* bound: crashes of the process

ASSUME RegistryAssumption ==
    /\ IsFiniteSet(Hosts) /\ Hosts # {}
    /\ Deployments \subseteq [workers : SUBSET Workers, hosts : SUBSET Hosts]
    /\ Timeout \in Nat \ {0}
    /\ MaxFaults \in Nat
    /\ MaxRestarts \in Nat

VARIABLES
    node,       \* the rows of the table nodes; id 0 where there is none
    cache,      \* nodeCache; 0 where the host is missing
    lastSeen,   \* node id -> age of its last touch
    worker,     \* per worker, where it is in the handling of a message
    watchdog,   \* the nodes left in the current sweep
    phase,      \* ticks since the ticker fired
    fired,      \* the ticker has fired and the watchdog has not taken it
    sinceSweep, \* history: age of the last snapshot
    missed,     \* history: nodes the last sweep gave up
    faults,
    restarts,
    deployment  \* the configuration: workers and hosts

vars == <<node, cache, lastSeen, worker, watchdog, phase, fired, sinceSweep,
          missed, faults, restarts, deployment>>
memory == <<cache, lastSeen>>
clocks == <<phase, fired, sinceSweep>>
bounds == <<faults, restarts, deployment>>

Stale == Timeout + 1                     \* the age at which all ages are capped
Ids   == 1..Cardinality(Hosts)

Idle  == [at |-> "idle", host |-> CHOOSE h \in Hosts : TRUE, id |-> 0]
Quiet == [sweeping |-> FALSE, stale |-> {}, fresh |-> {}]
Pending == watchdog.stale \cup watchdog.fresh

Init ==
    /\ node = [h \in Hosts |-> [id |-> 0, active |-> FALSE]]
    /\ cache = [h \in Hosts |-> 0]
    /\ lastSeen = [i \in {} |-> 0]
    /\ worker = [w \in Workers |-> Idle]
    /\ watchdog = Quiet
    /\ phase = 0
    /\ fired = FALSE
    /\ sinceSweep = Stale
    /\ missed = {}
    /\ faults = 0
    /\ restarts = 0
    /\ deployment \in Deployments

-----------------------------------------------------------------------------
(* The statements of the database *)

Rows == {h \in Hosts : node[h].id # 0}

UpsertInserts(h) == [id |-> Cardinality(Rows) + 1, active |-> TRUE]    \* faulty variant

(* INSERT ... ON CONFLICT (hostname) DO UPDATE: a host keeps the id it has. *)
Upsert(h) == [id     |-> IF node[h].id = 0 THEN Cardinality(Rows) + 1 ELSE node[h].id,
              active |-> TRUE]

Fault == faults < MaxFaults /\ faults' = faults + 1 /\ UNCHANGED <<restarts, deployment>>

-----------------------------------------------------------------------------
(* A worker handles a message *)

Goto(w, at) == worker' = [worker EXCEPT ![w].at = at]

Receive(w, h) ==
    /\ w \in deployment.workers /\ h \in deployment.hosts
    /\ worker[w].at = "idle"
    /\ worker' = [worker EXCEPT ![w] = [at |-> "resolve", host |-> h, id |-> 0]]
    /\ UNCHANGED <<node, memory, watchdog, clocks, missed, bounds>>

(* ResolveNodeID, before and after the insert of an unknown host. *)
Resolve(w) ==
    /\ worker[w].at \in {"resolve", "resolveAgain"}
    /\ LET id == cache[worker[w].host]
       IN  worker' = [worker EXCEPT ![w] =
             IF id # 0 THEN [@ EXCEPT !.at = "touch", !.id = id]
             ELSE IF worker[w].at = "resolve" THEN [@ EXCEPT !.at = "insert"] ELSE Idle]
    /\ UNCHANGED <<node, memory, watchdog, clocks, missed, bounds>>

InsertNode(w) ==
    /\ worker[w].at = "insert"
    /\ LET h == worker[w].host
       IN  /\ node' = [node EXCEPT ![h] = Upsert(h)]
           /\ worker' = [worker EXCEPT ![w].at = "cache", ![w].id = node'[h].id]
    /\ UNCHANGED <<memory, watchdog, clocks, missed, bounds>>

(* The id the statement returned goes into the cache: at the end of InsertNode
   before the new node is touched, and of UpdateNodeInfo before the handler ends. *)
CacheNode(w) ==
    /\ worker[w].at \in {"cache", "cacheAgain"}
    /\ cache' = [cache EXCEPT ![worker[w].host] = worker[w].id]
    /\ IF worker[w].at = "cache" THEN Goto(w, "touchNew")
                                 ELSE worker' = [worker EXCEPT ![w] = Idle]
    /\ UNCHANGED <<node, lastSeen, watchdog, clocks, missed, bounds>>

Touched(id) == [k \in DOMAIN lastSeen \cup {id} |-> IF k = id THEN 0 ELSE lastSeen[k]]

(* TouchNode: in InsertNode, and in the handler once the node is resolved. *)
TouchNode(w) ==
    /\ worker[w].at \in {"touchNew", "touch"}
    /\ lastSeen' = Touched(worker[w].id)
    /\ Goto(w, IF worker[w].at = "touchNew" THEN "resolveAgain" ELSE "store")
    /\ UNCHANGED <<node, cache, watchdog, clocks, missed, bounds>>

(* A port event of an interface also updates its row and reads the id back. *)
UpdateNodeInfo(w) ==
    /\ worker[w].at = "store"
    /\ worker' = [worker EXCEPT ![w].at = "cacheAgain", ![w].id = node[worker[w].host].id]
    /\ UNCHANGED <<node, memory, watchdog, clocks, missed, bounds>>

(* The metrics are stored under the id, or storing them failed: the handler only
   logs an error. *)
Store(w) ==
    /\ worker[w].at = "store"
    /\ worker' = [worker EXCEPT ![w] = Idle]
    /\ UNCHANGED <<node, memory, watchdog, clocks, missed, bounds>>

(* InsertNode returned an error, the row stored or not: the message is dropped. *)
Drop(w) ==
    /\ worker[w].at = "insert"
    /\ Fault
    /\ LET h == worker[w].host
       IN  node' \in {node, [node EXCEPT ![h] = Upsert(h)]}
    /\ worker' = [worker EXCEPT ![w] = Idle]
    /\ UNCHANGED <<memory, watchdog, clocks, missed>>

HandlerStep(w) == \/ Resolve(w) \/ InsertNode(w) \/ CacheNode(w) \/ TouchNode(w)
                  \/ UpdateNodeInfo(w) \/ Store(w) \/ Drop(w)

-----------------------------------------------------------------------------
(* RunWatchdog and DeactivateStaleNodes *)

IsStale(id) == lastSeen[id] > Timeout

(* The copy of the times and the reading of the clock follow one another without
   I/O and are one step. *)
StartSweep ==
    /\ ~watchdog.sweeping
    /\ fired
    /\ fired' = FALSE
    /\ watchdog' = [sweeping |-> TRUE,
                    stale    |-> {i \in DOMAIN lastSeen : IsStale(i)},
                    fresh    |-> {i \in DOMAIN lastSeen : ~IsStale(i)}]
    /\ sinceSweep' = 0
    /\ missed' = {}
    /\ UNCHANGED <<node, memory, worker, phase, bounds>>

OnlyOff(h, active) == [node EXCEPT ![h].active = @ /\ active]          \* faulty variants
OnlyOn(h, active)  == [node EXCEPT ![h].active = @ \/ active]
Flagged(h, active) == [node EXCEPT ![h].active = active]

(* One UPDATE for a node of the snapshot, in the order of a Go map. *)
UpdateFlag ==
    /\ \E h \in Rows :
          LET id == node[h].id
          IN  /\ id \in Pending
              /\ node' = Flagged(h, id \in watchdog.fresh)
              /\ watchdog' = [watchdog EXCEPT !.stale = @ \ {id}, !.fresh = @ \ {id}]
    /\ UNCHANGED <<memory, worker, clocks, missed, bounds>>

StoppedHalfway == [watchdog EXCEPT !.sweeping = FALSE]                 \* faulty variant
Stopped == Quiet

(* An UPDATE that returns an error, applied or not, ends the sweep; the nodes that
   are left wait for the next one. *)
GiveUp ==
    /\ Fault
    /\ \E h \in Rows : /\ node[h].id \in Pending
                       /\ node' \in {node, Flagged(h, node[h].id \in watchdog.fresh)}
    /\ missed' = Pending
    /\ watchdog' = Stopped
    /\ UNCHANGED <<memory, worker, clocks>>

EndSweep ==
    /\ watchdog.sweeping
    /\ Pending = {}
    /\ watchdog' = Quiet
    /\ UNCHANGED <<node, memory, worker, clocks, missed, bounds>>

WatchdogStep == StartSweep \/ UpdateFlag \/ GiveUp \/ EndSweep

-----------------------------------------------------------------------------
(* Time and crashes *)

Older(age) == IF age = Stale THEN Stale ELSE age + 1

(* A tick of the clock; the channel of the ticker holds one firing. *)
Tick ==
    /\ lastSeen' = [i \in DOMAIN lastSeen |-> Older(lastSeen[i])]
    /\ sinceSweep' = Older(sinceSweep)
    /\ phase' = (phase + 1) % Timeout
    /\ fired' = (fired \/ phase' = 0)
    /\ UNCHANGED <<node, cache, worker, watchdog, missed, bounds>>

(* NewPostgresStorage after a crash: loadNodeCache reads the hosts and their ids. *)
Restart ==
    /\ restarts < MaxRestarts
    /\ restarts' = restarts + 1
    /\ cache' = [h \in Hosts |-> node[h].id]
    /\ lastSeen' = [i \in {} |-> 0]
    /\ worker' = [w \in Workers |-> Idle]
    /\ watchdog' = Quiet
    /\ phase' = 0
    /\ fired' = FALSE
    /\ sinceSweep' = Stale
    /\ missed' = {}
    /\ UNCHANGED <<node, faults, deployment>>

Next == \/ \E w \in Workers, h \in Hosts : Receive(w, h)
        \/ \E w \in Workers : HandlerStep(w)
        \/ WatchdogStep
        \/ Tick
        \/ Restart

Spec == Init /\ [][Next]_vars

(* Time passes, the watchdog takes what its ticker fires, and statements return.
   Nobody has to send messages. *)
Fairness == /\ WF_vars(Tick)
            /\ WF_vars(WatchdogStep)
            /\ \A w \in Workers : WF_vars(HandlerStep(w))

FairSpec == Spec /\ Fairness

-----------------------------------------------------------------------------
(* Properties *)

WorkerState == [at   : {"idle", "resolve", "insert", "cache", "touchNew", "resolveAgain",
                        "touch", "store", "cacheAgain"},
                host : Hosts,
                id   : Ids \cup {0}]

(* Every variable keeps its shape, and a watchdog that does not sweep has no nodes
   left. *)
TypeOK ==
    /\ node \in [Hosts -> [id : Ids \cup {0}, active : BOOLEAN]]
    /\ cache \in [Hosts -> Ids \cup {0}]
    /\ DOMAIN lastSeen \subseteq Ids
    /\ lastSeen \in [DOMAIN lastSeen -> 0..Stale]
    /\ worker \in [Workers -> WorkerState]
    /\ watchdog \in [sweeping : BOOLEAN, stale : SUBSET Ids, fresh : SUBSET Ids]
    /\ ~watchdog.sweeping => Pending = {}
    /\ phase \in 0..(Timeout - 1)
    /\ fired \in BOOLEAN
    /\ sinceSweep \in 0..Stale
    /\ missed \subseteq Ids
    /\ faults \in 0..MaxFaults
    /\ restarts \in 0..MaxRestarts
    /\ deployment \in Deployments

IdStage == {"cache", "touchNew", "touch", "store", "cacheAgain"}

(* Metrics are filed under the node that sent them: two workers that meet a new
   host at the same time get one id for it, no two hosts share one, and the error
   "not found after insert" of resolveOrInsertNode cannot happen. *)
OneIdPerHost ==
    /\ \A g, h \in Rows : node[g].id = node[h].id => g = h
    /\ \A h \in Hosts : cache[h] # 0 => cache[h] = node[h].id
    /\ \A w \in Workers : worker[w].at \in IdStage => worker[w].id = node[worker[w].host].id
    /\ \A w \in Workers : worker[w].at = "resolveAgain" => cache[worker[w].host] # 0
    /\ DOMAIN lastSeen \subseteq {node[h].id : h \in Rows}

(* The watchdog marks from a snapshot that grows old while it works.  What can be
   wrong is limited: a node that is marked inactive is silent, or was touched since
   the snapshot, or has yet to be updated, or the last sweep failed before it. *)
InactiveExplained ==
    \A h \in Rows : ~node[h].active /\ node[h].id \in DOMAIN lastSeen =>
        \/ IsStale(node[h].id)
        \/ lastSeen[node[h].id] <= sinceSweep
        \/ node[h].id \in Pending \cup missed

Silent(h)  == \A w \in Workers : worker[w].at # "idle" => worker[w].host # h
Talking(h) == h \in Rows /\ node[h].id \in DOMAIN lastSeen /\ ~IsStale(node[h].id)

(* A node that is never silent for longer than the timeout ends up marked active
   and stays so, whatever old snapshots were still being written. *)
TalkingNodesShownActive == \A h \in Hosts : <>[]Talking(h) => <>[](node[h].active)

(* A node that sends nothing any more ends up inactive, unless the process has no
   time of it: it crashed since, or the insert of the node failed after its row was
   stored. *)
SilentNodesInactiveOrForgotten ==
    \A h \in Hosts : <>[]Silent(h) =>
        <>[](~node[h].active \/ node[h].id \notin DOMAIN lastSeen)

(* The flag says whether the node is active at the moment: a node that sends
   nothing any more ends up inactive.  A crash breaks it. *)
SilentNodesShownInactive == \A h \in Hosts : <>[]Silent(h) => <>[](~node[h].active)
=============================================================================
