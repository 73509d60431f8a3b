------------------------- MODULE NodeRegistryProofs -------------------------
(***************************************************************************)
(* Proofs about NodeRegistry, for every number of workers, hosts, failures *)
(* and crashes and every timeout.                                          *)
(***************************************************************************)
EXTENDS NodeRegistry, FiniteSetTheorems, TLAPS

(* What makes the safety properties inductive: the ids in use are the first ones,
   so that the next one is new; a worker has an id only of a host that has a row,
   and caches it before it touches the node; a node the watchdog is about to mark
   inactive is still silent, or was touched since the snapshot; and what a failed
   sweep missed is forgotten when the next one starts. *)
Support ==
    /\ \A h \in Rows : node[h].id <= Cardinality(Rows)
    /\ \A w \in Workers : worker[w].at \in IdStage => worker[w].host \in Rows
    /\ \A w \in Workers : worker[w].at = "touchNew" => cache[worker[w].host] # 0
    /\ \A i \in watchdog.stale : /\ i \in DOMAIN lastSeen
                                 /\ IsStale(i) \/ lastSeen[i] <= sinceSweep
    /\ watchdog.sweeping => missed = {}

IInv == TypeOK /\ OneIdPerHost /\ InactiveExplained /\ Support

(* Constants, and what the type invariant says of a single host or worker. *)
LEMMA Types ==
    ASSUME TypeOK
    PROVE  /\ Rows \subseteq Hosts /\ IsFiniteSet(Rows) /\ Cardinality(Rows) \in Nat
           /\ Cardinality(Hosts) \in Nat /\ Stale \in Nat /\ 0 \in 0..Stale
           /\ \A h \in Hosts : /\ node[h].id \in Ids \cup {0} /\ node[h].id \in Nat
                               /\ node[h].active \in BOOLEAN
           /\ \A w \in Workers : worker[w] \in WorkerState /\ worker[w].host \in Hosts
           /\ sinceSweep \in Nat
           /\ \A i \in DOMAIN lastSeen : lastSeen[i] \in 0..Stale /\ lastSeen[i] \in Nat
<1>1. Rows \subseteq Hosts
    BY DEF Rows
<1>2. IsFiniteSet(Rows) /\ Cardinality(Rows) \in Nat /\ Cardinality(Hosts) \in Nat
    BY <1>1, RegistryAssumption, FS_Subset, FS_CardinalityType
<1>3. Stale \in Nat
    BY RegistryAssumption DEF Stale
<1> QED BY <1>1, <1>2, <1>3 DEF TypeOK, Ids, WorkerState

(* A worker that holds no id is at rest. *)
LEMMA IdleState == Idle \in WorkerState /\ Idle.at = "idle"
<1>1. (CHOOSE h \in Hosts : TRUE) \in Hosts
    BY RegistryAssumption
<1> QED BY <1>1 DEF Idle, WorkerState

(* A watchdog at rest has nothing left to do. *)
LEMMA QuietState ==
    /\ Quiet \in [sweeping : BOOLEAN, stale : SUBSET Ids, fresh : SUBSET Ids]
    /\ ~Quiet.sweeping /\ Quiet.stale = {} /\ Quiet.fresh = {}
BY DEF Quiet

(* No host has a row, no worker a message, at the start. *)
LEMMA InitIInv == Init => IInv
<1> SUFFICES ASSUME Init PROVE IInv
    OBVIOUS
<1>1. Rows = {}
    BY DEF Init, Rows
<1>2. Stale \in Nat /\ Timeout \in Nat \ {0} /\ DOMAIN lastSeen = {}
    BY RegistryAssumption DEF Stale, Init
<1>3. TypeOK
    <2>1. /\ node \in [Hosts -> [id : Ids \cup {0}, active : BOOLEAN]]
          /\ cache \in [Hosts -> Ids \cup {0}]
        BY DEF Init
    <2>2. DOMAIN lastSeen \subseteq Ids /\ lastSeen \in [DOMAIN lastSeen -> 0..Stale]
        BY <1>2 DEF Init
    <2>3. worker \in [Workers -> WorkerState]
        BY IdleState DEF Init
    <2>4. /\ watchdog \in [sweeping : BOOLEAN, stale : SUBSET Ids, fresh : SUBSET Ids]
          /\ Pending = {}
        BY QuietState DEF Init, Pending
    <2>5. phase \in 0..(Timeout - 1)
        BY <1>2 DEF Init
    <2>6. fired \in BOOLEAN /\ missed \subseteq Ids
        BY DEF Init
    <2>7. /\ sinceSweep \in 0..Stale /\ faults \in 0..MaxFaults
          /\ restarts \in 0..MaxRestarts /\ deployment \in Deployments
        BY <1>2, RegistryAssumption DEF Init
    <2> QED BY <2>1, <2>2, <2>3, <2>4, <2>5, <2>6, <2>7 DEF TypeOK
<1>4. OneIdPerHost
    BY <1>1, <1>2, IdleState DEF Init, OneIdPerHost, IdStage
<1>5. InactiveExplained
    BY <1>1 DEF InactiveExplained
<1>6. Support
    BY <1>1, IdleState, QuietState DEF Init, Support, IdStage
<1> QED BY <1>3, <1>4, <1>5, <1>6 DEF IInv

(* A worker that moves within its handler: it may hold only the id of its host, and
   looks again only for a host that is in the cache. *)
LEMMA WorkerMoves ==
    ASSUME IInv, NEW w \in Workers, NEW n \in WorkerState,
           worker' = [worker EXCEPT ![w] = n],
           UNCHANGED <<node, cache, lastSeen, watchdog, phase, fired, sinceSweep, missed, faults, restarts, deployment>>,
           n.at \in IdStage => n.host \in Rows /\ n.id = node[n.host].id,
           n.at \in {"touchNew", "resolveAgain"} => cache[n.host] # 0
    PROVE  IInv'
<1>1. /\ worker' \in [Workers -> WorkerState] /\ worker'[w] = n
      /\ \A v \in Workers \ {w} : worker'[v] = worker[v]
    BY DEF IInv, TypeOK
<1>2. Rows' = Rows
    BY DEF Rows
<1>3. TypeOK'
    BY <1>1 DEF IInv, TypeOK, Pending
<1>4. OneIdPerHost'
    BY <1>1, <1>2 DEF IInv, OneIdPerHost
<1>5. InactiveExplained'
    BY <1>2 DEF IInv, InactiveExplained, IsStale, Pending
<1>6. Support'
    BY <1>1, <1>2 DEF IInv, Support, IsStale
<1> QED BY <1>3, <1>4, <1>5, <1>6 DEF IInv

(* The steps of a worker that change nothing but its place. *)
LEMMA PlaceKeeps ==
    ASSUME NEW w \in Workers, IInv,
           \/ \E h \in Hosts : Receive(w, h)
           \/ Resolve(w) \/ UpdateNodeInfo(w) \/ Store(w)
    PROVE  IInv'
<1>1. /\ UNCHANGED <<node, cache, lastSeen, watchdog, phase, fired, sinceSweep, missed, faults, restarts, deployment>>
      /\ worker[w] \in WorkerState /\ worker[w].host \in Hosts
    BY Types DEF IInv, Receive, Resolve, UpdateNodeInfo, Store, memory, clocks, bounds
<1>2. ASSUME NEW h \in Hosts, Receive(w, h) PROVE IInv'
    <2> DEFINE n == [at |-> "resolve", host |-> h, id |-> 0]
    <2>1. n \in WorkerState /\ n.at = "resolve"
        BY DEF WorkerState
    <2>2. worker' = [worker EXCEPT ![w] = n]
        BY <1>2 DEF Receive
    <2> QED BY <1>1, <2>1, <2>2, WorkerMoves DEF IdStage
<1>3. CASE Resolve(w)
    <2> DEFINE id == cache[worker[w].host]
    <2>1. id \in Ids \cup {0} /\ (id # 0 => worker[w].host \in Rows /\ id = node[worker[w].host].id)
        BY <1>1 DEF IInv, TypeOK, OneIdPerHost, Rows
    <2>2. CASE id # 0
        <3> DEFINE n == [worker[w] EXCEPT !.at = "touch", !.id = id]
        <3>1. n \in WorkerState /\ n.at = "touch" /\ n.host = worker[w].host /\ n.id = id
            BY <1>1, <2>1 DEF WorkerState
        <3>2. worker' = [worker EXCEPT ![w] = n]
            BY <1>3, <2>2 DEF Resolve
        <3> HIDE DEF n
        <3> QED BY <1>1, <2>1, <2>2, <3>1, <3>2, WorkerMoves
    <2>3. CASE id = 0 /\ worker[w].at = "resolve"
        <3> DEFINE n == [worker[w] EXCEPT !.at = "insert"]
        <3>1. n \in WorkerState /\ n.at = "insert"
            BY <1>1 DEF WorkerState
        <3>2. worker' = [worker EXCEPT ![w] = n]
            BY <1>3, <2>3 DEF Resolve
        <3> HIDE DEF n
        <3> QED BY <1>1, <3>1, <3>2, WorkerMoves DEF IdStage
    <2>4. CASE id = 0 /\ worker[w].at # "resolve"
        <3>1. worker' = [worker EXCEPT ![w] = Idle]
            BY <1>3, <2>4 DEF Resolve
        <3> QED BY <1>1, <3>1, IdleState, WorkerMoves DEF IdStage
    <2> QED BY <2>2, <2>3, <2>4
<1>4. CASE UpdateNodeInfo(w)
    <2> DEFINE n == [worker[w] EXCEPT !.at = "cacheAgain", !.id = node[worker[w].host].id]
    <2>1. worker[w].host \in Rows /\ node[worker[w].host].id \in Ids \cup {0}
        BY <1>1, <1>4, Types DEF IInv, Support, UpdateNodeInfo, IdStage
    <2>2. /\ n \in WorkerState /\ n.at = "cacheAgain" /\ n.host = worker[w].host
          /\ n.id = node[worker[w].host].id
        BY <1>1, <2>1 DEF WorkerState
    <2>3. worker' = [worker EXCEPT ![w] = n]
        BY <1>4 DEF UpdateNodeInfo
    <2> HIDE DEF n
    <2> QED BY <1>1, <2>1, <2>2, <2>3, WorkerMoves
<1>5. CASE Store(w)
    <2>1. worker' = [worker EXCEPT ![w] = Idle]
        BY <1>5 DEF Store
    <2> QED BY <1>1, <2>1, IdleState, WorkerMoves DEF IdStage
<1> QED BY <1>2, <1>3, <1>4, <1>5

(* The table after INSERT ... ON CONFLICT: a host keeps its id, a new host gets the
   next one. *)
LEMMA UpsertFacts ==
    ASSUME IInv, NEW h \in Hosts, node' = [node EXCEPT ![h] = Upsert(h)]
    PROVE  /\ node' \in [Hosts -> [id : Ids \cup {0}, active : BOOLEAN]]
           /\ Rows' = Rows \cup {h}
           /\ node'[h].active
           /\ \A g \in Hosts \ {h} : node'[g] = node[g]
           /\ \A g \in Rows : node'[g].id = node[g].id
           /\ \A g \in Rows' : node'[g].id <= Cardinality(Rows')
           /\ \A f, g \in Rows' : node'[f].id = node'[g].id => f = g
<1>1. /\ Rows \subseteq Hosts /\ IsFiniteSet(Rows) /\ Cardinality(Rows) \in Nat
      /\ node \in [Hosts -> [id : Ids \cup {0}, active : BOOLEAN]]
      /\ \A g \in Hosts : node[g].id \in Nat
      /\ \A g \in Rows : node[g].id <= Cardinality(Rows)
      /\ \A f, g \in Rows : node[f].id = node[g].id => f = g
    BY Types DEF IInv, TypeOK, Support, OneIdPerHost
<1>2. /\ IsFiniteSet(Rows \cup {h})
      /\ Cardinality(Rows \cup {h}) = IF h \in Rows THEN Cardinality(Rows) ELSE Cardinality(Rows) + 1
      /\ Cardinality(Rows \cup {h}) <= Cardinality(Hosts)
      /\ Cardinality(Hosts) \in Nat
    BY <1>1, RegistryAssumption, FS_AddElement, FS_Subset, FS_CardinalityType
<1>3. /\ Upsert(h).active /\ Upsert(h).active \in BOOLEAN
      /\ Upsert(h).id = IF h \in Rows THEN node[h].id ELSE Cardinality(Rows) + 1
    BY DEF Upsert, Rows
<1>4. Upsert(h).id \in Ids /\ Upsert(h).id # 0
    <2>1. CASE h \in Rows
        BY <1>1, <1>3, <2>1 DEF Rows
    <2>2. CASE h \notin Rows
        BY <1>1, <1>2, <1>3, <2>2 DEF Ids
    <2> QED BY <2>1, <2>2
<1>5. Upsert(h) \in [id : Ids \cup {0}, active : BOOLEAN]
    BY <1>4 DEF Upsert
<1>6. /\ node' \in [Hosts -> [id : Ids \cup {0}, active : BOOLEAN]]
      /\ node'[h] = Upsert(h)
      /\ \A g \in Hosts \ {h} : node'[g] = node[g]
    BY <1>1, <1>5
<1>7. Rows' = Rows \cup {h}
    BY <1>4, <1>6 DEF Rows
<1>8. \A g \in Rows : node'[g].id = node[g].id
    BY <1>1, <1>3, <1>6
<1>9. ASSUME NEW g \in Rows' PROVE node'[g].id <= Cardinality(Rows')
    <2>1. CASE g \in Rows
        <3>1. node'[g].id = node[g].id /\ node[g].id <= Cardinality(Rows) /\ node[g].id \in Nat
            BY <1>1, <1>8, <2>1
        <3> QED BY <1>1, <1>2, <1>7, <3>1
    <2>2. CASE g \notin Rows
        BY <1>1, <1>2, <1>3, <1>6, <1>7, <2>2
    <2> QED BY <2>1, <2>2
<1>10. ASSUME NEW f \in Rows', NEW g \in Rows', node'[f].id = node'[g].id PROVE f = g
    <2>1. CASE f \in Rows /\ g \in Rows
        BY <1>1, <1>8, <1>10, <2>1
    <2>2. \A k \in Rows : h \notin Rows => node'[k].id # node'[h].id
        <3> SUFFICES ASSUME NEW k \in Rows, h \notin Rows PROVE node'[k].id # node'[h].id
            OBVIOUS
        <3>1. node'[k].id <= Cardinality(Rows) /\ node'[k].id \in Nat
            BY <1>1, <1>8
        <3>2. node'[h].id = Cardinality(Rows) + 1
            BY <1>3, <1>6
        <3> QED BY <1>1, <3>1, <3>2
    <2> QED BY <1>7, <1>10, <2>1, <2>2
<1> QED BY <1>3, <1>6, <1>7, <1>8, <1>9, <1>10

(* Storing a row, by a worker that goes on with its id or that gets an error. *)
LEMMA UpsertKeeps ==
    ASSUME IInv, NEW w \in Workers, NEW h \in Hosts, node' = [node EXCEPT ![h] = Upsert(h)],
           NEW n \in WorkerState, worker' = [worker EXCEPT ![w] = n],
           UNCHANGED <<cache, lastSeen, watchdog, phase, fired, sinceSweep, missed, restarts, deployment>>,
           faults' \in 0..MaxFaults,
           n.at = "idle" \/ (n.at = "cache" /\ n.host = h /\ n.id = node'[h].id)
    PROVE  IInv'
<1>1. /\ node' \in [Hosts -> [id : Ids \cup {0}, active : BOOLEAN]]
      /\ Rows' = Rows \cup {h}
      /\ node'[h].active
      /\ \A g \in Hosts \ {h} : node'[g] = node[g]
      /\ \A g \in Rows : node'[g].id = node[g].id
      /\ \A g \in Rows' : node'[g].id <= Cardinality(Rows')
      /\ \A f, g \in Rows' : node'[f].id = node'[g].id => f = g
    BY UpsertFacts
<1>2. /\ worker' \in [Workers -> WorkerState] /\ worker'[w] = n
      /\ \A v \in Workers \ {w} : worker'[v] = worker[v]
    BY DEF IInv, TypeOK
<1>3. TypeOK'
    BY <1>1, <1>2 DEF IInv, TypeOK, Pending
<1>4. OneIdPerHost'
    <2>1. \A g \in Hosts : cache'[g] # 0 => cache'[g] = node'[g].id
        <3> SUFFICES ASSUME NEW g \in Hosts, cache[g] # 0 PROVE cache[g] = node'[g].id
            OBVIOUS
        <3>1. cache[g] = node[g].id /\ g \in Rows
            BY DEF IInv, OneIdPerHost, Rows
        <3> QED BY <1>1, <3>1
    <2>2. \A v \in Workers : worker'[v].at \in IdStage => worker'[v].id = node'[worker'[v].host].id
        BY <1>1, <1>2 DEF IInv, OneIdPerHost, Support, IdStage
    <2>3. \A v \in Workers : worker'[v].at = "resolveAgain" => cache'[worker'[v].host] # 0
        BY <1>2 DEF IInv, OneIdPerHost
    <2>4. {node[g].id : g \in Rows} \subseteq {node'[g].id : g \in Rows'}
        BY <1>1
    <2> QED BY <1>1, <2>1, <2>2, <2>3, <2>4 DEF IInv, OneIdPerHost
<1>5. InactiveExplained'
    BY <1>1 DEF IInv, InactiveExplained, IsStale, Pending, Rows
<1>6. Support'
    <2>1. ASSUME NEW v \in Workers, worker'[v].at \in IdStage
          PROVE  worker'[v].host \in Rows'
        <3>1. CASE v = w
            BY <1>1, <1>2, <2>1, <3>1 DEF IdStage
        <3>2. CASE v # w
            BY <1>1, <1>2, <2>1, <3>2 DEF IInv, Support
        <3> QED BY <3>1, <3>2
    <2>2. ASSUME NEW v \in Workers, worker'[v].at = "touchNew"
          PROVE  cache'[worker'[v].host] # 0
        BY <1>2, <2>2 DEF IInv, Support
    <2>3. \A i \in watchdog'.stale : /\ i \in DOMAIN lastSeen'
                                     /\ IsStale(i)' \/ lastSeen'[i] <= sinceSweep'
        BY DEF IInv, Support, IsStale
    <2>4. watchdog'.sweeping => missed' = {}
        BY DEF IInv, Support
    <2> QED BY <1>1, <2>1, <2>2, <2>3, <2>4 DEF Support
<1> QED BY <1>3, <1>4, <1>5, <1>6 DEF IInv

(* InsertNode stores the row and gets its id. *)
LEMMA InsertNodeKeeps == ASSUME NEW w \in Workers, IInv, InsertNode(w) PROVE IInv'
<1> DEFINE n == [worker[w] EXCEPT !.at = "cache", !.id = node'[worker[w].host].id]
<1>1. PICK h \in Hosts : h = worker[w].host
    BY Types DEF IInv
<1>2. /\ node' = [node EXCEPT ![h] = Upsert(h)]
      /\ worker' = [worker EXCEPT ![w] = n]
      /\ UNCHANGED <<cache, lastSeen, watchdog, phase, fired, sinceSweep, missed, faults, restarts, deployment>>
    BY <1>1 DEF InsertNode, memory, clocks, bounds, IInv, TypeOK
<1>3. node'[h].id \in Ids \cup {0}
    BY <1>2, UpsertFacts
<1>4. n \in WorkerState /\ n.at = "cache" /\ n.host = h /\ n.id = node'[h].id
    BY <1>1, <1>3, Types DEF IInv, WorkerState
<1>5. faults' \in 0..MaxFaults
    BY <1>2 DEF IInv, TypeOK
<1> HIDE DEF n
<1> QED BY <1>2, <1>4, <1>5, UpsertKeeps

(* One more failure stays within the bound. *)
LEMMA FaultBounded ==
    ASSUME TypeOK, Fault
    PROVE  faults' \in 0..MaxFaults /\ restarts' = restarts /\ deployment' = deployment
BY RegistryAssumption DEF TypeOK, Fault

(* A failed InsertNode: the row is stored or not, the worker rests. *)
LEMMA DropKeeps == ASSUME NEW w \in Workers, IInv, Drop(w) PROVE IInv'
<1>1. PICK h \in Hosts : h = worker[w].host
    BY Types DEF IInv
<1>2. /\ node' = node \/ node' = [node EXCEPT ![h] = Upsert(h)]
      /\ worker' = [worker EXCEPT ![w] = Idle]
      /\ UNCHANGED <<cache, lastSeen, watchdog, phase, fired, sinceSweep, missed>>
    BY <1>1 DEF Drop, memory, clocks
<1>3. faults' \in 0..MaxFaults /\ restarts' = restarts /\ deployment' = deployment
    BY FaultBounded DEF IInv, Drop
<1>4. CASE node' = [node EXCEPT ![h] = Upsert(h)]
    BY <1>2, <1>3, <1>4, IdleState, UpsertKeeps
<1>5. CASE node' = node
    <2>1. /\ worker' \in [Workers -> WorkerState] /\ worker'[w] = Idle
          /\ \A v \in Workers \ {w} : worker'[v] = worker[v]
        BY <1>2, IdleState DEF IInv, TypeOK
    <2>2. Rows' = Rows
        BY <1>5 DEF Rows
    <2>3. TypeOK'
        BY <1>2, <1>3, <1>5, <2>1 DEF IInv, TypeOK, Pending
    <2>4. OneIdPerHost'
        BY <1>2, <1>5, <2>1, <2>2, IdleState DEF IInv, OneIdPerHost, IdStage
    <2>5. InactiveExplained'
        BY <1>2, <1>5, <2>2 DEF IInv, InactiveExplained, IsStale, Pending
    <2>6. Support'
        BY <1>2, <1>5, <2>1, <2>2, IdleState DEF IInv, Support, IsStale, IdStage
    <2> QED BY <2>3, <2>4, <2>5, <2>6 DEF IInv
<1> QED BY <1>2, <1>4, <1>5

(* The cache gets the id of a host that has one. *)
LEMMA CacheNodeKeeps == ASSUME NEW w \in Workers, IInv, CacheNode(w) PROVE IInv'
<1>1. PICK h \in Hosts : h = worker[w].host
    BY Types DEF IInv
<1>2. /\ worker[w] \in WorkerState /\ worker[w].at \in {"cache", "cacheAgain"}
      /\ h \in Rows /\ worker[w].id = node[h].id /\ worker[w].id \in Ids \cup {0}
      /\ node[h].id # 0
    BY <1>1, Types DEF IInv, CacheNode, OneIdPerHost, Support, IdStage, Rows, WorkerState
<1>3. /\ cache' = [cache EXCEPT ![h] = node[h].id]
      /\ UNCHANGED <<node, lastSeen, watchdog, phase, fired, sinceSweep, missed, faults, restarts, deployment>>
    BY <1>1, <1>2 DEF CacheNode, clocks, bounds
<1>4. /\ cache' \in [Hosts -> Ids \cup {0}]
      /\ cache'[h] = node[h].id
      /\ \A g \in Hosts \ {h} : cache'[g] = cache[g]
    BY <1>2, <1>3 DEF IInv, TypeOK
<1>5. PICK n \in WorkerState :
        /\ worker' = [worker EXCEPT ![w] = n]
        /\ n.at = "idle" \/ (n.at = "touchNew" /\ n.host = h /\ n.id = node[h].id)
    <2>1. CASE worker[w].at = "cache"
        <3> DEFINE n == [worker[w] EXCEPT !.at = "touchNew"]
        <3>1. worker' = [worker EXCEPT ![w] = n]
            BY <2>1 DEF CacheNode, Goto
        <3>2. n \in WorkerState /\ n.at = "touchNew" /\ n.host = h /\ n.id = node[h].id
            BY <1>1, <1>2 DEF WorkerState
        <3> HIDE DEF n
        <3> QED BY <3>1, <3>2
    <2>2. CASE worker[w].at # "cache"
        BY <2>2, IdleState DEF CacheNode
    <2> QED BY <2>1, <2>2
<1>6. /\ worker' \in [Workers -> WorkerState] /\ worker'[w] = n
      /\ \A v \in Workers \ {w} : worker'[v] = worker[v]
    BY <1>5 DEF IInv, TypeOK
<1>7. Rows' = Rows
    BY <1>3 DEF Rows
<1>8. TypeOK'
    BY <1>3, <1>4, <1>6 DEF IInv, TypeOK, Pending
<1>9. OneIdPerHost'
    <2>1. \A g \in Hosts : cache'[g] # 0 => cache'[g] = node'[g].id
        BY <1>3, <1>4 DEF IInv, OneIdPerHost
    <2>2. \A v \in Workers : worker'[v].at \in IdStage => worker'[v].id = node'[worker'[v].host].id
        BY <1>3, <1>5, <1>6 DEF IInv, OneIdPerHost, IdStage
    <2>3. \A v \in Workers : worker'[v].at = "resolveAgain" => cache'[worker'[v].host] # 0
        BY <1>2, <1>4, <1>5, <1>6, Types DEF IInv, OneIdPerHost
    <2> QED BY <1>3, <1>7, <2>1, <2>2, <2>3 DEF IInv, OneIdPerHost
<1>10. InactiveExplained'
    BY <1>3, <1>7 DEF IInv, InactiveExplained, IsStale, Pending
<1>11. Support'
    <2>1. \A v \in Workers : worker'[v].at \in IdStage => worker'[v].host \in Rows
        BY <1>2, <1>5, <1>6 DEF IInv, Support, IdStage
    <2>2. \A v \in Workers : worker'[v].at = "touchNew" => cache'[worker'[v].host] # 0
        BY <1>2, <1>4, <1>5, <1>6, Types DEF IInv, Support
    <2> QED BY <1>3, <1>7, <2>1, <2>2 DEF IInv, Support, IsStale
<1> QED BY <1>8, <1>9, <1>10, <1>11 DEF IInv

(* A touch makes a node as young as can be: younger than any snapshot. *)
LEMMA TouchNodeKeeps == ASSUME NEW w \in Workers, IInv, TouchNode(w) PROVE IInv'
<1>1. PICK h \in Hosts : h = worker[w].host
    BY Types DEF IInv
<1>2. PICK id \in Ids : id = worker[w].id /\ h \in Rows /\ id = node[h].id
    BY <1>1, Types DEF IInv, TouchNode, OneIdPerHost, Support, IdStage, Rows
<1>3. /\ worker[w] \in WorkerState /\ worker[w].at \in {"touchNew", "touch"}
      /\ lastSeen' = [k \in DOMAIN lastSeen \cup {id} |-> IF k = id THEN 0 ELSE lastSeen[k]]
      /\ UNCHANGED <<node, cache, watchdog, phase, fired, sinceSweep, missed, faults, restarts, deployment>>
    BY <1>2, Types DEF IInv, TouchNode, Touched, clocks, bounds
<1>4. /\ DOMAIN lastSeen' = DOMAIN lastSeen \cup {id}
      /\ lastSeen'[id] = 0
      /\ \A k \in DOMAIN lastSeen \ {id} : lastSeen'[k] = lastSeen[k]
      /\ lastSeen' \in [DOMAIN lastSeen' -> 0..Stale]
    BY <1>3, Types DEF IInv, TypeOK
<1>5. PICK n \in WorkerState :
        /\ worker' = [worker EXCEPT ![w] = n]
        /\ n.host = h /\ n.id = id
        /\ \/ n.at = "store"
           \/ n.at = "resolveAgain" /\ worker[w].at = "touchNew"
    <2> DEFINE n == [worker[w] EXCEPT !.at = IF worker[w].at = "touchNew" THEN "resolveAgain" ELSE "store"]
    <2>1. worker' = [worker EXCEPT ![w] = n]
        BY DEF TouchNode, Goto
    <2>2. n \in WorkerState /\ n.host = h /\ n.id = id
        BY <1>1, <1>2, <1>3 DEF WorkerState
    <2>3. n.at = IF worker[w].at = "touchNew" THEN "resolveAgain" ELSE "store"
        BY <1>3 DEF WorkerState
    <2> HIDE DEF n
    <2> QED BY <2>1, <2>2, <2>3
<1>6. /\ worker' \in [Workers -> WorkerState] /\ worker'[w] = n
      /\ \A v \in Workers \ {w} : worker'[v] = worker[v]
    BY <1>5 DEF IInv, TypeOK
<1>7. Rows' = Rows
    BY <1>3 DEF Rows
<1>8. TypeOK'
    BY <1>3, <1>4, <1>6 DEF IInv, TypeOK, Pending
<1>9. OneIdPerHost'
    <2>1. \A v \in Workers : worker'[v].at \in IdStage => worker'[v].id = node'[worker'[v].host].id
        BY <1>2, <1>3, <1>5, <1>6 DEF IInv, OneIdPerHost, IdStage
    <2>2. n.at = "resolveAgain" => cache[h] # 0
        BY <1>1, <1>5 DEF IInv, Support
    <2>3. \A v \in Workers : worker'[v].at = "resolveAgain" => cache'[worker'[v].host] # 0
        BY <1>3, <1>5, <1>6, <2>2 DEF IInv, OneIdPerHost
    <2>4. DOMAIN lastSeen' \subseteq {node[g].id : g \in Rows}
        BY <1>2, <1>4 DEF IInv, OneIdPerHost
    <2> QED BY <1>3, <1>7, <2>1, <2>3, <2>4 DEF IInv, OneIdPerHost
<1>10. InactiveExplained'
    <2> SUFFICES ASSUME NEW g \in Rows, ~node[g].active, node[g].id \in DOMAIN lastSeen'
                 PROVE  \/ lastSeen'[node[g].id] > Timeout
                        \/ lastSeen'[node[g].id] <= sinceSweep
                        \/ node[g].id \in Pending \cup missed
        BY <1>3, <1>7 DEF InactiveExplained, IsStale, Pending
    <2>1. CASE node[g].id = id
        BY <1>4, <2>1, Types DEF IInv
    <2>2. CASE node[g].id # id
        BY <1>4, <2>2 DEF IInv, InactiveExplained, IsStale
    <2> QED BY <2>1, <2>2
<1>11. Support'
    <2>1. \A i \in watchdog.stale : /\ i \in DOMAIN lastSeen'
                                    /\ lastSeen'[i] > Timeout \/ lastSeen'[i] <= sinceSweep
        BY <1>4, Types DEF IInv, Support, IsStale
    <2>2. \A v \in Workers : worker'[v].at \in IdStage => worker'[v].host \in Rows
        BY <1>2, <1>5, <1>6 DEF IInv, Support
    <2>3. \A v \in Workers : worker'[v].at = "touchNew" => cache'[worker'[v].host] # 0
        BY <1>3, <1>5, <1>6 DEF IInv, Support
    <2> QED BY <1>3, <1>7, <2>1, <2>2, <2>3 DEF IInv, Support, IsStale
<1> QED BY <1>8, <1>9, <1>10, <1>11 DEF IInv

-----------------------------------------------------------------------------
(* The steps of the watchdog that update no row. *)
LEMMA WatchdogMoves ==
    ASSUME IInv, UNCHANGED <<cache, lastSeen, worker, phase, restarts, deployment>>,
           watchdog' \in [sweeping : BOOLEAN, stale : SUBSET Ids, fresh : SUBSET Ids],
           ~watchdog'.sweeping => Pending' = {}, watchdog'.sweeping => missed' = {},
           fired' \in BOOLEAN, sinceSweep' \in 0..Stale, missed' \subseteq Ids,
           faults' \in 0..MaxFaults,
           node' \in [Hosts -> [id : Ids \cup {0}, active : BOOLEAN]],
           \A h \in Hosts : node'[h].id = node[h].id,
           InactiveExplained',
           \A i \in watchdog'.stale : /\ i \in DOMAIN lastSeen
                                      /\ IsStale(i) \/ lastSeen[i] <= sinceSweep'
    PROVE  IInv'
<1>1. Rows' = Rows
    BY DEF Rows
<1>2. TypeOK'
    BY DEF IInv, TypeOK
<1>3. Rows \subseteq Hosts /\ \A w \in Workers : worker[w].host \in Hosts
    BY Types DEF IInv
<1>4. {node'[h].id : h \in Rows} = {node[h].id : h \in Rows}
    BY <1>3
<1>5. OneIdPerHost'
    BY <1>1, <1>3, <1>4 DEF IInv, OneIdPerHost
<1>6. Support'
    BY <1>1, <1>3 DEF IInv, Support, IsStale
<1> QED BY <1>2, <1>5, <1>6 DEF IInv

(* The snapshot: every node with a time is in it, so nothing about the flags needs
   another reason. *)
LEMMA StartSweepKeeps == ASSUME IInv, StartSweep PROVE IInv'
<1>1. /\ UNCHANGED <<node, cache, lastSeen, worker, phase, faults, restarts, deployment>>
      /\ watchdog' = [sweeping |-> TRUE,
                      stale    |-> {i \in DOMAIN lastSeen : IsStale(i)},
                      fresh    |-> {i \in DOMAIN lastSeen : ~IsStale(i)}]
      /\ fired' = FALSE /\ sinceSweep' = 0 /\ missed' = {}
    BY DEF StartSweep, memory, bounds
<1>2. /\ watchdog' \in [sweeping : BOOLEAN, stale : SUBSET Ids, fresh : SUBSET Ids]
      /\ watchdog'.sweeping
      /\ watchdog'.stale = {i \in DOMAIN lastSeen : IsStale(i)}
      /\ DOMAIN lastSeen \subseteq watchdog'.stale \cup watchdog'.fresh
    BY <1>1 DEF IInv, TypeOK
<1>3. InactiveExplained'
    BY <1>1, <1>2 DEF InactiveExplained, Pending
<1>4. sinceSweep' \in 0..Stale
    BY <1>1, Types DEF IInv
<1>5. /\ node' \in [Hosts -> [id : Ids \cup {0}, active : BOOLEAN]]
      /\ \A h \in Hosts : node'[h].id = node[h].id
      /\ faults' \in 0..MaxFaults
    BY <1>1 DEF IInv, TypeOK
<1> QED BY <1>1, <1>2, <1>3, <1>4, <1>5, WatchdogMoves

(* The row of one node after its UPDATE. *)
LEMMA FlagFacts ==
    ASSUME IInv, NEW h \in Rows, NEW S, node' = Flagged(h, node[h].id \in S)
    PROVE  /\ node' \in [Hosts -> [id : Ids \cup {0}, active : BOOLEAN]]
           /\ Rows' = Rows
           /\ \A g \in Hosts : node'[g].id = node[g].id
           /\ node'[h].active <=> node[h].id \in S
           /\ \A g \in Hosts \ {h} : node'[g] = node[g]
<1> DEFINE R == node[h].id \in S
<1>1. R \in BOOLEAN
    OBVIOUS
<1>2. node' = Flagged(h, R)
    OBVIOUS
<1> HIDE DEF R
<1>3. PICK b \in BOOLEAN : b = R /\ node' = Flagged(h, b)
    BY <1>1, <1>2
<1>4. /\ node \in [Hosts -> [id : Ids \cup {0}, active : BOOLEAN]] /\ h \in Hosts
      /\ node' = [node EXCEPT ![h] = [node[h] EXCEPT !.active = b]]
    BY <1>3, Types DEF IInv, TypeOK, Flagged
<1>5. /\ [node[h] EXCEPT !.active = b] \in [id : Ids \cup {0}, active : BOOLEAN]
      /\ [node[h] EXCEPT !.active = b].id = node[h].id
      /\ [node[h] EXCEPT !.active = b].active = b
    BY <1>4
<1> HIDE DEF Flagged
<1>6. /\ node' \in [Hosts -> [id : Ids \cup {0}, active : BOOLEAN]]
      /\ node'[h] = [node[h] EXCEPT !.active = b]
      /\ \A g \in Hosts \ {h} : node'[g] = node[g]
    BY <1>4, <1>5
<1>7. \A g \in Hosts : node'[g].id = node[g].id
    BY <1>5, <1>6
<1>8. Rows' = Rows
    BY <1>7 DEF Rows
<1>9. node'[h].active = b
    BY <1>5, <1>6
<1>10. node'[h].active <=> R
    BY <1>3, <1>9
<1> USE DEF R
<1> QED BY <1>6, <1>7, <1>8, <1>10

(* A node is marked inactive only if it is in the stale part of the snapshot, which
   is a reason by itself. *)
LEMMA UpdateFlagKeeps == ASSUME IInv, UpdateFlag PROVE IInv'
<1>1. PICK h \in Rows :
        /\ node[h].id \in Pending
        /\ node' = Flagged(h, node[h].id \in watchdog.fresh)
        /\ watchdog' = [watchdog EXCEPT !.stale = @ \ {node[h].id}, !.fresh = @ \ {node[h].id}]
    BY DEF UpdateFlag
<1>2. UNCHANGED <<cache, lastSeen, worker, phase, fired, sinceSweep, missed, faults, restarts, deployment>>
    BY DEF UpdateFlag, memory, clocks, bounds
<1>3. PICK id \in Ids : id = node[h].id
    BY Types DEF IInv, Rows
<1>4. /\ watchdog \in [sweeping : BOOLEAN, stale : SUBSET Ids, fresh : SUBSET Ids]
      /\ watchdog' \in [sweeping : BOOLEAN, stale : SUBSET Ids, fresh : SUBSET Ids]
      /\ watchdog'.sweeping = watchdog.sweeping
      /\ watchdog'.stale = watchdog.stale \ {id}
      /\ watchdog'.fresh = watchdog.fresh \ {id}
    BY <1>1, <1>3 DEF IInv, TypeOK
<1>5. /\ node' \in [Hosts -> [id : Ids \cup {0}, active : BOOLEAN]]
      /\ Rows' = Rows
      /\ \A g \in Hosts : node'[g].id = node[g].id
      /\ node'[h].active <=> id \in watchdog.fresh
      /\ \A g \in Hosts \ {h} : node'[g] = node[g]
    BY <1>1, <1>3, FlagFacts
<1>6. InactiveExplained'
    <2> SUFFICES ASSUME NEW g \in Rows, ~node'[g].active, node[g].id \in DOMAIN lastSeen
                 PROVE  \/ IsStale(node[g].id)
                        \/ lastSeen[node[g].id] <= sinceSweep
                        \/ node[g].id \in Pending' \cup missed
        BY <1>2, <1>5, Types DEF IInv, InactiveExplained, IsStale
    <2>1. CASE g = h
        <3>1. id \in watchdog.stale
            BY <1>1, <1>3, <1>5, <2>1 DEF Pending
        <3> QED BY <1>3, <2>1, <3>1 DEF IInv, Support
    <2>2. CASE g # h
        <3>1. node'[g] = node[g] /\ node[g].id # id
            BY <1>3, <1>5, <2>2, Types DEF IInv, OneIdPerHost
        <3>2. node[g].id \in Pending => node[g].id \in Pending'
            BY <1>4, <3>1 DEF Pending
        <3> QED BY <3>1, <3>2 DEF IInv, InactiveExplained
    <2> QED BY <2>1, <2>2
<1>7. ~watchdog'.sweeping => Pending' = {}
    BY <1>4 DEF IInv, TypeOK, Pending
<1>8. /\ fired' \in BOOLEAN /\ sinceSweep' \in 0..Stale /\ missed' \subseteq Ids
      /\ faults' \in 0..MaxFaults
    BY <1>2 DEF IInv, TypeOK
<1>9. \A i \in watchdog'.stale : /\ i \in DOMAIN lastSeen
                                 /\ IsStale(i) \/ lastSeen[i] <= sinceSweep'
    BY <1>2, <1>4 DEF IInv, Support
<1>10. watchdog'.sweeping => missed' = {}
    BY <1>2, <1>4 DEF IInv, Support
<1> QED BY <1>2, <1>4, <1>5, <1>6, <1>7, <1>8, <1>9, <1>10, WatchdogMoves

(* A failed UPDATE: what the sweep leaves, and the node it may have updated, are
   the nodes it missed. *)
LEMMA GiveUpKeeps == ASSUME IInv, GiveUp PROVE IInv'
<1>1. PICK h \in Rows :
        /\ node[h].id \in Pending
        /\ node' = node \/ node' = Flagged(h, node[h].id \in watchdog.fresh)
    BY DEF GiveUp
<1>2. /\ UNCHANGED <<cache, lastSeen, worker, phase, fired, sinceSweep, restarts, deployment>>
      /\ missed' = Pending /\ watchdog' = Quiet /\ faults' \in 0..MaxFaults
    BY FaultBounded DEF IInv, GiveUp, Stopped, memory, clocks
<1>3. /\ node' \in [Hosts -> [id : Ids \cup {0}, active : BOOLEAN]]
      /\ Rows' = Rows
      /\ \A g \in Hosts : node'[g].id = node[g].id
      /\ \A g \in Hosts \ {h} : node'[g] = node[g]
    <2>1. CASE node' = node
        BY <2>1 DEF IInv, TypeOK, Rows
    <2>2. CASE node' = Flagged(h, node[h].id \in watchdog.fresh)
        BY <2>2, FlagFacts
    <2> QED BY <1>1, <2>1, <2>2
<1>4. Pending' = {} /\ watchdog'.stale = {} /\ ~watchdog'.sweeping
    BY <1>2, QuietState DEF Pending
<1>5. InactiveExplained'
    <2> SUFFICES ASSUME NEW g \in Rows, ~node'[g].active, node[g].id \in DOMAIN lastSeen
                 PROVE  \/ IsStale(node[g].id)
                        \/ lastSeen[node[g].id] <= sinceSweep
                        \/ node[g].id \in missed'
        BY <1>2, <1>3, Types DEF IInv, InactiveExplained, IsStale
    <2>1. CASE g = h
        BY <1>1, <1>2, <2>1
    <2>2. CASE g # h
        <3>1. node'[g] = node[g]
            BY <1>3, <2>2, Types DEF IInv
        <3>2. missed = {}
            BY <1>1 DEF IInv, TypeOK, Support
        <3> QED BY <1>2, <3>1, <3>2 DEF IInv, InactiveExplained
    <2> QED BY <2>1, <2>2
<1>6. /\ fired' \in BOOLEAN /\ sinceSweep' \in 0..Stale /\ missed' \subseteq Ids
    BY <1>2 DEF IInv, TypeOK, Pending
<1> QED BY <1>2, <1>3, <1>4, <1>5, <1>6, QuietState, WatchdogMoves

(* The end of a sweep: nothing is left in the snapshot. *)
LEMMA EndSweepKeeps == ASSUME IInv, EndSweep PROVE IInv'
<1>1. /\ UNCHANGED <<node, cache, lastSeen, worker, phase, fired, sinceSweep, missed, faults, restarts, deployment>>
      /\ Pending = {} /\ watchdog' = Quiet
    BY DEF EndSweep, memory, clocks, bounds
<1>2. Pending' = {} /\ watchdog'.stale = {} /\ ~watchdog'.sweeping
    BY <1>1, QuietState DEF Pending
<1>3. Rows' = Rows
    BY <1>1 DEF Rows
<1>4. InactiveExplained'
    BY <1>1, <1>2, <1>3 DEF IInv, InactiveExplained, IsStale
<1>5. /\ node' \in [Hosts -> [id : Ids \cup {0}, active : BOOLEAN]]
      /\ \A h \in Hosts : node'[h].id = node[h].id
      /\ sinceSweep' \in 0..Stale /\ missed' \subseteq Ids /\ faults' \in 0..MaxFaults
    BY <1>1 DEF IInv, TypeOK
<1>6. fired' \in BOOLEAN
    BY <1>1, Zenon DEF IInv, TypeOK
<1> QED BY <1>1, <1>2, <1>4, <1>5, <1>6, QuietState, WatchdogMoves

-----------------------------------------------------------------------------
(* Ages grow together, so that what is stale stays stale and what was touched since
   the snapshot stays younger than it. *)
LEMMA OlderFacts ==
    /\ \A a \in 0..Stale : Older(a) \in 0..Stale
    /\ \A a \in 0..Stale : a > Timeout => Older(a) > Timeout
    /\ \A a, b \in 0..Stale : a <= b => Older(a) <= Older(b)
BY RegistryAssumption DEF Older, Stale

(* Time passes. *)
LEMMA TickKeeps == ASSUME IInv, Tick PROVE IInv'
<1>1. /\ UNCHANGED <<node, cache, worker, watchdog, missed, faults, restarts, deployment>>
      /\ lastSeen' = [i \in DOMAIN lastSeen |-> Older(lastSeen[i])]
      /\ sinceSweep' = Older(sinceSweep)
    BY DEF Tick, bounds
<1>2. /\ sinceSweep \in 0..Stale /\ sinceSweep' \in 0..Stale
      /\ DOMAIN lastSeen' = DOMAIN lastSeen
      /\ lastSeen' \in [DOMAIN lastSeen' -> 0..Stale]
    BY <1>1, OlderFacts DEF IInv, TypeOK
<1>3. \A i \in DOMAIN lastSeen : /\ lastSeen[i] > Timeout => lastSeen'[i] > Timeout
                                 /\ lastSeen[i] <= sinceSweep => lastSeen'[i] <= sinceSweep'
    BY <1>1, <1>2, OlderFacts, Types DEF IInv
<1>4. Rows' = Rows
    BY <1>1 DEF Rows
<1>5. TypeOK'
    <2>1. phase' \in 0..(Timeout - 1)
        BY RegistryAssumption DEF Tick, IInv, TypeOK
    <2>2. fired' \in BOOLEAN
        BY Zenon DEF Tick
    <2> QED BY <1>1, <1>2, <2>1, <2>2 DEF IInv, TypeOK, Pending
<1>6. OneIdPerHost'
    BY <1>1, <1>2, <1>4 DEF IInv, OneIdPerHost
<1>7. InactiveExplained'
    BY <1>1, <1>2, <1>3, <1>4 DEF IInv, InactiveExplained, IsStale, Pending
<1>8. Support'
    BY <1>1, <1>2, <1>3, <1>4 DEF IInv, Support, IsStale
<1> QED BY <1>5, <1>6, <1>7, <1>8 DEF IInv

(* After a crash the cache holds the ids of the table and no node has a time. *)
LEMMA RestartKeeps == ASSUME IInv, Restart PROVE IInv'
<1>1. /\ UNCHANGED <<node, faults, deployment>>
      /\ cache' = [h \in Hosts |-> node[h].id]
      /\ worker' = [w \in Workers |-> Idle]
      /\ watchdog' = Quiet /\ phase' = 0 /\ missed' = {}
      /\ sinceSweep' = Stale /\ restarts' \in 0..MaxRestarts
    BY RegistryAssumption DEF Restart, IInv, TypeOK
<1>2. DOMAIN lastSeen' = {} /\ lastSeen' \in [DOMAIN lastSeen' -> 0..Stale]
    BY DEF Restart
<1>3. Rows' = Rows
    BY <1>1 DEF Rows
<1>4. \A w \in Workers : worker'[w] = Idle
    BY <1>1
<1>5. ~watchdog'.sweeping /\ watchdog'.stale = {} /\ Pending' = {}
    BY <1>1, QuietState DEF Pending
<1>6. TypeOK'
    <2>1. phase' \in 0..(Timeout - 1) /\ sinceSweep' \in 0..Stale
        BY <1>1, RegistryAssumption DEF Stale
    <2>2. fired' \in BOOLEAN
        BY DEF Restart
    <2>3. /\ cache' \in [Hosts -> Ids \cup {0}]
          /\ worker' \in [Workers -> WorkerState]
          /\ watchdog' \in [sweeping : BOOLEAN, stale : SUBSET Ids, fresh : SUBSET Ids]
        BY <1>1, Types, IdleState, QuietState DEF IInv
    <2> QED BY <1>1, <1>2, <1>5, <2>1, <2>2, <2>3 DEF IInv, TypeOK
<1>7. OneIdPerHost'
    BY <1>1, <1>2, <1>3, <1>4, IdleState DEF IInv, OneIdPerHost, IdStage
<1>8. InactiveExplained'
    BY <1>2 DEF InactiveExplained
<1>9. Support'
    BY <1>1, <1>3, <1>4, <1>5, IdleState DEF IInv, Support, IdStage
<1> QED BY <1>6, <1>7, <1>8, <1>9 DEF IInv

(* A step that changes no variable. *)
LEMMA StutterKeeps == ASSUME IInv, UNCHANGED vars PROVE IInv'
<1>1. UNCHANGED <<node, cache, lastSeen, worker, watchdog, phase, fired, sinceSweep, missed, faults, restarts, deployment>>
    BY DEF vars
<1>2. Rows' = Rows /\ Pending' = Pending
    BY <1>1 DEF Rows, Pending
<1>3. TypeOK' /\ OneIdPerHost'
    BY <1>1, <1>2 DEF IInv, TypeOK, OneIdPerHost
<1>4. InactiveExplained' /\ Support'
    BY <1>1, <1>2 DEF IInv, InactiveExplained, Support, IsStale
<1> QED BY <1>3, <1>4 DEF IInv

(* The invariant holds in every reachable state. *)
LEMMA Invariance == Spec => []IInv
<1>1. ASSUME IInv, [Next]_vars PROVE IInv'
    <2>1. ASSUME NEW w \in Workers, NEW h \in Hosts, Receive(w, h) PROVE IInv'
        BY <1>1, <2>1, PlaceKeeps
    <2>2. ASSUME NEW w \in Workers, HandlerStep(w) PROVE IInv'
        BY <1>1, <2>2, PlaceKeeps, InsertNodeKeeps, CacheNodeKeeps, TouchNodeKeeps, DropKeeps
           DEF HandlerStep
    <2>3. CASE WatchdogStep
        BY <1>1, <2>3, StartSweepKeeps, UpdateFlagKeeps, GiveUpKeeps, EndSweepKeeps
           DEF WatchdogStep
    <2>4. CASE Tick
        BY <1>1, <2>4, TickKeeps
    <2>5. CASE Restart
        BY <1>1, <2>5, RestartKeeps
    <2>6. CASE UNCHANGED vars
        BY <1>1, <2>6, StutterKeeps
    <2> QED BY <1>1, <2>1, <2>2, <2>3, <2>4, <2>5, <2>6 DEF Next
<1> QED BY InitIInv, <1>1, PTL DEF Spec

-----------------------------------------------------------------------------
(* The rows, the cache, the times and the handlers keep their shape, and a watchdog
   at rest has no nodes left, whatever fails and however often the process
   restarts (PostgresStorage of storage/postgres.go). *)
THEOREM TypeCorrect == Spec => []TypeOK
<1>1. IInv => TypeOK
    BY DEF IInv
<1> QED BY Invariance, <1>1, PTL

(* Any number of workers that meet new hosts at the same time end up with one id per
   host, the same in the table, in the cache and in their hands (InsertNode and
   ResolveNodeID of storage/postgres.go). *)
THEOREM IdsUnique == Spec => []OneIdPerHost
<1>1. IInv => OneIdPerHost
    BY DEF IInv
<1> QED BY Invariance, <1>1, PTL

(* A node is shown inactive for a reason only: it is silent, was touched since the
   snapshot of the watchdog, is still to be updated or was missed by a failed sweep
   (DeactivateStaleNodes of storage/postgres.go). *)
THEOREM InactiveHasReason == Spec => []InactiveExplained
<1>1. IInv => InactiveExplained
    BY DEF IInv
<1> QED BY Invariance, <1>1, PTL

-----------------------------------------------------------------------------
(* Sweeps and handlers end: what can be shown without fairness *)

(* Every UPDATE of a sweep finds its row: the snapshot is made of the nodes the process
   has times of, and the process has the time of a node only once its row is stored.  So
   a sweep that runs has an update to make, or is over. *)
SweptNodesExist == Pending \subseteq {node[h].id : h \in Rows}

(* The UPDATEs and the end of the sweep that are left. *)
SweepLeft == IF watchdog.sweeping THEN Cardinality(Pending) + 1 ELSE 0

(* A sweep takes one step for each node of its snapshot and one to end: every step of it
   counts, a failed one too, and no worker adds to it, however many hosts turn up
   meanwhile. *)
SweepAdvances ==
    [][watchdog.sweeping =>
         /\ SweepLeft' <= SweepLeft
         /\ WatchdogStep => SweepLeft' < SweepLeft]_vars

StageLeft == [idle |-> 0, cacheAgain |-> 1, store |-> 2, touch |-> 3, resolveAgain |-> 4,
              touchNew |-> 5, cache |-> 6, insert |-> 7, resolve |-> 8]

(* A message is handled in at most eight steps, whatever the other workers, the watchdog
   and the database do in between: a handler that looks a host up again does not start
   over. *)
HandlersAdvance ==
    [][\A w \in Workers : worker[w].at # "idle" =>
         /\ StageLeft[worker'[w].at] <= StageLeft[worker[w].at]
         /\ HandlerStep(w) => StageLeft[worker'[w].at] < StageLeft[worker[w].at]]_vars

(* The snapshot of a sweep is of nodes that have a time. *)
SnapshotKnown == Pending \subseteq DOMAIN lastSeen

(* Who moves the snapshot: the watchdog, or a crash. *)
LEMMA SnapshotSteps ==
    ASSUME TypeOK, [Next]_vars
    PROVE  \/ watchdog' = watchdog /\ DOMAIN lastSeen \subseteq DOMAIN lastSeen'
           \/ watchdog' = Quiet
           \/ /\ StartSweep /\ ~watchdog.sweeping
              /\ lastSeen' = lastSeen /\ Pending' \subseteq DOMAIN lastSeen
           \/ /\ lastSeen' = lastSeen /\ watchdog.sweeping /\ watchdog'.sweeping
              /\ \E i \in Pending : Pending' = Pending \ {i}
<1>1. CASE \E w \in Workers, h \in Hosts : Receive(w, h)
    BY <1>1 DEF Receive, memory
<1>2. CASE \E w \in Workers : HandlerStep(w)
    <2>1. watchdog' = watchdog
        BY <1>2 DEF HandlerStep, Resolve, InsertNode, CacheNode, TouchNode, UpdateNodeInfo, Store, Drop
    <2>2. DOMAIN lastSeen \subseteq DOMAIN lastSeen'
        BY <1>2 DEF HandlerStep, Resolve, InsertNode, CacheNode, TouchNode, UpdateNodeInfo, Store, Drop,
                    Touched, memory
    <2> QED BY <2>1, <2>2
<1>3. CASE StartSweep
    <2>1. /\ watchdog'.stale = {i \in DOMAIN lastSeen : IsStale(i)}
          /\ watchdog'.fresh = {i \in DOMAIN lastSeen : ~IsStale(i)}
          /\ ~watchdog.sweeping /\ lastSeen' = lastSeen
        BY <1>3 DEF StartSweep, memory
    <2> QED BY <1>3, <2>1 DEF Pending
<1>4. CASE UpdateFlag
    <2>1. PICK i \in Pending :
            watchdog' = [watchdog EXCEPT !.stale = @ \ {i}, !.fresh = @ \ {i}]
        BY <1>4 DEF UpdateFlag
    <2>2. watchdog \in [sweeping : BOOLEAN, stale : SUBSET Ids, fresh : SUBSET Ids]
          /\ (~watchdog.sweeping => Pending = {})
        BY DEF TypeOK
    <2>3. /\ watchdog'.stale = watchdog.stale \ {i} /\ watchdog'.fresh = watchdog.fresh \ {i}
          /\ watchdog'.sweeping = watchdog.sweeping
        BY <2>1, <2>2
    <2>4. Pending' = Pending \ {i}
        BY <2>3 DEF Pending
    <2>5. lastSeen' = lastSeen
        BY <1>4 DEF UpdateFlag, memory
    <2>6. watchdog.sweeping
        BY <2>1, <2>2
    <2> QED BY <2>3, <2>4, <2>5, <2>6
<1>5. CASE GiveUp
    BY <1>5 DEF GiveUp, Stopped, TypeOK
<1>6. CASE EndSweep
    BY <1>6 DEF EndSweep
<1>7. CASE Tick
    BY <1>7 DEF Tick
<1>8. CASE Restart
    BY <1>8 DEF Restart
<1>9. CASE UNCHANGED vars
    BY <1>9 DEF vars
<1> QED BY <1>1, <1>2, <1>3, <1>4, <1>5, <1>6, <1>7, <1>8, <1>9 DEF Next, WatchdogStep

(* Every UPDATE of a sweep is of a node whose row is stored (DeactivateStaleNodes of
   storage/postgres.go), also after crashes and failed inserts. *)
THEOREM SweepsUpdateRows == Spec => []SweptNodesExist
<1>1. Init => SnapshotKnown
    BY DEF Init, SnapshotKnown, Pending, Quiet
<1>2. TypeOK /\ SnapshotKnown /\ [Next]_vars => SnapshotKnown'
    <2> SUFFICES ASSUME TypeOK, SnapshotKnown, [Next]_vars PROVE Pending' \subseteq DOMAIN lastSeen'
        BY DEF SnapshotKnown
    <2>1. CASE watchdog' = watchdog /\ DOMAIN lastSeen \subseteq DOMAIN lastSeen'
        BY <2>1 DEF SnapshotKnown, Pending
    <2>2. CASE watchdog' = Quiet
        BY <2>2, QuietState DEF Pending
    <2>3. CASE lastSeen' = lastSeen /\ Pending' \subseteq DOMAIN lastSeen
        BY <2>3
    <2>4. CASE lastSeen' = lastSeen /\ \E i \in Pending : Pending' = Pending \ {i}
        BY <2>4 DEF SnapshotKnown
    <2> QED BY <2>1, <2>2, <2>3, <2>4, SnapshotSteps
<1>3. TypeOK /\ OneIdPerHost /\ SnapshotKnown => SweptNodesExist
    BY DEF OneIdPerHost, SnapshotKnown, SweptNodesExist
<1> QED BY <1>1, <1>2, <1>3, TypeCorrect, IdsUnique, PTL DEF Spec

LEMMA WatchdogMovesOn ==
    ASSUME TypeOK, watchdog.sweeping, WatchdogStep
    PROVE  watchdog' # watchdog
<1>1. watchdog \in [sweeping : BOOLEAN, stale : SUBSET Ids, fresh : SUBSET Ids]
    BY DEF TypeOK
<1>2. ~StartSweep
    BY DEF StartSweep
<1>3. CASE UpdateFlag
    <2>1. PICK i \in Pending :
            watchdog' = [watchdog EXCEPT !.stale = @ \ {i}, !.fresh = @ \ {i}]
        BY <1>3 DEF UpdateFlag
    <2>2. watchdog'.stale = watchdog.stale \ {i} /\ watchdog'.fresh = watchdog.fresh \ {i}
        BY <1>1, <2>1
    <2> QED BY <2>1, <2>2 DEF Pending
<1>4. CASE GiveUp \/ EndSweep
    <2>1. watchdog' = Quiet
        BY <1>4 DEF GiveUp, EndSweep, Stopped
    <2> QED BY <2>1, QuietState
<1> QED BY <1>2, <1>3, <1>4 DEF WatchdogStep

LEMMA SweepCloser ==
    ASSUME TypeOK, TypeOK', [Next]_vars, watchdog.sweeping
    PROVE  /\ SweepLeft' <= SweepLeft
           /\ WatchdogStep => SweepLeft' < SweepLeft
<1>1. IsFiniteSet(Pending) /\ Cardinality(Pending) \in Nat
    <2>1. Pending \subseteq Ids /\ Cardinality(Hosts) \in Nat
        BY Types DEF TypeOK, Pending
    <2>2. IsFiniteSet(Ids)
        BY <2>1, FS_Interval DEF Ids
    <2> QED BY <2>1, <2>2, FS_Subset, FS_CardinalityType
<1>2. SweepLeft = Cardinality(Pending) + 1
    BY DEF SweepLeft
<1>3. CASE watchdog' = watchdog
    BY <1>1, <1>2, <1>3, WatchdogMovesOn DEF SweepLeft, Pending
<1>4. CASE watchdog' = Quiet
    <2>1. SweepLeft' = 0
        BY <1>4, QuietState DEF SweepLeft
    <2> QED BY <1>1, <1>2, <2>1
<1>5. CASE watchdog'.sweeping /\ \E i \in Pending : Pending' = Pending \ {i}
    <2>1. PICK i \in Pending : Pending' = Pending \ {i}
        BY <1>5
    <2>2. Cardinality(Pending') = Cardinality(Pending) - 1
        BY <1>1, <2>1, FS_RemoveElement
    <2>3. SweepLeft' = Cardinality(Pending') + 1
        BY <1>5 DEF SweepLeft
    <2> QED BY <1>1, <1>2, <2>2, <2>3
<1> QED BY <1>3, <1>4, <1>5, SnapshotSteps

(* A sweep ends after one UPDATE for each node of its snapshot at the latest. *)
THEOREM SweepsEnd == Spec => SweepAdvances
<1>1. TypeOK /\ TypeOK' /\ [Next]_vars =>
        [watchdog.sweeping => /\ SweepLeft' <= SweepLeft
                              /\ WatchdogStep => SweepLeft' < SweepLeft]_vars
    BY SweepCloser
<1> QED BY <1>1, TypeCorrect, PTL DEF Spec, SweepAdvances

(* What the step of a worker makes of its place. *)
LEMMA HandlerMoves ==
    ASSUME TypeOK, NEW w \in Workers, HandlerStep(w)
    PROVE  /\ \A v \in Workers \ {w} : worker'[v] = worker[v]
           /\ StageLeft[worker'[w].at] \in Nat
           /\ StageLeft[worker'[w].at] < StageLeft[worker[w].at]
<1>1. worker \in [Workers -> WorkerState] /\ worker[w] \in WorkerState
    BY DEF TypeOK
<1>2. CASE Resolve(w)
    <2> DEFINE s == IF cache[worker[w].host] # 0
                    THEN [worker[w] EXCEPT !.at = "touch", !.id = cache[worker[w].host]]
                    ELSE IF worker[w].at = "resolve" THEN [worker[w] EXCEPT !.at = "insert"]
                    ELSE Idle
    <2>1. worker[w].at \in {"resolve", "resolveAgain"} /\ worker' = [worker EXCEPT ![w] = s]
        BY <1>2 DEF Resolve
    <2>2. s.at = "touch" \/ (s.at = "insert" /\ worker[w].at = "resolve") \/ s.at = "idle"
        BY <1>1, IdleState DEF WorkerState
    <2> HIDE DEF s
    <2>3. worker'[w] = s /\ \A v \in Workers \ {w} : worker'[v] = worker[v]
        BY <1>1, <2>1
    <2>4. StageLeft[s.at] \in Nat /\ StageLeft[s.at] < StageLeft[worker[w].at]
        BY <2>1, <2>2 DEF StageLeft
    <2> QED BY <2>3, <2>4
<1>3. ASSUME NEW at, worker' = [worker EXCEPT ![w].at = at]
      PROVE  worker'[w].at = at /\ \A v \in Workers \ {w} : worker'[v] = worker[v]
    BY <1>1, <1>3 DEF WorkerState
<1>4. ASSUME NEW at, NEW id, worker' = [worker EXCEPT ![w].at = at, ![w].id = id]
      PROVE  worker'[w].at = at /\ \A v \in Workers \ {w} : worker'[v] = worker[v]
    BY <1>1, <1>4 DEF WorkerState
<1>5. ASSUME worker' = [worker EXCEPT ![w] = Idle]
      PROVE  worker'[w].at = "idle" /\ \A v \in Workers \ {w} : worker'[v] = worker[v]
    BY <1>1, <1>5, IdleState
<1>6. CASE InsertNode(w)
    <2>1. PICK id : worker' = [worker EXCEPT ![w].at = "cache", ![w].id = id]
        BY <1>6 DEF InsertNode
    <2>2. worker'[w].at = "cache" /\ \A v \in Workers \ {w} : worker'[v] = worker[v]
        BY <1>4, <2>1
    <2>3. worker[w].at = "insert"
        BY <1>6 DEF InsertNode
    <2> QED BY <2>2, <2>3 DEF StageLeft
<1>7. CASE CacheNode(w)
    <2>1. \/ worker[w].at = "cache" /\ worker' = [worker EXCEPT ![w].at = "touchNew"]
          \/ worker[w].at = "cacheAgain" /\ worker' = [worker EXCEPT ![w] = Idle]
        BY <1>7 DEF CacheNode, Goto
    <2> QED BY <1>3, <1>5, <2>1 DEF StageLeft
<1>8. CASE TouchNode(w)
    <2>1. \/ worker[w].at = "touchNew" /\ worker' = [worker EXCEPT ![w].at = "resolveAgain"]
          \/ worker[w].at = "touch" /\ worker' = [worker EXCEPT ![w].at = "store"]
        BY <1>8 DEF TouchNode, Goto
    <2> QED BY <1>3, <2>1 DEF StageLeft
<1>9. CASE UpdateNodeInfo(w)
    <2>1. PICK id : worker' = [worker EXCEPT ![w].at = "cacheAgain", ![w].id = id]
        BY <1>9 DEF UpdateNodeInfo
    <2>2. worker'[w].at = "cacheAgain" /\ \A v \in Workers \ {w} : worker'[v] = worker[v]
        BY <1>4, <2>1
    <2>3. worker[w].at = "store"
        BY <1>9 DEF UpdateNodeInfo
    <2> QED BY <2>2, <2>3 DEF StageLeft
<1>10. CASE Store(w) \/ Drop(w)
    <2>1. worker[w].at \in {"store", "insert"} /\ worker' = [worker EXCEPT ![w] = Idle]
        BY <1>10 DEF Store, Drop
    <2> QED BY <1>5, <2>1 DEF StageLeft
<1> QED BY <1>2, <1>6, <1>7, <1>8, <1>9, <1>10 DEF HandlerStep

(* The other steps leave a handler where it is, but for a crash, which ends it. *)
LEMMA OthersLeaveHandler ==
    ASSUME TypeOK, [Next]_vars, NEW w \in Workers, ~HandlerStep(w), worker[w].at # "idle"
    PROVE  worker'[w] = worker[w] \/ worker'[w].at = "idle"
<1>1. CASE \E v \in Workers, h \in Hosts : Receive(v, h)
    BY <1>1 DEF Receive, TypeOK
<1>2. CASE \E v \in Workers : HandlerStep(v)
    BY <1>2, HandlerMoves
<1>3. CASE WatchdogStep
    BY <1>3 DEF WatchdogStep, StartSweep, UpdateFlag, GiveUp, EndSweep
<1>4. CASE Restart
    BY <1>4, IdleState DEF Restart
<1>5. CASE Tick \/ UNCHANGED vars
    BY <1>5 DEF Tick, vars
<1> QED BY <1>1, <1>2, <1>3, <1>4, <1>5 DEF Next

(* A message is handled in at most eight steps (handleMessage of app/app.go, with
   resolveOrInsertNode). *)
THEOREM HandlersEnd == Spec => HandlersAdvance
<1>1. TypeOK /\ [Next]_vars =>
        [\A w \in Workers : worker[w].at # "idle" =>
            /\ StageLeft[worker'[w].at] <= StageLeft[worker[w].at]
            /\ HandlerStep(w) => StageLeft[worker'[w].at] < StageLeft[worker[w].at]]_vars
    <2> SUFFICES ASSUME TypeOK, [Next]_vars, NEW w \in Workers, worker[w].at # "idle"
                 PROVE  /\ StageLeft[worker'[w].at] <= StageLeft[worker[w].at]
                        /\ HandlerStep(w) => StageLeft[worker'[w].at] < StageLeft[worker[w].at]
        OBVIOUS
    <2>1. worker[w].at \in {"idle", "resolve", "insert", "cache", "touchNew", "resolveAgain",
                            "touch", "store", "cacheAgain"}
        BY DEF TypeOK, WorkerState
    <2>2. StageLeft[worker[w].at] \in 1..8
        BY <2>1 DEF StageLeft
    <2>3. StageLeft["idle"] = 0
        BY DEF StageLeft
    <2>4. CASE HandlerStep(w)
        <3>1. /\ StageLeft[worker'[w].at] \in Nat
              /\ StageLeft[worker'[w].at] < StageLeft[worker[w].at]
            BY <2>4, HandlerMoves
        <3> QED BY <2>2, <3>1
    <2>5. CASE ~HandlerStep(w)
        <3>1. worker'[w] = worker[w] \/ worker'[w].at = "idle"
            BY <2>5, OthersLeaveHandler
        <3> QED BY <2>2, <2>3, <2>5, <3>1
    <2> QED BY <2>4, <2>5
<1> QED BY <1>1, TypeCorrect, PTL DEF Spec, HandlersAdvance
=============================================================================
