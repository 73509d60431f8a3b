----------------------------- MODULE PtpTopology -----------------------------
(***************************************************************************)
(* InsertPtpTopologySnapshot of src/internal/storage/postgres.go: a        *)
(* transaction that upserts the clock of a node, its parent and the        *)
(* grandmaster, in this order, and inserts up to two links.  Sessions run  *)
(* it at the same time.                                                    *)
(*                                                                         *)
(* Of PostgreSQL the model has what the transactions meet: an upsert locks *)
(* its row until the transaction ends and waits for the lock of another;   *)
(* when sessions wait for one another in a cycle the server aborts one; an *)
(* error rolls everything back.  Serial numbers of rows are the identities *)
(* themselves, which are unique.                                           *)
(***************************************************************************)
EXTENDS Naturals

CONSTANTS Identities, NoIdentity, Snapshots,
          Sessions    \* who stores snapshots: the workers of the ingest

VARIABLES
    clocks,   \* the committed rows of ptp_clocks
    edges,    \* the committed rows of ptp_topology_edges
    tx        \* per session: where its transaction is and what it has written

topologyVars == <<clocks, edges, tx>>

Store == INSTANCE TopologyStore

ASSUME TopologyAssumption == NoIdentity \notin Identities /\ Snapshots \subseteq Store!Snapshot

NoNode == Store!NoNode
Roles  == Store!Roles

NoRows     == [c \in {} |-> Store!NoClock]
NoSnapshot == [node |-> 1, time |-> 0, local |-> NoIdentity, parent |-> NoIdentity,
               grandmaster |-> NoIdentity]
NoTx       == [at |-> "none", snap |-> NoSnapshot, rows |-> NoRows, links |-> {}]

TopologyInit ==
    /\ clocks = [c \in Identities |-> Store!NoClock]
    /\ edges = {}
    /\ tx = [s \in Sessions |-> NoTx]

-----------------------------------------------------------------------------
(* Row locks *)

Upserting(s) == tx[s].at \in Roles
Wanted(s)    == tx[s].snap[tx[s].at]
Holds(s, c)  == c \in DOMAIN tx[s].rows
WaitsFor(s, r) == Upserting(s) /\ r # s /\ Holds(r, Wanted(s))
Blocked(s)   == \E r \in Sessions : WaitsFor(s, r)

(* A set of sessions each of which waits for one of them and keeps one waiting. *)
Cycle(S) == \A s \in S : /\ \E r \in S : WaitsFor(s, r)
                         /\ \E r \in S : WaitsFor(r, s)
Deadlocked(s) == \E S \in SUBSET Sessions : s \in S /\ Cycle(S)

-----------------------------------------------------------------------------
(* The statements of a transaction *)

ParentFirst == [begin |-> "parent", parent |-> "local", local |-> "grandmaster",
                grandmaster |-> "observed"]                              \* faulty variant
Following   == [begin |-> "local", local |-> "parent", parent |-> "grandmaster",
                grandmaster |-> "observed"]

Begin(s, snap) ==
    /\ tx[s] = NoTx
    /\ snap.local # NoIdentity
    /\ tx' = [tx EXCEPT ![s].at = Following.begin, ![s].snap = snap]
    /\ UNCHANGED <<clocks, edges>>

(* The row a statement of s sees: its own version, or the committed one. *)
RowSeen(s, c) == IF Holds(s, c) THEN tx[s].rows[c] ELSE clocks[c]

(* Only the upsert of the local clock has a node to write. *)
NodeGiven(s) == IF tx[s].at = "local" THEN tx[s].snap.node ELSE NoNode

ExcludedNode(given, old) == given                                        \* faulty variant
Coalesce(given, old)     == IF given = NoNode THEN old ELSE given

(* INSERT ... ON CONFLICT (clock_identity) DO UPDATE *)
Upserted(s, c) == [node |-> Coalesce(NodeGiven(s), RowSeen(s, c).node), kind |-> tx[s].at]

WithRow(s, c) == [d \in DOMAIN tx[s].rows \cup {c} |->
                    IF d = c THEN Upserted(s, c) ELSE tx[s].rows[d]]

UpsertPtpClock(s) ==
    /\ Upserting(s)
    /\ ~Blocked(s)
    /\ tx' = [tx EXCEPT ![s].at = Following[@],
                        ![s].rows = IF Wanted(s) = NoIdentity THEN @ ELSE WithRow(s, Wanted(s))]
    /\ UNCHANGED <<clocks, edges>>

(* ON CONFLICT DO NOTHING: the locks of the clocks keep others from inserting a
   link of the same key meanwhile. *)
Inserted(s, e) ==
    IF e.child = NoIdentity \/ e.parent = NoIdentity \/ e.parent = e.child
       \/ (\E f \in edges \cup tx[s].links : Store!SameKey(e, f))
    THEN tx[s].links ELSE tx[s].links \cup {e}

InsertObserved(s) ==
    /\ tx[s].at = "observed"
    /\ LET snap == tx[s].snap
       IN  tx' = [tx EXCEPT ![s].at = "inferred",
                  ![s].links = Inserted(s, Store!Edge("observed", snap, snap.local, snap.parent))]
    /\ UNCHANGED <<clocks, edges>>

InsertInferred(s) ==
    /\ tx[s].at = "inferred"
    /\ LET snap == tx[s].snap
       IN  tx' = [tx EXCEPT ![s].at = "commit",
                  ![s].links = Inserted(s, Store!Edge("inferred", snap, snap.parent, snap.grandmaster))]
    /\ UNCHANGED <<clocks, edges>>

Statement(s) == UpsertPtpClock(s) \/ InsertObserved(s) \/ InsertInferred(s)

(* Whether Commit then returns an error only decides what is logged. *)
Commit(s) ==
    /\ tx[s].at = "commit"
    /\ clocks' = [c \in Identities |-> RowSeen(s, c)]
    /\ edges' = edges \cup tx[s].links
    /\ tx' = [tx EXCEPT ![s] = NoTx]

(* An error return and its deferred Rollback. *)
Rollback(s) ==
    /\ tx[s].at # "none"
    /\ tx' = [tx EXCEPT ![s] = NoTx]
    /\ UNCHANGED <<clocks, edges>>

(* The server finds a cycle and makes the statement of one session fail. *)
AbortDeadlocked(s) == Deadlocked(s) /\ Rollback(s)

TopologyStep(s) == Statement(s) \/ Commit(s) \/ AbortDeadlocked(s)

-----------------------------------------------------------------------------
(* Properties *)

Row  == [node : Nat, kind : Roles \cup {"none"}]
Link == [time : Nat, kind : {"observed", "inferred"}, child : Identities,
         parent : Identities, grandmaster : Identities \cup {NoIdentity}]

(* The tables and the transactions keep their shape, and links are between clocks
   that have rows: what the foreign keys and the view of current links rely on. *)
TopologyTypeOK ==
    /\ clocks \in [Identities -> Row]
    /\ edges \subseteq Link
    /\ \A e \in edges : Store!Exists(e.child) /\ Store!Exists(e.parent)
    /\ \A s \in Sessions :
        /\ tx[s].at \in Roles \cup {"none", "observed", "inferred", "commit"}
        /\ tx[s].snap \in Snapshots \cup {NoSnapshot}
        /\ DOMAIN tx[s].rows \subseteq Identities
        /\ tx[s].rows \in [DOMAIN tx[s].rows -> Row]
        /\ tx[s].links \subseteq Link
        /\ \A e \in tx[s].links : Holds(s, e.child) /\ Holds(s, e.parent)

(* Concurrent snapshots do not mix: the tables are those of some serial order of
   whole snapshots.  In particular a snapshot that names a clock as its parent never
   takes the node away which the clock's own snapshot gave it at the same time. *)
ImplementsStore == Store!Spec

(* A snapshot puts d above c, and its own transaction locks c before d. *)
Above(snap, c, d) ==
    /\ c # d
    /\ \/ c = snap.local /\ d \in {snap.parent, snap.grandmaster}
       \/ c = snap.parent /\ d = snap.grandmaster

(* The snapshots of S contradict one another: following them upwards goes round. *)
Contradict(S) ==
    \E C \in (SUBSET Identities) \ {{}} :
        \A c \in C : \E d \in C, s \in S : Above(tx[s].snap, c, d)

(* Snapshots lock from the local clock upwards.  While the nodes agree who is above
   whom their transactions cannot deadlock, however many share a grandmaster; a
   deadlock means that snapshots of different topologies met. *)
DeadlocksNeedContradiction ==
    \A S \in (SUBSET Sessions) \ {{}} : Cycle(S) => Contradict(S)
=============================================================================
