---------------------------- MODULE IngestProofs ----------------------------
(***************************************************************************)
(* Proofs about Ingest, for any workers, queue, clocks and snapshots, any  *)
(* number of messages and any number of failures.  The first parts are     *)
(* about PtpTopology, for any sessions: which rows a transaction holds,    *)
(* that it holds them alone, and what follows for deadlocks and for the    *)
(* tables.                                                                 *)
(***************************************************************************)
EXTENDS Ingest, FiniteSetTheorems, WellFoundedInduction, TLAPS

(* The roles whose statements a transaction has behind it, the rows it has locked,
   and the row it has written for each. *)
Passed(at) == IF at \in {"none", "local"} THEN {}
              ELSE IF at = "parent" THEN {"local"}
              ELSE IF at = "grandmaster" THEN {"local", "parent"}
              ELSE Roles

Taken(t) == {t.snap[role] : role \in Passed(t.at)} \ {NoIdentity}

KindSoFar(t, c) == IF "grandmaster" \in Passed(t.at) /\ c = t.snap.grandmaster THEN "grandmaster"
                   ELSE IF "parent" \in Passed(t.at) /\ c = t.snap.parent THEN "parent"
                   ELSE "local"

Written(t, c) == [node |-> IF c = t.snap.local THEN t.snap.node ELSE clocks[c].node,
                  kind |-> KindSoFar(t, c)]

(* The links a transaction has come to, whether or not it had to insert them. *)
ToldAt(at, snap) == IF at = "commit" THEN Store!Links(snap)
                    ELSE IF at = "inferred"
                         THEN {e \in Store!Links(snap) : e.kind = "observed"}
                         ELSE {}
Told(t) == ToldAt(t.at, t.snap)

Stages == Roles \cup {"none", "observed", "inferred", "commit"}

TxOK(t) ==
    /\ t = [at |-> t.at, snap |-> t.snap, rows |-> t.rows, links |-> t.links]
    /\ t.at \in Stages
    /\ t.at = "none" => t = NoTx
    /\ t.at # "none" => t.snap \in Snapshots /\ t.snap.local # NoIdentity
    /\ t.rows = [c \in Taken(t) |-> Written(t, c)]
    /\ t.links = {e \in Told(t) : \A f \in edges : ~Store!SameKey(e, f)}

(* No two transactions hold one row. *)
Exclusive == \A s, r \in Sessions : s # r => Taken(tx[s]) \cap Taken(tx[r]) = {}

TablesOK == /\ clocks \in [Identities -> Row]
            /\ edges \subseteq Link
            /\ \A e \in edges : Store!Exists(e.child) /\ Store!Exists(e.parent)

(* The inductive invariant.  What a transaction has written stays a function of the
   committed tables because the rows it read are locked: Exclusive. *)
TopologyInv == /\ TablesOK
               /\ tx = [s \in Sessions |-> tx[s]]
               /\ \A s \in Sessions : TxOK(tx[s])
               /\ Exclusive

(* What a session may do: the union of the steps of PtpTopology. *)
TopologyMove(s) == \/ \E snap \in Snapshots : Begin(s, snap)
                   \/ Statement(s) \/ Commit(s) \/ Rollback(s)

-----------------------------------------------------------------------------
LEMMA SnapshotFacts ==
    ASSUME NEW snap \in Snapshots
    PROVE  /\ snap \in Store!Snapshot
           /\ snap.node \in Nat \ {0}
           /\ snap.time \in Nat
           /\ \A role \in Roles : snap[role] \in Identities \cup {NoIdentity}
           /\ NoIdentity \notin Identities
           /\ Roles = {"local", "parent", "grandmaster"}
           /\ NoNode = 0
BY TopologyAssumption DEF Store!Snapshot, Roles, Store!Roles, NoNode, Store!NoNode

(* A transaction holds the rows of its own snapshot. *)
LEMMA TakenFacts ==
    ASSUME NEW t, TxOK(t)
    PROVE  /\ Taken(t) \subseteq Identities
           /\ DOMAIN t.rows = Taken(t)
           /\ t.at = "none" => Taken(t) = {}
           /\ t.at # "none" => Taken(t) \subseteq {t.snap.local, t.snap.parent, t.snap.grandmaster}
<1>1. CASE t.at = "none"
    BY <1>1 DEF TxOK, Taken, Passed
<1>2. CASE t.at # "none"
    <2>1. t.snap \in Snapshots
        BY <1>2 DEF TxOK
    <2>2. Passed(t.at) \subseteq Roles
        BY <2>1, SnapshotFacts DEF Passed
    <2> QED BY <1>2, <2>1, <2>2, SnapshotFacts DEF TxOK, Taken
<1> QED BY <1>1, <1>2

LEMMA InitTopologyInv == TopologyInit => TopologyInv
<1> SUFFICES ASSUME TopologyInit PROVE TopologyInv
    OBVIOUS
<1>1. TxOK(NoTx)
    <2>1. NoTx.at = "none" /\ NoTx.rows = NoRows /\ NoTx.links = {}
        BY DEF NoTx
    <2>2. Taken(NoTx) = {} /\ Told(NoTx) = {}
        BY <2>1 DEF Taken, Passed, Told, ToldAt
    <2>3. NoRows = [c \in Taken(NoTx) |-> Written(NoTx, c)]
        BY <2>2 DEF NoRows
    <2> QED BY <2>1, <2>2, <2>3 DEF TxOK, Stages, NoTx
<1>2. Taken(NoTx) = {}
    BY DEF Taken, Passed, NoTx
<1>3. \A s \in Sessions : tx[s] = NoTx
    BY DEF TopologyInit
<1>4. TablesOK
    BY DEF TopologyInit, TablesOK, Store!NoClock, Row, Store!NoNode
<1> QED BY <1>1, <1>2, <1>3, <1>4 DEF TopologyInv, Exclusive, TopologyInit

-----------------------------------------------------------------------------
(* A session s goes on with its transaction and leaves the tables alone: its new
   state must be in order, and what it takes nobody else may have. *)
LEMMA TxStep ==
    ASSUME TopologyInv, NEW s \in Sessions, NEW t,
           tx' = [tx EXCEPT ![s] = t],
           UNCHANGED <<clocks, edges>>,
           TxOK(t),
           \A r \in Sessions \ {s} : Taken(t) \cap Taken(tx[r]) = {}
    PROVE  TopologyInv'
<1>1. tx'[s] = t /\ \A r \in Sessions \ {s} : tx'[r] = tx[r]
    BY DEF TopologyInv
<1>2. tx' = [r \in Sessions |-> tx'[r]]
    BY DEF TopologyInv
<1>3. \A r \in Sessions : TxOK(tx[r])' <=> TxOK(tx'[r])
    BY DEF TxOK, Written
<1>4. \A r \in Sessions : Taken(tx[r])' = Taken(tx'[r])
    BY DEF Taken
<1>5. TablesOK'
    BY DEF TopologyInv, TablesOK, Store!Exists
<1>6. \A r \in Sessions : TxOK(tx[r])'
    BY <1>1, <1>3 DEF TopologyInv
<1>7. Exclusive'
    BY <1>1, <1>4 DEF TopologyInv, Exclusive
<1> QED BY <1>2, <1>5, <1>6, <1>7 DEF TopologyInv

(* An update of two fields of a transaction. *)
LEMMA UpdateRows ==
    ASSUME NEW t, NEW at, NEW new,
           t = [at |-> t.at, snap |-> t.snap, rows |-> t.rows, links |-> t.links]
    PROVE  [[t EXCEPT !.at = at] EXCEPT !.rows = new]
             = [at |-> at, snap |-> t.snap, rows |-> new, links |-> t.links]
<1> DEFINE b == t.snap
           c == t.rows
           d == t.links
           u == [t EXCEPT !.at = at]
<1>1. u = [at |-> at, snap |-> b, rows |-> c, links |-> d]
    OBVIOUS
<1> HIDE DEF u, b, c, d
<1>2. [u EXCEPT !.rows = new] = [at |-> at, snap |-> b, rows |-> new, links |-> d]
    BY <1>1
<1> QED BY <1>2 DEF u, b, c, d

LEMMA BeginKeeps ==
    ASSUME TopologyInv, NEW s \in Sessions, NEW snap \in Snapshots, Begin(s, snap)
    PROVE  TopologyInv'
<1> DEFINE t == [at |-> "local", snap |-> snap, rows |-> NoRows, links |-> {}]
<1>1. tx[s] = NoTx /\ snap.local # NoIdentity
    BY DEF Begin
<1>2. tx' = [tx EXCEPT ![s] = t]
    <2>1. PICK b : b = tx[s]
        OBVIOUS
    <2>2. b = [at |-> b.at, snap |-> b.snap, rows |-> b.rows, links |-> b.links]
        BY <2>1 DEF TopologyInv, TxOK
    <2>3. b.rows = NoRows /\ b.links = {}
        BY <1>1, <2>1 DEF NoTx
    <2>4. tx' = [tx EXCEPT ![s] = [[b EXCEPT !.at = "local"] EXCEPT !.snap = snap]]
        BY <2>1 DEF Begin, Following, TopologyInv
    <2>5. PICK u : u = [b EXCEPT !.at = "local"]
        OBVIOUS
    <2>6. u = [at |-> "local", snap |-> b.snap, rows |-> b.rows, links |-> b.links]
        BY <2>2, <2>5
    <2>7. [u EXCEPT !.snap = snap]
            = [at |-> "local", snap |-> snap, rows |-> b.rows, links |-> b.links]
        BY <2>6
    <2> QED BY <2>3, <2>4, <2>5, <2>7
<1>3. t.at = "local" /\ t.snap = snap /\ t.rows = NoRows /\ t.links = {}
    OBVIOUS
<1>4. Taken(t) = {} /\ Told(t) = {}
    BY DEF Taken, Passed, Told, ToldAt
<1>5. t.rows = [c \in Taken(t) |-> Written(t, c)]
    BY <1>4 DEF NoRows
<1>6. TxOK(t)
    BY <1>1, <1>3, <1>4, <1>5, SnapshotFacts DEF TxOK, Stages
<1> HIDE DEF t
<1> QED BY <1>2, <1>4, <1>6, TxStep DEF Begin

LEMMA RollbackKeeps ==
    ASSUME TopologyInv, NEW s \in Sessions, Rollback(s)
    PROVE  TopologyInv'
<1>1. Taken(NoTx) = {} /\ Told(NoTx) = {}
    BY DEF Taken, Passed, Told, ToldAt, NoTx
<1>2. NoRows = [c \in Taken(NoTx) |-> Written(NoTx, c)]
    BY <1>1 DEF NoRows
<1>3. TxOK(NoTx)
    BY <1>1, <1>2 DEF TxOK, NoTx, Stages
<1> QED BY <1>1, <1>3, TxStep DEF Rollback

(* An upsert locks a row that is free, and writes it from what is committed or its own. *)
LEMMA UpsertKeeps ==
    ASSUME TopologyInv, NEW s \in Sessions, UpsertPtpClock(s)
    PROVE  TopologyInv'
<1> DEFINE role == tx[s].at
           c == Wanted(s)
           rows == IF c = NoIdentity THEN tx[s].rows ELSE WithRow(s, c)
           t == [at |-> Following[role], snap |-> tx[s].snap, rows |-> rows,
                 links |-> tx[s].links]
<1>1. /\ role \in Roles
      /\ TxOK(tx[s])
      /\ tx[s].snap \in Snapshots
      /\ tx[s].snap.local # NoIdentity
      /\ tx[s] = [at |-> role, snap |-> tx[s].snap, rows |-> tx[s].rows, links |-> tx[s].links]
    BY SnapshotFacts DEF UpsertPtpClock, Upserting, TopologyInv, TxOK, Roles, Store!Roles
<1>2. tx' = [tx EXCEPT ![s] = t]
    <2>1. tx' = [tx EXCEPT ![s] = [[tx[s] EXCEPT !.at = Following[role]] EXCEPT !.rows = rows]]
        BY DEF UpsertPtpClock, TopologyInv
    <2>2. [[tx[s] EXCEPT !.at = Following[role]] EXCEPT !.rows = rows] = t
        BY <1>1, UpdateRows
    <2> QED BY <2>1, <2>2
<1>3. c = tx[s].snap[role]
    BY DEF Wanted
<1>4. /\ t.at = Following[role] /\ t.snap = tx[s].snap /\ t.rows = rows
      /\ t.links = tx[s].links
    OBVIOUS
<1>5. Passed(t.at) = Passed(role) \cup {role}
    BY <1>1, <1>4, SnapshotFacts DEF Passed, Following
<1>6. Taken(t) = (Taken(tx[s]) \cup {c}) \ {NoIdentity}
    BY <1>3, <1>4, <1>5 DEF Taken
<1>7. Told(t) = {} /\ Told(tx[s]) = {}
    BY <1>1, <1>4, SnapshotFacts DEF Told, ToldAt, Following
<1>8. t.links = {e \in Told(t) : \A f \in edges : ~Store!SameKey(e, f)}
    BY <1>1, <1>4, <1>7 DEF TxOK
<1>9. t.rows = [d \in Taken(t) |-> Written(t, d)]
    <2> HIDE DEF t, c
    <2> USE SnapshotFacts, TopologyAssumption
    <2>1. \A d \in Identities \ {c} : Written(t, d) = Written(tx[s], d)
        BY <1>1, <1>3, <1>4, <1>5 DEF Written, KindSoFar
    <2>2. /\ Taken(tx[s]) \subseteq Identities
          /\ tx[s].rows = [d \in Taken(tx[s]) |-> Written(tx[s], d)]
          /\ DOMAIN tx[s].rows = Taken(tx[s])
        BY <1>1, TakenFacts DEF TxOK
    <2>3. CASE c = NoIdentity
        <3>1. Taken(t) = Taken(tx[s]) /\ rows = tx[s].rows
            BY <1>6, <2>2, <2>3
        <3> QED BY <1>4, <2>1, <2>2, <2>3, <3>1
    <2>4. CASE c # NoIdentity
        <3>1. c \in Identities /\ rows = WithRow(s, c) /\ Taken(t) = Taken(tx[s]) \cup {c}
            BY <1>1, <1>3, <1>6, <2>2, <2>4
        <3>2. KindSoFar(t, c) = role
            BY <1>1, <1>3, <1>4, <1>5 DEF KindSoFar, Passed
        <3>3. Upserted(s, c).node = IF c = tx[s].snap.local THEN tx[s].snap.node ELSE clocks[c].node
            <4>1. CASE role = "local"
                BY <1>1, <1>3, <4>1 DEF Upserted, Coalesce, NodeGiven
            <4>2. CASE role # "local"
                <5>1. tx[s].snap.local \in Taken(tx[s])
                    BY <1>1, <4>2 DEF Taken, Passed
                <5>2. Upserted(s, c).node = RowSeen(s, c).node
                    BY <4>2 DEF Upserted, Coalesce, NodeGiven
                <5>3. CASE Holds(s, c)
                    BY <2>2, <5>2, <5>3 DEF Holds, RowSeen, Written
                <5>4. CASE ~Holds(s, c)
                    BY <2>2, <5>1, <5>2, <5>4 DEF Holds, RowSeen
                <5> QED BY <5>3, <5>4
            <4> QED BY <4>1, <4>2
        <3>4. Upserted(s, c) = Written(t, c)
            BY <1>4, <3>2, <3>3 DEF Upserted, Written
        <3>5. rows = [d \in Taken(t) |-> IF d = c THEN Upserted(s, c) ELSE tx[s].rows[d]]
            BY <2>2, <3>1 DEF WithRow
        <3>6. \A d \in Taken(t) : (IF d = c THEN Upserted(s, c) ELSE tx[s].rows[d]) = Written(t, d)
            BY <2>1, <2>2, <3>1, <3>4
        <3> QED BY <1>4, <3>5, <3>6
    <2> QED BY <2>3, <2>4
<1>10. TxOK(t)
    BY <1>1, <1>4, <1>8, <1>9, SnapshotFacts DEF TxOK, Stages, Following
<1>11. \A r \in Sessions \ {s} : Taken(t) \cap Taken(tx[r]) = {}
    <2> SUFFICES ASSUME NEW r \in Sessions \ {s}, c # NoIdentity PROVE c \notin Taken(tx[r])
        BY <1>6 DEF TopologyInv, Exclusive
    <2>1. ~Holds(r, c)
        BY <1>1 DEF UpsertPtpClock, Blocked, WaitsFor
    <2> QED BY <2>1, TakenFacts DEF TopologyInv, Holds
<1> HIDE DEF t
<1> QED BY <1>2, <1>10, <1>11, TxStep DEF UpsertPtpClock

-----------------------------------------------------------------------------
(* The two links a snapshot may tell of. *)
ObservedOf(snap) == Store!Edge("observed", snap, snap.local, snap.parent)
InferredOf(snap) == Store!Edge("inferred", snap, snap.parent, snap.grandmaster)
Proper(e)        == e.parent # NoIdentity /\ e.child # NoIdentity /\ e.parent # e.child
Fresh(e)         == \A f \in edges : ~Store!SameKey(e, f)
Due(at, snap)    == {e \in ToldAt(at, snap) : Fresh(e)}

LEMMA LinkFacts ==
    ASSUME NEW snap
    PROVE  /\ ObservedOf(snap).kind = "observed" /\ InferredOf(snap).kind = "inferred"
           /\ ObservedOf(snap).child = snap.local /\ ObservedOf(snap).parent = snap.parent
           /\ InferredOf(snap).child = snap.parent /\ InferredOf(snap).parent = snap.grandmaster
           /\ Store!Links(snap) = {e \in {ObservedOf(snap), InferredOf(snap)} : Proper(e)}
BY DEF ObservedOf, InferredOf, Proper, Store!Edge, Store!Links

(* What both insertions of a link come to; they leave the rows alone. *)
Inserts(s, at) ==
    /\ tx[s].at \in {"observed", "inferred"}
    /\ tx' = [tx EXCEPT ![s].at = at, ![s].links = Due(at, tx[s].snap)]
    /\ UNCHANGED <<clocks, edges>>

LEMMA InsertKeeps ==
    ASSUME TopologyInv, NEW s \in Sessions, NEW at \in {"inferred", "commit"},
           Inserts(s, at)
    PROVE  TopologyInv'
<1> DEFINE links == Due(at, tx[s].snap)
           t == [at |-> at, snap |-> tx[s].snap, rows |-> tx[s].rows, links |-> links]
<1>0. /\ tx[s].at \in {"observed", "inferred"}
      /\ tx' = [tx EXCEPT ![s].at = at, ![s].links = links]
      /\ UNCHANGED <<clocks, edges>>
    BY DEF Inserts
<1> HIDE DEF links
<1>1. /\ TxOK(tx[s])
      /\ tx[s].snap \in Snapshots
      /\ tx[s].snap.local # NoIdentity
      /\ tx[s] = [at |-> tx[s].at, snap |-> tx[s].snap, rows |-> tx[s].rows,
                  links |-> tx[s].links]
    BY <1>0 DEF TopologyInv, TxOK
<1>2. tx' = [tx EXCEPT ![s] = t]
    <2>1. PICK b : b = tx[s]
        OBVIOUS
    <2>2. b = [at |-> b.at, snap |-> b.snap, rows |-> b.rows, links |-> b.links]
        BY <1>1, <2>1
    <2>3. tx' = [tx EXCEPT ![s] = [[b EXCEPT !.at = at] EXCEPT !.links = links]]
        BY <1>0, <2>1 DEF TopologyInv
    <2>4. PICK u : u = [b EXCEPT !.at = at]
        OBVIOUS
    <2>5. u = [at |-> at, snap |-> b.snap, rows |-> b.rows, links |-> b.links]
        BY <2>2, <2>4
    <2>6. [u EXCEPT !.links = links]
            = [at |-> at, snap |-> b.snap, rows |-> b.rows, links |-> links]
        BY <2>5
    <2> QED BY <2>1, <2>3, <2>4, <2>6
<1>3. t.at = at /\ t.snap = tx[s].snap /\ t.rows = tx[s].rows /\ t.links = links
    OBVIOUS
<1> HIDE DEF t
<1>4. Passed(t.at) = Roles /\ Passed(tx[s].at) = Roles
    BY <1>0, <1>3, SnapshotFacts DEF Passed
<1>5. Taken(t) = Taken(tx[s])
    BY <1>3, <1>4 DEF Taken
<1>6. \A c : Written(t, c) = Written(tx[s], c)
    BY <1>3, <1>4 DEF Written, KindSoFar
<1>7. t = [at |-> t.at, snap |-> t.snap, rows |-> t.rows, links |-> t.links]
    BY <1>3 DEF t
<1>8. t.rows = [c \in Taken(t) |-> Written(t, c)]
    BY <1>1, <1>3, <1>5, <1>6 DEF TxOK
<1>9. t.links = {e \in Told(t) : \A f \in edges : ~Store!SameKey(e, f)}
    BY <1>3 DEF links, Due, Fresh, Told
<1>10. TxOK(t)
    BY <1>1, <1>3, <1>7, <1>8, <1>9 DEF TxOK, Stages
<1>11. \A r \in Sessions \ {s} : Taken(t) \cap Taken(tx[r]) = {}
    BY <1>5 DEF TopologyInv, Exclusive
<1> QED BY <1>0, <1>2, <1>10, <1>11, TxStep

LEMMA ObservedKeeps ==
    ASSUME TopologyInv, NEW s \in Sessions, InsertObserved(s)
    PROVE  TopologyInv'
<1> DEFINE e == ObservedOf(tx[s].snap)
           links == Inserted(s, e)
<1>1. tx[s].at = "observed" /\ tx[s].links = {}
    BY DEF InsertObserved, TopologyInv, TxOK, Told, ToldAt
<1>2. links = IF Proper(e) /\ Fresh(e) THEN {e} ELSE {}
    BY <1>1 DEF Inserted, Proper, Fresh
<1>3. links = Due("inferred", tx[s].snap)
    <2> DEFINE o == InferredOf(tx[s].snap)
    <2>1. /\ Store!Links(tx[s].snap) = {l \in {e, o} : Proper(l)}
          /\ e.kind = "observed" /\ o.kind = "inferred"
        BY LinkFacts
    <2> HIDE DEF e, o, links
    <2>2. ToldAt("inferred", tx[s].snap) = IF Proper(e) THEN {e} ELSE {}
        BY <2>1 DEF ToldAt
    <2> QED BY <1>2, <2>2 DEF Due
<1>4. tx' = [tx EXCEPT ![s].at = "inferred", ![s].links = links]
    BY DEF InsertObserved, ObservedOf
<1>5. Inserts(s, "inferred")
    BY <1>1, <1>3, <1>4 DEF Inserts, InsertObserved
<1> QED BY <1>5, InsertKeeps

LEMMA InferredKeeps ==
    ASSUME TopologyInv, NEW s \in Sessions, InsertInferred(s)
    PROVE  TopologyInv'
<1> DEFINE o == ObservedOf(tx[s].snap)
           e == InferredOf(tx[s].snap)
           links == Inserted(s, e)
<1>1. tx[s].at = "inferred" /\ tx[s].links = {l \in Told(tx[s]) : Fresh(l)}
    BY DEF InsertInferred, TopologyInv, TxOK, Fresh
<1>0. /\ Store!Links(tx[s].snap) = {l \in {o, e} : Proper(l)}
      /\ o.kind = "observed" /\ e.kind = "inferred"
    BY LinkFacts
<1>2. Told(tx[s]) = IF Proper(o) THEN {o} ELSE {}
    <2> HIDE DEF o, e
    <2> QED BY <1>0, <1>1 DEF Told, ToldAt
<1>3. tx[s].links = IF Proper(o) /\ Fresh(o) THEN {o} ELSE {}
    <2> HIDE DEF o
    <2> QED BY <1>1, <1>2
<1>4. \A f \in tx[s].links : ~Store!SameKey(e, f)
    <2> HIDE DEF o, e
    <2> QED BY <1>0, <1>3 DEF Store!SameKey
<1>5. links = IF Proper(e) /\ Fresh(e) THEN tx[s].links \cup {e} ELSE tx[s].links
    BY <1>4 DEF Inserted, Proper, Fresh
<1>6. links = Due("commit", tx[s].snap)
    <2>1. ToldAt("commit", tx[s].snap) = {l \in {o, e} : Proper(l)}
        BY <1>0 DEF ToldAt
    <2> HIDE DEF o, e, links
    <2> QED BY <1>3, <1>5, <2>1 DEF Due
<1>7. tx' = [tx EXCEPT ![s].at = "commit", ![s].links = links]
    BY DEF InsertInferred, InferredOf
<1>8. Inserts(s, "commit")
    BY <1>1, <1>6, <1>7 DEF Inserts, InsertInferred
<1> QED BY <1>8, InsertKeeps

-----------------------------------------------------------------------------
(* What a transaction that comes to its end has written, and held until now. *)
LEMMA AtCommit ==
    ASSUME TopologyInv, NEW s \in Sessions, tx[s].at = "commit"
    PROVE  /\ tx[s].snap \in Snapshots /\ tx[s].snap.local # NoIdentity
           /\ Taken(tx[s]) = {tx[s].snap.local, tx[s].snap.parent, tx[s].snap.grandmaster}
                               \ {NoIdentity}
           /\ Taken(tx[s]) \subseteq Identities
           /\ \A c : RowSeen(s, c) = IF c \in Taken(tx[s]) THEN Written(tx[s], c) ELSE clocks[c]
           /\ \A c : Written(tx[s], c) =
                       [node |-> IF c = tx[s].snap.local THEN tx[s].snap.node ELSE clocks[c].node,
                        kind |-> Store!RoleIn(tx[s].snap, c)]
           /\ tx[s].links = {e \in Store!Links(tx[s].snap) : Fresh(e)}
<1>1. TxOK(tx[s]) /\ tx[s].snap \in Snapshots /\ tx[s].snap.local # NoIdentity
    BY DEF TopologyInv, TxOK
<1>2. Passed(tx[s].at) = {"local", "parent", "grandmaster"}
    BY SnapshotFacts, <1>1 DEF Passed
<1>3. Taken(tx[s]) = {tx[s].snap.local, tx[s].snap.parent, tx[s].snap.grandmaster} \ {NoIdentity}
    BY <1>2 DEF Taken
<1>4. \A c : RowSeen(s, c) = IF c \in Taken(tx[s]) THEN Written(tx[s], c) ELSE clocks[c]
    BY <1>1 DEF TxOK, RowSeen, Holds
<1>5. \A c : KindSoFar(tx[s], c) = Store!RoleIn(tx[s].snap, c)
    BY <1>2 DEF KindSoFar, Store!RoleIn
<1>6. tx[s].links = {e \in Store!Links(tx[s].snap) : Fresh(e)}
    BY <1>1 DEF TxOK, Told, ToldAt, Fresh
<1>7. Taken(tx[s]) \subseteq Identities
    BY <1>1, TakenFacts
<1> QED BY <1>1, <1>3, <1>4, <1>5, <1>6, <1>7 DEF Written

(* The clocks of a link that a transaction has come to are among those it holds. *)
LEMMA LinksHeld ==
    ASSUME NEW t, TxOK(t), NEW e \in Told(t)
    PROVE  e.child \in Taken(t) /\ e.parent \in Taken(t)
<1>1. e \in Store!Links(t.snap) /\ t.at \in {"inferred", "commit"}
    BY DEF Told, ToldAt
<1>2. Passed(t.at) = {"local", "parent", "grandmaster"}
    BY <1>1, SnapshotFacts DEF TxOK, Passed, Roles, Store!Roles
<1>3. Taken(t) = {t.snap.local, t.snap.parent, t.snap.grandmaster} \ {NoIdentity}
    BY <1>2 DEF Taken
<1>4. \/ e.child = t.snap.local /\ e.parent = t.snap.parent
      \/ e.child = t.snap.parent /\ e.parent = t.snap.grandmaster
    <2>1. e = ObservedOf(t.snap) \/ e = InferredOf(t.snap)
        BY <1>1, LinkFacts
    <2> QED BY <2>1 DEF ObservedOf, InferredOf, Store!Edge
<1>5. e.child # NoIdentity /\ e.parent # NoIdentity
    BY <1>1, LinkFacts DEF Proper
<1> QED BY <1>3, <1>4, <1>5

LEMMA CommitTables ==
    ASSUME TopologyInv, NEW s \in Sessions, Commit(s)
    PROVE  TablesOK'
<1> DEFINE snap == tx[s].snap
<1>1. tx[s].at = "commit"
    BY DEF Commit
<1>2. snap \in Snapshots /\ snap.node \in Nat /\ snap.time \in Nat
      /\ snap.grandmaster \in Identities \cup {NoIdentity}
    BY <1>1, AtCommit, SnapshotFacts
<1>3. \A c \in Identities : Written(tx[s], c) \in Row
                            /\ Written(tx[s], c).kind \in Roles
    <2>1. \A c : Store!RoleIn(snap, c) \in Roles
        BY SnapshotFacts, <1>2 DEF Store!RoleIn
    <2>2. \A c \in Identities : clocks[c].node \in Nat
        BY DEF TopologyInv, TablesOK, Row
    <2>3. \A c : Written(tx[s], c) =
                  [node |-> IF c = snap.local THEN snap.node ELSE clocks[c].node,
                   kind |-> Store!RoleIn(snap, c)]
        BY <1>1, AtCommit
    <2> SUFFICES ASSUME NEW c \in Identities
                 PROVE  Written(tx[s], c) \in Row /\ Written(tx[s], c).kind \in Roles
        OBVIOUS
    <2>4. PICK n \in Nat : n = IF c = snap.local THEN snap.node ELSE clocks[c].node
        BY <1>2, <2>2
    <2>5. PICK k \in Roles : k = Store!RoleIn(snap, c)
        BY <2>1
    <2>6. Written(tx[s], c) = [node |-> n, kind |-> k]
        BY <2>3, <2>4, <2>5
    <2> QED BY <2>6 DEF Row
<1>4. clocks' = [c \in Identities |-> RowSeen(s, c)]
    BY DEF Commit
<1>5. clocks' \in [Identities -> Row]
    BY <1>1, <1>3, <1>4, AtCommit DEF TopologyInv, TablesOK
<1>6. \A c \in Identities : Store!Exists(c) => Store!Exists(c)'
    BY <1>1, <1>3, <1>4, AtCommit, SnapshotFacts, <1>2 DEF Store!Exists
<1>7. \A c \in Taken(tx[s]) : Store!Exists(c)'
    BY <1>1, <1>3, <1>4, AtCommit, SnapshotFacts, <1>2 DEF Store!Exists
<1>8. edges' = edges \cup tx[s].links
    BY DEF Commit
<1>9. \A e \in tx[s].links : e.child \in Taken(tx[s]) /\ e.parent \in Taken(tx[s])
    <2>1. tx[s].links \subseteq Told(tx[s]) /\ TxOK(tx[s])
        BY DEF TopologyInv, TxOK
    <2> QED BY <2>1, LinksHeld
<1>10. tx[s].links \subseteq Link
    <2> SUFFICES ASSUME NEW e \in tx[s].links PROVE e \in Link
        OBVIOUS
    <2>1. e \in {ObservedOf(snap), InferredOf(snap)}
        BY <1>1, AtCommit, LinkFacts
    <2>2. e.child \in Identities /\ e.parent \in Identities
        BY <1>1, <1>9, AtCommit
    <2> HIDE DEF snap
    <2> QED BY <1>2, <2>1, <2>2 DEF Link, ObservedOf, InferredOf, Store!Edge
<1>11. \A e \in edges' : Store!Exists(e.child)' /\ Store!Exists(e.parent)'
    BY <1>6, <1>7, <1>8, <1>9 DEF TopologyInv, TablesOK, Link
<1>12. edges' \subseteq Link
    BY <1>8, <1>10 DEF TopologyInv, TablesOK
<1> QED BY <1>5, <1>11, <1>12 DEF TablesOK

(* A commit leaves the rows and links of the other transactions what they were: a
   link of the same key would be between clocks that both held. *)
LEMMA CommitKeepsOthers ==
    ASSUME TopologyInv, NEW s \in Sessions, Commit(s), NEW r \in Sessions \ {s}
    PROVE  TxOK(tx[r])'
<1>1. tx[s].at = "commit"
    BY DEF Commit
<1>2. tx'[r] = tx[r]
    BY DEF Commit, TopologyInv
<1>3. Taken(tx[s]) \cap Taken(tx[r]) = {} /\ TxOK(tx[r]) /\ TxOK(tx[s])
    BY DEF TopologyInv, Exclusive
<1>4. \A c \in Taken(tx[r]) : clocks'[c] = clocks[c]
    <2>1. Taken(tx[r]) \subseteq Identities
        BY <1>3, TakenFacts
    <2> QED BY <1>1, <1>3, <2>1, AtCommit DEF Commit
<1>5. PICK t : t = tx[r]
    OBVIOUS
<1>6. \A c \in Taken(t) : Written(t, c)' = Written(t, c)
    BY <1>4, <1>5 DEF Written
<1>7. \A e \in Told(t) : \A f \in tx[s].links : ~Store!SameKey(e, f)
    <2> SUFFICES ASSUME NEW e \in Told(t), NEW f \in tx[s].links, e.child = f.child
                 PROVE  FALSE
        BY DEF Store!SameKey
    <2>1. f \in Told(tx[s])
        BY <1>3 DEF TxOK
    <2> QED BY <1>3, <1>5, <2>1, LinksHeld
<1>8. \A e \in Told(t) : (\A f \in edges' : ~Store!SameKey(e, f))
                           <=> (\A f \in edges : ~Store!SameKey(e, f))
    BY <1>7 DEF Commit
<1>9. t.rows = [c \in Taken(t) |-> Written(t, c)']
    BY <1>3, <1>5, <1>6 DEF TxOK
<1>10. t.links = {e \in Told(t) : \A f \in edges' : ~Store!SameKey(e, f)}
    BY <1>3, <1>5, <1>8 DEF TxOK
<1>11. TxOK(t)'
    BY <1>3, <1>5, <1>9, <1>10 DEF TxOK, Taken, Told, Store!SameKey
<1> QED BY <1>2, <1>5, <1>11 DEF TxOK, Taken, Told, Written, Store!SameKey

LEMMA CommitKeeps ==
    ASSUME TopologyInv, NEW s \in Sessions, Commit(s)
    PROVE  TopologyInv'
<1>1. TablesOK'
    BY CommitTables
<1>2. /\ tx' = [r \in Sessions |-> tx'[r]]
      /\ tx'[s] = NoTx
      /\ \A r \in Sessions \ {s} : tx'[r] = tx[r]
    BY DEF TopologyInv, Commit
<1>3. Taken(NoTx) = {} /\ Told(NoTx) = {}
    BY DEF Taken, Passed, Told, ToldAt, NoTx
<1>4. TxOK(tx[s])'
    <2>1. NoTx.rows = [c \in Taken(NoTx) |-> Written(NoTx, c)']
        BY <1>3 DEF NoRows, NoTx
    <2>2. TxOK(NoTx)'
        BY <1>3, <2>1 DEF TxOK, NoTx, Stages
    <2> QED BY <1>2, <2>2 DEF TxOK, Written
<1>5. \A r \in Sessions : TxOK(tx[r])'
    BY <1>4, CommitKeepsOthers
<1>6. \A r \in Sessions : Taken(tx[r])' = Taken(tx'[r])
    BY DEF Taken
<1>7. Exclusive'
    BY <1>2, <1>3, <1>6 DEF TopologyInv, Exclusive
<1> QED BY <1>1, <1>2, <1>5, <1>7 DEF TopologyInv

(* Whatever a session does, the invariant stays. *)
LEMMA MoveKeeps ==
    ASSUME TopologyInv, NEW s \in Sessions, TopologyMove(s)
    PROVE  TopologyInv'
<1>1. CASE \E snap \in Snapshots : Begin(s, snap)
    BY <1>1, BeginKeeps
<1>2. CASE Statement(s)
    BY <1>2, UpsertKeeps, ObservedKeeps, InferredKeeps DEF Statement
<1>3. CASE Commit(s)
    BY <1>3, CommitKeeps
<1>4. CASE Rollback(s)
    BY <1>4, RollbackKeeps
<1> QED BY <1>1, <1>2, <1>3, <1>4 DEF TopologyMove

-----------------------------------------------------------------------------
(* The commit of a transaction is the whole snapshot at once, and no other step of a
   session changes the tables: the transactions implement TopologyStore. *)
THEOREM CommitStoresTheSnapshot ==
    ASSUME TopologyInv, NEW s \in Sessions, Commit(s)
    PROVE  tx[s].snap \in Snapshots /\ Store!Store(tx[s].snap)
<1>1. tx[s].at = "commit"
    BY DEF Commit
<1>2. PICK snap : snap = tx[s].snap
    OBVIOUS
<1>3. clocks' = [c \in Identities |->
                   IF c \notin {snap.local, snap.parent, snap.grandmaster} THEN clocks[c]
                   ELSE [node |-> IF c = snap.local THEN snap.node ELSE clocks[c].node,
                         kind |-> Store!RoleIn(snap, c)]]
    <2>1. clocks' = [c \in Identities |-> RowSeen(s, c)]
        BY DEF Commit
    <2>2. \A c \in Identities : c \in Taken(tx[s])
                                  <=> c \in {snap.local, snap.parent, snap.grandmaster}
        BY <1>1, <1>2, AtCommit, TopologyAssumption
    <2>3. \A c \in Identities : RowSeen(s, c) = IF c \in Taken(tx[s]) THEN Written(tx[s], c)
                                               ELSE clocks[c]
        BY <1>1, AtCommit
    <2>4. \A c : Written(tx[s], c) =
                   [node |-> IF c = snap.local THEN snap.node ELSE clocks[c].node,
                    kind |-> Store!RoleIn(snap, c)]
        BY <1>1, <1>2, AtCommit
    <2>5. \A c \in Identities : RowSeen(s, c) =
            IF c \notin {snap.local, snap.parent, snap.grandmaster} THEN clocks[c]
            ELSE [node |-> IF c = snap.local THEN snap.node ELSE clocks[c].node,
                  kind |-> Store!RoleIn(snap, c)]
        BY <2>2, <2>3, <2>4, Zenon
    <2> QED BY <2>1, <2>5, Zenon
<1>4. edges' = edges \cup {e \in Store!Links(snap) : \A f \in edges : ~Store!SameKey(e, f)}
    BY <1>1, <1>2, AtCommit DEF Commit, Fresh
<1> QED BY <1>1, <1>2, <1>3, <1>4, AtCommit DEF Store!Store

THEOREM MoveRefines ==
    ASSUME TopologyInv, NEW s \in Sessions, TopologyMove(s)
    PROVE  Store!Next \/ UNCHANGED <<clocks, edges>>
<1>1. CASE Commit(s)
    BY <1>1, CommitStoresTheSnapshot DEF Store!Next
<1>2. CASE ~Commit(s)
    BY <1>2 DEF TopologyMove, Begin, Statement, UpsertPtpClock, InsertObserved, InsertInferred,
                Rollback
<1> QED BY <1>1, <1>2

-----------------------------------------------------------------------------
(* A session that waits for r wants a clock that r has, below the clock r wants: r
   locks upwards.  So the clocks a cycle of sessions wants each have another above. *)
THEOREM CyclesContradict ==
    ASSUME TopologyInv PROVE DeadlocksNeedContradiction
<1> SUFFICES ASSUME NEW S \in (SUBSET Sessions) \ {{}}, Cycle(S)
             PROVE  Contradict(S)
    BY DEF DeadlocksNeedContradiction
<1> DEFINE C == {Wanted(s) : s \in S}
<1>1. \A s \in S : \E r \in S : WaitsFor(s, r)
    BY DEF Cycle
<1>2. \A s \in Sessions : TxOK(tx[s]) /\ DOMAIN tx[s].rows = Taken(tx[s])
                          /\ Taken(tx[s]) \subseteq Identities
    BY TakenFacts DEF TopologyInv
<1>3. \A s \in S : Wanted(s) \in Identities
    BY <1>1, <1>2 DEF WaitsFor, Holds
<1>4. ASSUME NEW s \in S, NEW r \in S, WaitsFor(s, r)
      PROVE  Above(tx[r].snap, Wanted(s), Wanted(r))
    <2>1. Wanted(s) \in Taken(tx[r])
        BY <1>2, <1>4 DEF WaitsFor, Holds
    <2>2. Wanted(s) # Wanted(r)
        <3>1. PICK q \in S : q # r /\ Wanted(r) \in Taken(tx[q])
            BY <1>1, <1>2 DEF WaitsFor, Holds
        <3> QED BY <2>1, <3>1 DEF TopologyInv, Exclusive
    <2>3. tx[r].at \in {"local", "parent", "grandmaster"}
        BY <1>1 DEF WaitsFor, Upserting, Roles, Store!Roles
    <2>4. CASE tx[r].at = "local"
        BY <2>1, <2>4 DEF Taken, Passed
    <2>5. CASE tx[r].at = "parent"
        BY <2>1, <2>2, <2>5 DEF Taken, Passed, Above, Wanted
    <2>6. CASE tx[r].at = "grandmaster"
        BY <2>1, <2>2, <2>6 DEF Taken, Passed, Above, Wanted
    <2> QED BY <2>3, <2>4, <2>5, <2>6
<1>5. \A c \in C : \E d \in C, s \in S : Above(tx[s].snap, c, d)
    <2> TAKE c \in C
    <2>1. PICK s \in S : c = Wanted(s)
        OBVIOUS
    <2>2. PICK r \in S : WaitsFor(s, r)
        BY <1>1
    <2>3. Above(tx[r].snap, c, Wanted(r))
        BY <1>4, <2>1, <2>2
    <2>4. Wanted(r) \in C
        OBVIOUS
    <2> QED BY <2>3, <2>4
<1>6. C \in (SUBSET Identities) \ {{}}
    BY <1>3
<1> QED BY <1>5, <1>6 DEF Contradict

-----------------------------------------------------------------------------
(* What a transaction has written and told has the shape of the tables. *)
LEMMA WrittenShape ==
    ASSUME TopologyInv, NEW s \in Sessions, tx[s].at # "none"
    PROVE  /\ \A c \in Identities : Written(tx[s], c) \in Row
           /\ tx[s].links \subseteq Link
<1>1. TxOK(tx[s]) /\ tx[s].snap \in Snapshots
    BY DEF TopologyInv, TxOK
<1>2. PICK snap \in Snapshots : snap = tx[s].snap
    BY <1>1
<1>3. snap.node \in Nat /\ snap.time \in Nat /\ snap.grandmaster \in Identities \cup {NoIdentity}
    BY SnapshotFacts
<1>4. ASSUME NEW c \in Identities PROVE Written(tx[s], c) \in Row
    <2>1. PICK n \in Nat : n = IF c = snap.local THEN snap.node ELSE clocks[c].node
        BY <1>3 DEF TopologyInv, TablesOK, Row
    <2>2. PICK k \in Roles : k = KindSoFar(tx[s], c)
        BY SnapshotFacts DEF KindSoFar
    <2>3. Written(tx[s], c) = [node |-> n, kind |-> k]
        BY <1>2, <2>1, <2>2 DEF Written
    <2> QED BY <2>3 DEF Row
<1>5. ASSUME NEW e \in tx[s].links PROVE e \in Link
    <2>1. e \in Told(tx[s])
        BY <1>1 DEF TxOK
    <2>2. e.child \in Identities /\ e.parent \in Identities
        BY <1>1, <2>1, LinksHeld, TakenFacts
    <2>3. e \in Store!Links(snap)
        BY <1>2, <2>1 DEF Told, ToldAt
    <2>4. e = ObservedOf(snap) \/ e = InferredOf(snap)
        BY <2>3, LinkFacts
    <2> QED BY <1>3, <2>2, <2>4 DEF Link, ObservedOf, InferredOf, Store!Edge
<1> QED BY <1>4, <1>5

LEMMA TypesFollow ==
    ASSUME TopologyInv PROVE TopologyTypeOK
<1> SUFFICES ASSUME NEW s \in Sessions
             PROVE  /\ tx[s].at \in Roles \cup {"none", "observed", "inferred", "commit"}
                    /\ tx[s].snap \in Snapshots \cup {NoSnapshot}
                    /\ DOMAIN tx[s].rows \subseteq Identities
                    /\ tx[s].rows \in [DOMAIN tx[s].rows -> Row]
                    /\ tx[s].links \subseteq Link
                    /\ \A e \in tx[s].links : Holds(s, e.child) /\ Holds(s, e.parent)
    BY DEF TopologyInv, TablesOK, TopologyTypeOK
<1>1. TxOK(tx[s]) /\ DOMAIN tx[s].rows = Taken(tx[s]) /\ Taken(tx[s]) \subseteq Identities
    BY TakenFacts DEF TopologyInv
<1>2. CASE tx[s].at = "none"
    <2>1. tx[s] = NoTx
        BY <1>1, <1>2 DEF TxOK
    <2> QED BY <1>2, <2>1 DEF NoTx, NoRows
<1>3. CASE tx[s].at # "none"
    <2>1. tx[s].rows = [c \in Taken(tx[s]) |-> Written(tx[s], c)]
        BY <1>1 DEF TxOK
    <2>2. tx[s].rows \in [DOMAIN tx[s].rows -> Row]
        BY <1>1, <1>3, <2>1, WrittenShape
    <2>3. tx[s].links \subseteq Told(tx[s])
        BY <1>1 DEF TxOK
    <2>4. \A e \in tx[s].links : Holds(s, e.child) /\ Holds(s, e.parent)
        BY <1>1, <2>3, LinksHeld DEF Holds
    <2>5. tx[s].at \in Stages /\ tx[s].snap \in Snapshots
        BY <1>1, <1>3 DEF TxOK
    <2> QED BY <1>1, <1>3, <2>2, <2>4, <2>5, WrittenShape DEF Stages
<1> QED BY <1>2, <1>3


-----------------------------------------------------------------------------
(* The ingest around the sessions *)

Busy(w) == worker[w].at \in {"handle", "store"}

(* A message that is not done has one place. *)
OnePlace ==
    /\ handled \subseteq 1..reads
    /\ \A i \in DOMAIN queue : queue[i].id \in (1..reads) \ handled
    /\ \A i, j \in DOMAIN queue : queue[i].id = queue[j].id => i = j
    /\ \A w \in Workers : Busy(w) =>
        /\ worker[w].message.id \in (1..reads) \ handled
        /\ \A i \in DOMAIN queue : queue[i].id # worker[w].message.id
        /\ \A v \in Workers : Busy(v) /\ v # w => worker[v].message.id # worker[w].message.id
    /\ reader = "send" =>
        /\ held.id \in (1..reads) \ handled
        /\ \A i \in DOMAIN queue : queue[i].id # held.id
        /\ \A w \in Workers : Busy(w) => worker[w].message.id # held.id

WorkerState == [at : {"idle", "handle", "store", "done"}, message : Message]

ReaderTypes ==
    /\ cancelled \in BOOLEAN
    /\ reader \in {"select", "read", "send", "wait", "returned"}
    /\ reads \in 0..MaxReads
    /\ held \in Message
    /\ queue \in Seq(Message)
    /\ Len(queue) <= QueueSize
    /\ closed \in BOOLEAN
    /\ slider \in BOOLEAN
    /\ faults \in 0..MaxFaults

WorkerTypes ==
    /\ worker \in [Workers -> WorkerState]
    /\ \A w \in Workers : worker[w].at = "store" <=> tx[w].at # "none"

IngestInv == TopologyInv /\ ReaderTypes /\ WorkerTypes /\ OnePlace

-----------------------------------------------------------------------------
(* Every step of Ingest is a step of one session in the tables, or none. *)
LEMMA StepMoves ==
    ASSUME WorkerTypes, Next
    PROVE  UNCHANGED topologyVars \/ \E w \in Workers : TopologyMove(w)
<1>1. \A w \in Workers : worker[w].message.body # Other => worker[w].message.body \in Snapshots
    BY DEF WorkerTypes, WorkerState, Message, Nothing, Bodies
<1>2. CASE ReaderStep \/ Cancel \/ StopSlider
    BY <1>2 DEF ReaderStep, CheckContext, Read, ReadNothing, Send, Return, Cancel, StopSlider
<1>3. ASSUME NEW w \in Workers, WorkerStep(w)
      PROVE  UNCHANGED topologyVars \/ TopologyMove(w)
    <2>1. CASE Receive(w) \/ Finish(w) \/ HandleOther(w) \/ RejectTopology(w)
        BY <2>1 DEF Receive, Finish, HandleOther, RejectTopology
    <2>2. CASE BeginTopology(w)
        BY <1>1, <2>2 DEF BeginTopology, TopologyMove
    <2>3. CASE StoreTopology(w)
        BY <2>3 DEF StoreTopology, TopologyMove
    <2>4. CASE CommitTopology(w)
        BY <2>4 DEF CommitTopology, TopologyMove
    <2>5. CASE FailTopology(w)
        BY <2>5 DEF FailTopology, AbortDeadlocked, TopologyMove
    <2> QED BY <1>3, <2>1, <2>2, <2>3, <2>4, <2>5 DEF WorkerStep
<1> QED BY <1>2, <1>3 DEF Next

LEMMA StutterKeeps ==
    ASSUME TopologyInv, UNCHANGED topologyVars
    PROVE  TopologyInv'
<1>1. clocks' = clocks /\ edges' = edges /\ tx' = tx
    BY DEF topologyVars
<1>2. TablesOK'
    BY <1>1 DEF TopologyInv, TablesOK, Store!Exists
<1>3. \A w \in Sessions : TxOK(tx[w])' <=> TxOK(tx[w])
    BY <1>1 DEF TxOK, Written
<1>4. Exclusive'
    BY <1>1 DEF TopologyInv, Exclusive, Taken
<1> QED BY <1>1, <1>2, <1>3, <1>4 DEF TopologyInv

LEMMA TopologyStays ==
    ASSUME TopologyInv, WorkerTypes, Next
    PROVE  TopologyInv'
BY StepMoves, StutterKeeps, MoveKeeps DEF Workers

LEMMA InitIngestInv == Init => IngestInv
<1> SUFFICES ASSUME Init PROVE IngestInv
    OBVIOUS
<1>1. TopologyInv
    BY InitTopologyInv DEF Init
<1>2. Nothing \in Message /\ <<>> \in Seq(Message)
    BY DEF Message
<1>3. ReaderTypes
    <2>1. 0 \in 0..MaxReads /\ 0 \in 0..MaxFaults /\ Len(<<>>) <= QueueSize
        BY IngestAssumption
    <2>2. queue \in Seq(Message) /\ Len(queue) <= QueueSize
        BY <1>2, <2>1 DEF Init
    <2> HIDE <1>2
    <2> QED BY <1>2, <2>1, <2>2 DEF Init, ReaderTypes
<1>4. WorkerTypes
    BY <1>2 DEF Init, WorkerTypes, WorkerState, Waiting, TopologyInit, NoTx, Workers
<1>5. OnePlace
    BY DEF Init, OnePlace, Busy, Waiting
<1> QED BY <1>1, <1>3, <1>4, <1>5 DEF IngestInv

LEMMA ReaderTypesStay ==
    ASSUME IngestInv, Next
    PROVE  ReaderTypes'
<1> USE IngestAssumption DEF IngestInv, ReaderTypes
<1>1. CASE CheckContext
    BY <1>1 DEF CheckContext, CloseQueue
<1>2. CASE Read
    <2>1. reads' \in 1..MaxReads
        BY <1>2 DEF Read
    <2>2. held' \in Message
        BY <1>2, <2>1 DEF Read, Message
    <2> QED BY <1>2, <2>1, <2>2 DEF Read
<1>3. CASE ReadNothing \/ Return \/ Cancel \/ StopSlider
    BY <1>3 DEF ReadNothing, Return, Cancel, StopSlider
<1>4. CASE Send
    BY <1>4 DEF Send, HasRoom, Message
<1>5. ASSUME NEW w \in Workers, WorkerStep(w) PROVE ReaderTypes'
    <2>1. CASE Receive(w)
        BY <2>1 DEF Receive
    <2>2. CASE Finish(w) \/ HandleOther(w) \/ BeginTopology(w) \/ CommitTopology(w)
        BY <2>2 DEF Finish, HandleOther, BeginTopology, CommitTopology
    <2>3. CASE StoreTopology(w)
        BY <2>3 DEF StoreTopology, ingestVars
    <2>4. CASE RejectTopology(w) \/ FailTopology(w)
        BY <2>4 DEF RejectTopology, FailTopology, MayFail
    <2> QED BY <1>5, <2>1, <2>2, <2>3, <2>4 DEF WorkerStep
<1> QED BY <1>1, <1>2, <1>3, <1>4, <1>5 DEF Next, ReaderStep

(* A step of the reader or of the others that are not workers. *)
LEMMA OthersLeaveWorkers ==
    ASSUME WorkerTypes, ReaderStep \/ Cancel \/ StopSlider
    PROVE  WorkerTypes'
BY DEF WorkerTypes, ReaderStep, CheckContext, Read, ReadNothing, Send, Return, Cancel, StopSlider,
       topologyVars

(* A step of a transaction that updates its place and one more field. *)
LEMMA PlaceUpdated ==
    ASSUME TopologyInv, NEW s \in Sessions, NEW at, NEW new,
           \/ tx' = [tx EXCEPT ![s].at = at, ![s].snap = new]
           \/ tx' = [tx EXCEPT ![s].at = at, ![s].rows = new]
           \/ tx' = [tx EXCEPT ![s].at = at, ![s].links = new]
    PROVE  tx'[s].at = at /\ \A v \in Sessions \ {s} : tx'[v] = tx[v]
<1>1. PICK b : b = tx[s]
    OBVIOUS
<1>2. b = [at |-> b.at, snap |-> b.snap, rows |-> b.rows, links |-> b.links]
    BY <1>1 DEF TopologyInv, TxOK
<1>3. PICK u : u = [b EXCEPT !.at = at]
    OBVIOUS
<1>4. u = [at |-> at, snap |-> b.snap, rows |-> b.rows, links |-> b.links]
    BY <1>2, <1>3
<1>5. /\ [u EXCEPT !.snap = new].at = at
      /\ [u EXCEPT !.rows = new].at = at
      /\ [u EXCEPT !.links = new].at = at
    BY <1>4
<1>6. tx' \in {[tx EXCEPT ![s] = [u EXCEPT !.snap = new]],
               [tx EXCEPT ![s] = [u EXCEPT !.rows = new]],
               [tx EXCEPT ![s] = [u EXCEPT !.links = new]]}
    BY <1>1, <1>3 DEF TopologyInv
<1> QED BY <1>5, <1>6 DEF TopologyInv

LEMMA WorkerTypesStay ==
    ASSUME IngestInv, NEW w \in Workers, WorkerStep(w)
    PROVE  WorkerTypes'
<1> USE DEF IngestInv, WorkerTypes, WorkerState, Workers
<1>2. Nothing \in Message
    BY DEF Message
<1>3. \A v \in Sessions : tx[v].at = "none" => tx[v] = NoTx
    BY DEF TopologyInv, TxOK
<1>4. NoTx.at = "none"
    BY DEF NoTx
<1>5. CASE Receive(w)
    <2>1. Head(queue) \in Message
        BY <1>5 DEF Receive, ReaderTypes
    <2> QED BY <1>5, <2>1 DEF Receive, topologyVars
<1>6. CASE Finish(w)
    BY <1>6 DEF Finish, topologyVars
<1>7. CASE HandleOther(w)
    BY <1>2, <1>7 DEF HandleOther, Handled, Waiting, topologyVars
<1>8. CASE BeginTopology(w)
    <2>1. tx'[w].at = "local" /\ \A v \in Sessions \ {w} : tx'[v] = tx[v]
        <3>1. PICK snap : tx' = [tx EXCEPT ![w].at = "local", ![w].snap = snap]
            BY <1>8 DEF BeginTopology, Begin, Following
        <3> QED BY <3>1, PlaceUpdated
    <2> QED BY <1>8, <2>1 DEF BeginTopology
<1>9. CASE RejectTopology(w)
    BY <1>2, <1>9 DEF RejectTopology, Handled, Waiting, topologyVars
<1>10. CASE StoreTopology(w)
    <2>1. tx[w].at # "none" /\ tx'[w].at # "none" /\ \A v \in Sessions \ {w} : tx'[v] = tx[v]
        <3>1. CASE UpsertPtpClock(w)
            <4>1. PICK at, rows : at = Following[tx[w].at]
                                  /\ tx' = [tx EXCEPT ![w].at = at, ![w].rows = rows]
                BY <3>1 DEF UpsertPtpClock
            <4>2. tx[w].at \in {"local", "parent", "grandmaster"} /\ at # "none"
                <5>1. tx[w].at \in {"local", "parent", "grandmaster"}
                    BY <3>1 DEF UpsertPtpClock, Upserting, Roles, Store!Roles
                <5> QED BY <4>1, <5>1 DEF Following
            <4>3. tx' = [tx EXCEPT ![w].at = at, ![w].rows = rows]
                BY <4>1
            <4>4. tx'[w].at = at /\ \A v \in Sessions \ {w} : tx'[v] = tx[v]
                BY <4>3, PlaceUpdated DEF IngestInv
            <4> QED BY <4>2, <4>4
        <3>2. CASE InsertObserved(w) \/ InsertInferred(w)
            <4>1. PICK at, links : (at = "inferred" \/ at = "commit")
                                   /\ tx' = [tx EXCEPT ![w].at = at, ![w].links = links]
                <5>1. CASE InsertObserved(w)
                    BY <5>1, Zenon DEF InsertObserved
                <5>2. CASE InsertInferred(w)
                    BY <5>2, Zenon DEF InsertInferred
                <5> QED BY <3>2, <5>1, <5>2
            <4>2. tx[w].at # "none"
                BY <3>2 DEF InsertObserved, InsertInferred
            <4> QED BY <4>1, <4>2, PlaceUpdated
        <3> QED BY <1>10, <3>1, <3>2 DEF StoreTopology, Statement
    <2> QED BY <1>10, <2>1 DEF StoreTopology, ingestVars
<1>11. CASE CommitTopology(w) \/ FailTopology(w)
    <2>1. tx'[w] = NoTx /\ \A v \in Sessions \ {w} : tx'[v] = tx[v]
        BY <1>11 DEF CommitTopology, FailTopology, Commit, AbortDeadlocked, Rollback, TopologyInv
    <2>2. worker' = [worker EXCEPT ![w] = Waiting]
        BY <1>11 DEF CommitTopology, FailTopology, Handled
    <2> QED BY <1>2, <1>4, <2>1, <2>2 DEF Waiting
<1> QED BY <1>5, <1>6, <1>7, <1>8, <1>9, <1>10, <1>11 DEF WorkerStep

-----------------------------------------------------------------------------
(* One place *)

LEMMA ReaderKeepsPlaces ==
    ASSUME IngestInv, ReaderStep \/ Cancel \/ StopSlider
    PROVE  OnePlace'
<1> USE DEF IngestInv, ReaderTypes, OnePlace, Busy
<1>1. CASE CheckContext \/ ReadNothing \/ Return \/ Cancel \/ StopSlider
    BY <1>1 DEF CheckContext, ReadNothing, Return, Cancel, StopSlider
<1>2. CASE Read
    <2>1. held'.id = reads + 1 /\ reads' = reads + 1
        BY <1>2 DEF Read
    <2>2. UNCHANGED <<queue, handled, worker>>
        BY <1>2 DEF Read
    <2>3. reads + 1 \notin 1..reads /\ 1..reads \subseteq 1..(reads + 1) /\ reads + 1 \in 1..(reads + 1)
        OBVIOUS
    <2> QED BY <2>1, <2>2, <2>3
<1>3. CASE Send
    <2>1. reader = "send" /\ reader' = "select" /\ UNCHANGED <<reads, worker, handled>>
        BY <1>3 DEF Send
    <2>2. CASE queue' = queue
        BY <2>1, <2>2
    <2>3. CASE queue' = Append(queue, held)
        <3>1. /\ DOMAIN queue' = DOMAIN queue \cup {Len(queue) + 1}
              /\ Len(queue) + 1 \notin DOMAIN queue
              /\ queue'[Len(queue) + 1] = held
              /\ \A i \in DOMAIN queue : queue'[i] = queue[i]
            BY <2>3
        <3> QED BY <2>1, <3>1
    <2> QED BY <1>3, <2>2, <2>3 DEF Send
<1> QED BY <1>1, <1>2, <1>3 DEF ReaderStep

(* A worker that leaves its message handled. *)
LEMMA HandledKeepsPlaces ==
    ASSUME IngestInv, NEW w \in Workers, Busy(w), Handled(w),
           UNCHANGED <<reader, reads, held, queue>>
    PROVE  OnePlace'
<1>1. worker' = [worker EXCEPT ![w] = Waiting] /\ handled' = handled \cup {worker[w].message.id}
    BY DEF Handled
<1>2. ~Busy(w)' /\ \A v \in Workers \ {w} : worker'[v] = worker[v]
    BY <1>1 DEF Busy, Waiting, IngestInv, WorkerTypes
<1>3. \A v \in Workers : Busy(v)' => Busy(v) /\ v # w /\ worker'[v] = worker[v]
    BY <1>2 DEF Busy
<1>4. /\ worker[w].message.id \in (1..reads) \ handled
      /\ \A i \in DOMAIN queue : queue[i].id # worker[w].message.id
      /\ \A v \in Workers : Busy(v) /\ v # w => worker[v].message.id # worker[w].message.id
      /\ reader = "send" => worker[w].message.id # held.id
    BY DEF OnePlace, IngestInv
<1>5. handled' \subseteq 1..reads' /\ \A i \in DOMAIN queue : queue[i].id \in (1..reads') \ handled'
    BY <1>1, <1>4 DEF OnePlace, IngestInv
<1>6. \A v \in Workers : Busy(v)' =>
        /\ worker'[v].message.id \in (1..reads') \ handled'
        /\ \A i \in DOMAIN queue : queue[i].id # worker'[v].message.id
        /\ \A x \in Workers : Busy(x)' /\ x # v => worker'[x].message.id # worker'[v].message.id
    BY <1>1, <1>3, <1>4 DEF OnePlace, IngestInv
<1>7. reader' = "send" =>
        /\ held'.id \in (1..reads') \ handled'
        /\ \A i \in DOMAIN queue : queue[i].id # held'.id
        /\ \A v \in Workers : Busy(v)' => worker'[v].message.id # held'.id
    BY <1>1, <1>3, <1>4 DEF OnePlace, IngestInv
<1> QED BY <1>5, <1>6, <1>7 DEF OnePlace, IngestInv

LEMMA WorkerKeepsPlaces ==
    ASSUME IngestInv, NEW w \in Workers, WorkerStep(w)
    PROVE  OnePlace'
<1>1. CASE Receive(w)
    <2>1. /\ queue # <<>> /\ queue' = Tail(queue) /\ ~Busy(w)
          /\ UNCHANGED <<reader, reads, held, handled>>
        BY <1>1 DEF Receive, Busy
    <2>2. /\ worker'[w] = [at |-> "handle", message |-> Head(queue)]
          /\ \A v \in Workers \ {w} : worker'[v] = worker[v]
        BY <1>1 DEF Receive, IngestInv, WorkerTypes
    <2>3. /\ Head(queue) = queue[1] /\ 1 \in DOMAIN queue
          /\ DOMAIN queue' \subseteq Nat /\ DOMAIN queue \subseteq Nat
          /\ \A i \in DOMAIN queue' : i + 1 \in DOMAIN queue /\ i + 1 # 1 /\ queue'[i] = queue[i + 1]
        BY <2>1 DEF IngestInv, ReaderTypes
    <2>4. \A i, j \in DOMAIN queue' : i + 1 = j + 1 => i = j
        BY <2>3
    <2>5. worker'[w].message = queue[1] /\ Busy(w)'
        BY <2>2, <2>3 DEF Busy
    <2>6. \A v \in Workers \ {w} : Busy(v)' <=> Busy(v)
        BY <2>2 DEF Busy
    <2> QED BY <2>1, <2>2, <2>3, <2>4, <2>5, <2>6 DEF IngestInv, OnePlace
<1>2. CASE Finish(w) \/ BeginTopology(w) \/ StoreTopology(w)
    <2>1. UNCHANGED <<reader, reads, held, queue, handled>>
        BY <1>2 DEF Finish, BeginTopology, StoreTopology, ingestVars
    <2>2. \A v \in Workers : Busy(v)' = Busy(v) /\ worker'[v].message = worker[v].message
        BY <1>2 DEF Finish, BeginTopology, StoreTopology, ingestVars, Busy, IngestInv, WorkerTypes,
                    WorkerState
    <2> QED BY <2>1, <2>2 DEF IngestInv, OnePlace
<1>3. CASE HandleOther(w) \/ RejectTopology(w) \/ CommitTopology(w) \/ FailTopology(w)
    <2>1. Handled(w) /\ UNCHANGED <<reader, reads, held, queue>>
        BY <1>3 DEF HandleOther, RejectTopology, CommitTopology, FailTopology
    <2>2. Busy(w)
        BY <1>3 DEF HandleOther, RejectTopology, CommitTopology, FailTopology, Busy, IngestInv,
                    WorkerTypes, Commit, AbortDeadlocked, Rollback, Workers
    <2> QED BY <2>1, <2>2, HandledKeepsPlaces
<1> QED BY <1>1, <1>2, <1>3 DEF WorkerStep

LEMMA NextKeepsInv == IngestInv /\ [Next]_vars => IngestInv'
<1> SUFFICES ASSUME IngestInv, [Next]_vars PROVE IngestInv'
    OBVIOUS
<1>1. CASE ReaderStep \/ Cancel \/ StopSlider
    <2>1. Next
        BY <1>1 DEF Next
    <2> QED BY <1>1, <2>1, TopologyStays, ReaderTypesStay, OthersLeaveWorkers, ReaderKeepsPlaces
        DEF IngestInv
<1>2. ASSUME NEW w \in Workers, WorkerStep(w) PROVE IngestInv'
    <2>1. Next
        BY <1>2 DEF Next
    <2> QED BY <1>2, <2>1, TopologyStays, ReaderTypesStay, WorkerTypesStay, WorkerKeepsPlaces
        DEF IngestInv
<1>3. CASE UNCHANGED vars
    <2>1. UNCHANGED topologyVars /\ UNCHANGED ingestVars
        BY <1>3 DEF vars
    <2>2. ReaderTypes' /\ WorkerTypes' /\ OnePlace'
        BY <2>1 DEF IngestInv, ReaderTypes, WorkerTypes, OnePlace, Busy, topologyVars, ingestVars
    <2> QED BY <2>1, <2>2, StutterKeeps DEF IngestInv
<1> QED BY <1>1, <1>2, <1>3 DEF Next

-----------------------------------------------------------------------------
(* The theorems *)

LEMMA Invariant == Spec => []IngestInv
<1>1. Init => IngestInv
    BY InitIngestInv
<1>2. IngestInv /\ [Next]_vars => IngestInv'
    BY NextKeepsInv
<1> QED BY <1>1, <1>2, PTL DEF Spec

(* The variables keep their shape.  A message that was accepted sits in the queue or
   with one worker until it is handled, never twice; the queue stays within its
   capacity; a worker holds a transaction exactly while it stores a snapshot. *)
THEOREM TypeCorrect == Spec => []IngestTypeOK
<1>1. IngestInv => IngestTypeOK
    <2> SUFFICES ASSUME IngestInv PROVE IngestTypeOK
        OBVIOUS
    <2>1. TopologyTypeOK
        BY TypesFollow DEF IngestInv
    <2>2. queue \in Seq(Message) /\ Len(queue) \in Nat /\ DOMAIN queue = 1..Len(queue)
        BY DEF IngestInv, ReaderTypes
    <2>3. Cardinality(Queued) = Len(queue)
        <3> DEFINE f == [i \in 1..Len(queue) |-> queue[i].id]
        <3>1. \A i, j \in 1..Len(queue) : queue[i].id = queue[j].id => i = j
            BY <2>2 DEF IngestInv, OnePlace
        <3>2. Queued = {queue[i].id : i \in 1..Len(queue)}
            BY <2>2 DEF Queued
        <3>3. f \in Bijection(1..Len(queue), Queued)
            BY <3>1, <3>2 DEF Bijection, Injection, Surjection, IsInjective
        <3> QED BY <2>2, <3>3, FS_CountingElements DEF ExistsBijection
    <2>4. Queued \cap handled = {}
        BY DEF IngestInv, OnePlace, Queued
    <2> QED BY <2>1, <2>3, <2>4
            DEF IngestTypeOK, IngestInv, ReaderTypes, WorkerTypes, WorkerState, OnePlace
<1> QED BY <1>1, Invariant, PTL

(* Workers deadlock in the database only on snapshots that contradict one another. *)
THEOREM DeadlocksExplained == Spec => []DeadlocksNeedContradiction
<1>1. IngestInv => DeadlocksNeedContradiction
    BY CyclesContradict DEF IngestInv
<1> QED BY <1>1, Invariant, PTL

(* Whatever the interleaving, the deadlocks and the failures, the tables change by
   whole snapshots one after the other. *)
THEOREM Refinement == Spec => ImplementsStore
<1>1. Init => Store!Init
    BY DEF Init, TopologyInit, Store!Init
<1>2. IngestInv /\ [Next]_vars => [Store!Next]_<<clocks, edges>>
    <2> SUFFICES ASSUME IngestInv, [Next]_vars PROVE [Store!Next]_<<clocks, edges>>
        OBVIOUS
    <2>1. CASE Next
        BY <2>1, StepMoves, MoveRefines DEF IngestInv, topologyVars, Workers
    <2>2. CASE UNCHANGED vars
        BY <2>2 DEF vars, topologyVars
    <2> QED BY <2>1, <2>2
<1> QED BY <1>1, <1>2, Invariant, PTL DEF Spec, ImplementsStore, Store!Spec

-----------------------------------------------------------------------------
(* Deadlocks *)

LEMMA LeastElement ==
    ASSUME NEW T \in SUBSET Nat, T # {}
    PROVE  \E m \in T : \A k \in T : m <= k
<1>1. PICK m \in T : \A y \in T : <<y, m>> \notin OpToRel(<, Nat)
    BY WFMin, NatLessThanWellFounded, Zenon
<1>2. \A y \in T : ~(y < m)
    BY <1>1 DEF OpToRel
<1> QED BY <1>2

(* While the snapshots agree with one order of the clocks, whatever it is, no worker
   deadlocks in the database: `depth` says how far below the top a clock is. *)
THEOREM AgreementPreventsDeadlock ==
    ASSUME NEW depth \in [Identities -> Nat],
           \A snap \in Snapshots : \A c, d \in Identities :
                Above(snap, c, d) => depth[d] < depth[c]
    PROVE  Spec => [](\A w \in Workers : ~Deadlocked(w))
<1>1. ASSUME IngestInv, NEW w \in Workers, Deadlocked(w) PROVE FALSE
    <2>1. PICK S \in SUBSET Sessions : w \in S /\ Cycle(S)
        BY <1>1 DEF Deadlocked
    <2>2. Contradict(S)
        BY <1>1, <2>1, CyclesContradict DEF IngestInv, DeadlocksNeedContradiction
    <2>3. PICK C \in (SUBSET Identities) \ {{}} :
                \A c \in C : \E d \in C, s \in S : Above(tx[s].snap, c, d)
        BY <2>2 DEF Contradict
    <2>4. PICK m \in {depth[c] : c \in C} : \A k \in {depth[c] : c \in C} : m <= k
        <3>1. {depth[c] : c \in C} \in SUBSET Nat /\ {depth[c] : c \in C} # {}
            OBVIOUS
        <3> QED BY <3>1, LeastElement
    <2>5. PICK c \in C : m = depth[c]
        OBVIOUS
    <2>6. PICK d \in C, s \in S : Above(tx[s].snap, c, d)
        BY <2>3
    <2>7. tx[s].snap \in Snapshots
        <3>1. TxOK(tx[s])
            BY <1>1, <2>1 DEF IngestInv, TopologyInv
        <3>2. PICK r \in S : WaitsFor(s, r)
            BY <2>1 DEF Cycle
        <3>3. tx[s].at # "none"
            BY <3>2 DEF WaitsFor, Upserting, Roles, Store!Roles
        <3> QED BY <3>1, <3>3 DEF TxOK
    <2>8. depth[d] < depth[c] /\ depth[c] \in Nat /\ depth[d] \in Nat
        BY <2>6, <2>7
    <2>9. depth[c] <= depth[d]
        BY <2>4, <2>5
    <2> QED BY <2>8, <2>9
<1>2. IngestInv => \A w \in Workers : ~Deadlocked(w)
    BY <1>1
<1> QED BY <1>2, Invariant, PTL

LEMMA SessionsFinite ==
    ASSUME NEW B \in SUBSET Sessions PROVE IsFiniteSet(B)
<1>1. IsFiniteSet(Sessions)
    BY IngestAssumption
<1> QED BY <1>1, FS_Subset, Zenon

(* Sessions that wait only for one another wait in a circle: the fewest of them that
   still do. *)
LEMMA WaitersFormCycle ==
    ASSUME NEW B \in SUBSET Sessions, IsFiniteSet(B), B # {},
           \A s \in B : \E r \in B : WaitsFor(s, r)
    PROVE  \E S \in (SUBSET B) \ {{}} : Cycle(S)
<1> DEFINE Shut(X) == \A s \in X : \E r \in X : WaitsFor(s, r)
           Groups  == {X \in SUBSET B : X # {} /\ Shut(X)}
           Sizes   == {Cardinality(X) : X \in Groups}
<1>1. \A X \in Groups : IsFiniteSet(X) /\ Cardinality(X) \in Nat
    BY FS_Subset, FS_CardinalityType
<1>2. B \in Groups
    OBVIOUS
<1> HIDE DEF Groups
<1>3. Sizes \in SUBSET Nat /\ Sizes # {}
    BY <1>1, <1>2
<1>4. PICK m \in Sizes : \A k \in Sizes : m <= k
    BY <1>3, LeastElement
<1>5. PICK X \in Groups : m = Cardinality(X)
    OBVIOUS
<1>6. X \in (SUBSET B) \ {{}} /\ Shut(X)
    BY DEF Groups
<1>7. ASSUME NEW s \in X, \A r \in X : ~WaitsFor(r, s)
      PROVE  FALSE
    <2> DEFINE Y == X \ {s}
    <2>1. PICK r \in X : WaitsFor(s, r)
        BY <1>6
    <2>2. r \in Y
        BY <2>1 DEF WaitsFor
    <2>3. Shut(Y)
        BY <1>6, <1>7
    <2>4. Y \in Groups
        BY <1>6, <2>2, <2>3 DEF Groups
    <2>5. Cardinality(Y) = Cardinality(X) - 1
        BY <1>1, FS_RemoveElement
    <2>6. Cardinality(X) <= Cardinality(Y)
        BY <1>4, <1>5, <2>4
    <2> QED BY <1>1, <2>5, <2>6
<1> QED BY <1>6, <1>7 DEF Cycle

(* The shutdown: the channel is closed when the loop has ended, and a worker ends when
   it is closed and empty, which it then remains. *)
ShutdownInv ==
    /\ closed <=> reader \in {"wait", "returned"}
    /\ closed => cancelled
    /\ \A w \in Workers : worker[w].at = "done" => Drained

LEMMA ShutdownKept == IngestInv /\ ShutdownInv /\ [Next]_vars => ShutdownInv'
<1> SUFFICES ASSUME IngestInv, ShutdownInv, [Next]_vars PROVE ShutdownInv'
    OBVIOUS
<1> USE DEF ShutdownInv, Drained
<1>0. worker \in [Workers -> WorkerState] /\ closed \in BOOLEAN /\ cancelled \in BOOLEAN
    BY DEF IngestInv, WorkerTypes, ReaderTypes
<1>1. CASE ReaderStep
    BY <1>0, <1>1 DEF ReaderStep, CheckContext, Read, ReadNothing, Send, Return, CloseQueue
<1>2. CASE Cancel \/ StopSlider
    BY <1>2 DEF Cancel, StopSlider
<1>3. ASSUME NEW w \in Workers, WorkerStep(w) PROVE ShutdownInv'
    <2>1. UNCHANGED <<reader, closed, cancelled>>
        BY <1>3 DEF WorkerStep, Receive, Finish, HandleOther, BeginTopology, RejectTopology,
                    StoreTopology, CommitTopology, FailTopology, ingestVars
    <2>2. queue = <<>> => queue' = <<>>
        BY <1>3 DEF WorkerStep, Receive, Finish, HandleOther, BeginTopology, RejectTopology,
                    StoreTopology, CommitTopology, FailTopology, ingestVars
    <2>3. \A v \in Workers : worker'[v].at = "done" => worker[v].at = "done" \/ Drained
        <3>1. CASE Finish(w)
            BY <3>1 DEF Finish
        <3>2. CASE Receive(w)
            BY <1>0, <3>2 DEF Receive
        <3>3. CASE BeginTopology(w)
            BY <1>0, <3>3 DEF BeginTopology
        <3>4. CASE StoreTopology(w)
            BY <3>4 DEF StoreTopology, ingestVars
        <3>5. CASE HandleOther(w) \/ RejectTopology(w) \/ CommitTopology(w) \/ FailTopology(w)
            <4>1. worker' = [worker EXCEPT ![w] = Waiting]
                BY <3>5 DEF HandleOther, RejectTopology, CommitTopology, FailTopology, Handled
            <4>2. Waiting.at = "idle"
                BY DEF Waiting
            <4> QED BY <1>0, <4>1, <4>2
        <3> QED BY <1>3, <3>1, <3>2, <3>3, <3>4, <3>5 DEF WorkerStep
    <2> QED BY <2>1, <2>2, <2>3
<1>4. CASE UNCHANGED vars
    BY <1>4 DEF vars, ingestVars
<1> QED BY <1>1, <1>2, <1>3, <1>4 DEF Next

LEMMA Shutdown == Spec => []ShutdownInv
<1>1. Init => ShutdownInv
    <2> SUFFICES ASSUME Init PROVE ShutdownInv
        OBVIOUS
    <2>1. closed = FALSE /\ reader = "select"
        BY DEF Init
    <2>2. \A w \in Workers : worker[w].at = "idle"
        BY DEF Init, Waiting
    <2> QED BY <2>1, <2>2 DEF ShutdownInv
<1>2. IngestInv /\ ShutdownInv /\ [Next]_vars => ShutdownInv'
    BY ShutdownKept
<1> QED BY <1>1, <1>2, Invariant, PTL DEF Spec

(* What a goroutine can do at once. *)
WorkerCanGo(w) ==
    \/ worker[w].at = "idle" /\ (queue # <<>> \/ closed)
    \/ worker[w].at = "handle"
    \/ worker[w].at = "store" /\ (cancelled \/ ~Blocked(w) \/ Deadlocked(w))
ReaderCanGo ==
    \/ reader \in {"select", "read", "send"}
    \/ reader = "wait" /\ ~slider /\ \A w \in Workers : worker[w].at = "done"

(* While a message is queued or handled some worker can go on: its transaction is not
   kept waiting, or it waits in a circle, which the database breaks. *)
HandlingNeverStuck ==
    queue # <<>> \/ (\E w \in Workers : Busy(w)) => \E w \in Workers : WorkerCanGo(w)

(* And a Run that is told to stop: the reader, the slider or a worker can go on. *)
RunNeverStuck ==
    cancelled /\ reader # "returned" =>
        ReaderCanGo \/ slider \/ \E w \in Workers : WorkerCanGo(w)

LEMMA BlockersBusy ==
    ASSUME IngestInv, NEW s \in Workers, Blocked(s)
    PROVE  \E r \in Workers : worker[r].at = "store" /\ WaitsFor(s, r)
<1>1. PICK r \in Sessions : WaitsFor(s, r)
    BY DEF Blocked
<1>2. TxOK(tx[r])
    BY DEF IngestInv, TopologyInv
<1>3. Taken(tx[r]) # {}
    BY <1>1, <1>2, TakenFacts DEF WaitsFor, Holds
<1>4. tx[r].at # "none"
    BY <1>2, <1>3, TakenFacts
<1> QED BY <1>1, <1>4 DEF IngestInv, WorkerTypes, Workers

LEMMA HandlingNotStuck ==
    ASSUME IngestInv, ShutdownInv, Workers # {}
    PROVE  HandlingNeverStuck
<1> SUFFICES ASSUME queue # <<>> \/ (\E w \in Workers : Busy(w)),
                    \A w \in Workers : ~WorkerCanGo(w)
             PROVE  FALSE
    BY DEF HandlingNeverStuck
<1> DEFINE B == {w \in Workers : worker[w].at = "store"}
<1>1. \A w \in Workers : worker[w].at \in {"idle", "handle", "store", "done"}
    BY DEF IngestInv, WorkerTypes, WorkerState
<1>2. CASE B = {}
    <2>1. queue # <<>>
        BY <1>2 DEF WorkerCanGo, Busy
    <2> QED BY <1>1, <1>2, <2>1 DEF WorkerCanGo, ShutdownInv, Drained
<1>3. CASE B # {}
    <2>1. \A s \in B : Blocked(s) /\ ~Deadlocked(s)
        BY DEF WorkerCanGo
    <2>2. \A s \in B : \E r \in B : WaitsFor(s, r)
        BY <2>1, BlockersBusy
    <2>3. B \in SUBSET Sessions
        BY DEF Workers
    <2>4. IsFiniteSet(B)
        BY <2>3, SessionsFinite, Zenon
    <2> HIDE DEF B
    <2>5. PICK S \in (SUBSET B) \ {{}} : Cycle(S)
        BY <1>3, <2>2, <2>3, <2>4, WaitersFormCycle
    <2>6. PICK s \in S : TRUE
        OBVIOUS
    <2>7. Deadlocked(s)
        BY <2>3, <2>5, <2>6 DEF Deadlocked
    <2> QED BY <2>1, <2>5, <2>7
<1> QED BY <1>2, <1>3

LEMMA RunNotStuck ==
    ASSUME IngestInv, ShutdownInv
    PROVE  RunNeverStuck
<1> SUFFICES ASSUME cancelled, reader # "returned", ~ReaderCanGo, ~slider,
                    \A w \in Workers : ~WorkerCanGo(w)
             PROVE  FALSE
    BY DEF RunNeverStuck
<1>1. reader = "wait" /\ closed
    BY DEF IngestInv, ReaderTypes, ReaderCanGo, ShutdownInv
<1>2. PICK w \in Workers : worker[w].at # "done"
    BY <1>1 DEF ReaderCanGo
<1>3. worker[w].at \in {"idle", "handle", "store"}
    BY <1>2 DEF IngestInv, WorkerTypes, WorkerState
<1> QED BY <1>1, <1>3 DEF WorkerCanGo

(* However the nodes disagree, handling never stands still: where transactions wait there
   is one that waits for nobody, or a circle.  A worker there must be; num_workers is
   not checked. *)
THEOREM AlwaysAHandlerGoesOn ==
    ASSUME Workers # {} PROVE Spec => []HandlingNeverStuck
BY Invariant, Shutdown, HandlingNotStuck, PTL

(* A Run that is told to stop is never stuck before it returns. *)
THEOREM StoppingNeverStuck == Spec => []RunNeverStuck
BY Invariant, Shutdown, RunNotStuck, PTL

-----------------------------------------------------------------------------
(* What a cancelled Run has left to do: the reader's way to its return, two steps for a
   queued message (a worker takes it and ends with it), one for a worker that handles
   a message, one for each worker that has not left, one for the slider. *)
Awake       == {w \in Workers : worker[w].at # "done"}
BusyWorkers == {w \in Workers : Busy(w)}
ReaderLeft  == [read |-> 4, send |-> 3, select |-> 2, wait |-> 1, returned |-> 0]
SliderLeft  == IF slider THEN 1 ELSE 0

WorkLeft == 3 * ReaderLeft[reader] + 2 * Len(queue) + Cardinality(Awake)
            + Cardinality(BusyWorkers) + SliderLeft

(* Whatever a cancelled Run does, it has less to do afterwards. *)
CancelledAdvances == [][cancelled => cancelled' /\ WorkLeft' < WorkLeft]_vars

LEMMA WorkCounted ==
    /\ IsFiniteSet(Awake) /\ IsFiniteSet(BusyWorkers)
    /\ Cardinality(Awake) \in Nat /\ Cardinality(BusyWorkers) \in Nat
<1>1. Awake \subseteq Sessions /\ BusyWorkers \subseteq Sessions
    BY DEF Awake, BusyWorkers, Workers
<1>2. IsFiniteSet(Awake) /\ IsFiniteSet(BusyWorkers)
    BY <1>1, SessionsFinite, Zenon
<1> QED BY <1>2, FS_CardinalityType

LEMMA WorkLeftNat == ReaderTypes => WorkLeft \in Nat
<1> SUFFICES ASSUME ReaderTypes PROVE WorkLeft \in Nat
    OBVIOUS
<1> DEFINE r == ReaderLeft[reader]
           n == Len(queue)
           a == Cardinality(Awake)
           b == Cardinality(BusyWorkers)
           x == SliderLeft
<1>1. r \in Nat
    BY DEF ReaderTypes, ReaderLeft
<1>2. n \in Nat /\ a \in Nat /\ b \in Nat /\ x \in Nat
    BY WorkCounted DEF ReaderTypes, SliderLeft
<1>3. WorkLeft = 3 * r + 2 * n + a + b + x
    BY DEF WorkLeft
<1> HIDE DEF r, n, a, b, x
<1>4. 3 * r + 2 * n + a + b + x \in Nat
    BY ONLY <1>1, <1>2
<1> QED BY ONLY <1>3, <1>4

(* A step that leaves the workers and the queue alone, but for one message more. *)
LEMMA ReaderAdvances ==
    ASSUME IngestInv, cancelled, ReaderStep \/ StopSlider
    PROVE  WorkLeft' < WorkLeft
<1> DEFINE r == ReaderLeft[reader]
           n == Len(queue)
           a == Cardinality(Awake)
           b == Cardinality(BusyWorkers)
           x == SliderLeft
<1>1. r \in Nat /\ n \in Nat /\ x \in Nat
    BY DEF IngestInv, ReaderTypes, ReaderLeft, SliderLeft
<1>2. a \in Nat /\ b \in Nat
    BY WorkCounted
<1>3. worker' = worker
    BY DEF ReaderStep, CheckContext, Read, ReadNothing, Send, Return, StopSlider
<1>4. a' = a /\ b' = b
    BY <1>3 DEF Awake, BusyWorkers, Busy
<1>5. WorkLeft = 3 * r + 2 * n + a + b + x
    BY DEF WorkLeft
<1>6. WorkLeft' = 3 * r' + 2 * n' + a' + b' + x'
    BY DEF WorkLeft
<1>7. \/ r' < r /\ r' \in Nat /\ (n' = n \/ n' = n + 1) /\ x' = x
      \/ r' = r /\ n' = n /\ x' < x /\ x' \in Nat
    <2>1. CASE CheckContext \/ Read \/ ReadNothing \/ Return
        <3>0. queue' = queue /\ slider' = slider
            BY <2>1 DEF CheckContext, Read, ReadNothing, Return
        <3>1. n' = n /\ x' = x
            BY <3>0 DEF SliderLeft
        <3>2. \/ reader = "select" /\ reader' = "wait"
              \/ reader = "read" /\ reader' \in {"send", "select"}
              \/ reader = "wait" /\ reader' = "returned"
            BY <2>1 DEF CheckContext, Read, ReadNothing, Return
        <3>3. r' < r /\ r' \in Nat
            BY <3>2 DEF ReaderLeft
        <3> QED BY <3>1, <3>3
    <2>2. CASE Send
        <3>1. n' = n \/ n' = n + 1
            BY <2>2 DEF Send, IngestInv, ReaderTypes
        <3>2. r' < r /\ r' \in Nat /\ x' = x
            BY <2>2 DEF Send, ReaderLeft, SliderLeft
        <3> QED BY <3>1, <3>2
    <2>3. CASE StopSlider
        BY <2>3 DEF StopSlider, SliderLeft
    <2> QED BY <2>1, <2>2, <2>3 DEF ReaderStep
<1> HIDE DEF r, n, a, b, x
<1> QED BY ONLY <1>1, <1>2, <1>4, <1>5, <1>6, <1>7

(* A step of a worker. *)
LEMMA HandlerAdvances ==
    ASSUME IngestInv, cancelled, NEW w \in Workers, WorkerStep(w)
    PROVE  WorkLeft' < WorkLeft
<1> DEFINE r == ReaderLeft[reader]
           n == Len(queue)
           a == Cardinality(Awake)
           b == Cardinality(BusyWorkers)
           x == SliderLeft
<1>1. r \in Nat /\ n \in Nat /\ x \in Nat
    BY DEF IngestInv, ReaderTypes, ReaderLeft, SliderLeft
<1>2. a \in Nat /\ b \in Nat /\ IsFiniteSet(Awake) /\ IsFiniteSet(BusyWorkers)
    BY WorkCounted
<1>3. WorkLeft = 3 * r + 2 * n + a + b + x
    BY DEF WorkLeft
<1>4. WorkLeft' = 3 * r' + 2 * n' + a' + b' + x'
    BY DEF WorkLeft
<1>5. r' = r /\ x' = x
    <2>1. reader' = reader /\ slider' = slider
        BY DEF WorkerStep, Receive, Finish, HandleOther, BeginTopology, RejectTopology,
               StoreTopology, CommitTopology, FailTopology, ingestVars
    <2> QED BY <2>1 DEF SliderLeft
<1>6. worker \in [Workers -> WorkerState]
    BY DEF IngestInv, WorkerTypes
<1>7. \/ n' = n - 1 /\ a' = a /\ b' = b + 1
      \/ n' = n /\ a' = a - 1 /\ b' = b
      \/ n' = n /\ a' = a /\ b' = b - 1
    <2>1. CASE Receive(w)
        <3>1. worker' = [worker EXCEPT ![w] = [at |-> "handle", message |-> Head(queue)]]
              /\ worker[w].at = "idle" /\ queue # <<>> /\ queue' = Tail(queue)
            BY <2>1 DEF Receive
        <3>2. n' = n - 1
            BY <3>1 DEF IngestInv, ReaderTypes
        <3>3. Awake' = Awake /\ BusyWorkers' = BusyWorkers \cup {w} /\ w \notin BusyWorkers
            BY <1>6, <3>1 DEF Awake, BusyWorkers, Busy
        <3> QED BY <1>2, <3>2, <3>3, FS_AddElement
    <2>2. CASE Finish(w)
        <3>1. worker' = [worker EXCEPT ![w].at = "done"] /\ worker[w].at = "idle" /\ n' = n
            BY <2>2 DEF Finish
        <3>2. Awake' = Awake \ {w} /\ w \in Awake /\ BusyWorkers' = BusyWorkers
            BY <1>6, <3>1 DEF Awake, BusyWorkers, Busy, WorkerState
        <3> QED BY <1>2, <3>1, <3>2, FS_RemoveElement
    <2>3. CASE HandleOther(w) \/ RejectTopology(w) \/ CommitTopology(w) \/ FailTopology(w)
        <3>1. Handled(w) /\ n' = n
            BY <2>3 DEF HandleOther, RejectTopology, CommitTopology, FailTopology
        <3>2. Busy(w)
            BY <2>3 DEF HandleOther, RejectTopology, CommitTopology, FailTopology, Busy,
               IngestInv, WorkerTypes, Commit, AbortDeadlocked, Rollback, Workers
        <3>3. Awake' = Awake /\ w \in BusyWorkers /\ BusyWorkers' = BusyWorkers \ {w}
            BY <1>6, <3>1, <3>2 DEF Handled, Waiting, Awake, BusyWorkers, Busy
        <3> QED BY <1>2, <3>1, <3>3, FS_RemoveElement
    <2> QED BY <2>1, <2>2, <2>3 DEF WorkerStep, BeginTopology, StoreTopology
<1> HIDE DEF r, n, a, b, x
<1> QED BY ONLY <1>1, <1>2, <1>3, <1>4, <1>5, <1>7

LEMMA CancelledStep ==
    ASSUME IngestInv, [Next]_vars
    PROVE  [cancelled => cancelled' /\ WorkLeft' < WorkLeft]_vars
<1> SUFFICES ASSUME Next, cancelled PROVE cancelled' /\ WorkLeft' < WorkLeft
    OBVIOUS
<1>1. CASE ReaderStep \/ StopSlider
    <2>1. cancelled'
        BY <1>1 DEF ReaderStep, CheckContext, Read, ReadNothing, Send, Return, StopSlider
    <2> QED BY <1>1, <2>1, ReaderAdvances
<1>2. ASSUME NEW w \in Workers, WorkerStep(w) PROVE cancelled' /\ WorkLeft' < WorkLeft
    <2>1. cancelled'
        BY <1>2 DEF WorkerStep, Receive, Finish, HandleOther, BeginTopology, RejectTopology,
           StoreTopology, CommitTopology, FailTopology, ingestVars
    <2> QED BY <1>2, <2>1, HandlerAdvances
<1> QED BY <1>1, <1>2 DEF Next, Cancel

(* What a Run that is told to stop has left is a natural number ... *)
THEOREM StoppingWorkBounded == Spec => [](WorkLeft \in Nat)
BY Invariant, WorkLeftNat, PTL DEF IngestInv

(* ... and every step makes it smaller. *)
THEOREM StoppingEnds == Spec => CancelledAdvances
BY Invariant, CancelledStep, PTL DEF Spec, CancelledAdvances

-----------------------------------------------------------------------------
(* How many steps of workers an accepted message is from being handled: a queued one by
   its place in the queue, one with a worker by the statements that are left. *)
StepsLeft == [local |-> 6, parent |-> 5, grandmaster |-> 4, observed |-> 3, inferred |-> 2,
              commit |-> 1]
HandlerLeft(w) == IF worker[w].at = "handle" THEN 7 ELSE StepsLeft[tx[w].at]

Away(i, d) == \/ \E k \in DOMAIN queue : queue[k].id = i /\ d = 7 + k
              \/ \E w \in Workers : Busy(w) /\ worker[w].message.id = i /\ d = HandlerLeft(w)

Closer(i, d) == i \in handled' \/ \E e \in Nat : e < d /\ Away(i, e)'

(* No step puts an accepted message further away, or loses it. *)
NeverFurther ==
    [][\A i, d \in Nat : Away(i, d) => Closer(i, d) \/ Away(i, d)']_vars

(* A step of a worker other than its end brings one closer. *)
WorkersBringCloser ==
    [][\A w \in Workers :
        WorkerStep(w) => Finish(w) \/ \E i, d \in Nat : Away(i, d) /\ Closer(i, d)]_vars

LEMMA HandlerLeftNat ==
    ASSUME IngestInv, NEW w \in Workers, Busy(w)
    PROVE  /\ HandlerLeft(w) \in Nat /\ HandlerLeft(w) <= 7
           /\ worker[w].message.id \in Nat
<1>1. worker[w].at \in {"handle", "store"} /\ worker[w].message \in Message
    BY DEF Busy, IngestInv, WorkerTypes, WorkerState
<1>2. worker[w].message.id \in Nat
    BY <1>1, IngestAssumption DEF Message, Nothing
<1>3. CASE worker[w].at = "store"
    <2>1. tx[w].at # "none" /\ tx[w].at \in Stages
        BY <1>3 DEF IngestInv, WorkerTypes, TopologyInv, TxOK, Workers
    <2>2. tx[w].at \in {"local", "parent", "grandmaster", "observed", "inferred", "commit"}
        BY <2>1 DEF Stages, Roles, Store!Roles
    <2>3. StepsLeft[tx[w].at] \in 1..6
        BY <2>2 DEF StepsLeft
    <2> QED BY <1>2, <1>3, <2>3 DEF HandlerLeft
<1> QED BY <1>1, <1>2, <1>3 DEF HandlerLeft

(* A statement that returns leaves fewer to come, and the other transactions alone. *)
LEMMA StatementAdvances ==
    ASSUME IngestInv, NEW w \in Workers, StoreTopology(w)
    PROVE  /\ tx[w].at # "none"
           /\ StepsLeft[tx'[w].at] \in Nat /\ StepsLeft[tx'[w].at] < StepsLeft[tx[w].at]
           /\ \A v \in Workers \ {w} : tx'[v] = tx[v]
<1>1. CASE UpsertPtpClock(w)
    <2>1. PICK rows : tx' = [tx EXCEPT ![w].at = Following[tx[w].at], ![w].rows = rows]
        BY <1>1 DEF UpsertPtpClock
    <2>2. /\ tx'[w].at = Following[tx[w].at]
          /\ \A v \in Workers \ {w} : tx'[v] = tx[v]
        BY <2>1, PlaceUpdated DEF IngestInv, Workers
    <2>3. tx[w].at \in {"local", "parent", "grandmaster"}
        BY <1>1 DEF UpsertPtpClock, Upserting, Roles, Store!Roles
    <2>4. /\ StepsLeft[Following[tx[w].at]] \in Nat
          /\ StepsLeft[Following[tx[w].at]] < StepsLeft[tx[w].at]
        BY <2>3 DEF Following, StepsLeft
    <2> QED BY <2>2, <2>3, <2>4
<1>2. CASE InsertObserved(w)
    <2>1. PICK links : tx' = [tx EXCEPT ![w].at = "inferred", ![w].links = links]
        BY <1>2, Zenon DEF InsertObserved
    <2>2. tx'[w].at = "inferred" /\ \A v \in Workers \ {w} : tx'[v] = tx[v]
        BY <2>1, PlaceUpdated DEF IngestInv, Workers
    <2>3. tx[w].at = "observed"
        BY <1>2 DEF InsertObserved
    <2> QED BY <2>2, <2>3 DEF StepsLeft
<1>3. CASE InsertInferred(w)
    <2>1. PICK links : tx' = [tx EXCEPT ![w].at = "commit", ![w].links = links]
        BY <1>3, Zenon DEF InsertInferred
    <2>2. tx'[w].at = "commit" /\ \A v \in Workers \ {w} : tx'[v] = tx[v]
        BY <2>1, PlaceUpdated DEF IngestInv, Workers
    <2>3. tx[w].at = "inferred"
        BY <1>3 DEF InsertInferred
    <2> QED BY <2>2, <2>3 DEF StepsLeft
<1> QED BY <1>1, <1>2, <1>3 DEF StoreTopology, Statement

(* A step of a worker concerns its own transaction. *)
LEMMA OthersStay ==
    ASSUME IngestInv, NEW w \in Workers, WorkerStep(w), NEW v \in Workers \ {w}
    PROVE  worker'[v] = worker[v] /\ tx'[v].at = tx[v].at
<1>0. worker \in [Workers -> WorkerState]
    BY DEF IngestInv, WorkerTypes
<1>1. CASE Receive(w)
    BY <1>0, <1>1 DEF Receive, topologyVars
<1>2. CASE Finish(w)
    BY <1>0, <1>2 DEF Finish, topologyVars
<1>3. CASE HandleOther(w) \/ RejectTopology(w)
    <2>1. worker' = [worker EXCEPT ![w] = Waiting] /\ tx' = tx
        BY <1>3 DEF HandleOther, RejectTopology, Handled, topologyVars
    <2> QED BY <1>0, <2>1
<1>4. CASE BeginTopology(w)
    <2>1. PICK snap : tx' = [tx EXCEPT ![w].at = "local", ![w].snap = snap]
        BY <1>4 DEF BeginTopology, Begin, Following
    <2>2. tx'[v] = tx[v]
        BY <2>1, PlaceUpdated DEF IngestInv, Workers
    <2> QED BY <1>0, <1>4, <2>2 DEF BeginTopology
<1>5. CASE StoreTopology(w)
    <2>1. tx'[v] = tx[v]
        BY <1>5, StatementAdvances
    <2> QED BY <1>5, <2>1 DEF StoreTopology, ingestVars
<1>6. CASE CommitTopology(w) \/ FailTopology(w)
    <2>1. tx' = [tx EXCEPT ![w] = NoTx] /\ worker' = [worker EXCEPT ![w] = Waiting]
        BY <1>6 DEF CommitTopology, FailTopology, Commit, AbortDeadlocked, Rollback, Handled
    <2> QED BY <1>0, <2>1 DEF IngestInv, TopologyInv, Workers
<1> QED BY <1>1, <1>2, <1>3, <1>4, <1>5, <1>6 DEF WorkerStep

(* A busy worker has less to do after its step, or is done with its message. *)
LEMMA OwnStep ==
    ASSUME IngestInv, NEW w \in Workers, WorkerStep(w), Busy(w)
    PROVE  /\ queue' = queue
           /\ \/ worker[w].message.id \in handled'
              \/ /\ Busy(w)' /\ worker'[w].message = worker[w].message
                 /\ HandlerLeft(w)' \in Nat /\ HandlerLeft(w)' < HandlerLeft(w)
<1>0. worker \in [Workers -> WorkerState]
    BY DEF IngestInv, WorkerTypes
<1>1. CASE Receive(w) \/ Finish(w)
    BY <1>1 DEF Receive, Finish, Busy
<1>2. CASE HandleOther(w) \/ RejectTopology(w) \/ CommitTopology(w) \/ FailTopology(w)
    <2>1. Handled(w) /\ queue' = queue
        BY <1>2 DEF HandleOther, RejectTopology, CommitTopology, FailTopology
    <2> QED BY <2>1 DEF Handled
<1>3. CASE BeginTopology(w)
    <2>1. PICK snap : tx' = [tx EXCEPT ![w].at = "local", ![w].snap = snap]
        BY <1>3 DEF BeginTopology, Begin, Following
    <2>2. tx'[w].at = "local"
        BY <2>1, PlaceUpdated DEF IngestInv, Workers
    <2>3. /\ worker[w].at = "handle" /\ queue' = queue
          /\ worker'[w] = [worker[w] EXCEPT !.at = "store"]
        BY <1>0, <1>3 DEF BeginTopology
    <2>4. worker'[w].at = "store" /\ worker'[w].message = worker[w].message
        BY <1>0, <2>3 DEF WorkerState
    <2>5. HandlerLeft(w) = 7 /\ HandlerLeft(w)' = 6
        BY <2>2, <2>3, <2>4 DEF HandlerLeft, StepsLeft
    <2> QED BY <2>3, <2>4, <2>5 DEF Busy
<1>4. CASE StoreTopology(w)
    <2>1. UNCHANGED <<queue, worker>> /\ worker[w].at = "store"
        <3>1. tx[w].at # "none"
            BY <1>4, StatementAdvances
        <3> QED BY <1>4, <3>1 DEF StoreTopology, ingestVars, IngestInv, WorkerTypes
    <2>2. StepsLeft[tx'[w].at] \in Nat /\ StepsLeft[tx'[w].at] < StepsLeft[tx[w].at]
        BY <1>4, StatementAdvances
    <2> QED BY <2>1, <2>2 DEF Busy, HandlerLeft
<1> QED BY <1>1, <1>2, <1>3, <1>4 DEF WorkerStep

(* The messages that wait for other workers stay where they are. *)
LEMMA OtherMessages ==
    ASSUME IngestInv, NEW w \in Workers, WorkerStep(w), NEW v \in Workers \ {w}
    PROVE  /\ Busy(v)' <=> Busy(v)
           /\ worker'[v].message = worker[v].message
           /\ HandlerLeft(v)' = HandlerLeft(v)
BY OthersStay DEF Busy, HandlerLeft

(* What a worker has in hand comes closer. *)
LEMMA OwnCloser ==
    ASSUME IngestInv, NEW w \in Workers, WorkerStep(w), Busy(w),
           NEW i, i = worker[w].message.id, NEW d, d = HandlerLeft(w)
    PROVE  Closer(i, d)
<1>1. PICK e : e = HandlerLeft(w)'
    OBVIOUS
<1>2. CASE i \in handled'
    BY <1>2 DEF Closer
<1>3. CASE Busy(w)' /\ worker'[w].message = worker[w].message /\ e \in Nat /\ e < d
    <2>1. Away(i, e)'
        BY <1>1, <1>3 DEF Away
    <2> QED BY <1>3, <2>1 DEF Closer
<1> QED BY <1>1, <1>2, <1>3, OwnStep

(* A message that is received, and those behind it. *)
LEMMA ReceivedCloser ==
    ASSUME IngestInv, NEW w \in Workers, Receive(w), NEW k \in DOMAIN queue,
           NEW i, i = queue[k].id
    PROVE  Closer(i, 7 + k)
<1>1. queue \in Seq(Message) /\ queue # <<>> /\ queue' = Tail(queue)
    BY DEF Receive, IngestInv, ReaderTypes
<1>2. worker'[w] = [at |-> "handle", message |-> Head(queue)]
    BY DEF Receive, IngestInv, WorkerTypes
<1>3. CASE k = 1
    <2>1. Head(queue) = queue[1]
        BY <1>1
    <2>2. Busy(w)' /\ worker'[w].message.id = i /\ HandlerLeft(w)' = 7
        BY <1>2, <1>3, <2>1 DEF Busy, HandlerLeft
    <2>3. Away(i, 7)'
        BY <2>2 DEF Away
    <2> QED BY <1>3, <2>3 DEF Closer
<1>4. CASE k # 1
    <2>1. k - 1 \in DOMAIN queue' /\ queue'[k - 1] = queue[k] /\ k \in Nat /\ 7 + (k - 1) \in Nat
        BY <1>1, <1>4
    <2>2. Away(i, 7 + (k - 1))'
        BY <2>1 DEF Away
    <2>3. 7 + (k - 1) < 7 + k
        BY <2>1
    <2> QED BY <2>1, <2>2, <2>3 DEF Closer
<1> QED BY <1>3, <1>4

LEMMA WorkerKeepsCloser ==
    ASSUME IngestInv, NEW w \in Workers, WorkerStep(w), NEW i, NEW d, Away(i, d)
    PROVE  Closer(i, d) \/ Away(i, d)'
<1>1. ASSUME NEW k \in DOMAIN queue, queue[k].id = i, d = 7 + k
      PROVE  Closer(i, d) \/ Away(i, d)'
    <2>1. CASE Receive(w)
        BY <1>1, <2>1, ReceivedCloser
    <2>2. CASE ~Receive(w)
        <3>1. queue' = queue
            BY <2>2 DEF WorkerStep, Finish, HandleOther, BeginTopology, RejectTopology,
               StoreTopology, CommitTopology, FailTopology, ingestVars
        <3> QED BY <1>1, <3>1 DEF Away
    <2> QED BY <2>1, <2>2
<1>2. ASSUME NEW v \in Workers, Busy(v), worker[v].message.id = i, d = HandlerLeft(v)
      PROVE  Closer(i, d) \/ Away(i, d)'
    <2>1. CASE v = w
        BY <1>2, <2>1, OwnCloser
    <2>2. CASE v # w
        BY <1>2, <2>2, OtherMessages DEF Away
    <2> QED BY <2>1, <2>2
<1> QED BY <1>1, <1>2 DEF Away

LEMMA WorkerBringsCloser ==
    ASSUME IngestInv, NEW w \in Workers, WorkerStep(w), ~Finish(w)
    PROVE  \E i, d \in Nat : Away(i, d) /\ Closer(i, d)
<1>1. CASE Busy(w)
    <2>1. PICK i, d \in Nat : i = worker[w].message.id /\ d = HandlerLeft(w)
        BY <1>1, HandlerLeftNat
    <2>2. Away(i, d)
        BY <1>1, <2>1 DEF Away
    <2>3. Closer(i, d)
        BY <1>1, <2>1, OwnCloser
    <2> QED BY <2>2, <2>3
<1>2. CASE Receive(w)
    <2>1. 1 \in DOMAIN queue /\ queue[1] \in Message
        BY <1>2 DEF Receive, IngestInv, ReaderTypes
    <2>2. PICK i \in Nat : i = queue[1].id
        BY <2>1, IngestAssumption DEF Message, Nothing
    <2>3. Away(i, 7 + 1)
        BY <2>1, <2>2 DEF Away
    <2>4. Closer(i, 7 + 1) /\ 7 + 1 \in Nat
        BY <1>2, <2>1, <2>2, ReceivedCloser
    <2> QED BY <2>3, <2>4
<1>3. CASE ~Busy(w) /\ ~Receive(w)
    <2>1. tx[w].at = "none"
        BY <1>3 DEF Busy, IngestInv, WorkerTypes, Workers
    <2> QED BY <1>3, <2>1 DEF WorkerStep, HandleOther, RejectTopology, BeginTopology, Busy,
           StoreTopology, Statement, UpsertPtpClock, Upserting, Roles, Store!Roles, InsertObserved,
           InsertInferred, CommitTopology, Commit, FailTopology, AbortDeadlocked, Rollback
<1> QED BY <1>1, <1>2, <1>3

LEMMA OthersKeepCloser ==
    ASSUME IngestInv, ReaderStep \/ Cancel \/ StopSlider \/ UNCHANGED vars,
           NEW i, NEW d, Away(i, d)
    PROVE  Away(i, d)'
<1>1. worker' = worker /\ tx' = tx
    BY DEF ReaderStep, CheckContext, Read, ReadNothing, Send, Return, Cancel, StopSlider, vars,
           ingestVars, topologyVars
<1>2. \A w \in Workers : (Busy(w)' <=> Busy(w)) /\ HandlerLeft(w)' = HandlerLeft(w)
    BY <1>1 DEF Busy, HandlerLeft
<1>3. \A k \in DOMAIN queue : k \in DOMAIN queue' /\ queue'[k] = queue[k]
    <2>1. CASE Send
        BY <2>1 DEF Send, IngestInv, ReaderTypes
    <2>2. CASE ~Send
        <3>1. queue' = queue
            BY <2>2 DEF ReaderStep, CheckContext, Read, ReadNothing, Return, Cancel, StopSlider,
               vars, ingestVars
        <3> QED BY <3>1
    <2> QED BY <2>1, <2>2
<1> QED BY <1>1, <1>2, <1>3 DEF Away

LEMMA StepsGoForward ==
    ASSUME IngestInv, [Next]_vars
    PROVE  /\ \A i, d \in Nat : Away(i, d) => Closer(i, d) \/ Away(i, d)'
           /\ \A w \in Workers :
                WorkerStep(w) => Finish(w) \/ \E i, d \in Nat : Away(i, d) /\ Closer(i, d)
BY WorkerKeepsCloser, WorkerBringsCloser, OthersKeepCloser DEF Next

(* What the queue has accepted is never lost and never falls back, whatever is cancelled
   or fails: it only comes closer to being handled ... *)
THEOREM AcceptedOnlyComeCloser == Spec => NeverFurther
BY Invariant, StepsGoForward, PTL DEF Spec, NeverFurther

(* ... and no worker's step is for nothing: each brings a message closer. *)
THEOREM HandlingAdvances == Spec => WorkersBringCloser
BY Invariant, StepsGoForward, PTL DEF Spec, WorkersBringCloser
=============================================================================
