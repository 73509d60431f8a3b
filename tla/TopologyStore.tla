---------------------------- MODULE TopologyStore ----------------------------
(***************************************************************************)
(* What the tables ptp_clocks and ptp_topology_edges promise: they change  *)
(* by whole snapshots, one after the other, as if no two were stored at    *)
(* the same time.  A snapshot says which clock a node has, which clock it  *)
(* follows, and the grandmaster at the top.                                *)
(***************************************************************************)
EXTENDS Naturals

CONSTANTS
    Identities,   \* clock identities
    NoIdentity,   \* the empty identity: the field is unknown
    Snapshots     \* the snapshots the nodes send

NoNode == 0                                       \* NULL in the column node_id
Roles  == {"local", "parent", "grandmaster"}

Snapshot == [node : Nat \ {0}, time : Nat, local : Identities \cup {NoIdentity},
             parent : Identities \cup {NoIdentity},
             grandmaster : Identities \cup {NoIdentity}]

VARIABLES
    clocks,   \* ptp_clocks by identity; kind "none" where there is no row
    edges     \* ptp_topology_edges

NoClock   == [node |-> NoNode, kind |-> "none"]
Exists(c) == clocks[c].kind # "none"

SameKey(e, f) == /\ e.time = f.time /\ e.kind = f.kind
                 /\ e.child = f.child /\ e.parent = f.parent

Edge(kind, s, child, parent) ==
    [time |-> s.time, kind |-> kind, child |-> child, parent |-> parent,
     grandmaster |-> s.grandmaster]

(* The links a snapshot tells of: its own, and that of its parent to the top. *)
Links(s) ==
    {e \in {Edge("observed", s, s.local, s.parent),
            Edge("inferred", s, s.parent, s.grandmaster)} :
        /\ e.parent # NoIdentity /\ e.child # NoIdentity /\ e.parent # e.child}

(* The highest role a snapshot gives a clock. *)
RoleIn(s, c) == IF c = s.grandmaster THEN "grandmaster"
                ELSE IF c = s.parent THEN "parent" ELSE "local"

Init ==
    /\ clocks = [c \in Identities |-> NoClock]
    /\ edges = {}

(* A whole snapshot.  Only its own clock is told its node; a clock known by another
   snapshot keeps the node it has.  The first link of a key stays. *)
Store(s) ==
    /\ s.local # NoIdentity
    /\ clocks' = [c \in Identities |->
         IF c \notin {s.local, s.parent, s.grandmaster} THEN clocks[c]
         ELSE [node |-> IF c = s.local THEN s.node ELSE clocks[c].node,
               kind |-> RoleIn(s, c)]]
    /\ edges' = edges \cup {e \in Links(s) : \A f \in edges : ~SameKey(e, f)}

Next == \E s \in Snapshots : Store(s)

Spec == Init /\ [][Next]_<<clocks, edges>>
=============================================================================
