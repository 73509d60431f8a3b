------------------------------ MODULE MCIngest ------------------------------
(* Two workers and three clocks.  A follows B, B follows G; then B reports A at the
   top, which contradicts the first; and a snapshot without a local clock. *)
EXTENDS Ingest

CONSTANTS w1, w2, A, B, G, none

Snap(node, local, parent, grandmaster) ==
    [node |-> node, time |-> 1, local |-> local, parent |-> parent,
     grandmaster |-> grandmaster]

MCSnapshots == {Snap(1, A, B, G), Snap(2, B, G, G), Snap(2, B, G, A), Snap(2, none, none, G)}
=============================================================================
