--------------------------- MODULE MCNodeRegistry ---------------------------
(* Two workers that meet one new host at the same time, or one worker with two hosts,
   so that a sweep of the watchdog can fail between them. *)
EXTENDS NodeRegistry

CONSTANTS w1, w2, h1, h2

MCDeployments == {[workers |-> {w1, w2}, hosts |-> {h1}], [workers |-> {w1}, hosts |-> {h1, h2}]}
=============================================================================
