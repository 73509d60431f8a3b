---------------------------- MODULE JobLifecycle ----------------------------
(***************************************************************************)
(* What reportd promises a client that polls GET /api/reports/{id}: the    *)
(* life of a report job as a sequence of visible states, without the       *)
(* table, the queue, the timers or the workers that produce it.            *)
(*                                                                         *)
(* A job is unknown until its request is accepted, then scheduled (a       *)
(* delayed request) or queued, then running, then done or failed.  The     *)
(* service keeps a bounded history, so a job may be forgotten at any time, *)
(* whatever its state; a forgotten job never comes back.                   *)
(***************************************************************************)

CONSTANT Job   \* every id the service may hand out

VARIABLE view  \* view[j]: what a lookup of j answers

Unfinished == {"scheduled", "queued", "running"}
Finished   == {"done", "failed"}
Visible    == Unfinished \cup Finished
ViewState  == Visible \cup {"unknown", "gone"}

Init == view = [j \in Job |-> "unknown"]

(* A new job becomes visible; making room for it may push others out. *)
Create(j) ==
    /\ view[j] = "unknown"
    /\ \E s \in {"scheduled", "queued"}, pushedOut \in SUBSET (Job \ {j}) :
        /\ \A k \in pushedOut : view[k] \in Visible
        /\ view' = [k \in Job |-> IF k = j THEN s
                                  ELSE IF k \in pushedOut THEN "gone"
                                  ELSE view[k]]

Move(j, from, to) ==
    /\ view[j] \in from
    /\ view' = [view EXCEPT ![j] = to]

Release(j) == Move(j, {"scheduled"}, "queued")
Run(j)     == Move(j, {"queued"}, "running")
Succeed(j) == Move(j, {"running"}, "done")

(* A job fails while it runs, or when its delay ends and no queue slot is free. *)
Fail(j)    == Move(j, {"queued", "running"}, "failed")

(* A report that expired, or a request refused after it became visible. *)
Forget(j)  == Move(j, {"queued", "done"}, "gone")

Next == \E j \in Job : \/ Create(j) \/ Release(j) \/ Run(j)
                       \/ Succeed(j) \/ Fail(j) \/ Forget(j)

Spec == Init /\ [][Next]_view
=============================================================================
