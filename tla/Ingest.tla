------------------------------- MODULE Ingest -------------------------------
(***************************************************************************)
(* App.Run of src/internal/app/app.go with the ZeroMQ adapter below it and *)
(* the topology transactions above it: one reader, a bounded channel that  *)
(* drops what does not fit, workers that handle messages until the channel *)
(* is closed and empty, and a shutdown that waits for all of them.         *)
(*                                                                         *)
(* Messages are topology snapshots and others; what the handlers of the    *)
(* others do is in NodeRegistry and BatchBuffer, and so is the resolution  *)
(* of the node.  The slider, which Run also waits for, is one goroutine    *)
(* that returns some time after the end of the context.                    *)
(***************************************************************************)
EXTENDS PtpTopology, Sequences, FiniteSets

CONSTANTS
    QueueSize,   \* cfg.Worker.QueueSize, the capacity of msgCh
    MaxReads,    \* bound: messages that arrive
    MaxFaults    \* bound: calls of the storage that fail

ASSUME IngestAssumption ==
    /\ IsFiniteSet(Sessions)
    /\ QueueSize \in Nat \ {0}
    /\ MaxReads \in Nat
    /\ MaxFaults \in Nat

Workers == Sessions

VARIABLES
    cancelled,   \* the context of Run is done
    reader,      \* where the loop of Run is
    reads,       \* messages read; the number of a message is its id
    held,        \* the message the reader has in hand
    queue,       \* msgCh
    closed,      \* msgCh is closed
    worker,      \* per worker, where it is, and with which message
    slider,      \* the goroutine of the slider still runs
    handled,     \* history: ids whose handler returned
    faults

ingestVars == <<cancelled, reader, reads, held, queue, closed, worker, slider, handled, faults>>
vars == <<topologyVars, ingestVars>>

Other   == NoSnapshot                 \* a message that is not a topology snapshot
Bodies  == Snapshots \cup {Other}
Nothing == [id |-> 0, body |-> Other]
Waiting == [at |-> "idle", message |-> Nothing]

Init ==
    /\ TopologyInit
    /\ cancelled = FALSE
    /\ reader = "select"
    /\ reads = 0
    /\ held = Nothing
    /\ queue = <<>>
    /\ closed = FALSE
    /\ worker = [w \in Workers |-> Waiting]
    /\ slider = TRUE
    /\ handled = {}
    /\ faults = 0

-----------------------------------------------------------------------------
(* The loop of Run *)

LeaveOpen == FALSE                                                    \* faulty variant
CloseQueue == cancelled

(* The select of Run: stop at the end of the context, or read on. *)
CheckContext ==
    /\ reader = "select"
    /\ reader' = IF cancelled THEN "wait" ELSE "read"
    /\ closed' = CloseQueue
    /\ UNCHANGED <<topologyVars, cancelled, reads, held, queue, worker, slider, handled, faults>>

Read ==
    /\ reader = "read"
    /\ reads < MaxReads
    /\ reads' = reads + 1
    /\ \E b \in Bodies : held' = [id |-> reads', body |-> b]
    /\ reader' = "send"
    /\ UNCHANGED <<topologyVars, cancelled, queue, closed, worker, slider, handled, faults>>

(* Read timed out or failed, or what it read cannot be decoded: continue.  Only Close
   terminates the socket's context, and the adapter wraps every error, so none is
   recognised as ETERM and the context of Run alone ends the loop. *)
ReadNothing ==
    /\ reader = "read"
    /\ reader' = "select"
    /\ UNCHANGED <<topologyVars, cancelled, reads, held, queue, closed, worker, slider, handled,
                   faults>>

HasRoomForOneMore == Len(queue) <= QueueSize                          \* faulty variant
HasRoom == Len(queue) < QueueSize

(* The non-blocking send: a message that finds the queue full is dropped. *)
Send ==
    /\ reader = "send"
    /\ queue' = IF HasRoom THEN Append(queue, held) ELSE queue
    /\ held' = Nothing
    /\ reader' = "select"
    /\ UNCHANGED <<topologyVars, cancelled, reads, closed, worker, slider, handled, faults>>

(* wg.Wait and the return. *)
Return ==
    /\ reader = "wait"
    /\ \A w \in Workers : worker[w].at = "done"
    /\ ~slider
    /\ reader' = "returned"
    /\ UNCHANGED <<topologyVars, cancelled, reads, held, queue, closed, worker, slider, handled,
                   faults>>

ReaderStep == CheckContext \/ Read \/ ReadNothing \/ Send \/ Return

Cancel ==
    /\ ~cancelled
    /\ cancelled' = TRUE
    /\ UNCHANGED <<topologyVars, reader, reads, held, queue, closed, worker, slider, handled,
                   faults>>

StopSlider ==
    /\ cancelled /\ slider
    /\ slider' = FALSE
    /\ UNCHANGED <<topologyVars, cancelled, reader, reads, held, queue, closed, worker, handled,
                   faults>>

-----------------------------------------------------------------------------
(* A worker *)

Receive(w) ==
    /\ worker[w].at = "idle"
    /\ queue # <<>>
    /\ worker' = [worker EXCEPT ![w] = [at |-> "handle", message |-> Head(queue)]]
    /\ queue' = Tail(queue)
    /\ UNCHANGED <<topologyVars, cancelled, reader, reads, held, closed, slider, handled, faults>>

LeaveWhenClosed == closed                                             \* faulty variant
Drained == closed /\ queue = <<>>

(* The range over the channel ends when it is closed and empty. *)
Finish(w) ==
    /\ worker[w].at = "idle"
    /\ Drained
    /\ worker' = [worker EXCEPT ![w].at = "done"]
    /\ UNCHANGED <<topologyVars, cancelled, reader, reads, held, queue, closed, slider, handled,
                   faults>>

(* The handler of the message returns, whether or not it stored anything. *)
Handled(w) ==
    /\ worker' = [worker EXCEPT ![w] = Waiting]
    /\ handled' = handled \cup {worker[w].message.id}

(* Storage calls fail now and then, and all of them once the context is done. *)
MayFail == \/ cancelled /\ UNCHANGED faults
           \/ faults < MaxFaults /\ faults' = faults + 1

HandleOther(w) ==
    /\ worker[w].at = "handle"
    /\ worker[w].message.body = Other
    /\ Handled(w)
    /\ UNCHANGED <<topologyVars, cancelled, reader, reads, held, queue, closed, slider, faults>>

(* handlePtpTopology with a node that is resolved: the transaction begins. *)
BeginTopology(w) ==
    /\ worker[w].at = "handle"
    /\ worker[w].message.body # Other
    /\ ~cancelled
    /\ Begin(w, worker[w].message.body)
    /\ worker' = [worker EXCEPT ![w].at = "store"]
    /\ UNCHANGED <<cancelled, reader, reads, held, queue, closed, slider, handled, faults>>

(* The local identity is empty, or the node cannot be resolved, or Begin fails. *)
RejectTopology(w) ==
    /\ worker[w].at = "handle"
    /\ worker[w].message.body # Other
    /\ \/ worker[w].message.body.local = NoIdentity /\ UNCHANGED faults
       \/ MayFail
    /\ Handled(w)
    /\ UNCHANGED <<topologyVars, cancelled, reader, reads, held, queue, closed, slider>>

StoreTopology(w) ==
    /\ ~cancelled
    /\ Statement(w)
    /\ UNCHANGED ingestVars

(* A commit may be under way when the context ends. *)
CommitTopology(w) ==
    /\ Commit(w)
    /\ Handled(w)
    /\ UNCHANGED <<cancelled, reader, reads, held, queue, closed, slider, faults>>

FailTopology(w) ==
    /\ \/ MayFail /\ Rollback(w)
       \/ AbortDeadlocked(w) /\ UNCHANGED faults
    /\ Handled(w)
    /\ UNCHANGED <<cancelled, reader, reads, held, queue, closed, slider>>

WorkerStep(w) ==
    \/ Receive(w) \/ Finish(w) \/ HandleOther(w) \/ BeginTopology(w) \/ RejectTopology(w)
    \/ StoreTopology(w) \/ CommitTopology(w) \/ FailTopology(w)

Next == ReaderStep \/ Cancel \/ StopSlider \/ \E w \in Workers : WorkerStep(w)

Spec == Init /\ [][Next]_vars

(* The socket has a receive timeout, so Read returns; statements return, or wait for
   a lock until its holder ends or the server aborts one of a cycle; the slider sees
   the end of the context.  Nothing forces a cancellation or a message. *)
Fairness == /\ WF_vars(ReaderStep)
            /\ WF_vars(StopSlider)
            /\ \A w \in Workers : WF_vars(WorkerStep(w))

FairSpec == Spec /\ Fairness

-----------------------------------------------------------------------------
(* Properties *)

Message == [id : 1..MaxReads, body : Bodies] \cup {Nothing}
Queued  == {queue[i].id : i \in DOMAIN queue}

(* Every variable keeps its shape; the queue stays within its capacity; a message has
   one place, and a worker has a transaction exactly while it stores a snapshot. *)
IngestTypeOK ==
    /\ TopologyTypeOK
    /\ cancelled \in BOOLEAN
    /\ reader \in {"select", "read", "send", "wait", "returned"}
    /\ reads \in 0..MaxReads
    /\ held \in Message
    /\ queue \in Seq(Message)
    /\ Len(queue) <= QueueSize
    /\ closed \in BOOLEAN
    /\ worker \in [Workers -> [at : {"idle", "handle", "store", "done"}, message : Message]]
    /\ \A w \in Workers : worker[w].at = "store" <=> tx[w].at # "none"
    /\ slider \in BOOLEAN
    /\ handled \subseteq 1..reads
    /\ Cardinality(Queued) = Len(queue)
    /\ Queued \cap handled = {}
    /\ faults \in 0..MaxFaults

(* What the queue accepted is handled, also when the context ends: the workers drain
   the closed channel, and no transaction waits for ever. *)
AcceptedHandled == \A i \in 1..MaxReads : i \in Queued ~> i \in handled

(* A cancelled Run returns: the reader does not sit in Read, the workers do not sit in
   the channel or in a lock. *)
RunReturns == cancelled ~> reader = "returned"
=============================================================================
