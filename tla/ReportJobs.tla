----------------------------- MODULE ReportJobs -----------------------------
(***************************************************************************)
(* The report jobs of reportd: src/internal/reportd/service.go and the     *)
(* part of cleanup.go that drops jobs.                                     *)
(*                                                                         *)
(* Every source of requests (POST /api/reports, the Grafana webhook, the   *)
(* periodic reports) calls enqueue in a goroutine of its own; every        *)
(* delayed job has a timer goroutine that runs releaseScheduled; a fixed   *)
(* number of workers take ids from a buffered channel.  They share the     *)
(* table `jobs` and the list `jobOrder` under one mutex, and the channel   *)
(* without it.  The actions are split exactly where the code unlocks, so   *)
(* all the steps between an unlock and the channel operation interleave.   *)
(***************************************************************************)
EXTENDS Naturals, SequencesExt

CONSTANTS
    Workers,       \* the worker goroutines (Options.WorkerCount of them)
    Dirs,          \* report directories a finished job may point at
    NoDir,         \* a job whose ReportDir is still ""
    NoJob,         \* a worker that holds no job
    QueueSize,     \* capacity of the channel (Options.QueueSize)
    HistoryLimit,  \* jobs kept in the table, 500 in enqueue
    MaxJobs        \* bound: requests in one behaviour

JobId == 1..MaxJobs

ASSUME SizesAssumption ==
    /\ QueueSize \in Nat \ {0}
    /\ HistoryLimit \in Nat \ {0}
    /\ MaxJobs \in Nat

(* New starts one worker where the option asks for none. *)
ASSUME WorkersAssumption == Workers # {}

ASSUME NamesAssumption ==
    /\ NoDir \notin Dirs
    /\ NoJob \notin JobId

VARIABLES
    seq,        \* the last id drawn from the atomic counter
    delayed,    \* ids whose request carried a delay
    jobs,       \* the table: id -> status and report directory
    jobOrder,   \* ids of the table, newest first
    queue,      \* the channel of ids
    caller,     \* per id, where its enqueue or timer goroutine is
    worker,     \* per worker, where it is and the id it holds
    dropping,   \* directories dropJobsForDirs is looking for while it holds
                \* the mutex; {} when the mutex is free
    cancelled   \* the context of the service has been cancelled

vars == <<seq, delayed, jobs, jobOrder, queue, caller, worker, dropping, cancelled>>

-----------------------------------------------------------------------------
(* State *)

Status == {"scheduled", "queued", "running", "done", "failed"}

JobRecord == [status : Status, reportDir : Dirs \cup {NoDir}]

CallerStage == {"none",         \* the id has not been drawn
                "drawn",        \* drawn, the job not yet in the table
                "inserted",     \* in the table, neither sent nor armed
                "full",         \* the channel was full, job still in the table
                "armed",        \* the timer of a delayed job is running
                "releasing",    \* marked queued by the timer, not yet sent
                "releaseFull",  \* the channel was full when the timer sent
                "returned",     \* nothing left to do for this id
                "rejected"}     \* enqueue returned "report queue is full"

WorkerStage == {"idle", "claimed", "generating", "stopped"}

Init ==
    /\ seq = 0
    /\ delayed = {}
    /\ jobs = [id \in {} |-> [status |-> "queued", reportDir |-> NoDir]]
    /\ jobOrder = <<>>
    /\ queue = <<>>
    /\ caller = [id \in JobId |-> "none"]
    /\ worker = [w \in Workers |-> [at |-> "idle", job |-> NoJob]]
    /\ dropping = {}
    /\ cancelled = FALSE

-----------------------------------------------------------------------------
(* Helpers on the table and on the list, each run under the mutex *)

MutexFree == dropping = {}

QueueOverfills == Len(queue) <= QueueSize                       \* faulty variant
QueueHasRoom   == Len(queue) < QueueSize

Without(table, ids) == [id \in DOMAIN table \ ids |-> table[id]]

PastLimitPlusOne(order) == {order[i] : i \in (HistoryLimit + 2)..Len(order)} \* faulty variant

(* The ids past the first HistoryLimit of the list. *)
PastLimit(order) == {order[i] : i \in (HistoryLimit + 1)..Len(order)}

RemoveJobOrder(order, id) == RemoveFirst(order, id)

DeleteJob(id) ==
    /\ jobs' = Without(jobs, {id})
    /\ jobOrder' = RemoveJobOrder(jobOrder, id)

SetStatusOrInsert(id, status) ==                                 \* faulty variant
    jobs' = [k \in DOMAIN jobs \cup {id} |->
               IF k = id THEN [status |-> status, reportDir |-> NoDir] ELSE jobs[k]]

(* markJobFailed and markJobRunning do nothing for an id that has left the table. *)
SetStatus(id, status) ==
    jobs' = IF id \in DOMAIN jobs THEN [jobs EXCEPT ![id].status = status] ELSE jobs

-----------------------------------------------------------------------------
(* enqueue *)

DrawId ==
    /\ seq < MaxJobs
    /\ seq' = seq + 1
    /\ caller' = [caller EXCEPT ![seq'] = "drawn"]
    /\ delayed' \in {delayed, delayed \cup {seq'}}
    /\ UNCHANGED <<jobs, jobOrder, queue, worker, dropping, cancelled>>

NewJob(id) == [status |-> IF id \in delayed THEN "scheduled" ELSE "queued",
               reportDir |-> NoDir]

(* First critical section: insert at the front, then trimOldJobsLocked. *)
Insert(id) ==
    /\ MutexFree
    /\ caller[id] = "drawn"
    /\ LET order == <<id>> \o jobOrder
           all   == [k \in DOMAIN jobs \cup {id} |-> IF k = id THEN NewJob(id) ELSE jobs[k]]
       IN  /\ jobs' = Without(all, PastLimit(order))
           /\ jobOrder' = IF Len(order) <= HistoryLimit
                          THEN order ELSE SubSeq(order, 1, HistoryLimit)
    /\ caller' = [caller EXCEPT ![id] = "inserted"]
    /\ UNCHANGED <<seq, delayed, queue, worker, dropping, cancelled>>

(* time.AfterFunc for a delayed request; the caller gets its answer. *)
ArmTimer(id) ==
    /\ caller[id] = "inserted"
    /\ id \in delayed
    /\ caller' = [caller EXCEPT ![id] = "armed"]
    /\ UNCHANGED <<seq, delayed, jobs, jobOrder, queue, worker, dropping, cancelled>>

SendAndRetry(id, from, full) ==                                  \* faulty variant
    /\ caller[id] = from
    /\ IF QueueHasRoom THEN queue' = Append(queue, id) ELSE UNCHANGED queue
    /\ caller' = [caller EXCEPT ![id] = IF QueueHasRoom THEN from ELSE full]
    /\ UNCHANGED <<seq, delayed, jobs, jobOrder, worker, dropping, cancelled>>

SendWhenRoom(id, from, full) ==                                  \* faulty variant
    /\ caller[id] = from
    /\ QueueHasRoom
    /\ queue' = Append(queue, id)
    /\ caller' = [caller EXCEPT ![id] = "returned"]
    /\ UNCHANGED <<seq, delayed, jobs, jobOrder, worker, dropping, cancelled>>

(* The non-blocking send of a goroutine at stage `from`. *)
Send(id, from, full) ==
    /\ caller[id] = from
    /\ IF QueueHasRoom
       THEN /\ queue' = Append(queue, id)
            /\ caller' = [caller EXCEPT ![id] = "returned"]
       ELSE /\ caller' = [caller EXCEPT ![id] = full]
            /\ UNCHANGED queue
    /\ UNCHANGED <<seq, delayed, jobs, jobOrder, worker, dropping, cancelled>>

SendNew(id) == id \notin delayed /\ Send(id, "inserted", "full")

(* Second critical section of enqueue: take back what the first one added. *)
Reject(id) ==
    /\ MutexFree
    /\ caller[id] = "full"
    /\ DeleteJob(id)
    /\ caller' = [caller EXCEPT ![id] = "rejected"]
    /\ UNCHANGED <<seq, delayed, queue, worker, dropping, cancelled>>

-----------------------------------------------------------------------------
(* releaseScheduled, in the goroutine of the timer *)

Release(id) ==
    /\ MutexFree
    /\ caller[id] = "armed"
    /\ IF id \in DOMAIN jobs /\ jobs[id].status = "scheduled"
       THEN /\ SetStatus(id, "queued")
            /\ caller' = [caller EXCEPT ![id] = "releasing"]
       ELSE /\ caller' = [caller EXCEPT ![id] = "returned"]
            /\ UNCHANGED jobs
    /\ UNCHANGED <<seq, delayed, jobOrder, queue, worker, dropping, cancelled>>

SendReleased(id) == Send(id, "releasing", "releaseFull")

ForgetReleased(id) ==                                            \* faulty variant
    /\ caller[id] = "releaseFull"
    /\ caller' = [caller EXCEPT ![id] = "returned"]
    /\ UNCHANGED <<seq, delayed, jobs, jobOrder, queue, worker, dropping, cancelled>>

FailReleased(id) ==
    /\ MutexFree
    /\ caller[id] = "releaseFull"
    /\ SetStatus(id, "failed")
    /\ caller' = [caller EXCEPT ![id] = "returned"]
    /\ UNCHANGED <<seq, delayed, jobOrder, queue, worker, dropping, cancelled>>

-----------------------------------------------------------------------------
(* worker and runJob *)

Receive(w) ==
    /\ worker[w].at = "idle"
    /\ queue # <<>>
    /\ worker' = [worker EXCEPT ![w] = [at |-> "claimed", job |-> Head(queue)]]
    /\ queue' = Tail(queue)
    /\ UNCHANGED <<seq, delayed, jobs, jobOrder, caller, dropping, cancelled>>

Idle == [at |-> "idle", job |-> NoJob]

(* markJobRunning: a job that left the table while it waited is skipped. *)
MarkJobRunning(w) ==
    /\ MutexFree
    /\ worker[w].at = "claimed"
    /\ LET id == worker[w].job
       IN  /\ SetStatus(id, "running")
           /\ worker' = [worker EXCEPT ![w] =
                           IF id \in DOMAIN jobs THEN [at |-> "generating", job |-> id]
                                                 ELSE Idle]
    /\ UNCHANGED <<seq, delayed, jobOrder, queue, caller, dropping, cancelled>>

MarkJobDoneNowhere(w) ==                                         \* faulty variant
    /\ MutexFree
    /\ worker[w].at = "generating"
    /\ SetStatus(worker[w].job, "done")
    /\ worker' = [worker EXCEPT ![w] = Idle]
    /\ UNCHANGED <<seq, delayed, jobOrder, queue, caller, dropping, cancelled>>

(* The report was written to d; nothing is recorded if the job is gone. *)
MarkJobDone(w) ==
    /\ MutexFree
    /\ worker[w].at = "generating"
    /\ LET id == worker[w].job
       IN  \E d \in Dirs :
               jobs' = IF id \in DOMAIN jobs
                       THEN [jobs EXCEPT ![id] = [status |-> "done", reportDir |-> d]]
                       ELSE jobs
    /\ worker' = [worker EXCEPT ![w] = Idle]
    /\ UNCHANGED <<seq, delayed, jobOrder, queue, caller, dropping, cancelled>>

(* A bad group list, an error of report.Generate, the job timeout, a cancelled context. *)
MarkJobFailed(w) ==
    /\ MutexFree
    /\ worker[w].at = "generating"
    /\ SetStatus(worker[w].job, "failed")
    /\ worker' = [worker EXCEPT ![w] = Idle]
    /\ UNCHANGED <<seq, delayed, jobOrder, queue, caller, dropping, cancelled>>

StopWorkerEarly(w) ==                                            \* faulty variant
    /\ worker[w].at = "idle"
    /\ worker' = [worker EXCEPT ![w].at = "stopped"]
    /\ UNCHANGED <<seq, delayed, jobs, jobOrder, queue, caller, dropping, cancelled>>

(* select chooses freely between a cancelled context and a waiting id. *)
StopWorker(w) ==
    /\ worker[w].at = "idle"
    /\ cancelled
    /\ worker' = [worker EXCEPT ![w].at = "stopped"]
    /\ UNCHANGED <<seq, delayed, jobs, jobOrder, queue, caller, dropping, cancelled>>

Cancel ==
    /\ ~cancelled
    /\ cancelled' = TRUE
    /\ UNCHANGED <<seq, delayed, jobs, jobOrder, queue, caller, worker, dropping>>

-----------------------------------------------------------------------------
(* dropJobsForDirs: one loop iteration at a time, the mutex held throughout *)

NotElsewhere(id, removed) == jobs[id].reportDir \notin Dirs \ removed \* faulty variant

InDirs(id, removed) == jobs[id].reportDir \in removed

(* A call that finds no job changes nothing and is not a step. *)
BeginDrop ==
    /\ MutexFree
    /\ \E removed \in SUBSET Dirs :
        /\ \E id \in DOMAIN jobs : InDirs(id, removed)
        /\ dropping' = removed
    /\ UNCHANGED <<seq, delayed, jobs, jobOrder, queue, caller, worker, cancelled>>

DropJob(id) ==
    /\ id \in DOMAIN jobs
    /\ InDirs(id, dropping)
    /\ DeleteJob(id)
    /\ dropping' = IF \E k \in DOMAIN jobs \ {id} : InDirs(k, dropping)
                   THEN dropping ELSE {}
    /\ UNCHANGED <<seq, delayed, queue, caller, worker, cancelled>>

-----------------------------------------------------------------------------

CallerStep(id) == \/ Insert(id) \/ ArmTimer(id) \/ SendNew(id) \/ Reject(id)
                  \/ Release(id) \/ SendReleased(id) \/ FailReleased(id)

WorkerStep(w) == \/ Receive(w) \/ MarkJobRunning(w) \/ MarkJobDone(w)
                 \/ MarkJobFailed(w) \/ StopWorker(w)

DropStep == \E id \in JobId : DropJob(id)

Next == \/ DrawId
        \/ Cancel
        \/ BeginDrop
        \/ DropStep
        \/ \E id \in JobId : CallerStep(id)
        \/ \E w \in Workers : WorkerStep(w)

Spec == Init /\ [][Next]_vars

(* The Go scheduler runs every goroutine, a timer fires, and a report ends by
   the JobTimeout of its context at the latest.  Requests, the cancellation
   and the cleanup are never forced. *)
Fairness == /\ WF_vars(DropStep)
            /\ \A id \in JobId : WF_vars(CallerStep(id))
            /\ \A w \in Workers : WF_vars(WorkerStep(w))

FairSpec == Spec /\ Fairness

-----------------------------------------------------------------------------
(* Properties *)

(* Every variable keeps its shape, and the channel its capacity. *)
TypeOK ==
    /\ seq \in 0..MaxJobs
    /\ delayed \subseteq JobId
    /\ DOMAIN jobs \subseteq JobId
    /\ jobs \in [DOMAIN jobs -> JobRecord]
    /\ jobOrder \in Seq(JobId)
    /\ queue \in Seq(JobId)
    /\ Len(queue) <= QueueSize
    /\ caller \in [JobId -> CallerStage]
    /\ worker \in [Workers -> [at : WorkerStage, job : JobId \cup {NoJob}]]
    /\ dropping \subseteq Dirs
    /\ cancelled \in BOOLEAN

(* GET /api/reports lists jobOrder and GET /api/reports/{id} looks jobs up: at
   every unlock, and at every iteration of dropJobsForDirs, the list holds each
   job of the table exactly once and no other, and at most HistoryLimit of them,
   although requests insert, refuse, trim and drop jobs in any order. *)
TableMatchesOrder ==
    /\ IsInjective(jobOrder)
    /\ ToSet(jobOrder) = DOMAIN jobs
    /\ Len(jobOrder) <= HistoryLimit

Holds(w, id) == worker[w].job = id

CallerPending == {"inserted", "full", "armed", "releasing", "releaseFull"}

(* Whoever still has to act for a job is unique: its request or timer goroutine,
   one slot of the channel, or one worker.  So no job is generated twice, by two
   workers or one after the other, and nobody acts for a job that is finished. *)
OneCarrier ==
    /\ IsInjective(queue)
    /\ \A id \in ToSet(queue) : caller[id] = "returned"
    /\ \A w \in Workers : \A id \in JobId : Holds(w, id) =>
        /\ caller[id] = "returned"
        /\ id \notin ToSet(queue)
        /\ \A v \in Workers : Holds(v, id) => v = w

(* No job of the table is orphaned: while its status says that something is
   still to happen, the goroutine, channel slot or worker that will make it
   happen exists, and the status names the right one. *)
NoOrphan ==
    \A id \in DOMAIN jobs :
        LET status == jobs[id].status
        IN  /\ caller[id] \in CallerPending \cup {"returned"}
            /\ status = "scheduled" <=>
                   caller[id] = "armed" \/ (caller[id] = "inserted" /\ id \in delayed)
            /\ status = "queued" <=>
                   \/ caller[id] \in {"full", "releasing", "releaseFull"}
                   \/ caller[id] = "inserted" /\ id \notin delayed
                   \/ id \in ToSet(queue)
                   \/ \E w \in Workers : worker[w] = [at |-> "claimed", job |-> id]
            /\ status = "running" <=>
                   \E w \in Workers : worker[w] = [at |-> "generating", job |-> id]

(* The counter has handed out exactly the ids that are in use, a worker holds an
   id exactly between its receive and the end of runJob, and a job names a report
   directory exactly when it is done: the jobs activeReportDirs wants to protect
   from the cleanup (scheduled, queued or running) never name one. *)
Bookkeeping ==
    /\ \A id \in JobId : caller[id] = "none" <=> id > seq
    /\ \A w \in Workers : worker[w].job = NoJob <=> worker[w].at \in {"idle", "stopped"}
    /\ \A id \in DOMAIN jobs : jobs[id].reportDir = NoDir <=> jobs[id].status # "done"

(* What a lookup of each id answers. *)
view == [id \in JobId |-> IF id \in DOMAIN jobs THEN jobs[id].status
                          ELSE IF caller[id] \in {"none", "drawn"} THEN "unknown"
                          ELSE "gone"]

Lifecycle == INSTANCE JobLifecycle WITH Job <- JobId

(* Trims, refusals, timers and late workers never show a client anything but the
   life of a job: no finished job runs again, no forgotten id comes back, no
   status is skipped. *)
ImplementsLifecycle == Lifecycle!Spec

(* A job that is not finished leaves the table for one of two reasons only: its
   own request is refused, or it is the oldest of a full table at the moment a
   newer job is inserted. *)
UnfinishedLeavesOnlyWhenPushedOut ==
    [][ \A id \in DOMAIN jobs \ DOMAIN jobs' :
          jobs[id].status \in Lifecycle!Unfinished =>
            \/ caller[id] = "full" /\ caller'[id] = "rejected"
            \/ /\ Len(jobOrder) = HistoryLimit
               /\ id = Last(jobOrder)
               /\ Head(jobOrder') \notin DOMAIN jobs ]_vars

(* Every job the service took on ends, or is pushed out of the history, unless
   the service is cancelled: no timer, channel slot or worker is lost. *)
JobsEnd ==
    \A id \in JobId :
        view[id] \in Lifecycle!Unfinished
            ~> view[id] \in Lifecycle!Finished \cup {"gone"} \/ cancelled
=============================================================================
