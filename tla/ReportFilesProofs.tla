------------------------- MODULE ReportFilesProofs -------------------------
(***************************************************************************)
(* Proofs about ReportFiles, for any workers, times and number of          *)
(* requests, on top of those about ReportJobs: what a finished report and  *)
(* one being written have on disk when every request has a period of its   *)
(* own.  The runs show what two requests for one period do.                *)
(***************************************************************************)
EXTENDS ReportFiles, ReportJobsProofs

OwnDirs == \A i, j \in JobId : DirOf[i] = DirOf[j] => i = j

GenState     == [stage : GenStage, since : 0..MaxTime]
CleanerState == [at : {"idle", "active", "scan", "remove"}, start : Nat, todo : SUBSET Dirs,
                 busy : SUBSET Dirs, removed : SUBSET Dirs, dir : Dirs \cup {NoDir}]

DiskTypes ==
    /\ clock \in 0..MaxTime
    /\ DOMAIN dirs \subseteq Dirs
    /\ \A d \in DOMAIN dirs : dirs[d] \in 0..clock
    /\ csv \in [Dirs -> JobId \cup {NoJob}]
    /\ pdf \in [Dirs -> [job : JobId \cup {NoJob}, at : 0..MaxTime]]
    /\ \A d \in Dirs \ DOMAIN dirs : csv[d] = NoJob /\ pdf[d] = NoPdf

(* A worker has a report in progress exactly while its job is generated, and none is
   older than the timeout. *)
GenTypes ==
    /\ gen \in [Workers -> GenState]
    /\ \A w \in Workers :
        /\ gen[w].stage # "none" <=> worker[w].at = "generating"
        /\ gen[w].stage = "none" => gen[w] = NoGen
        /\ gen[w].stage # "none" => gen[w].since <= clock /\ clock <= gen[w].since + JobTimeout

CleanerTypes ==
    /\ cleaner \in CleanerState
    /\ cleaner.start <= clock
    /\ cleaner.at = "idle" => cleaner.removed = {}
    /\ cleaner.at = "remove" => cleaner.dir \in Dirs

FilesTypes == DiskTypes /\ GenTypes /\ CleanerTypes

-----------------------------------------------------------------------------
(* When every request has a directory of its own *)

Writing(w) == gen[w].stage \in {"dir", "csv", "pdf"}

(* The report of id has come to its directory, and no other run of it can come. *)
Begun(id) ==
    /\ caller[id] = "returned"
    /\ id \notin ToSet(queue)
    /\ \A w \in Workers : worker[w].job = id => Writing(w)

DirsBegun == \A id \in JobId : DirOf[id] \in DOMAIN dirs => Begun(id)

(* What a report in progress has on disk; its directory is no older than its start. *)
WritersFiles ==
    \A w \in Workers : Writing(w) =>
        LET d == DirOfWorker(w)
        IN  /\ d \in DOMAIN dirs
            /\ gen[w].since <= dirs[d]
            /\ gen[w].stage # "pdf" => pdf[d] = NoPdf
            /\ gen[w].stage # "dir" => csv[d] = worker[w].job
            /\ gen[w].stage = "pdf" => pdf[d].job = worker[w].job

(* A directory is as old as its PDF at most, and what is about to be removed is old. *)
AgesRight ==
    /\ \A d \in DOMAIN dirs : pdf[d] # NoPdf => pdf[d].at <= dirs[d]
    /\ cleaner.at = "remove" =>
         cleaner.dir \in DOMAIN dirs /\ dirs[cleaner.dir] + ReportTTL < cleaner.start

DoneFiles ==
    \A id \in DOMAIN jobs : jobs[id].status = "done" =>
        /\ jobs[id].reportDir = DirOf[id]
        /\ \/ csv[DirOf[id]] = id /\ pdf[DirOf[id]].job = id
           \/ DirOf[id] \in Removed
           \/ cancelled

DiskInv == DirsBegun /\ WritersFiles /\ AgesRight /\ DoneFiles

FilesInv == IInv /\ FilesTypes /\ (OwnDirs => DiskInv)

-----------------------------------------------------------------------------
(* Every step is a step of the job service or leaves it alone. *)
LEMMA ServiceStep == [FilesNext]_allVars => [Next]_vars
BY DEF FilesNext, JobStep, Tick, CleanerStep, StartCleanup, ReadActive, CheckEntry, RemoveEntry,
       EndCleanup, AbortCleanup, GenStep, RunJob, MakeDir, WriteCsv, WritePdf, FinishJob, FailJob,
       allVars, Next, WorkerStep

(* What is over for a job stays over: its caller has returned, and neither the channel
   nor an idle worker has it. *)
Settled(id) == caller[id] = "returned" /\ id \notin ToSet(queue)

(* The steps of the job service that files do not see: no report begins or ends, no job
   becomes done, what is settled stays so, and a drop ends when all its jobs are gone. *)
StepsAside ==
    /\ \A id \in DOMAIN jobs' : jobs'[id].status = "done" => id \in DOMAIN jobs /\ jobs'[id] = jobs[id]
    /\ \A id \in JobId : Settled(id) => Settled(id)'
    /\ \A id \in JobId, w \in Workers :
         Settled(id) /\ worker'[w].job = id => worker'[w] = worker[w]
    /\ \A w \in Workers : worker[w].at = "generating" \/ worker'[w].at = "generating"
                            => worker'[w] = worker[w]
    /\ \/ dropping' = dropping
       \/ \A id \in DOMAIN jobs' : jobs'[id].reportDir \notin dropping
    /\ cancelled => cancelled'
    /\ IInv'

LEMMA JobStepAside == ASSUME IInv, JobStep PROVE StepsAside
<1> USE NamesAssumption
<1>1. /\ caller \in [JobId -> CallerStage]
      /\ worker \in [Workers -> [at : WorkerStage, job : JobId \cup {NoJob}]]
      /\ queue \in Seq(JobId) /\ DOMAIN jobs \subseteq JobId /\ jobs \in [DOMAIN jobs -> JobRecord]
      /\ seq \in 0..MaxJobs
    BY DEF IInv, TypeOK
<1>2. IInv'
    <2>1. [FilesNext]_allVars
        BY DEF FilesNext
    <2> QED BY <2>1, ServiceStep, NextKeeps
<1>3. CASE DrawId
    <2>1. /\ caller' = [caller EXCEPT ![seq + 1] = "drawn"]
          /\ UNCHANGED <<jobs, jobOrder, queue, worker, dropping, cancelled>>
          /\ seq + 1 \in JobId
        BY <1>1, <1>3, SizesAssumption DEF DrawId, JobId
    <2>2. caller[seq + 1] = "none"
        BY <1>1, <2>1 DEF IInv, Bookkeeping
    <2> QED BY <1>1, <1>2, <2>1, <2>2 DEF StepsAside, Settled
<1>4. CASE Cancel
    BY <1>2, <1>4 DEF Cancel, StepsAside, Settled
<1>5. ASSUME NEW id \in JobId, DropJob(id) PROVE StepsAside
    <2>1. /\ DOMAIN jobs' = DOMAIN jobs \ {id}
          /\ \A k \in DOMAIN jobs' : jobs'[k] = jobs[k]
        BY <1>5, DeleteFacts DEF DropJob
    <2>2. \/ dropping' = dropping
          \/ \A k \in DOMAIN jobs' : jobs'[k].reportDir \notin dropping
        BY <1>5, <2>1 DEF DropJob, InDirs
    <2>3. UNCHANGED <<caller, queue, worker, cancelled>>
        BY <1>5 DEF DropJob
    <2> QED BY <1>2, <2>1, <2>2, <2>3 DEF StepsAside, Settled
<1>6. ASSUME NEW id \in JobId, Insert(id) PROVE StepsAside
    <2>1. \A k \in DOMAIN jobs' : \/ k \in DOMAIN jobs /\ jobs'[k] = jobs[k]
                                  \/ jobs'[k].status \in {"scheduled", "queued"}
        BY <1>6 DEF Insert, Without, NewJob
    <2>2. /\ caller[id] = "drawn" /\ caller' = [caller EXCEPT ![id] = "inserted"]
          /\ UNCHANGED <<queue, worker, dropping, cancelled>>
        BY <1>6 DEF Insert
    <2> QED BY <1>1, <1>2, <2>1, <2>2 DEF StepsAside, Settled
<1>7. ASSUME NEW id \in JobId, ArmTimer(id) PROVE StepsAside
    BY <1>1, <1>2, <1>7 DEF ArmTimer, StepsAside, Settled
<1>8. ASSUME NEW id \in JobId, NEW from \in {"inserted", "releasing"}, NEW full,
             full \in {"full", "releaseFull"}, Send(id, from, full)
      PROVE  StepsAside
    <2>1. /\ caller[id] = from /\ from # "returned"
          /\ \A k \in JobId \ {id} : caller'[k] = caller[k]
          /\ UNCHANGED <<jobs, worker, dropping, cancelled>>
        BY <1>1, <1>8 DEF Send
    <2>2. ToSet(queue') \subseteq ToSet(queue) \cup {id}
        <3>1. CASE queue' = Append(queue, id)
            BY <1>1, <3>1 DEF ToSet
        <3>2. CASE queue' = queue
            BY <3>2
        <3> QED BY <1>8, <3>1, <3>2 DEF Send
    <2> QED BY <1>2, <2>1, <2>2 DEF StepsAside, Settled
<1>9. ASSUME NEW id \in JobId, Reject(id) PROVE StepsAside
    <2>1. /\ DOMAIN jobs' = DOMAIN jobs \ {id}
          /\ \A k \in DOMAIN jobs' : jobs'[k] = jobs[k]
        BY <1>9, DeleteFacts DEF Reject
    <2>2. /\ caller[id] = "full" /\ caller' = [caller EXCEPT ![id] = "rejected"]
          /\ UNCHANGED <<queue, worker, dropping, cancelled>>
        BY <1>9 DEF Reject
    <2> QED BY <1>1, <1>2, <2>1, <2>2 DEF StepsAside, Settled
<1>10. ASSUME NEW id \in JobId, Release(id) \/ FailReleased(id) PROVE StepsAside
    <2>1. /\ caller[id] \in {"armed", "releaseFull"}
          /\ \A k \in JobId \ {id} : caller'[k] = caller[k]
          /\ UNCHANGED <<queue, worker, dropping, cancelled>>
        BY <1>1, <1>10 DEF Release, FailReleased
    <2>2. \/ jobs' = jobs
          \/ SetStatus(id, "queued")
          \/ SetStatus(id, "failed")
        BY <1>10 DEF Release, FailReleased
    <2>3. \A k \in DOMAIN jobs' : jobs'[k].status = "done" => k \in DOMAIN jobs /\ jobs'[k] = jobs[k]
        BY <1>1, <2>2 DEF SetStatus, JobRecord
    <2> QED BY <1>2, <2>1, <2>3 DEF StepsAside, Settled
<1>11. ASSUME NEW w \in Workers, Receive(w) PROVE StepsAside
    <2>1. /\ worker[w].at = "idle" /\ queue # <<>>
          /\ worker' = [worker EXCEPT ![w] = [at |-> "claimed", job |-> Head(queue)]]
          /\ queue' = Tail(queue)
          /\ UNCHANGED <<jobs, caller, dropping, cancelled>>
        BY <1>11 DEF Receive
    <2>2. Head(queue) \in ToSet(queue) /\ ToSet(Tail(queue)) \subseteq ToSet(queue)
        BY <1>1, <2>1 DEF ToSet
    <2>3. \A v \in Workers : worker'[v] = IF v = w THEN [at |-> "claimed", job |-> Head(queue)]
                                         ELSE worker[v]
        BY <1>1, <2>1
    <2> QED BY <1>2, <2>1, <2>2, <2>3 DEF StepsAside, Settled
<1>12. ASSUME NEW w \in Workers, StopWorker(w) PROVE StepsAside
    <2>1. /\ worker[w].at = "idle" /\ worker'[w].at = "stopped" /\ worker'[w].job = worker[w].job
          /\ \A v \in Workers \ {w} : worker'[v] = worker[v]
          /\ UNCHANGED <<jobs, queue, caller, dropping, cancelled>>
        BY <1>1, <1>12 DEF StopWorker
    <2>2. worker[w].job = NoJob
        BY <2>1 DEF IInv, Bookkeeping
    <2> QED BY <1>2, <2>1, <2>2 DEF StepsAside, Settled
<1>13. CASE \E id \in JobId : CallerStep(id)
    BY <1>6, <1>7, <1>8, <1>9, <1>10, <1>13 DEF CallerStep, SendNew, SendReleased
<1> QED BY <1>3, <1>4, <1>5, <1>11, <1>12, <1>13 DEF JobStep, DropStep

-----------------------------------------------------------------------------
(* Types *)

LEMMA InitFilesTypes == FilesInit => FilesTypes
<1> SUFFICES ASSUME FilesInit PROVE FilesTypes
    OBVIOUS
<1> USE FilesAssumption
<1>1. DiskTypes
    BY DEF FilesInit, DiskTypes, NoPdf
<1>2. GenTypes
    <2>1. NoGen \in GenState /\ NoGen.stage = "none"
        BY DEF NoGen, GenState, GenStage
    <2> QED BY <2>1 DEF FilesInit, Init, GenTypes
<1>3. CleanerTypes
    BY DEF FilesInit, CleanerTypes, CleanerState, NotCleaning
<1> QED BY <1>1, <1>2, <1>3 DEF FilesTypes

(* The reports in progress: a worker starts, goes on with or ends one. *)
LEMMA GenFacts ==
    ASSUME GenTypes, DiskTypes, NEW w \in Workers, NEW g \in GenState,
           gen' = [gen EXCEPT ![w] = g], UNCHANGED clock,
           \A v \in Workers \ {w} : worker'[v] = worker[v],
           g.stage # "none" <=> worker'[w].at = "generating",
           g.stage = "none" => g = NoGen,
           g.stage # "none" => g.since <= clock /\ clock <= g.since + JobTimeout
    PROVE  GenTypes'
<1>1. gen'[w] = g /\ \A v \in Workers \ {w} : gen'[v] = gen[v]
    BY DEF GenTypes
<1>2. gen' \in [Workers -> GenState]
    BY DEF GenTypes
<1> QED BY <1>1, <1>2 DEF GenTypes

(* The next stage of a report. *)
LEMMA StageFacts ==
    ASSUME GenTypes, DiskTypes, NEW w \in Workers, gen[w].stage # "none",
           NEW stage \in GenStage \ {"none"}, gen' = [gen EXCEPT ![w].stage = stage],
           UNCHANGED <<clock, worker>>
    PROVE  /\ GenTypes'
           /\ gen'[w].stage = stage /\ gen'[w].since = gen[w].since
           /\ \A v \in Workers \ {w} : gen'[v] = gen[v]
<1>1. PICK g : g = [gen[w] EXCEPT !.stage = stage]
    OBVIOUS
<1>2. gen[w] \in GenState
    BY DEF GenTypes
<1>3. g \in GenState /\ g.stage = stage /\ g.since = gen[w].since
    BY <1>1, <1>2 DEF GenState
<1>4. gen' = [gen EXCEPT ![w] = g]
    BY <1>1
<1>5. GenTypes'
    BY <1>3, <1>4, GenFacts DEF GenTypes
<1> QED BY <1>3, <1>4, <1>5 DEF GenTypes

LEMMA RunJobTypes ==
    ASSUME IInv, FilesTypes, NEW w \in Workers, RunJob(w) PROVE FilesTypes'
<1> USE FilesAssumption
<1>1. /\ MarkJobRunning(w)
      /\ gen' = [gen EXCEPT ![w] = IF worker'[w].at = "generating"
                                   THEN [stage |-> "start", since |-> clock] ELSE NoGen]
      /\ UNCHANGED <<clock, dirs, csv, pdf, cleaner>>
    BY DEF RunJob
<1>2. PICK g : g = IF worker'[w].at = "generating"
                   THEN [stage |-> "start", since |-> clock] ELSE NoGen
    OBVIOUS
<1>3. clock \in 0..MaxTime /\ clock \in Nat /\ JobTimeout \in Nat
    BY DEF FilesTypes, DiskTypes
<1>4. /\ g \in GenState
      /\ g.stage # "none" <=> worker'[w].at = "generating"
      /\ g.stage = "none" => g = NoGen
      /\ g.stage # "none" => g.since <= clock /\ clock <= g.since + JobTimeout
    <2>1. CASE worker'[w].at = "generating"
        BY <1>2, <1>3, <2>1 DEF GenState, GenStage
    <2>2. CASE worker'[w].at # "generating"
        BY <1>2, <2>2 DEF NoGen, GenState, GenStage
    <2> QED BY <2>1, <2>2
<1>5. \A v \in Workers \ {w} : worker'[v] = worker[v]
    BY <1>1 DEF MarkJobRunning, IInv, TypeOK
<1>6. GenTypes'
    BY <1>1, <1>2, <1>4, <1>5, GenFacts DEF FilesTypes
<1> QED BY <1>1, <1>6 DEF FilesTypes, DiskTypes, CleanerTypes

LEMMA EndReportTypes ==
    ASSUME IInv, FilesTypes, NEW w \in Workers, FinishJob(w) \/ FailJob(w) PROVE FilesTypes'
<1> USE FilesAssumption
<1>1. /\ worker' = [worker EXCEPT ![w] = Idle]
      /\ gen' = [gen EXCEPT ![w] = NoGen]
      /\ UNCHANGED <<clock, dirs, csv, pdf, cleaner>>
    BY DEF FinishJob, FailJob, MarkJobDone, MarkJobFailed
<1>2. NoGen \in GenState /\ NoGen.stage = "none"
    BY DEF NoGen, GenState, GenStage
<1>3. worker'[w].at = "idle" /\ \A v \in Workers \ {w} : worker'[v] = worker[v]
    BY <1>1 DEF IInv, TypeOK, Idle
<1>4. GenTypes'
    BY <1>1, <1>2, <1>3, GenFacts DEF FilesTypes
<1> QED BY <1>1, <1>4 DEF FilesTypes, DiskTypes, CleanerTypes

(* A worker with a report in progress has a job, and no other worker has it. *)
LEMMA WriterFacts ==
    ASSUME IInv, FilesTypes, NEW w \in Workers, gen[w].stage # "none"
    PROVE  /\ worker[w].job \in JobId
           /\ DirOfWorker(w) \in Dirs
           /\ Settled(worker[w].job)
           /\ \A v \in Workers \ {w} : worker[v].job # worker[w].job
<1>1. worker[w].at = "generating"
    BY DEF FilesTypes, GenTypes
<1> QED BY <1>1, WorkerHoldsFacts, FilesAssumption DEF Settled, DirOfWorker

LEMMA MakeDirTypes ==
    ASSUME IInv, FilesTypes, NEW w \in Workers, MakeDir(w) PROVE FilesTypes'
<1> DEFINE d == DirOfWorker(w)
<1>1. /\ gen[w].stage = "start" /\ gen' = [gen EXCEPT ![w].stage = "dir"]
      /\ UNCHANGED <<clock, csv, pdf, cleaner, worker>>
    BY DEF MakeDir, vars
<1>2. GenTypes'
    BY <1>1, StageFacts DEF FilesTypes, GenStage
<1>3. d \in Dirs
    BY <1>1, WriterFacts
<1>4. dirs' = [k \in DOMAIN dirs \cup {d} |-> IF k \in DOMAIN dirs THEN dirs[k] ELSE clock]
    BY DEF MakeDir
<1> HIDE DEF d
<1>5. DiskTypes'
    <2>1. clock \in Nat
        BY FilesAssumption DEF FilesTypes, DiskTypes
    <2>2. DOMAIN dirs' = DOMAIN dirs \cup {d}
        BY <1>4
    <2>3. \A k \in DOMAIN dirs' : dirs'[k] \in 0..clock
        BY <1>4, <2>1 DEF FilesTypes, DiskTypes
    <2> QED BY <1>1, <1>3, <2>2, <2>3 DEF FilesTypes, DiskTypes
<1> QED BY <1>1, <1>2, <1>5 DEF FilesTypes, CleanerTypes

(* Touching a directory that is there makes it no older. *)
LEMMA TouchFacts ==
    ASSUME DiskTypes, NEW d \in DOMAIN dirs, NEW had \in BOOLEAN, dirs' = Touch(d, had)
    PROVE  /\ DOMAIN dirs' = DOMAIN dirs
           /\ \A k \in DOMAIN dirs : dirs'[k] \in 0..clock /\ dirs[k] <= dirs'[k]
           /\ \A k \in DOMAIN dirs \ {d} : dirs'[k] = dirs[k]
           /\ ~had => dirs'[d] = clock
<1>1. clock \in Nat /\ \A k \in DOMAIN dirs : dirs[k] \in 0..clock
    BY FilesAssumption DEF DiskTypes
<1> QED BY <1>1 DEF Touch

LEMMA WriteTypes ==
    ASSUME IInv, FilesTypes, NEW w \in Workers, WriteCsv(w) \/ WritePdf(w) PROVE FilesTypes'
<1> DEFINE d == DirOfWorker(w)
<1>1. /\ gen[w].stage # "none" /\ UNCHANGED <<clock, cleaner, worker>>
      /\ d \in DOMAIN dirs
    BY DEF WriteCsv, WritePdf, vars
<1>2. PICK stage \in GenStage \ {"none"} : gen' = [gen EXCEPT ![w].stage = stage]
    BY DEF WriteCsv, WritePdf, GenStage
<1>3. GenTypes'
    BY <1>1, <1>2, StageFacts DEF FilesTypes
<1>4. PICK had \in BOOLEAN : dirs' = Touch(d, had)
    BY DEF WriteCsv, WritePdf
<1>5. /\ DOMAIN dirs' = DOMAIN dirs
      /\ \A k \in DOMAIN dirs : dirs'[k] \in 0..clock
    BY <1>1, <1>4, TouchFacts DEF FilesTypes
<1>6. d \in Dirs /\ worker[w].job \in JobId
    BY <1>1, WriterFacts
<1>7. /\ csv' \in [Dirs -> JobId \cup {NoJob}]
      /\ pdf' \in [Dirs -> [job : JobId \cup {NoJob}, at : 0..MaxTime]]
      /\ \A k \in Dirs \ {d} : csv'[k] = csv[k] /\ pdf'[k] = pdf[k]
    <2>1. PICK p : p = [job |-> worker[w].job, at |-> clock]
        OBVIOUS
    <2>2. p \in [job : JobId \cup {NoJob}, at : 0..MaxTime]
        BY <1>6, <2>1 DEF FilesTypes, DiskTypes
    <2>3. /\ csv' = csv \/ csv' = [csv EXCEPT ![d] = worker[w].job]
          /\ pdf' = pdf \/ pdf' = [pdf EXCEPT ![d] = p]
        BY <2>1 DEF WriteCsv, WritePdf
    <2> HIDE DEF d
    <2> QED BY <1>6, <2>2, <2>3 DEF FilesTypes, DiskTypes
<1>8. DiskTypes'
    <2> HIDE DEF d
    <2> QED BY <1>1, <1>5, <1>7 DEF FilesTypes, DiskTypes
<1> QED BY <1>1, <1>3, <1>8 DEF FilesTypes, CleanerTypes

(* What each step of the cleanup does to the fields of its state. *)
CleanerAt(at)     == cleaner' \in CleanerState /\ cleaner'.at = at
SamePass          == cleaner'.start = cleaner.start
SameRemoved       == cleaner'.removed = cleaner.removed

LEMMA StartFacts ==
    ASSUME IInv, FilesTypes, StartCleanup
    PROVE  CleanerAt("active") /\ cleaner'.start = clock /\ cleaner'.removed = {}
<1>1. PICK todo : todo = DOMAIN dirs
    OBVIOUS
<1>2. cleaner' = [at |-> "active", start |-> clock, todo |-> todo, busy |-> {}, removed |-> {},
                  dir |-> NoDir]
    BY <1>1 DEF StartCleanup, NotCleaning
<1>3. todo \in SUBSET Dirs /\ clock \in Nat
    BY <1>1, FilesAssumption DEF FilesTypes, DiskTypes
<1> QED BY <1>2, <1>3 DEF CleanerAt, CleanerState

LEMMA ReadActiveFacts ==
    ASSUME IInv, FilesTypes, ReadActive
    PROVE  CleanerAt("scan") /\ SamePass /\ SameRemoved
<1>1. PICK c, busy : c \in CleanerState /\ c = cleaner /\ busy = ActiveReportDirs
    BY DEF FilesTypes, CleanerTypes
<1>2. busy \in SUBSET Dirs
    BY <1>1 DEF ActiveReportDirs, IInv, TypeOK, JobRecord
<1>3. cleaner' = [at |-> "scan", start |-> c.start, todo |-> c.todo, busy |-> busy,
                  removed |-> c.removed, dir |-> c.dir]
    BY <1>1 DEF ReadActive, CleanerState
<1> QED BY <1>1, <1>2, <1>3 DEF CleanerAt, SamePass, SameRemoved, CleanerState

(* A check either goes on with the scan or finds an expired directory. *)
LEMMA CheckFacts ==
    ASSUME IInv, FilesTypes, NEW d \in Dirs, CheckEntry(d)
    PROVE  /\ SamePass /\ SameRemoved
           /\ \/ CleanerAt("scan")
              \/ /\ CleanerAt("remove") /\ cleaner'.dir = d
                 /\ d \in DOMAIN dirs /\ Expired(d)
<1>1. PICK c, todo : c \in CleanerState /\ c = cleaner /\ todo = cleaner.todo \ {d}
    BY DEF FilesTypes, CleanerTypes
<1>2. todo \in SUBSET Dirs /\ c.at = "scan"
    BY <1>1 DEF CleanerState, CheckEntry
<1>3. CASE d \notin cleaner.busy /\ d \in DOMAIN dirs /\ Expired(d)
    <2>1. cleaner' = [at |-> "remove", start |-> c.start, todo |-> todo, busy |-> c.busy,
                      removed |-> c.removed, dir |-> d]
        BY <1>1, <1>3 DEF CheckEntry, CleanerState
    <2> QED BY <1>1, <1>2, <1>3, <2>1 DEF CleanerAt, SamePass, SameRemoved, CleanerState
<1>4. CASE ~(d \notin cleaner.busy /\ d \in DOMAIN dirs /\ Expired(d))
    <2>1. cleaner' = [at |-> "scan", start |-> c.start, todo |-> todo, busy |-> c.busy,
                      removed |-> c.removed, dir |-> c.dir]
        BY <1>1, <1>2, <1>4 DEF CheckEntry, CleanerState
    <2> QED BY <1>1, <1>2, <2>1 DEF CleanerAt, SamePass, SameRemoved, CleanerState
<1> QED BY <1>3, <1>4

LEMMA RemoveFacts ==
    ASSUME IInv, FilesTypes, RemoveEntry
    PROVE  /\ CleanerAt("scan") /\ SamePass /\ cleaner'.removed = cleaner.removed \cup {cleaner.dir}
           /\ cleaner.dir \in Dirs
           /\ DOMAIN dirs' = DOMAIN dirs \ {cleaner.dir}
           /\ \A k \in DOMAIN dirs' : dirs'[k] = dirs[k]
           /\ csv'[cleaner.dir] = NoJob /\ pdf'[cleaner.dir] = NoPdf
           /\ \A k \in Dirs \ {cleaner.dir} : csv'[k] = csv[k] /\ pdf'[k] = pdf[k]
           /\ DiskTypes'
<1>1. PICK c, d, removed :
         c \in CleanerState /\ c = cleaner /\ d = cleaner.dir /\ removed = cleaner.removed \cup {d}
    BY DEF FilesTypes, CleanerTypes
<1>2. /\ d \in Dirs /\ removed \in SUBSET Dirs /\ c.at = "remove"
    BY <1>1 DEF RemoveEntry, FilesTypes, CleanerTypes, CleanerState
<1>3. cleaner' = [at |-> "scan", start |-> c.start, todo |-> c.todo, busy |-> c.busy,
                  removed |-> removed, dir |-> NoDir]
    BY <1>1 DEF RemoveEntry, CleanerState
<1>4. CleanerAt("scan") /\ SamePass /\ cleaner'.removed = removed
    BY <1>1, <1>2, <1>3 DEF CleanerAt, SamePass, CleanerState
<1>5. /\ dirs' = [k \in DOMAIN dirs \ {d} |-> dirs[k]]
      /\ csv' = [csv EXCEPT ![d] = NoJob]
      /\ pdf' = [pdf EXCEPT ![d] = NoPdf]
      /\ UNCHANGED clock
    BY <1>1 DEF RemoveEntry
<1>6. /\ DOMAIN dirs' = DOMAIN dirs \ {d}
      /\ \A k \in DOMAIN dirs' : dirs'[k] = dirs[k]
    BY <1>5
<1>7. NoPdf \in [job : JobId \cup {NoJob}, at : 0..MaxTime]
    BY FilesAssumption DEF NoPdf
<1>8. /\ csv' \in [Dirs -> JobId \cup {NoJob}]
      /\ pdf' \in [Dirs -> [job : JobId \cup {NoJob}, at : 0..MaxTime]]
      /\ csv'[d] = NoJob /\ pdf'[d] = NoPdf
      /\ \A k \in Dirs \ {d} : csv'[k] = csv[k] /\ pdf'[k] = pdf[k]
    BY <1>2, <1>5, <1>7 DEF FilesTypes, DiskTypes
<1>9. DiskTypes'
    BY <1>5, <1>6, <1>8 DEF FilesTypes, DiskTypes
<1> QED BY <1>1, <1>2, <1>4, <1>6, <1>8, <1>9

LEMMA EndFacts ==
    ASSUME IInv, FilesTypes, EndCleanup \/ AbortCleanup
    PROVE  CleanerAt("idle") /\ cleaner'.start = 0 /\ cleaner'.removed = {}
<1>1. cleaner' = [at |-> "idle", start |-> 0, todo |-> {}, busy |-> {}, removed |-> {}, dir |-> NoDir]
    BY DEF EndCleanup, AbortCleanup, NotCleaning
<1> QED BY <1>1 DEF CleanerAt, CleanerState

LEMMA CleanerKeepsTypes == ASSUME IInv, FilesTypes, CleanerStep PROVE FilesTypes'
<1>1. /\ clock' = clock /\ clock \in Nat /\ gen' = gen /\ worker' = worker
      /\ cleaner \in CleanerState /\ cleaner.start <= clock /\ cleaner.start \in Nat
    <2>1. clock \in Nat /\ cleaner \in CleanerState /\ cleaner.start <= clock
          /\ cleaner.start \in Nat
        BY FilesAssumption DEF FilesTypes, DiskTypes, CleanerTypes, CleanerState
    <2>2. clock' = clock /\ gen' = gen
        BY DEF CleanerStep, StartCleanup, ReadActive, CheckEntry, RemoveEntry, EndCleanup,
               AbortCleanup
    <2>3. worker' = worker
        <3>1. CASE EndCleanup
            BY <3>1 DEF EndCleanup, BeginDrop, vars
        <3> QED BY <3>1 DEF CleanerStep, StartCleanup, ReadActive, CheckEntry, RemoveEntry,
                            AbortCleanup, vars
    <2> QED BY <2>1, <2>2, <2>3
<1>2. GenTypes'
    BY <1>1 DEF FilesTypes, GenTypes
<1>3. DiskTypes'
    <2>1. CASE RemoveEntry
        BY <2>1, RemoveFacts
    <2>2. CASE UNCHANGED <<clock, dirs, csv, pdf>>
        BY <2>2 DEF FilesTypes, DiskTypes
    <2> QED BY <2>1, <2>2
            DEF CleanerStep, StartCleanup, ReadActive, CheckEntry, EndCleanup, AbortCleanup
<1>4. CleanerTypes'
    <2>1. CASE StartCleanup
        BY <1>1, <2>1, StartFacts DEF CleanerTypes, CleanerAt
    <2>2. CASE ReadActive
        BY <1>1, <2>2, ReadActiveFacts DEF CleanerTypes, CleanerAt, SamePass
    <2>3. ASSUME NEW d \in Dirs, CheckEntry(d) PROVE CleanerTypes'
        BY <1>1, <2>3, CheckFacts DEF CleanerTypes, CleanerAt, SamePass
    <2>4. CASE RemoveEntry
        BY <1>1, <2>4, RemoveFacts DEF CleanerTypes, CleanerAt, SamePass
    <2>5. CASE EndCleanup \/ AbortCleanup
        BY <1>1, <2>5, EndFacts DEF CleanerTypes, CleanerAt
    <2> QED BY <2>1, <2>2, <2>3, <2>4, <2>5 DEF CleanerStep
<1> QED BY <1>2, <1>3, <1>4 DEF FilesTypes

LEMMA TickTypes == ASSUME FilesTypes, Tick PROVE FilesTypes'
<1> USE FilesAssumption
<1>1. /\ clock < MaxTime /\ clock' = clock + 1 /\ clock \in Nat /\ clock' \in 0..MaxTime
      /\ \A w \in Workers : gen[w] # NoGen => clock < gen[w].since + JobTimeout
      /\ UNCHANGED <<dirs, csv, pdf, gen, cleaner, worker>>
    BY DEF Tick, vars, FilesTypes, DiskTypes
<1>2. DiskTypes'
    BY <1>1 DEF FilesTypes, DiskTypes
<1>3. GenTypes'
    <2>1. \A w \in Workers : gen[w].since \in Nat
        BY DEF FilesTypes, GenTypes, GenState
    <2>2. \A w \in Workers : gen[w].stage # "none" =>
             gen[w].since <= clock + 1 /\ clock + 1 <= gen[w].since + JobTimeout
        BY <1>1, <2>1 DEF FilesTypes, GenTypes, NoGen
    <2> QED BY <1>1, <2>2 DEF FilesTypes, GenTypes
<1>4. CleanerTypes'
    BY <1>1 DEF FilesTypes, CleanerTypes, CleanerState
<1> QED BY <1>2, <1>3, <1>4 DEF FilesTypes

LEMMA TypesKept == ASSUME IInv, FilesTypes, [FilesNext]_allVars PROVE FilesTypes'
<1>1. CASE JobStep
    <2>1. StepsAside /\ UNCHANGED fileVars
        BY <1>1, JobStepAside DEF JobStep
    <2>2. \A w \in Workers : worker[w].at = "generating" <=> worker'[w].at = "generating"
        BY <2>1 DEF StepsAside
    <2> QED BY <2>1, <2>2 DEF fileVars, FilesTypes, DiskTypes, GenTypes, CleanerTypes
<1>2. CASE Tick
    BY <1>2, TickTypes
<1>3. CASE CleanerStep
    BY <1>3, CleanerKeepsTypes
<1>4. ASSUME NEW w \in Workers, GenStep(w) PROVE FilesTypes'
    BY <1>4, RunJobTypes, MakeDirTypes, WriteTypes, EndReportTypes DEF GenStep
<1>5. CASE UNCHANGED allVars
    BY <1>5 DEF allVars, vars, fileVars, FilesTypes, DiskTypes, GenTypes, CleanerTypes
<1> QED BY <1>1, <1>2, <1>3, <1>4, <1>5 DEF FilesNext

-----------------------------------------------------------------------------
(* What is on disk *)

LEMMA InitDiskInv == FilesInit => DiskInv
<1>1. NoGen.stage = "none" /\ NotCleaning.at = "idle"
    BY DEF NoGen, NotCleaning
<1> QED BY <1>1 DEF FilesInit, Init, DiskInv, DirsBegun, WritersFiles, Writing, AgesRight, DoneFiles

(* Workers that write do so in directories of their own. *)
LEMMA OwnDirFacts ==
    ASSUME OwnDirs, IInv, FilesTypes, NEW w \in Workers, gen[w].stage # "none"
    PROVE  /\ \A v \in Workers \ {w} : Writing(v) => DirOfWorker(v) # DirOfWorker(w)
           /\ \A id \in DOMAIN jobs : jobs[id].status = "done" => DirOf[id] # DirOfWorker(w)
<1>1. /\ worker[w].job \in JobId /\ \A v \in Workers \ {w} : worker[v].job # worker[w].job
      /\ worker[w].at = "generating"
    BY WriterFacts DEF FilesTypes, GenTypes
<1>2. \A v \in Workers : Writing(v) => worker[v].job \in JobId
    BY WriterFacts DEF Writing
<1>3. \A v \in Workers \ {w} : Writing(v) => DirOfWorker(v) # DirOfWorker(w)
    BY <1>1, <1>2 DEF OwnDirs, DirOfWorker
<1>4. DOMAIN jobs \subseteq JobId
    BY DEF IInv, TypeOK
<1>5. worker[w] = [at |-> "generating", job |-> worker[w].job]
    BY <1>1 DEF IInv, TypeOK
<1>6. worker[w].job \in DOMAIN jobs => jobs[worker[w].job].status = "running"
    BY <1>5 DEF IInv, NoOrphan
<1>7. \A id \in DOMAIN jobs : jobs[id].status = "done" => DirOf[id] # DirOfWorker(w)
    BY <1>1, <1>4, <1>6 DEF OwnDirs, DirOfWorker
<1> QED BY <1>3, <1>7

(* The directory the cleanup is about to remove is older than any report in progress:
   no report takes as long as reports live. *)
LEMMA Spared ==
    ASSUME FilesTypes, DiskInv, cleaner.at = "remove", NEW w \in Workers, Writing(w)
    PROVE  DirOfWorker(w) # cleaner.dir
<1> USE FilesAssumption
<1>1. /\ clock \in Nat /\ cleaner.start \in Nat /\ cleaner.start <= clock
    BY DEF FilesTypes, DiskTypes, CleanerTypes, CleanerState
<1>2. /\ gen[w].since \in Nat /\ clock <= gen[w].since + JobTimeout
    BY DEF FilesTypes, GenTypes, GenState, Writing
<1>3. DirOfWorker(w) \in DOMAIN dirs /\ gen[w].since <= dirs[DirOfWorker(w)]
    BY DEF DiskInv, WritersFiles
<1>4. \A d \in DOMAIN dirs : dirs[d] \in Nat
    BY <1>1 DEF FilesTypes, DiskTypes
<1>5. cleaner.dir \in DOMAIN dirs /\ dirs[cleaner.dir] + ReportTTL < cleaner.start
    BY DEF DiskInv, AgesRight
<1>6. SUFFICES ASSUME DirOfWorker(w) = cleaner.dir PROVE FALSE
    OBVIOUS
<1>7. PICK age \in Nat : age = dirs[cleaner.dir]
    BY <1>4, <1>5
<1>8. gen[w].since <= age /\ age + ReportTTL < cleaner.start
    BY <1>3, <1>5, <1>6, <1>7
<1> QED BY <1>1, <1>2, <1>7, <1>8

LEMMA JobStepDisk == ASSUME IInv, FilesTypes, DiskInv, JobStep PROVE DiskInv'
<1>1. StepsAside /\ UNCHANGED fileVars
    BY JobStepAside DEF JobStep
<1>2. DirsBegun'
    <2>1. \A id \in JobId : Begun(id) => Begun(id)'
        BY <1>1 DEF StepsAside, Begun, Settled, Writing, fileVars
    <2> QED BY <1>1, <2>1 DEF DiskInv, DirsBegun, fileVars
<1>3. WritersFiles'
    <2>1. \A w \in Workers : Writing(w)' => Writing(w) /\ worker'[w] = worker[w]
        BY <1>1 DEF StepsAside, Writing, fileVars, FilesTypes, GenTypes
    <2> QED BY <1>1, <2>1 DEF DiskInv, WritersFiles, DirOfWorker, fileVars
<1>4. AgesRight'
    BY <1>1 DEF DiskInv, AgesRight, fileVars
<1>5. DoneFiles'
    <2> SUFFICES ASSUME NEW id \in DOMAIN jobs', jobs'[id].status = "done"
                 PROVE  /\ jobs'[id].reportDir = DirOf[id]
                        /\ \/ csv[DirOf[id]] = id /\ pdf[DirOf[id]].job = id
                           \/ DirOf[id] \in cleaner.removed \cup dropping'
                           \/ cancelled'
        BY <1>1 DEF DoneFiles, Removed, fileVars
    <2>1. id \in DOMAIN jobs /\ jobs'[id] = jobs[id] /\ jobs[id].reportDir = DirOf[id]
        BY <1>1 DEF StepsAside, DiskInv, DoneFiles
    <2>2. DirOf[id] \in dropping => DirOf[id] \in dropping'
        BY <1>1, <2>1 DEF StepsAside
    <2> QED BY <1>1, <2>1, <2>2 DEF StepsAside, DiskInv, DoneFiles, Removed
<1> QED BY <1>2, <1>3, <1>4, <1>5 DEF DiskInv

LEMMA RunJobDisk == ASSUME IInv, FilesTypes, DiskInv, NEW w \in Workers, RunJob(w) PROVE DiskInv'
<1>1. /\ worker[w].at = "claimed" /\ MarkJobRunning(w)
      /\ UNCHANGED <<clock, dirs, csv, pdf, cleaner, caller, queue, dropping, cancelled>>
    BY DEF RunJob, MarkJobRunning
<1>2. /\ worker[w].job \in JobId
      /\ worker'[w].job \in {worker[w].job, NoJob}
      /\ \A v \in Workers \ {w} : worker'[v] = worker[v] /\ gen'[v] = gen[v]
      /\ gen'[w].stage \in {"start", "none"}
    <2>1. worker[w].job \in JobId
        BY <1>1, WorkerHoldsFacts
    <2>2. worker'[w] = (IF worker[w].job \in DOMAIN jobs
                        THEN [at |-> "generating", job |-> worker[w].job] ELSE Idle)
          /\ \A v \in Workers \ {w} : worker'[v] = worker[v]
        BY <1>1 DEF MarkJobRunning, IInv, TypeOK
    <2>3. worker'[w].job \in {worker[w].job, NoJob}
        BY <2>2 DEF Idle
    <2>4. gen'[w] = (IF worker'[w].at = "generating"
                     THEN [stage |-> "start", since |-> clock] ELSE NoGen)
          /\ \A v \in Workers \ {w} : gen'[v] = gen[v]
        BY DEF RunJob, FilesTypes, GenTypes
    <2>5. gen'[w].stage \in {"start", "none"}
        BY <2>4 DEF NoGen
    <2> QED BY <2>1, <2>2, <2>3, <2>4, <2>5
<1>3. gen[w].stage = "none" /\ ~Writing(w)
    BY <1>1 DEF FilesTypes, GenTypes, Writing
<1>4. DirsBegun'
    <2>1. \A id \in JobId : Begun(id) => Begun(id)'
        BY <1>1, <1>2, <1>3, NamesAssumption DEF Begun, Writing
    <2> QED BY <1>1, <2>1 DEF DiskInv, DirsBegun
<1>5. WritersFiles'
    BY <1>1, <1>2 DEF DiskInv, WritersFiles, DirOfWorker, Writing
<1>6. AgesRight'
    BY <1>1 DEF DiskInv, AgesRight
<1>7. DoneFiles'
    <2>1. \A id \in DOMAIN jobs' : jobs'[id].status = "done" => id \in DOMAIN jobs /\ jobs'[id] = jobs[id]
        BY <1>1, <1>2 DEF MarkJobRunning, SetStatus, IInv, TypeOK, JobRecord
    <2> QED BY <1>1, <2>1 DEF DiskInv, DoneFiles, Removed
<1> QED BY <1>4, <1>5, <1>6, <1>7 DEF DiskInv

(* A worker that starts its report finds no directory of that name. *)
LEMMA MakeDirDisk ==
    ASSUME OwnDirs, IInv, FilesTypes, DiskInv, NEW w \in Workers, MakeDir(w) PROVE DiskInv'
<1> DEFINE d == DirOfWorker(w)
<1>1. /\ gen[w].stage = "start" /\ gen' = [gen EXCEPT ![w].stage = "dir"]
      /\ UNCHANGED <<clock, csv, pdf, cleaner, jobs, worker, caller, queue, dropping, cancelled>>
    BY DEF MakeDir, vars
<1>2. /\ gen'[w].stage = "dir" /\ gen'[w].since = gen[w].since
      /\ \A v \in Workers \ {w} : gen'[v] = gen[v]
    BY <1>1, StageFacts DEF FilesTypes, GenStage
<1>3. /\ worker[w].job \in JobId /\ d \in Dirs /\ Settled(worker[w].job)
      /\ \A v \in Workers \ {w} : worker[v].job # worker[w].job
    BY <1>1, WriterFacts
<1>4. d \notin DOMAIN dirs
    BY <1>1, <1>3 DEF DiskInv, DirsBegun, Begun, Writing, DirOfWorker
<1>5. /\ DOMAIN dirs' = DOMAIN dirs \cup {d} /\ dirs'[d] = clock
      /\ \A k \in DOMAIN dirs : dirs'[k] = dirs[k]
    BY <1>4 DEF MakeDir
<1>6. pdf[d] = NoPdf /\ gen[w].since <= clock
    BY <1>1, <1>3, <1>4 DEF FilesTypes, DiskTypes, GenTypes
<1>7. DirsBegun'
    <2>1. \A id \in JobId : Begun(id) => Begun(id)'
        BY <1>1, <1>2 DEF Begun, Writing
    <2>2. \A id \in JobId : id = worker[w].job => Begun(id)'
        BY <1>1, <1>2, <1>3 DEF Begun, Settled, Writing
    <2>3. \A id \in JobId : DirOf[id] = d => id = worker[w].job
        BY <1>3 DEF OwnDirs, DirOfWorker
    <2> HIDE DEF d
    <2> QED BY <1>5, <2>1, <2>2, <2>3 DEF DiskInv, DirsBegun
<1>8. WritersFiles'
    <2>1. \A v \in Workers : DirOfWorker(v)' = DirOfWorker(v)
        BY <1>1 DEF DirOfWorker
    <2>2. \A v \in Workers \ {w} : Writing(v)' => Writing(v) /\ DirOfWorker(v) \in DOMAIN dirs
        BY <1>2 DEF Writing, DiskInv, WritersFiles
    <2> HIDE DEF d
    <2>3. d = DirOfWorker(w)
        BY DEF d
    <2> QED BY <1>1, <1>2, <1>5, <1>6, <2>1, <2>2, <2>3 DEF DiskInv, WritersFiles, Writing
<1>9. AgesRight'
    <2> HIDE DEF d
    <2> QED BY <1>1, <1>4, <1>5, <1>6 DEF DiskInv, AgesRight
<1>10. DoneFiles'
    BY <1>1 DEF DiskInv, DoneFiles, Removed
<1> QED BY <1>7, <1>8, <1>9, <1>10 DEF DiskInv

(* What both writes leave alone: the directories of others and of finished jobs. *)
LEMMA WriteDisk ==
    ASSUME OwnDirs, IInv, FilesTypes, DiskInv, NEW w \in Workers,
           NEW stage \in {"csv", "pdf"}, NEW had \in BOOLEAN,
           Writing(w),
           gen' = [gen EXCEPT ![w].stage = stage],
           dirs' = Touch(DirOfWorker(w), had),
           \A k \in Dirs \ {DirOfWorker(w)} : csv'[k] = csv[k] /\ pdf'[k] = pdf[k],
           csv'[DirOfWorker(w)] = worker[w].job,
           stage = "csv" => pdf'[DirOfWorker(w)] = pdf[DirOfWorker(w)]
                            /\ pdf[DirOfWorker(w)] = NoPdf,
           stage = "pdf" => pdf'[DirOfWorker(w)].job = worker[w].job
                            /\ pdf'[DirOfWorker(w)].at = clock /\ ~had,
           UNCHANGED <<clock, cleaner, jobs, worker, caller, queue, dropping, cancelled>>
    PROVE  DiskInv'
<1> DEFINE d == DirOfWorker(w)
<1>1. /\ gen'[w].stage = stage /\ gen'[w].since = gen[w].since
      /\ \A v \in Workers \ {w} : gen'[v] = gen[v]
    BY StageFacts DEF FilesTypes, GenStage, Writing
<1>2. d \in DOMAIN dirs /\ gen[w].since <= dirs[d] /\ gen[w].since \in Nat
    BY DEF DiskInv, WritersFiles, FilesTypes, GenTypes, GenState
<1>3. /\ DOMAIN dirs' = DOMAIN dirs
      /\ \A k \in DOMAIN dirs : dirs'[k] \in 0..clock /\ dirs[k] <= dirs'[k]
      /\ \A k \in DOMAIN dirs \ {d} : dirs'[k] = dirs[k]
      /\ ~had => dirs'[d] = clock
    BY <1>2, TouchFacts DEF FilesTypes
<1>4. /\ \A v \in Workers \ {w} : Writing(v) => DirOfWorker(v) # d
      /\ \A id \in DOMAIN jobs : jobs[id].status = "done" => DirOf[id] # d
    BY OwnDirFacts DEF Writing
<1>5. /\ clock \in Nat /\ DOMAIN dirs \subseteq Dirs
      /\ \A k \in DOMAIN dirs : dirs[k] \in Nat /\ dirs'[k] \in Nat /\ pdf[k].at \in Nat
    BY <1>3, FilesAssumption DEF FilesTypes, DiskTypes
<1>6. DirsBegun'
    <2>1. \A id \in JobId : Begun(id) => Begun(id)'
        BY <1>1 DEF Begun, Writing
    <2> QED BY <1>3, <2>1 DEF DiskInv, DirsBegun
<1>7. WritersFiles'
    <2>1. \A v \in Workers : DirOfWorker(v)' = DirOfWorker(v)
        BY DEF DirOfWorker
    <2>2. \A v \in Workers \ {w} : Writing(v)' =>
             /\ Writing(v) /\ DirOfWorker(v) \in DOMAIN dirs /\ DirOfWorker(v) # d
             /\ DirOfWorker(v) \in Dirs
        BY <1>1, <1>4, <1>5 DEF Writing, DiskInv, WritersFiles
    <2>3. /\ d \in DOMAIN dirs' /\ gen'[w].since <= dirs'[d]
          /\ gen'[w].stage # "pdf" => pdf'[d] = NoPdf
          /\ csv'[d] = worker[w].job
          /\ gen'[w].stage = "pdf" => pdf'[d].job = worker[w].job
        <3>1. d \in DOMAIN dirs' /\ gen'[w].since <= dirs'[d]
            <4> HIDE DEF d
            <4> QED BY <1>1, <1>2, <1>3, <1>5
        <3> QED BY <1>1, <3>1
    <2>4. \A v \in Workers \ {w} : Writing(v)' =>
            LET e == DirOfWorker(v)
            IN  /\ e \in DOMAIN dirs'
                /\ gen'[v].since <= dirs'[e]
                /\ gen'[v].stage # "pdf" => pdf'[e] = NoPdf
                /\ gen'[v].stage # "dir" => csv'[e] = worker[v].job
                /\ gen'[v].stage = "pdf" => pdf'[e].job = worker[v].job
        BY <1>1, <1>3, <2>2 DEF DiskInv, WritersFiles
    <2> QED BY <2>1, <2>3, <2>4 DEF WritersFiles
<1>8. AgesRight'
    <2>1. cleaner.at = "remove" => cleaner.dir # d
        BY Spared
    <2>2. pdf'[d] # NoPdf => pdf'[d].at <= dirs'[d]
        <3>1. CASE stage = "csv"
            BY <3>1
        <3>2. CASE stage = "pdf"
            BY <1>3, <1>5, <3>2
        <3> QED BY <3>1, <3>2
    <2> HIDE DEF d
    <2>3. \A k \in DOMAIN dirs \ {d} : pdf'[k] = pdf[k]
        BY <1>5 DEF d
    <2>4. \A k \in DOMAIN dirs' : pdf'[k] # NoPdf => pdf'[k].at <= dirs'[k]
        BY <1>3, <2>2, <2>3 DEF DiskInv, AgesRight
    <2> QED BY <1>3, <2>1, <2>4 DEF DiskInv, AgesRight
<1>9. DoneFiles'
    <2>1. \A id \in DOMAIN jobs : DirOf[id] \in Dirs
        BY FilesAssumption DEF IInv, TypeOK
    <2> QED BY <1>4, <2>1 DEF DiskInv, DoneFiles, Removed
<1> QED BY <1>6, <1>7, <1>8, <1>9 DEF DiskInv

LEMMA WriteCsvDisk ==
    ASSUME OwnDirs, IInv, FilesTypes, DiskInv, NEW w \in Workers, WriteCsv(w) PROVE DiskInv'
<1> DEFINE d == DirOfWorker(w)
<1>1. /\ gen[w].stage = "dir" /\ Writing(w)
      /\ gen' = [gen EXCEPT ![w].stage = "csv"]
      /\ dirs' = Touch(d, csv[d] # NoJob)
      /\ csv' = [csv EXCEPT ![d] = worker[w].job]
      /\ UNCHANGED <<clock, pdf, cleaner, jobs, worker, caller, queue, dropping, cancelled>>
    BY DEF WriteCsv, vars, Writing
<1>2. d \in Dirs
    BY <1>1, WriterFacts
<1>3. csv'[d] = worker[w].job /\ \A k \in Dirs \ {d} : csv'[k] = csv[k]
    <2> HIDE DEF d
    <2> QED BY <1>1, <1>2 DEF FilesTypes, DiskTypes
<1>4. pdf[d] = NoPdf
    BY <1>1 DEF DiskInv, WritersFiles
<1>5. PICK had \in BOOLEAN : dirs' = Touch(d, had)
    BY <1>1
<1> QED BY <1>1, <1>3, <1>4, <1>5, WriteDisk

LEMMA WritePdfDisk ==
    ASSUME OwnDirs, IInv, FilesTypes, DiskInv, NEW w \in Workers, WritePdf(w) PROVE DiskInv'
<1> DEFINE d == DirOfWorker(w)
<1>1. /\ gen[w].stage = "csv" /\ Writing(w)
      /\ gen' = [gen EXCEPT ![w].stage = "pdf"]
      /\ dirs' = Touch(d, pdf[d] # NoPdf)
      /\ pdf' = [pdf EXCEPT ![d] = [job |-> worker[w].job, at |-> clock]]
      /\ UNCHANGED <<clock, csv, cleaner, jobs, worker, caller, queue, dropping, cancelled>>
    BY DEF WritePdf, vars, Writing
<1>2. d \in Dirs
    BY <1>1, WriterFacts
<1>3. pdf'[d] = [job |-> worker[w].job, at |-> clock] /\ \A k \in Dirs \ {d} : pdf'[k] = pdf[k]
    <2> HIDE DEF d
    <2> QED BY <1>1, <1>2 DEF FilesTypes, DiskTypes
<1>4. pdf[d] = NoPdf /\ csv[d] = worker[w].job
    BY <1>1 DEF DiskInv, WritersFiles
<1>5. PICK had \in BOOLEAN : dirs' = Touch(d, had) /\ ~had
    BY <1>1, <1>4
<1>6. pdf'[d].job = worker[w].job /\ pdf'[d].at = clock
    BY <1>3
<1> QED BY <1>1, <1>3, <1>4, <1>5, <1>6, WriteDisk

LEMMA EndReportDisk ==
    ASSUME OwnDirs, IInv, FilesTypes, DiskInv, NEW w \in Workers, FinishJob(w) \/ FailJob(w)
    PROVE  DiskInv'
<1>1. /\ gen[w].stage # "none"
      /\ worker' = [worker EXCEPT ![w] = Idle]
      /\ gen' = [gen EXCEPT ![w] = NoGen]
      /\ UNCHANGED <<clock, dirs, csv, pdf, cleaner, caller, queue, dropping, cancelled>>
    BY DEF FinishJob, FailJob, MarkJobDone, MarkJobFailed
<1>2. /\ worker'[w].job = NoJob
      /\ gen'[w].stage = "none"
      /\ \A v \in Workers \ {w} : worker'[v] = worker[v] /\ gen'[v] = gen[v]
    BY <1>1 DEF IInv, TypeOK, FilesTypes, GenTypes, Idle, NoGen
<1>3. worker[w].job \in JobId
    BY <1>1, WriterFacts
<1>4. DirsBegun'
    <2>1. \A id \in JobId : Begun(id) => Begun(id)'
        BY <1>1, <1>2, NamesAssumption DEF Begun, Writing
    <2> QED BY <1>1, <2>1 DEF DiskInv, DirsBegun
<1>5. WritersFiles'
    BY <1>1, <1>2 DEF DiskInv, WritersFiles, DirOfWorker, Writing
<1>6. AgesRight'
    BY <1>1 DEF DiskInv, AgesRight
<1>7. DoneFiles'
    <2>1. \A id \in DOMAIN jobs \ {worker[w].job} : jobs'[id] = jobs[id]
        BY DEF FinishJob, FailJob, MarkJobDone, MarkJobFailed, SetStatus
    <2>2. DOMAIN jobs' = DOMAIN jobs
        BY DEF FinishJob, FailJob, MarkJobDone, MarkJobFailed, SetStatus
    <2>3. \A id \in DOMAIN jobs : id = worker[w].job /\ jobs'[id].status = "done" =>
             /\ jobs'[id].reportDir = DirOf[id]
             /\ csv[DirOf[id]] = id /\ pdf[DirOf[id]].job = id
        <3>1. CASE FinishJob(w)
            <4>1. gen[w].stage = "pdf" /\ Writing(w)
                BY <3>1 DEF FinishJob, Writing
            <4>2. csv[DirOf[worker[w].job]] = worker[w].job /\ pdf[DirOf[worker[w].job]].job = worker[w].job
                BY <4>1 DEF DiskInv, WritersFiles, DirOfWorker
            <4> QED BY <3>1, <4>2 DEF FinishJob
        <3>2. CASE FailJob(w)
            BY <3>2 DEF FailJob, MarkJobFailed, SetStatus, IInv, TypeOK, JobRecord
        <3> QED BY <3>1, <3>2
    <2> QED BY <1>1, <2>1, <2>2, <2>3 DEF DiskInv, DoneFiles, Removed
<1> QED BY <1>4, <1>5, <1>6, <1>7 DEF DiskInv

(* Steps of the cleanup that remove and drop nothing. *)
LEMMA LookDisk ==
    ASSUME DiskInv, UNCHANGED <<clock, dirs, csv, pdf, gen, vars>>, cleaner.removed \subseteq cleaner'.removed,
           cleaner'.at = "remove" =>
             cleaner'.dir \in DOMAIN dirs /\ dirs[cleaner'.dir] + ReportTTL < cleaner'.start
    PROVE  DiskInv'
<1>1. DirsBegun' /\ WritersFiles'
    BY DEF DiskInv, DirsBegun, Begun, WritersFiles, Writing, DirOfWorker, vars
<1>2. AgesRight'
    BY DEF DiskInv, AgesRight
<1>3. DoneFiles'
    BY DEF DiskInv, DoneFiles, Removed, vars
<1> QED BY <1>1, <1>2, <1>3 DEF DiskInv

LEMMA RemoveDisk == ASSUME IInv, FilesTypes, DiskInv, RemoveEntry PROVE DiskInv'
<1>1. PICK d \in Dirs : d = cleaner.dir
    BY RemoveFacts
<1>2. /\ cleaner.at = "remove" /\ UNCHANGED <<clock, gen, vars>>
      /\ cleaner'.at = "scan" /\ cleaner'.removed = cleaner.removed \cup {d}
      /\ DOMAIN dirs' = DOMAIN dirs \ {d}
      /\ \A k \in DOMAIN dirs' : dirs'[k] = dirs[k]
      /\ \A k \in Dirs \ {d} : csv'[k] = csv[k] /\ pdf'[k] = pdf[k]
    BY <1>1, RemoveFacts DEF RemoveEntry, CleanerAt
<1>3. UNCHANGED <<caller, queue, worker, jobs, dropping, cancelled>>
    BY <1>2 DEF vars
<1>4. DirsBegun'
    BY <1>2, <1>3 DEF DiskInv, DirsBegun, Begun, Writing
<1>5. WritersFiles'
    <2>1. \A w \in Workers : Writing(w) => DirOfWorker(w) # d
        BY <1>1, <1>2, Spared
    <2>2. \A w \in Workers : Writing(w) => DirOfWorker(w) \in Dirs
        BY WriterFacts DEF Writing
    <2> QED BY <1>2, <1>3, <2>1, <2>2 DEF DiskInv, WritersFiles, Writing, DirOfWorker
<1>6. AgesRight'
    <2>1. DOMAIN dirs \subseteq Dirs
        BY DEF FilesTypes, DiskTypes
    <2> QED BY <1>2, <2>1 DEF DiskInv, AgesRight
<1>7. DoneFiles'
    <2>1. \A id \in DOMAIN jobs : DirOf[id] \in Dirs
        BY FilesAssumption DEF IInv, TypeOK
    <2> QED BY <1>2, <1>3, <2>1 DEF DiskInv, DoneFiles, Removed
<1> QED BY <1>4, <1>5, <1>6, <1>7 DEF DiskInv

(* The end of a pass hands what it removed to dropJobsForDirs, unless no job names it. *)
LEMMA EndDisk == ASSUME IInv, FilesTypes, DiskInv, EndCleanup \/ AbortCleanup PROVE DiskInv'
<1>1. /\ cleaner'.at = "idle" /\ cleaner'.removed = {}
      /\ UNCHANGED <<clock, dirs, csv, pdf, gen, caller, queue, worker, jobs, cancelled>>
    <2>1. cleaner'.at = "idle" /\ cleaner'.removed = {}
        BY EndFacts DEF CleanerAt
    <2>2. CASE EndCleanup
        BY <2>1, <2>2 DEF EndCleanup, BeginDrop, vars
    <2>3. CASE AbortCleanup
        BY <2>1, <2>3 DEF AbortCleanup, vars
    <2> QED BY <2>2, <2>3
<1>2. DirsBegun' /\ WritersFiles'
    BY <1>1 DEF DiskInv, DirsBegun, Begun, WritersFiles, Writing, DirOfWorker
<1>3. AgesRight'
    BY <1>1 DEF DiskInv, AgesRight
<1>4. DoneFiles'
    <2>1. CASE AbortCleanup
        BY <1>1, <2>1 DEF AbortCleanup, DiskInv, DoneFiles
    <2>2. CASE EndCleanup
        <3>1. \/ dropping' = cleaner.removed
              \/ \A id \in DOMAIN jobs : jobs[id].reportDir \notin cleaner.removed
            BY <2>2 DEF EndCleanup, InDirs
        <3>2. dropping = {}
            BY <2>2 DEF EndCleanup, MutexFree
        <3> QED BY <1>1, <3>1, <3>2 DEF DiskInv, DoneFiles, Removed
    <2> QED BY <2>1, <2>2
<1> QED BY <1>2, <1>3, <1>4 DEF DiskInv

LEMMA CleanerDisk == ASSUME IInv, FilesTypes, DiskInv, CleanerStep PROVE DiskInv'
<1>1. CASE StartCleanup
    <2>1. cleaner.removed = {} /\ cleaner'.at = "active"
        BY <1>1, StartFacts DEF StartCleanup, FilesTypes, CleanerTypes, CleanerAt
    <2> QED BY <1>1, <2>1, LookDisk DEF StartCleanup
<1>2. CASE ReadActive
    <2>1. cleaner'.removed = cleaner.removed /\ cleaner'.at = "scan"
        BY <1>2, ReadActiveFacts DEF CleanerAt, SameRemoved
    <2> QED BY <1>2, <2>1, LookDisk DEF ReadActive
<1>3. ASSUME NEW d \in Dirs, CheckEntry(d) PROVE DiskInv'
    <2>1. /\ cleaner'.removed = cleaner.removed
          /\ cleaner'.at = "remove" =>
               cleaner'.dir \in DOMAIN dirs /\ dirs[cleaner'.dir] + ReportTTL < cleaner'.start
        BY <1>3, CheckFacts DEF CleanerAt, SamePass, SameRemoved, Expired
    <2> QED BY <1>3, <2>1, LookDisk DEF CheckEntry
<1> QED BY <1>1, <1>2, <1>3, RemoveDisk, EndDisk DEF CleanerStep

LEMMA DiskKept == ASSUME OwnDirs, IInv, FilesTypes, DiskInv, [FilesNext]_allVars PROVE DiskInv'
<1>1. CASE JobStep
    BY <1>1, JobStepDisk
<1>2. CASE Tick \/ UNCHANGED allVars
    <2>1. UNCHANGED <<dirs, csv, pdf, gen, cleaner, vars>>
        BY <1>2 DEF Tick, allVars, fileVars
    <2>2. DirsBegun' /\ WritersFiles'
        BY <2>1 DEF DiskInv, DirsBegun, Begun, WritersFiles, Writing, DirOfWorker, vars
    <2>3. AgesRight' /\ DoneFiles'
        BY <2>1 DEF DiskInv, AgesRight, DoneFiles, Removed, vars
    <2> QED BY <2>2, <2>3 DEF DiskInv
<1>3. CASE CleanerStep
    BY <1>3, CleanerDisk
<1>4. ASSUME NEW w \in Workers, GenStep(w) PROVE DiskInv'
    BY <1>4, RunJobDisk, MakeDirDisk, WriteCsvDisk, WritePdfDisk, EndReportDisk DEF GenStep
<1> QED BY <1>1, <1>2, <1>3, <1>4 DEF FilesNext

-----------------------------------------------------------------------------
(* Theorems *)

(* Every behaviour of the files is one of the job service: its theorems hold here. *)
THEOREM FilesKeepService == FilesSpec => Spec
<1>1. FilesInit => Init
    BY DEF FilesInit
<1>2. [FilesNext]_allVars => [Next]_vars
    BY ServiceStep
<1> QED BY <1>1, <1>2, PTL DEF FilesSpec, Spec

LEMMA FilesInvariance == FilesSpec => []FilesInv
<1>1. FilesInit => FilesInv
    BY InitIInv, InitFilesTypes, InitDiskInv DEF FilesInit, FilesInv
<1>2. FilesInv /\ [FilesNext]_allVars => FilesInv'
    <2> SUFFICES ASSUME FilesInv, [FilesNext]_allVars PROVE FilesInv'
        OBVIOUS
    <2>1. IInv'
        BY ServiceStep, NextKeeps DEF FilesInv
    <2>2. FilesTypes'
        BY TypesKept DEF FilesInv
    <2>3. OwnDirs => DiskInv'
        BY DiskKept DEF FilesInv
    <2> QED BY <2>1, <2>2, <2>3 DEF FilesInv, OwnDirs
<1> QED BY <1>1, <1>2, PTL DEF FilesSpec

(* The output directory and the cleanup keep their shape, and files are only in
   directories that exist, whatever periods the requests have. *)
THEOREM FilesTypeCorrect == FilesSpec => []FilesTypeOK
<1>1. FilesInv => FilesTypeOK
    BY DEF FilesInv, FilesTypes, DiskTypes, GenTypes, GenState, CleanerTypes, CleanerState,
           FilesTypeOK
<1> QED BY <1>1, FilesInvariance, PTL

(* A client that sees a report done can fetch it until the cleanup removes it and drops
   its job, when every request has a period of its own. *)
THEOREM DoneIsOnDisk == OwnDirs => (FilesSpec => []DoneReportOnDisk)
<1> SUFFICES ASSUME OwnDirs PROVE FilesSpec => []DoneReportOnDisk
    OBVIOUS
<1>1. FilesInv => DoneReportOnDisk
    BY DEF FilesInv, DiskInv, DoneFiles, DoneReportOnDisk
<1> QED BY <1>1, FilesInvariance, PTL

(* Only the cleanup takes directories and PDFs away, and only old ones of nobody. *)
LEMMA Taken ==
    ASSUME OwnDirs, FilesInv, FilesNext,
           \/ ~(DOMAIN dirs \subseteq DOMAIN dirs')
           \/ \E d \in Dirs : pdf[d] # NoPdf /\ pdf'[d] = NoPdf
    PROVE  RemoveEntry
<1>1. ASSUME NEW w \in Workers, GenStep(w) PROVE FALSE
    <2>1. CASE RunJob(w) \/ FinishJob(w) \/ FailJob(w)
        BY <2>1 DEF RunJob, FinishJob, FailJob
    <2>2. CASE MakeDir(w)
        BY <2>2 DEF MakeDir
    <2>3. CASE WriteCsv(w)
        BY <2>3 DEF WriteCsv, Touch
    <2>4. CASE WritePdf(w)
        <3>1. DOMAIN dirs' = DOMAIN dirs
            BY <2>4 DEF WritePdf, Touch
        <3>2. PICK p : p = [job |-> worker[w].job, at |-> clock]
            OBVIOUS
        <3>3. p.job \in JobId
            BY <2>4, <3>2, WriterFacts DEF WritePdf, FilesInv
        <3>4. p # NoPdf
            BY <3>3, NamesAssumption DEF NoPdf
        <3>5. pdf' = [pdf EXCEPT ![DirOfWorker(w)] = p]
            BY <2>4, <3>2 DEF WritePdf
        <3> QED BY <3>1, <3>4, <3>5 DEF FilesInv, FilesTypes, DiskTypes
    <2> QED BY <1>1, <2>1, <2>2, <2>3, <2>4 DEF GenStep
<1>2. CASE JobStep \/ Tick
    BY <1>2 DEF JobStep, Tick, fileVars
<1>3. CASE CleanerStep
    BY <1>3 DEF CleanerStep, StartCleanup, ReadActive, CheckEntry, EndCleanup, AbortCleanup
<1> QED BY <1>1, <1>2, <1>3 DEF FilesNext

LivesLong == \A d \in Dirs : (pdf[d] # NoPdf /\ pdf'[d] = NoPdf) => clock > pdf[d].at + ReportTTL

SparesRunning == \A d \in DOMAIN dirs \ DOMAIN dirs' : \A w \in Workers :
                    gen[w].stage \in {"dir", "csv", "pdf"} => DirOfWorker(w) # d

LEMMA StepSpares ==
    ASSUME OwnDirs, FilesInv, [FilesNext]_allVars PROVE LivesLong /\ SparesRunning
<1>1. CASE UNCHANGED allVars
    BY <1>1 DEF allVars, fileVars, LivesLong, SparesRunning
<1>2. CASE RemoveEntry
    <2>1. PICK d \in Dirs : d = cleaner.dir
        BY <1>2, RemoveFacts DEF FilesInv
    <2>2. /\ cleaner.at = "remove"
          /\ DOMAIN dirs' = DOMAIN dirs \ {d}
          /\ \A k \in Dirs \ {d} : pdf'[k] = pdf[k]
        BY <1>2, <2>1, RemoveFacts DEF FilesInv, RemoveEntry
    <2>3. SparesRunning
        BY <2>1, <2>2, Spared DEF SparesRunning, Writing, FilesInv
    <2>4. pdf[d] # NoPdf => clock > pdf[d].at + ReportTTL
        <3>1. PICK age : age = dirs[d]
            OBVIOUS
        <3>2. d \in DOMAIN dirs /\ age + ReportTTL < cleaner.start
              /\ (pdf[d] # NoPdf => pdf[d].at <= age)
            BY <2>1, <2>2, <3>1 DEF FilesInv, DiskInv, AgesRight
        <3>3. /\ clock \in Nat /\ age \in Nat /\ cleaner.start \in Nat
              /\ cleaner.start <= clock /\ pdf[d].at \in Nat /\ ReportTTL \in Nat
            BY <3>1, <3>2, FilesAssumption
               DEF FilesInv, FilesTypes, DiskTypes, CleanerTypes, CleanerState
        <3> QED BY <3>2, <3>3
    <2>5. LivesLong
        BY <2>2, <2>4 DEF LivesLong
    <2> QED BY <2>3, <2>5
<1>3. CASE FilesNext /\ ~RemoveEntry
    BY <1>3, Taken DEF LivesLong, SparesRunning
<1> QED BY <1>1, <1>2, <1>3

(* A report is on disk for at least its lifetime after it was written, when every
   request has a period of its own: the run files_ttl shows what two for one do. *)
THEOREM LivesForTTL == OwnDirs => (FilesSpec => ReportLivesForTTL)
<1> SUFFICES ASSUME OwnDirs PROVE FilesSpec => ReportLivesForTTL
    OBVIOUS
<1>1. FilesInv /\ [FilesNext]_allVars => [LivesLong]_allVars
    BY StepSpares
<1> QED BY <1>1, FilesInvariance, PTL DEF FilesSpec, ReportLivesForTTL, LivesLong

(* The cleanup never takes the directory away under a worker that writes to it, when
   every request has a period of its own. *)
THEOREM RunningSpared == OwnDirs => (FilesSpec => CleanupSparesRunning)
<1> SUFFICES ASSUME OwnDirs PROVE FilesSpec => CleanupSparesRunning
    OBVIOUS
<1>1. FilesInv /\ [FilesNext]_allVars => [SparesRunning]_allVars
    BY StepSpares
<1> QED BY <1>1, FilesInvariance, PTL DEF FilesSpec, CleanupSparesRunning, SparesRunning
=============================================================================
