----------------------------- MODULE ReportFiles ----------------------------
(***************************************************************************)
(* The report directories of reportd: what report.Generate writes while a  *)
(* worker runs a job, and what the cleanup loop removes.  It composes the  *)
(* job table of ReportJobs with the output directory; the step of a worker *)
(* between markJobRunning and markJobDone, one step there, is Generate     *)
(* here, and the set of directories that dropJobsForDirs gets, arbitrary   *)
(* there, is what the cleanup removed.                                     *)
(*                                                                         *)
(* The name of a report directory is made of the period of the report at   *)
(* a resolution of one second, and of nothing else: two requests for the   *)
(* same period write to the same directory.                                *)
(***************************************************************************)
EXTENDS ReportJobs

CONSTANTS
    DirOf,       \* the directory named by the period of each request
    ReportTTL,   \* Options.ReportTTL
    JobTimeout,  \* Options.JobTimeout
    MaxTime      \* bound: the clock

ASSUME FilesAssumption ==
    /\ DirOf \in [JobId -> Dirs]
    /\ ReportTTL \in Nat \ {0}
    /\ JobTimeout \in Nat
    /\ JobTimeout < ReportTTL   \* 15 minutes and 7 days by default
    /\ MaxTime \in Nat

VARIABLES
    clock,    \* the time
    dirs,     \* the report directories: directory -> its modification time
    csv,      \* per directory, the job that last wrote summary.csv, or NoJob
    pdf,      \* per directory, the job that last wrote summary.pdf and when
    gen,      \* per worker, how far Generate got and when it started
    cleaner   \* the cleanup goroutine

fileVars == <<clock, dirs, csv, pdf, gen, cleaner>>
allVars  == <<vars, fileVars>>

GenStage == {"none", "start", "dir", "csv", "pdf"}
NoGen    == [stage |-> "none", since |-> 0]
NoPdf    == [job |-> NoJob, at |-> 0]

(* scan: going through the entries; remove: one was found expired; drop: all
   entries seen, the jobs of the removed ones still in the table. *)
NotCleaning == [at |-> "idle", start |-> 0, todo |-> {}, busy |-> {}, removed |-> {}, dir |-> NoDir]

FilesInit ==
    /\ Init
    /\ clock = 0
    /\ dirs = [d \in {} |-> 0]
    /\ csv = [d \in Dirs |-> NoJob]
    /\ pdf = [d \in Dirs |-> NoPdf]
    /\ gen = [w \in Workers |-> NoGen]
    /\ cleaner = NotCleaning

-----------------------------------------------------------------------------
(* runJob and report.Generate *)

(* Steps of ReportJobs that neither start nor end a report nor drop jobs. *)
JobStep ==
    /\ \/ DrawId \/ Cancel \/ DropStep
       \/ \E id \in JobId : CallerStep(id)
       \/ \E w \in Workers : Receive(w) \/ StopWorker(w)
    /\ UNCHANGED fileVars

RunJob(w) ==
    /\ MarkJobRunning(w)
    /\ gen' = [gen EXCEPT ![w] = IF worker'[w].at = "generating"
                                 THEN [stage |-> "start", since |-> clock] ELSE NoGen]
    /\ UNCHANGED <<clock, dirs, csv, pdf, cleaner>>

DirOfWorker(w) == DirOf[worker[w].job]

(* The statistics are loaded, then the directory is made: MkdirAll leaves an
   existing directory as it is. *)
MakeDir(w) ==
    /\ gen[w].stage = "start"
    /\ gen' = [gen EXCEPT ![w].stage = "dir"]
    /\ dirs' = [d \in DOMAIN dirs \cup {DirOfWorker(w)} |->
                  IF d \in DOMAIN dirs THEN dirs[d] ELSE clock]
    /\ UNCHANGED <<clock, csv, pdf, cleaner>>
    /\ UNCHANGED vars

TouchAhead(d, had) == [dirs EXCEPT ![d] = clock + 1]        \* faulty variant

(* Creating a file changes the modification time of its directory; truncating
   and rewriting one that is there does not. *)
Touch(d, had) == IF had THEN dirs ELSE [dirs EXCEPT ![d] = clock]

(* The charts are rendered, then summary.csv is created in a directory that must
   still be there. *)
WriteCsv(w) ==
    /\ gen[w].stage = "dir"
    /\ LET d == DirOfWorker(w)
       IN  /\ d \in DOMAIN dirs
           /\ dirs' = Touch(d, csv[d] # NoJob)
           /\ csv' = [csv EXCEPT ![d] = worker[w].job]
    /\ gen' = [gen EXCEPT ![w].stage = "csv"]
    /\ UNCHANGED <<clock, pdf, cleaner>>
    /\ UNCHANGED vars

WritePdf(w) ==
    /\ gen[w].stage = "csv"
    /\ LET d == DirOfWorker(w)
       IN  /\ d \in DOMAIN dirs
           /\ dirs' = Touch(d, pdf[d] # NoPdf)
           /\ pdf' = [pdf EXCEPT ![d] = [job |-> worker[w].job, at |-> clock]]
    /\ gen' = [gen EXCEPT ![w].stage = "pdf"]
    /\ UNCHANGED <<clock, csv, cleaner>>
    /\ UNCHANGED vars

FinishJob(w) ==
    /\ gen[w].stage = "pdf"
    /\ MarkJobDone(w)
    /\ LET id == worker[w].job
       IN  id \in DOMAIN jobs => jobs'[id].reportDir = DirOf[id]
    /\ gen' = [gen EXCEPT ![w] = NoGen]
    /\ UNCHANGED <<clock, dirs, csv, pdf, cleaner>>

(* Every step before the last may return an error; one whose directory is gone must. *)
FailJob(w) ==
    /\ gen[w].stage \in {"start", "dir", "csv"}
    /\ MarkJobFailed(w)
    /\ gen' = [gen EXCEPT ![w] = NoGen]
    /\ UNCHANGED <<clock, dirs, csv, pdf, cleaner>>

GenStep(w) == \/ RunJob(w) \/ MakeDir(w) \/ WriteCsv(w) \/ WritePdf(w)
              \/ FinishJob(w) \/ FailJob(w)

-----------------------------------------------------------------------------
(* runCleanup *)

(* The cutoff is fixed and the output directory read. *)
StartCleanup ==
    /\ cleaner.at = "idle"
    /\ ~cancelled
    /\ cleaner' = [NotCleaning EXCEPT !.at = "active", !.start = clock, !.todo = DOMAIN dirs]
    /\ UNCHANGED <<clock, dirs, csv, pdf, gen>>
    /\ UNCHANGED vars

AllReportDirs == {jobs[id].reportDir : id \in DOMAIN jobs} \ {NoDir}  \* faulty variant

ActiveReportDirs ==
    {jobs[id].reportDir : id \in {k \in DOMAIN jobs :
        jobs[k].status \in {"scheduled", "queued", "running"}}} \ {NoDir}

ReadActive ==
    /\ MutexFree
    /\ cleaner.at = "active"
    /\ cleaner' = [cleaner EXCEPT !.at = "scan", !.busy = ActiveReportDirs]
    /\ UNCHANGED <<clock, dirs, csv, pdf, gen>>
    /\ UNCHANGED vars

ExpiredAlways(d) == TRUE                                    \* faulty variant

(* ModTime is before the cutoff. *)
Expired(d) == dirs[d] + ReportTTL < cleaner.start

(* One entry: kept when busy, gone or young, otherwise about to be removed. *)
CheckEntry(d) ==
    /\ cleaner.at = "scan"
    /\ ~cancelled
    /\ d \in cleaner.todo
    /\ cleaner' = IF d \notin cleaner.busy /\ d \in DOMAIN dirs /\ Expired(d)
                  THEN [cleaner EXCEPT !.todo = @ \ {d}, !.at = "remove", !.dir = d]
                  ELSE [cleaner EXCEPT !.todo = @ \ {d}]
    /\ UNCHANGED <<clock, dirs, csv, pdf, gen>>
    /\ UNCHANGED vars

(* os.RemoveAll, whatever happened to the directory since the check. *)
RemoveEntry ==
    /\ cleaner.at = "remove"
    /\ LET d == cleaner.dir
       IN  /\ dirs' = [k \in DOMAIN dirs \ {d} |-> dirs[k]]
           /\ csv' = [csv EXCEPT ![d] = NoJob]
           /\ pdf' = [pdf EXCEPT ![d] = NoPdf]
           /\ cleaner' = [cleaner EXCEPT !.at = "scan", !.removed = @ \cup {d}, !.dir = NoDir]
    /\ UNCHANGED <<clock, gen>>
    /\ UNCHANGED vars

ForgetRemoved ==                                            \* faulty variant
    /\ cleaner.at = "scan"
    /\ cleaner.todo = {}
    /\ cleaner' = NotCleaning
    /\ UNCHANGED vars
    /\ UNCHANGED <<clock, dirs, csv, pdf, gen>>

(* All entries seen: dropJobsForDirs for what was removed. *)
EndCleanup ==
    /\ MutexFree
    /\ cleaner.at = "scan"
    /\ cleaner.todo = {}
    /\ cleaner' = NotCleaning
    /\ IF \E id \in DOMAIN jobs : InDirs(id, cleaner.removed)
       THEN BeginDrop /\ dropping' = cleaner.removed
       ELSE UNCHANGED vars
    /\ UNCHANGED <<clock, dirs, csv, pdf, gen>>

(* A cancelled context ends the pass at the next entry; nothing is dropped. *)
AbortCleanup ==
    /\ cleaner.at = "scan"
    /\ cleaner.todo # {}
    /\ cancelled
    /\ cleaner' = NotCleaning
    /\ UNCHANGED <<clock, dirs, csv, pdf, gen>>
    /\ UNCHANGED vars

CleanerStep == \/ StartCleanup \/ ReadActive \/ RemoveEntry \/ EndCleanup \/ AbortCleanup
               \/ \E d \in Dirs : CheckEntry(d)

-----------------------------------------------------------------------------

(* No report takes longer than the timeout of its context. *)
Tick ==
    /\ clock < MaxTime
    /\ \A w \in Workers : gen[w] # NoGen => clock < gen[w].since + JobTimeout
    /\ clock' = clock + 1
    /\ UNCHANGED <<dirs, csv, pdf, gen, cleaner>>
    /\ UNCHANGED vars

FilesNext == \/ JobStep
             \/ Tick
             \/ CleanerStep
             \/ \E w \in Workers : GenStep(w)

FilesSpec == FilesInit /\ [][FilesNext]_allVars

(* Time passes, the cleanup runs on its ticker, and the loop over the jobs to drop ends. *)
FilesFairSpec == /\ FilesSpec
                 /\ WF_allVars(Tick)
                 /\ WF_allVars(CleanerStep)
                 /\ WF_allVars(DropStep /\ UNCHANGED fileVars)
                 /\ \A w \in Workers : WF_allVars(GenStep(w))

-----------------------------------------------------------------------------
(* Properties *)

(* Every variable keeps its shape, and files are only in directories that exist. *)
FilesTypeOK ==
    /\ clock \in 0..MaxTime
    /\ DOMAIN dirs \subseteq Dirs
    /\ \A d \in DOMAIN dirs : dirs[d] \in 0..clock
    /\ csv \in [Dirs -> JobId \cup {NoJob}]
    /\ pdf \in [Dirs -> [job : JobId \cup {NoJob}, at : 0..MaxTime]]
    /\ \A d \in Dirs \ DOMAIN dirs : csv[d] = NoJob /\ pdf[d] = NoPdf
    /\ gen \in [Workers -> [stage : GenStage, since : 0..MaxTime]]
    /\ cleaner.at \in {"idle", "active", "scan", "remove"}
    /\ cleaner.todo \cup cleaner.busy \cup cleaner.removed \subseteq Dirs
    /\ cleaner.dir \in Dirs \cup {NoDir}

Removed == cleaner.removed \cup dropping

(* A client that sees a report done can fetch it: the files its job wrote are on
   disk until the cleanup removes them, and then the job is about to leave the
   table.  The cleanup, the timeouts and the time of the check must fit together
   for this; a service that is being stopped may leave the job behind. *)
DoneReportOnDisk ==
    \A id \in DOMAIN jobs :
        (jobs[id].status = "done" /\ ~cancelled) =>
            LET d == jobs[id].reportDir
            IN  (csv[d] = id /\ pdf[d].job = id) \/ d \in Removed

(* A report is on disk for at least ReportTTL after it was written. *)
ReportLivesForTTL ==
    [][ \A d \in Dirs : (pdf[d] # NoPdf /\ pdf'[d] = NoPdf) =>
            clock > pdf[d].at + ReportTTL ]_allVars

(* The cleanup never takes the directory away under a worker that writes to it. *)
CleanupSparesRunning ==
    [][ \A d \in DOMAIN dirs \ DOMAIN dirs' : \A w \in Workers :
            gen[w].stage \in {"dir", "csv", "pdf"} => DirOfWorker(w) # d ]_allVars

(* The PDF a done job points at was made for the node and the groups of that job. *)
PdfIsOfItsJob ==
    \A id \in DOMAIN jobs :
        (jobs[id].status = "done" /\ pdf[jobs[id].reportDir] # NoPdf) =>
            pdf[jobs[id].reportDir].job = id

(* An expired directory is removed, and its jobs leave the table, unless the service stops. *)
ExpiredReportsGo ==
    \A d \in Dirs :
        (d \in DOMAIN dirs /\ dirs[d] + ReportTTL < clock)
            ~> \/ d \notin DOMAIN dirs /\ \A id \in DOMAIN jobs : jobs[id].reportDir # d
               \/ cancelled
=============================================================================
