----------------------------- MODULE PanelRender -----------------------------
(***************************************************************************)
(* The charts of a report: the dashboard panels Generate of                *)
(* src/internal/report/report.go selects for the groups of a job, and      *)
(* renderGrafanaCharts of grafana.go, which renders them with a pool of    *)
(* workers: an unbuffered channel of jobs, a buffered one of results, a    *)
(* goroutine that feeds and closes them, and a collector that puts the     *)
(* results back in the order of the panels.                                *)
(*                                                                         *)
(* A render is one step with two outcomes: the chart, or a failure, which  *)
(* may also be its timeout.  Panels have the groups their title and type   *)
(* match.                                                                  *)
(***************************************************************************)
EXTENDS ReportRequest

CONSTANTS
    SyncPanels, NetworkPanels, SystemPanels,  \* the panels of the dashboards, in order
    GroupsOf,        \* panel of SyncPanels -> the groups that match it
    WorkerCounts     \* values of the option RenderWorkers

AllPanels == SyncPanels \o NetworkPanels \o SystemPanels
Elements(s) == {s[i] : i \in DOMAIN s}

(* A panel stands for its place in a dashboard, and panelMatchesGroups tests only the
   groups of the first one. *)
ASSUME PanelAssumption ==
    /\ \A s \in {SyncPanels, NetworkPanels, SystemPanels} : s \in Seq(Elements(s))
    /\ \A i, j \in DOMAIN AllPanels : AllPanels[i] = AllPanels[j] => i = j
    /\ \A p \in Elements(SyncPanels) : GroupsOf[p] \subseteq SyncGroups
    /\ WorkerCounts \subseteq Int

VARIABLES
    renderWorkers, \* cfg.RenderWorkers
    missing,       \* history: the dashboards that could not be loaded
    panels,        \* the panels selected so far
    sent,          \* jobs the feeder has handed over
    jobsClosed,
    worker,        \* the pool
    results,       \* the channel of results
    resultsClosed,
    ordered,       \* orderedResults of the collector
    charts,        \* what is returned: the panels whose charts are embedded
    tried          \* history: renders, with their outcome

pool == <<sent, jobsClosed, worker, results, resultsClosed, ordered, charts, tried>>
accepted == <<requestVars, renderWorkers>>
vars == <<accepted, stage, missing, panels, pool>>

Unset == [index |-> 0, ok |-> FALSE]
Idle  == [at |-> "idle", result |-> Unset]

Init ==
    /\ RequestInit
    /\ renderWorkers \in WorkerCounts
    /\ missing = {}
    /\ panels = <<>>
    /\ sent = 0
    /\ jobsClosed = FALSE
    /\ worker = <<>>
    /\ results = <<>>
    /\ resultsClosed = FALSE
    /\ ordered = <<>>
    /\ charts = <<>>
    /\ tried = {}

-----------------------------------------------------------------------------
(* Generate selects panels, dashboard by dashboard *)

(* The entries of a sequence that are wanted, in their order. *)
Keep(s, wanted) ==
    LET upTo[n \in 0..Len(s)] ==
            IF n = 0 THEN <<>>
            ELSE IF s[n] \in wanted THEN Append(upTo[n - 1], s[n]) ELSE upTo[n - 1]
    IN  upTo[Len(s)]

HasSyncRenderGroup == groups \cap (SyncGroups \cup {"All"}) # {}

ShouldRenderSyncDashboard == HasSyncRenderGroup \/ groups \cap {"Network", "System"} = {}

PanelMatchesGroups(p) == GroupsOf[p] \cap groups # {}

FilterPanelsByGroups(ps) ==
    IF "All" \in groups \/ ~HasSyncRenderGroup THEN ps
    ELSE Keep(ps, {p \in Elements(ps) : PanelMatchesGroups(p)})

(* A dashboard that cannot be loaded is left out with a warning. *)
Load(dashboard, wanted, selected, next) ==
    /\ stage = dashboard
    /\ stage' = next
    /\ \/ ~wanted /\ UNCHANGED <<panels, missing>>
       \/ wanted /\ panels' = panels \o selected /\ UNCHANGED missing
       \/ wanted /\ missing' = missing \cup {dashboard} /\ UNCHANGED panels
    /\ UNCHANGED <<accepted, pool>>

LoadSync == Load("sync", ShouldRenderSyncDashboard, FilterPanelsByGroups(SyncPanels), "network")
LoadNetwork == Load("network", groups \cap {"All", "Network"} # {}, NetworkPanels, "system")
LoadSystem == Load("system", groups \cap {"All", "System"} # {}, SystemPanels, "render")

-----------------------------------------------------------------------------
(* renderGrafanaCharts *)

Clamped(n) == IF n <= 0 THEN 1 ELSE IF n > Len(panels) THEN Len(panels) ELSE n

StartPool ==
    /\ stage = "render"
    /\ panels # <<>>
    /\ stage' = "collect"
    /\ worker' = [w \in 1..Clamped(renderWorkers) |-> Idle]
    /\ ordered' = [i \in DOMAIN panels |-> Unset]
    /\ UNCHANGED <<accepted, missing, panels, sent, jobsClosed, results, resultsClosed, charts, tried>>

NothingToRender ==
    /\ stage = "render"
    /\ panels = <<>>
    /\ stage' = "done"
    /\ UNCHANGED <<accepted, missing, panels, pool>>

(* The channel of jobs has no buffer: the feeder and a worker meet. *)
HandOver(w) ==
    /\ sent < Len(panels)
    /\ worker[w].at = "idle"
    /\ sent' = sent + 1
    /\ worker' = [worker EXCEPT ![w] = [at |-> "render", result |-> [Unset EXCEPT !.index = sent']]]
    /\ UNCHANGED <<accepted, stage, missing, panels, jobsClosed, results, resultsClosed, ordered,
                   charts, tried>>

CloseJobs ==
    /\ stage = "collect"
    /\ sent = Len(panels)
    /\ ~jobsClosed
    /\ jobsClosed' = TRUE
    /\ UNCHANGED <<accepted, stage, missing, panels, sent, worker, results, resultsClosed, ordered,
                   charts, tried>>

Render(w) ==
    /\ worker[w].at = "render"
    /\ \E ok \in BOOLEAN :
        /\ worker' = [worker EXCEPT ![w].at = "deliver", ![w].result.ok = ok]
        /\ tried' = tried \cup {<<panels[worker[w].result.index], ok>>}
    /\ UNCHANGED <<accepted, stage, missing, panels, sent, jobsClosed, results, resultsClosed,
                   ordered, charts>>

EndAfterFailure(w) == IF worker[w].result.ok THEN Idle                \* faulty variant
                      ELSE [Idle EXCEPT !.at = "done"]
NextJob(w) == Idle

Deliver(w) ==
    /\ worker[w].at = "deliver"
    /\ Len(results) < Len(panels)
    /\ results' = Append(results, worker[w].result)
    /\ worker' = [worker EXCEPT ![w] = NextJob(w)]
    /\ UNCHANGED <<accepted, stage, missing, panels, sent, jobsClosed, resultsClosed, ordered, charts,
                   tried>>

Finish(w) ==
    /\ jobsClosed
    /\ worker[w].at = "idle"
    /\ worker' = [worker EXCEPT ![w].at = "done"]
    /\ UNCHANGED <<accepted, stage, missing, panels, sent, jobsClosed, results, resultsClosed,
                   ordered, charts, tried>>

WorkerStep(w) == HandOver(w) \/ Render(w) \/ Deliver(w) \/ Finish(w)

SomeDone == \E w \in DOMAIN worker : worker[w].at = "done"            \* faulty variant
AllDone == \A w \in DOMAIN worker : worker[w].at = "done"

CloseResults ==
    /\ jobsClosed
    /\ AllDone
    /\ ~resultsClosed
    /\ resultsClosed' = TRUE
    /\ UNCHANGED <<accepted, stage, missing, panels, sent, jobsClosed, worker, results, ordered,
                   charts, tried>>

Collected == {i \in DOMAIN ordered : ordered[i] # Unset}

AsTheyCome(r) == CHOOSE i \in DOMAIN ordered \ Collected : TRUE       \* faulty variant
Place(r) == r.index

Collect ==
    /\ results # <<>>
    /\ ordered' = [ordered EXCEPT ![Place(Head(results))] = Head(results)]
    /\ results' = Tail(results)
    /\ UNCHANGED <<accepted, stage, missing, panels, sent, jobsClosed, worker, resultsClosed, charts,
                   tried>>

(* The channel is closed and empty: the charts, without the failures.  If all of them
   failed the error only makes Generate warn. *)
Return ==
    /\ stage = "collect"
    /\ resultsClosed
    /\ results = <<>>
    /\ stage' = "done"
    /\ LET good == Keep(ordered, {r \in Elements(ordered) : r.ok})
       IN  charts' = [i \in DOMAIN good |-> panels[good[i].index]]
    /\ UNCHANGED <<accepted, missing, panels, sent, jobsClosed, worker, results, resultsClosed,
                   ordered, tried>>

(* Before the job runs there is nothing to render. *)
Prepare == RequestStep /\ UNCHANGED <<renderWorkers, missing, panels, pool>>

Next == \/ Prepare
        \/ LoadSync \/ LoadNetwork \/ LoadSystem
        \/ StartPool \/ NothingToRender \/ CloseJobs \/ CloseResults \/ Collect \/ Return
        \/ \E w \in DOMAIN worker : WorkerStep(w)

Spec == Init /\ [][Next]_vars

(* Some goroutine goes on while one can: a render ends at the timeout of its request
   or of the context of the job. *)
FairSpec == Spec /\ WF_vars(Next)

-----------------------------------------------------------------------------
(* Properties *)

Result == [index : 0..Len(panels), ok : BOOLEAN]

(* Every variable keeps its shape, and the channel of results is closed only when no
   worker can send on it any more, which would end the process. *)
PanelTypeOK ==
    /\ settings \in Settings /\ request \in Requests
    /\ job.names \subseteq GroupNames /\ job.skip \in BOOLEAN
    /\ stage \in {"request", "refused", "queued", "sync", "network", "system", "render", "collect",
                 "done"}
    /\ missing \subseteq {"sync", "network", "system"}
    /\ Elements(panels) \subseteq Elements(AllPanels)
    /\ sent \in 0..Len(panels)
    /\ \A w \in DOMAIN worker :
        worker[w] \in [at : {"idle", "render", "deliver", "done"}, result : Result]
    /\ Elements(results) \subseteq Result
    /\ Len(results) <= Len(panels)
    /\ Elements(ordered) \subseteq Result
    /\ jobsClosed => sent = Len(panels)
    /\ resultsClosed => \A w \in DOMAIN worker : worker[w].at = "done"

(* What a request asks for. *)
Asks(p) ==
    /\ ~job.skip
    /\ \/ "All" \in GroupsMeant
       \/ p \in Elements(NetworkPanels) /\ "Network" \in GroupsMeant
       \/ p \in Elements(SystemPanels) /\ "System" \in GroupsMeant
       \/ p \in Elements(SyncPanels) /\ (GroupsMeant \cap GroupsOf[p] # {} \/ GroupsMeant = {})

DashboardOf(p) == CASE p \in Elements(SyncPanels) -> "sync"
                    [] p \in Elements(NetworkPanels) -> "network"
                    [] p \in Elements(SystemPanels) -> "system"

(* What was accepted is what the report shows.  A finished report has exactly the
   charts of the panels its request asked for that could be rendered, in the order of
   the dashboards, whatever order the workers finished in; and every panel asked for
   was tried, once, unless its dashboard could not be loaded. *)
ReportShowsWhatWasAsked ==
    /\ AcceptedAsMeant
    /\ stage = "done" =>
        /\ charts = Keep(AllPanels, {p \in Elements(AllPanels) : Asks(p) /\ <<p, TRUE>> \in tried})
        /\ \A p \in Elements(AllPanels) :
            Asks(p) /\ DashboardOf(p) \notin missing =>
                (<<p, TRUE>> \in tried <=> <<p, FALSE>> \notin tried)

(* Generate goes on to its files: neither the feeder nor a worker nor the collector
   waits for ever. *)
RenderEnds == <>(stage \in {"refused", "done"})
=============================================================================
