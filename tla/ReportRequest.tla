---------------------------- MODULE ReportRequest ----------------------------
(***************************************************************************)
(* What becomes of a request for a report before its job runs: a POST      *)
(* whose fields are in the body or in the query, an alert with labels, or  *)
(* the ticker of automatic reports (handlers.go, grafana.go, auto.go and   *)
(* parse.go of src/internal/reportd).  The job keeps the names of its      *)
(* groups and not the groups; runJob parses the names again.               *)
(*                                                                         *)
(* Times are numbers, and the formats of times, periods and booleans are   *)
(* left out.  What ReportJobs says of the queue is not repeated: enqueue   *)
(* is one step.                                                            *)
(***************************************************************************)
EXTENDS Integers, Sequences

CONSTANTS
    Settings,   \* values the options of reportd may have
    Requests,   \* requests that may arrive
    Now,        \* the clock
    Second,     \* a second, in the units of time
    Limit       \* durations are the integers of -Limit..(Limit - 1), and wrap

(* RenderGroups is the set of its fields that are true. *)
SyncGroups == {"Frequency", "Offset", "PathDelay", "Status"}
Groups     == SyncGroups \cup {"All", "Network", "System"}

Blank   == " "                         \* a name of spaces only
Comma   == ","                         \* a list without names that is not blank
Unknown == "cpu"                       \* a name no group has

Alias == [freq |-> "Frequency", frequency |-> "Frequency", offset |-> "Offset",
          path_delay |-> "PathDelay", pathdelay |-> "PathDelay", status |-> "Status",
          all |-> "All", network |-> "Network", system |-> "System"]
GroupNames == DOMAIN Alias

Name == [Frequency |-> "frequency", Offset |-> "offset", PathDelay |-> "path_delay",
         Status |-> "status", All |-> "all", Network |-> "network", System |-> "system"]

(* The fields of a request; here, with nothing filled in. *)
Empty == [groups |-> {}, skip |-> "unset", from |-> 0, to |-> 0, period |-> 0, seconds |-> 0]

Post(body, query) == [source |-> "manual", body |-> body, query |-> query]

(* An alert has labels of its own and those it has in common with the others of its
   delivery.  A delay below zero stands for a label that is missing, too. *)
Alert(label, common, delay) ==
    [source |-> "alert", label |-> label, common |-> common, delay |-> delay]

Automatic == [source |-> "auto"]

Forms == [groups : SUBSET STRING, skip : {"unset", "yes", "no"},
          from : Int, to : Int, period : Int, seconds : Int]

(* The loop of automatic reports runs only with a positive interval. *)
ASSUME RequestAssumption ==
    /\ Now \in Nat /\ Second \in Nat \ {0} /\ Limit \in Nat \ {0}
    /\ \A o \in Settings :
        /\ o.groups \subseteq Groups /\ o.alertGroups \subseteq Groups /\ o.skip \in BOOLEAN
        /\ o.period \in Int /\ o.alertPeriod \in Int /\ o.alertDelay \in Int
        /\ o.autoWindow \in Int /\ o.autoInterval \in Nat \ {0}
    /\ Requests \subseteq [source : {"manual"}, body : Forms, query : Forms]
                        \cup [source : {"alert"}, label : SUBSET STRING, common : SUBSET STRING,
                             delay : Int]
                        \cup {Automatic}

VARIABLES
    settings,   \* s.opts
    request,    \* the request
    job,        \* its job
    stage       \* where it is

requestVars == <<settings, request, job>>

NoJob == [names |-> {}, skip |-> FALSE, from |-> 0, to |-> 0]

RequestInit ==
    /\ settings \in Settings
    /\ request \in Requests
    /\ job = NoJob
    /\ stage = "request"

-----------------------------------------------------------------------------
(* Group names *)

NormalizeGroupNames(values) == values \ {Blank, Comma}

Unparsed(values) == NormalizeGroupNames(values) \ GroupNames
ParseRenderGroupList(values) == {Alias[n] : n \in NormalizeGroupNames(values)}

RenderGroupNames(gs) == {Name[g] : g \in gs}

-----------------------------------------------------------------------------
(* handleReports: readCreateReportRequest and createSpecFromRequest *)

(* A field of the query counts where the body has none, and blank group names of a
   query are dropped. *)
Form(r) ==
    [f \in DOMAIN Empty |->
        IF r.body[f] # Empty[f] THEN r.body[f]
        ELSE IF f = "groups" THEN NormalizeGroupNames(r.query.groups) ELSE r.query[f]]

Wrapped(v) == ((v + Limit) % (2 * Limit)) - Limit

OrHour(period) == IF period <= 0 THEN 3600 * Second ELSE period
DefaultPeriod  == OrHour(settings.period)
AlertPeriod    == IF settings.alertPeriod <= 0 THEN DefaultPeriod ELSE settings.alertPeriod

Period(form) == IF form.seconds > 0 THEN Wrapped(form.seconds * Second)
                ELSE IF form.period # 0 THEN form.period ELSE DefaultPeriod

To(form)   == IF form.to = 0 THEN Now ELSE form.to
StartFromNow(form) == IF form.from = 0 THEN Now - Period(form) ELSE form.from   \* faulty variant
From(form) == IF form.from = 0 THEN To(form) - Period(form) ELSE form.from

Acceptable(form) ==
    /\ Period(form) > 0
    /\ From(form) < To(form)
    /\ Unparsed(form.groups) = {}

SkipCharts(form) == form.skip = "yes" \/ (form.skip = "unset" /\ settings.skip)

Enqueue(spec) ==
    /\ job' = spec
    /\ stage' = "queued"
    /\ UNCHANGED <<settings, request>>

CreateManual ==
    /\ stage = "request"
    /\ request.source = "manual"
    /\ LET form == Form(request)
       IN  /\ Acceptable(form)
           /\ Enqueue([names |-> IF form.groups = {} THEN RenderGroupNames(settings.groups)
                                 ELSE NormalizeGroupNames(form.groups),
                       skip |-> SkipCharts(form), from |-> From(form), to |-> To(form)])

(* 400 *)
RefuseManual ==
    /\ stage = "request"
    /\ request.source = "manual"
    /\ ~Acceptable(Form(request))
    /\ stage' = "refused"
    /\ UNCHANGED requestVars

-----------------------------------------------------------------------------
(* handleGrafanaAlerts and triggerAutoReport *)

FirstSet(label, common)      == IF label # {} THEN label \ {Blank}      \* faulty variant
                                ELSE common \ {Blank}
FirstNonEmpty(label, common) == IF label \ {Blank} # {} THEN label \ {Blank}
                                ELSE common \ {Blank}

(* A label that cannot be parsed is ignored with a warning. *)
LabelGroups(label) ==
    IF label = {} \/ Unparsed(label) # {} THEN settings.alertGroups
    ELSE ParseRenderGroupList(label)

(* So is a delay below zero. *)
Delay(label) == IF label < 0 THEN settings.alertDelay ELSE label

CreateForAlert ==
    /\ stage = "request"
    /\ request.source = "alert"
    /\ LET to    == Now + Delay(request.delay)
           label == FirstNonEmpty(request.label, request.common)
       IN  Enqueue([names |-> RenderGroupNames(LabelGroups(label)),
                    skip |-> settings.skip, from |-> to - AlertPeriod, to |-> to])

AutoWindow == IF settings.autoWindow <= 0 THEN settings.autoInterval ELSE settings.autoWindow

CreateAuto ==
    /\ stage = "request"
    /\ request.source = "auto"
    /\ Enqueue([names |-> RenderGroupNames(settings.groups), skip |-> settings.skip,
                from |-> Now - AutoWindow, to |-> Now])

-----------------------------------------------------------------------------
(* runJob and the start of Generate *)

groups == ParseRenderGroupList(job.names)

RunJob ==
    /\ stage = "queued"
    /\ stage' = IF Unparsed(job.names) # {} \/ ~(job.from < job.to) THEN "failed"
                ELSE IF job.skip THEN "done" ELSE "sync"
    /\ UNCHANGED requestVars

RequestStep == CreateManual \/ RefuseManual \/ CreateForAlert \/ CreateAuto \/ RunJob

-----------------------------------------------------------------------------
(* Properties *)

(* What a request means is told without the operators of the handlers. *)
Given(f) == IF request.body[f] # Empty[f] THEN request.body[f] ELSE request.query[f]

GroupsOfNames(names) == {g \in Groups : \E n \in names \cap GroupNames : Alias[n] = g}

(* The groups it names, in the body before the query and in a label of its own before
   a common one, or those its kind of request has by default.  A label that is blank or
   has an unknown name counts as none; a list without names in the body asks for none. *)
GroupsMeant ==
    CASE request.source = "auto" -> settings.groups
      [] request.source = "alert" ->
            LET label == IF request.label \subseteq {Blank} THEN request.common ELSE request.label
            IN  IF label \subseteq {Blank} \/ ~(label \subseteq GroupNames \cup {Blank, Comma})
                THEN settings.alertGroups ELSE GroupsOfNames(label)
      [] request.source = "manual" ->
            IF request.body.groups = {} /\ request.query.groups \subseteq {Blank, Comma}
            THEN settings.groups ELSE GroupsOfNames(Given("groups"))

SkipMeant == IF request.source = "manual" /\ Given("skip") # "unset" THEN Given("skip") = "yes"
             ELSE settings.skip

EndMeant ==
    CASE request.source = "auto" -> Now
      [] request.source = "alert" ->
            Now + (IF request.delay >= 0 THEN request.delay ELSE settings.alertDelay)
      [] request.source = "manual" -> IF Given("to") # 0 THEN Given("to") ELSE Now

UsualLength == IF settings.period > 0 THEN settings.period ELSE 3600 * Second

LengthMeant ==
    CASE request.source = "auto" ->
            IF settings.autoWindow > 0 THEN settings.autoWindow ELSE settings.autoInterval
      [] request.source = "alert" ->
            IF settings.alertPeriod > 0 THEN settings.alertPeriod ELSE UsualLength
      [] request.source = "manual" ->
            IF Given("seconds") > 0 THEN Given("seconds") * Second
            ELSE IF Given("period") # 0 THEN Given("period") ELSE UsualLength

StartMeant == IF request.source = "manual" /\ Given("from") # 0 THEN Given("from")
              ELSE EndMeant - LengthMeant

(* A start that is counted in seconds is what was meant only if they are a duration:
   the handler does not notice that their product wraps to a short window. *)
StartFits == request.source = "manual" /\ Given("from") = 0 => Given("seconds") * Second < Limit

(* What was accepted runs with what was meant: no worker refuses the groups or the
   window of a job that a handler or the ticker created, the names the job keeps stand
   for the groups of the request, its window ends and starts where the request or the
   options of its kind say, unless it asks for more seconds than a duration has, and
   the charts are skipped when they say so. *)
AcceptedAsMeant ==
    stage \notin {"request", "refused"} =>
        /\ stage # "failed"
        /\ job.from < job.to
        /\ groups = GroupsMeant
        /\ job.to = EndMeant
        /\ StartFits => job.from = StartMeant
        /\ job.skip = SkipMeant
=============================================================================
