---------------------------- MODULE AlertWebhook ----------------------------
(***************************************************************************)
(* The Grafana webhook of reportd: handleGrafanaAlerts in                  *)
(* src/internal/reportd/grafana.go and reserveAlertFingerprint in          *)
(* service.go, on top of the job table of ReportJobs.                      *)
(*                                                                         *)
(* A delivery carries several alerts.  The handler takes the time once,    *)
(* then goes through the alerts: it reserves the fingerprint of a firing   *)
(* one under the mutex of the service and enqueues a report for it, and    *)
(* answers 503 at the first request the queue refuses.  Deliveries are     *)
(* handled concurrently, and Grafana delivers again what was not accepted. *)
(***************************************************************************)
EXTENDS ReportJobs

CONSTANTS
    Handlers,      \* goroutines of the HTTP server inside the webhook
    Fingerprints,  \* what tells alerts apart
    Cooldown,      \* Options.AlertCooldown
    MaxAlerts,     \* bound: firing alerts in one delivery
    MaxTime        \* bound: the clock

ASSUME AlertAssumption ==
    /\ Cooldown \in Nat
    /\ MaxAlerts \in Nat
    /\ MaxTime \in Nat

VARIABLES
    clock,      \* the time
    alertLast,  \* fingerprint -> the time of its last reservation
    handler,    \* per handler, its delivery
    reports     \* history: fingerprint and delivery time of each accepted job

alertVars  == <<clock, alertLast, handler, reports>>
serviceVars == <<vars, alertVars>>

(* Alerts that do not fire are skipped before anything is reserved and are left
   out of the deliveries. *)
Deliveries == UNION {[1..n -> Fingerprints] : n \in 1..MaxAlerts}

NoDelivery == [at |-> "idle", now |-> 0, todo |-> <<>>, job |-> NoJob]

AlertInit ==
    /\ Init
    /\ clock = 0
    /\ alertLast = [f \in {} |-> 0]
    /\ handler = [h \in Handlers |-> NoDelivery]
    /\ reports = {}

-----------------------------------------------------------------------------
(* reserveAlertFingerprint *)

InCooldownUnlessOlder(f, now) ==                            \* faulty variant
    f \in DOMAIN alertLast /\ now \in alertLast[f]..(alertLast[f] + Cooldown - 1)

(* A delivery that took its time before the last reservation is refused too: the
   difference is negative. *)
InCooldown(f, now) == f \in DOMAIN alertLast /\ now < alertLast[f] + Cooldown

ReservedUntil(f, now) ==                                    \* faulty variant
    [k \in DOMAIN alertLast \cup {f} |-> IF k = f THEN now + Cooldown ELSE alertLast[k]]

Reserved(f, now) ==
    [k \in DOMAIN alertLast \cup {f} |-> IF k = f THEN now ELSE alertLast[k]]

-----------------------------------------------------------------------------
(* handleGrafanaAlerts *)

Deliver(h) ==
    /\ handler[h].at = "idle"
    /\ \E alerts \in Deliveries :
          handler' = [handler EXCEPT ![h] =
                        [at |-> "reserve", now |-> clock, todo |-> alerts, job |-> NoJob]]
    /\ UNCHANGED <<clock, alertLast, reports>>
    /\ UNCHANGED vars

(* The next alert of the delivery, or the answer when there is none. *)
Continue(d) == IF Len(d.todo) > 1
               THEN [d EXCEPT !.at = "reserve", !.todo = Tail(@), !.job = NoJob]
               ELSE NoDelivery

Reserve(h) ==
    /\ MutexFree
    /\ handler[h].at = "reserve"
    /\ LET f   == Head(handler[h].todo)
           now == handler[h].now
       IN  IF Cooldown > 0 /\ InCooldown(f, now)
           THEN /\ handler' = [handler EXCEPT ![h] = Continue(@)]
                /\ UNCHANGED alertLast
           ELSE /\ handler' = [handler EXCEPT ![h].at = "enqueue"]
                /\ alertLast' = IF Cooldown > 0 THEN Reserved(f, now) ELSE alertLast
    /\ UNCHANGED <<clock, reports>>
    /\ UNCHANGED vars

(* enqueue begins; its steps are those of ReportJobs for the id it drew. *)
Enqueue(h) ==
    /\ handler[h].at = "enqueue"
    /\ DrawId
    /\ handler' = [handler EXCEPT ![h].at = "wait", ![h].job = seq']
    /\ UNCHANGED <<clock, alertLast, reports>>

Refused(id) == caller[id] = "rejected"
Taken(id)   == caller[id] \in {"armed", "releasing", "releaseFull", "returned"}

(* enqueue returned a job: it is listed in the answer and the next alert follows. *)
Created(h) ==
    /\ handler[h].at = "wait"
    /\ Taken(handler[h].job)
    /\ reports' = reports \cup
           {[alert |-> Head(handler[h].todo), now |-> handler[h].now, job |-> handler[h].job]}
    /\ handler' = [handler EXCEPT ![h] = Continue(@)]
    /\ UNCHANGED <<clock, alertLast>>
    /\ UNCHANGED vars

(* "report queue is full": the handler answers 503 and leaves the other alerts. *)
Unavailable(h) ==
    /\ handler[h].at = "wait"
    /\ Refused(handler[h].job)
    /\ handler' = [handler EXCEPT ![h] = NoDelivery]
    /\ UNCHANGED <<clock, alertLast, reports>>
    /\ UNCHANGED vars

HandlerStep(h) == Deliver(h) \/ Reserve(h) \/ Enqueue(h) \/ Created(h) \/ Unavailable(h)

-----------------------------------------------------------------------------

Tick == /\ clock < MaxTime
        /\ clock' = clock + 1
        /\ UNCHANGED <<alertLast, handler, reports>>
        /\ UNCHANGED vars

(* The job service: requests of other clients, timers, workers, cleanup. *)
JobsStep == Next /\ UNCHANGED alertVars

AlertNext == JobsStep \/ Tick \/ \E h \in Handlers : HandlerStep(h)

AlertSpec == AlertInit /\ [][AlertNext]_serviceVars

(* The handlers, their calls of enqueue and the holder of the mutex are scheduled;
   the workers need not be. *)
AlertFairSpec ==
    /\ AlertSpec
    /\ \A h \in Handlers :
          WF_serviceVars(Reserve(h) \/ Enqueue(h) \/ Created(h) \/ Unavailable(h))
    /\ \A id \in JobId : WF_serviceVars(CallerStep(id) /\ UNCHANGED alertVars)
    /\ WF_serviceVars(DropStep /\ UNCHANGED alertVars)

-----------------------------------------------------------------------------
(* Properties *)

(* Every variable keeps its shape. *)
AlertTypeOK ==
    /\ clock \in 0..MaxTime
    /\ DOMAIN alertLast \subseteq Fingerprints
    /\ \A f \in DOMAIN alertLast : alertLast[f] \in 0..clock
    /\ \A h \in Handlers :
        /\ handler[h].at \in {"idle", "reserve", "enqueue", "wait"}
        /\ handler[h].now \in 0..clock
        /\ handler[h].todo \in Deliveries \cup {<<>>}
        /\ handler[h].job \in JobId \cup {NoJob}

(* Reports for one fingerprint are at least a cooldown apart, also when deliveries
   are handled concurrently, carry an alert twice, or are overtaken by a later one
   between taking their time and reserving. *)
ReportsSpaced ==
    \A r, s \in reports :
        (r.alert = s.alert /\ r.job # s.job) =>
            r.now >= s.now + Cooldown \/ s.now >= r.now + Cooldown

(* An alert of h is skipped as "cooldown". *)
Skips(h) == /\ handler[h].at = "reserve"
            /\ handler'[h] # handler[h]
            /\ handler'[h].at # "enqueue"

(* The cooldown is an interval between reports: an alert is skipped for it only if
   its fingerprint has a report, or one being requested, from the last Cooldown. *)
SkippedOnlyAfterReport ==
    [][ \A h \in Handlers : Skips(h) =>
          LET f == Head(handler[h].todo)
          IN  \/ \E r \in reports : r.alert = f /\ handler[h].now < r.now + Cooldown
              \/ \E g \in Handlers : /\ handler[g].at \in {"enqueue", "wait"}
                                     /\ Head(handler[g].todo) = f ]_serviceVars

(* Grafana always gets its answer: neither the reservation nor enqueue ever waits
   for a worker, however long the reports take and however full the queue is.  (A
   handler about to draw an id is not asked to go on: the ids are bounded.) *)
DeliveriesAnswered ==
    \A h \in Handlers :
        handler[h].at \in {"reserve", "wait"} ~> handler[h].at \in {"idle", "enqueue"}
=============================================================================
