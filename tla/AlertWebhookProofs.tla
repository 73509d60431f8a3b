------------------------ MODULE AlertWebhookProofs -------------------------
(***************************************************************************)
(* Proofs about AlertWebhook, for any handlers, fingerprints, cooldown and *)
(* deliveries, on top of those about ReportJobs.                           *)
(***************************************************************************)
EXTENDS AlertWebhook, ReportJobsProofs

(* A handler that has reserved a fingerprint and has not yet been told what became of
   its request. *)
Claims(h)   == handler[h].at \in {"enqueue", "wait"}
Alert(h)    == Head(handler[h].todo)
Apart(a, b) == a >= b + Cooldown \/ b >= a + Cooldown

HandlerState == [at : {"idle", "reserve", "enqueue", "wait"}, now : Nat,
                 todo : Seq(Fingerprints), job : JobId \cup {NoJob}]

AlertTypes ==
    /\ clock \in 0..MaxTime
    /\ DOMAIN alertLast \subseteq Fingerprints
    /\ \A f \in DOMAIN alertLast : alertLast[f] \in 0..clock
    /\ handler \in [Handlers -> HandlerState]
    /\ \A h \in Handlers : /\ handler[h].now <= clock
                           /\ Len(handler[h].todo) <= MaxAlerts
                           /\ handler[h].at # "idle" => handler[h].todo # <<>>
    /\ \A r \in reports : r.now \in Nat

(* Reports and claims for one fingerprint are apart, and none is younger than the
   reservation in alertLast, with which the next delivery is compared. *)
SpacedInv ==
    /\ \A r, s \in reports : r.alert = s.alert /\ r.job # s.job => Apart(r.now, s.now)
    /\ \A h \in Handlers : Claims(h) =>
        /\ \A r \in reports : r.alert = Alert(h) => Apart(handler[h].now, r.now)
        /\ \A g \in Handlers : g # h /\ Claims(g) /\ Alert(g) = Alert(h)
                                 => Apart(handler[h].now, handler[g].now)
    /\ Cooldown > 0 =>
        /\ \A r \in reports : r.alert \in DOMAIN alertLast /\ r.now <= alertLast[r.alert]
        /\ \A h \in Handlers : Claims(h) =>
             Alert(h) \in DOMAIN alertLast /\ handler[h].now <= alertLast[Alert(h)]

AlertInv == IInv /\ AlertTypes /\ SpacedInv

-----------------------------------------------------------------------------
(* Every step is a step of the job service or leaves it alone. *)
LEMMA ServiceStep == [AlertNext]_serviceVars => [Next]_vars
BY DEF AlertNext, JobsStep, Tick, HandlerStep, Deliver, Reserve, Enqueue, Created, Unavailable,
       serviceVars, Next

(* What remains of a delivery after one alert. *)
LEMMA ContinueFacts ==
    ASSUME AlertTypes, NEW h \in Handlers, handler[h].at # "idle"
    PROVE  LET d == Continue(handler[h])
           IN  /\ d \in HandlerState
               /\ d.at \in {"idle", "reserve"}
               /\ d.now <= clock
               /\ Len(d.todo) <= MaxAlerts
               /\ d.at # "idle" => d.todo # <<>>
<1> DEFINE d == Continue(handler[h])
<1>1. /\ handler[h] \in HandlerState /\ handler[h].now <= clock /\ clock \in Nat
      /\ handler[h].todo \in Seq(Fingerprints) /\ Len(handler[h].todo) <= MaxAlerts
    BY AlertAssumption DEF AlertTypes, HandlerState
<1>2. CASE Len(handler[h].todo) > 1
    <2>1. /\ Tail(handler[h].todo) \in Seq(Fingerprints)
          /\ Len(Tail(handler[h].todo)) = Len(handler[h].todo) - 1
          /\ Tail(handler[h].todo) # <<>>
        <3>1. PICK todo \in Seq(Fingerprints) : todo = handler[h].todo
            BY <1>1
        <3>2. Len(todo) \in Nat /\ Len(todo) > 1 /\ todo # <<>>
            BY <1>2, <3>1
        <3>3. Tail(todo) \in Seq(Fingerprints) /\ Len(Tail(todo)) = Len(todo) - 1
            BY <3>2, HeadTailProperties
        <3>4. Tail(todo) # <<>>
            <4>1. PICK t \in Seq(Fingerprints) : t = Tail(todo)
                BY <3>3
            <4>2. Len(t) # 0
                BY <3>2, <3>3, <4>1
            <4> QED BY <4>1, <4>2
        <3> QED BY <3>1, <3>3, <3>4
    <2>2. d = [handler[h] EXCEPT !.at = "reserve", !.todo = Tail(@), !.job = NoJob]
        BY <1>2 DEF Continue
    <2>3. PICK b \in HandlerState, rest \in Seq(Fingerprints) :
             b = handler[h] /\ rest = Tail(handler[h].todo)
        BY <1>1, <2>1
    <2>4. d = [at |-> "reserve", now |-> b.now, todo |-> rest, job |-> NoJob]
        BY <2>2, <2>3 DEF HandlerState
    <2>5. /\ d \in HandlerState /\ d.at = "reserve" /\ d.now = b.now /\ d.todo = rest
        BY <2>3, <2>4 DEF HandlerState
    <2> QED BY <1>1, <2>1, <2>3, <2>5, AlertAssumption
<1>3. CASE ~(Len(handler[h].todo) > 1)
    <2>1. d = NoDelivery
        BY <1>3 DEF Continue
    <2> QED BY <1>1, <2>1, AlertAssumption DEF NoDelivery, HandlerState
<1> QED BY <1>2, <1>3

LEMMA InitAlertInv == AlertInit => AlertInv
<1> SUFFICES ASSUME AlertInit PROVE AlertInv
    OBVIOUS
<1>1. IInv
    BY InitIInv DEF AlertInit
<1>2. NoDelivery \in HandlerState /\ NoDelivery.at = "idle" /\ NoDelivery.now = 0
      /\ NoDelivery.todo = <<>>
    BY DEF NoDelivery, HandlerState
<1>3. AlertTypes
    BY <1>2, AlertAssumption DEF AlertInit, AlertTypes
<1>4. SpacedInv
    BY <1>2 DEF AlertInit, SpacedInv, Claims
<1> QED BY <1>1, <1>3, <1>4 DEF AlertInv

-----------------------------------------------------------------------------
(* A handler goes on in a state that claims nothing: nothing is reserved or reported. *)
LEMMA Unclaimed ==
    ASSUME AlertTypes, SpacedInv, NEW h \in Handlers, NEW d \in HandlerState,
           d.now <= clock, Len(d.todo) <= MaxAlerts, d.at # "idle" => d.todo # <<>>,
           d.at \in {"idle", "reserve"},
           handler' = [handler EXCEPT ![h] = d],
           UNCHANGED <<clock, alertLast, reports>>
    PROVE  AlertTypes' /\ SpacedInv'
<1>1. handler'[h] = d /\ \A g \in Handlers \ {h} : handler'[g] = handler[g]
    BY DEF AlertTypes
<1>2. AlertTypes'
    BY <1>1 DEF AlertTypes
<1>3. ~Claims(h)' /\ \A g \in Handlers \ {h} : Claims(g)' = Claims(g) /\ Alert(g)' = Alert(g)
    BY <1>1 DEF Claims, Alert
<1>4. SpacedInv'
    BY <1>1, <1>3 DEF SpacedInv
<1> QED BY <1>2, <1>4

LEMMA DeliverKeeps ==
    ASSUME AlertTypes, SpacedInv, NEW h \in Handlers, Deliver(h)
    PROVE  AlertTypes' /\ SpacedInv'
<1>1. PICK alerts \in Deliveries :
        handler' = [handler EXCEPT ![h] =
                      [at |-> "reserve", now |-> clock, todo |-> alerts, job |-> NoJob]]
    BY DEF Deliver
<1>2. PICK n \in 1..MaxAlerts : alerts \in [1..n -> Fingerprints]
    BY DEF Deliveries
<1>3. n \in Nat /\ n > 0 /\ n <= MaxAlerts
    BY AlertAssumption
<1>4. alerts \in Seq(Fingerprints)
    BY <1>2, <1>3, SeqDef
<1>5. Len(alerts) = n /\ alerts # <<>>
    BY <1>2, <1>3, <1>4
<1>6. PICK d : d = [at |-> "reserve", now |-> clock, todo |-> alerts, job |-> NoJob]
    OBVIOUS
<1>7. clock \in Nat /\ d \in HandlerState
    BY <1>4, <1>6, AlertAssumption DEF HandlerState, AlertTypes
<1>8. d.at = "reserve" /\ d.now <= clock /\ Len(d.todo) <= MaxAlerts /\ d.todo # <<>>
    BY <1>3, <1>5, <1>6, <1>7
<1>9. handler' = [handler EXCEPT ![h] = d] /\ UNCHANGED <<clock, alertLast, reports>>
    BY <1>1, <1>6 DEF Deliver
<1> QED BY <1>7, <1>8, <1>9, Unclaimed

LEMMA SkipKeeps ==
    ASSUME AlertTypes, SpacedInv, NEW h \in Handlers, handler[h].at # "idle",
           handler' = [handler EXCEPT ![h] = Continue(handler[h])],
           UNCHANGED <<clock, alertLast, reports>>
    PROVE  AlertTypes' /\ SpacedInv'
<1>1. PICK d : d = Continue(handler[h])
    OBVIOUS
<1>2. /\ d \in HandlerState /\ d.at \in {"idle", "reserve"} /\ d.now <= clock
      /\ Len(d.todo) <= MaxAlerts /\ (d.at # "idle" => d.todo # <<>>)
    BY <1>1, ContinueFacts
<1> QED BY <1>1, <1>2, Unclaimed

(* The reservation: the delivery is a cooldown after the last reservation, hence after
   every report and claim for its fingerprint. *)
LEMMA ReserveKeeps ==
    ASSUME AlertTypes, SpacedInv, NEW h \in Handlers, Reserve(h)
    PROVE  AlertTypes' /\ SpacedInv'
<1> DEFINE f   == Head(handler[h].todo)
           now == handler[h].now
<1>1. /\ handler[h].at = "reserve" /\ handler[h] \in HandlerState /\ f \in Fingerprints
      /\ now \in 0..clock /\ clock \in Nat /\ UNCHANGED <<clock, reports>>
    BY AlertAssumption DEF Reserve, AlertTypes, HandlerState
<1>2. CASE Cooldown > 0 /\ InCooldown(f, now)
    BY <1>1, <1>2, SkipKeeps DEF Reserve
<1>3. CASE ~(Cooldown > 0 /\ InCooldown(f, now))
    <2>1. /\ handler' = [handler EXCEPT ![h].at = "enqueue"]
          /\ alertLast' = IF Cooldown > 0 THEN Reserved(f, now) ELSE alertLast
        BY <1>3 DEF Reserve
    <2>2. /\ handler'[h] \in HandlerState /\ handler'[h].at = "enqueue"
          /\ handler'[h].now = now /\ handler'[h].todo = handler[h].todo
          /\ \A g \in Handlers \ {h} : handler'[g] = handler[g]
          /\ handler' \in [Handlers -> HandlerState]
        BY <1>1, <2>1 DEF AlertTypes, HandlerState
    <2>3. /\ Cooldown > 0 => /\ DOMAIN alertLast' = DOMAIN alertLast \cup {f}
                             /\ alertLast'[f] = now
                             /\ \A k \in DOMAIN alertLast \ {f} : alertLast'[k] = alertLast[k]
                             /\ f \in DOMAIN alertLast => alertLast[f] + Cooldown <= now
          /\ Cooldown = 0 => alertLast' = alertLast
        <3> HIDE DEF f, now
        <3>1. CASE Cooldown > 0
            <4>1. f \in DOMAIN alertLast => alertLast[f] \in Nat
                BY <1>1 DEF AlertTypes
            <4> QED BY <1>1, <1>3, <2>1, <3>1, <4>1, AlertAssumption DEF Reserved, InCooldown
        <3>2. CASE Cooldown = 0
            BY <2>1, <3>2
        <3> QED BY <3>1, <3>2
    <2>4. AlertTypes'
        <3>1. DOMAIN alertLast' \subseteq Fingerprints
              /\ \A k \in DOMAIN alertLast' : alertLast'[k] \in 0..clock
            <4> HIDE DEF f, now
            <4> QED BY <1>1, <2>3, AlertAssumption DEF AlertTypes
        <3>2. \A g \in Handlers : /\ handler'[g].now <= clock
                                  /\ Len(handler'[g].todo) <= MaxAlerts
                                  /\ handler'[g].at # "idle" => handler'[g].todo # <<>>
            BY <1>1, <2>2 DEF AlertTypes
        <3> QED BY <1>1, <2>2, <3>1, <3>2 DEF AlertTypes
    <2>5. /\ Claims(h)' /\ Alert(h)' = f /\ ~Claims(h)
          /\ \A g \in Handlers \ {h} : Claims(g)' = Claims(g) /\ Alert(g)' = Alert(g)
        BY <1>1, <2>2 DEF Claims, Alert
    <2>6. \A g \in Handlers : handler[g].now \in Nat
        BY DEF AlertTypes, HandlerState
    <2>7. \A r \in reports : r.alert = f => Apart(now, r.now)
        <3> HIDE DEF f, now
        <3>1. CASE Cooldown = 0
            BY <1>1, <3>1, AlertAssumption DEF Apart, AlertTypes
        <3>2. CASE Cooldown > 0
            <4> SUFFICES ASSUME NEW r \in reports, r.alert = f PROVE Apart(now, r.now)
                OBVIOUS
            <4>1. f \in DOMAIN alertLast /\ r.now <= alertLast[f] /\ r.now \in Nat
                BY <3>2 DEF SpacedInv, AlertTypes
            <4>2. alertLast[f] \in Nat /\ alertLast[f] + Cooldown <= now
                BY <2>3, <3>2, <4>1 DEF AlertTypes
            <4> QED BY <1>1, <4>1, <4>2, AlertAssumption DEF Apart
        <3> QED BY <3>1, <3>2, AlertAssumption
    <2>8. \A g \in Handlers : g # h /\ Claims(g) /\ Alert(g) = f
                                => Apart(now, handler[g].now) /\ Apart(handler[g].now, now)
        <3> HIDE DEF f, now
        <3> SUFFICES ASSUME NEW g \in Handlers, g # h, Claims(g), Alert(g) = f
                     PROVE  Apart(now, handler[g].now) /\ Apart(handler[g].now, now)
            OBVIOUS
        <3>1. CASE Cooldown = 0
            BY <1>1, <2>6, <3>1 DEF Apart
        <3>2. CASE Cooldown > 0
            <4>1. f \in DOMAIN alertLast /\ handler[g].now <= alertLast[f]
                BY <3>2 DEF SpacedInv
            <4>2. alertLast[f] \in Nat /\ alertLast[f] + Cooldown <= now
                BY <2>3, <3>2, <4>1 DEF AlertTypes
            <4> QED BY <1>1, <2>6, <4>1, <4>2, AlertAssumption DEF Apart
        <3> QED BY <3>1, <3>2, AlertAssumption
    <2>9. Cooldown > 0 =>
            /\ \A r \in reports : r.alert \in DOMAIN alertLast' /\ r.now <= alertLast'[r.alert]
            /\ \A g \in Handlers : Claims(g)' =>
                 Alert(g)' \in DOMAIN alertLast' /\ handler'[g].now <= alertLast'[Alert(g)']
        <3> SUFFICES ASSUME Cooldown > 0
                     PROVE  /\ \A r \in reports :
                                 r.alert \in DOMAIN alertLast' /\ r.now <= alertLast'[r.alert]
                            /\ \A g \in Handlers : Claims(g)' =>
                                 /\ Alert(g)' \in DOMAIN alertLast'
                                 /\ handler'[g].now <= alertLast'[Alert(g)']
            OBVIOUS
        <3>1. \A k \in DOMAIN alertLast : /\ alertLast[k] \in Nat /\ k \in DOMAIN alertLast'
                                          /\ alertLast'[k] \in Nat
                                          /\ alertLast[k] <= alertLast'[k]
            <4> HIDE DEF f, now
            <4> QED BY <1>1, <2>3, AlertAssumption DEF AlertTypes
        <3>2. \A r \in reports : r.alert \in DOMAIN alertLast /\ r.now <= alertLast[r.alert]
                                 /\ r.now \in Nat
            BY DEF SpacedInv, AlertTypes
        <3>3. \A g \in Handlers \ {h} : Claims(g) =>
                 Alert(g) \in DOMAIN alertLast /\ handler[g].now <= alertLast[Alert(g)]
            BY DEF SpacedInv
        <3>4. f \in DOMAIN alertLast' /\ handler'[h].now <= alertLast'[f]
            BY <1>1, <2>2, <2>3
        <3>5. \A r \in reports : r.alert \in DOMAIN alertLast' /\ r.now <= alertLast'[r.alert]
            BY <3>1, <3>2
        <3>6. \A g \in Handlers \ {h} : Claims(g)' =>
                 Alert(g)' \in DOMAIN alertLast' /\ handler'[g].now <= alertLast'[Alert(g)']
            BY <2>2, <2>5, <2>6, <3>1, <3>3
        <3> QED BY <2>5, <3>4, <3>5, <3>6
    <2>10. SpacedInv'
        <3> HIDE DEF f, now
        <3> QED BY <1>1, <2>2, <2>5, <2>7, <2>8, <2>9 DEF SpacedInv, Apart
    <2> QED BY <2>4, <2>10
<1> QED BY <1>2, <1>3

LEMMA EnqueueKeeps ==
    ASSUME AlertTypes, SpacedInv, TypeOK, NEW h \in Handlers, Enqueue(h)
    PROVE  AlertTypes' /\ SpacedInv'
<1>1. seq' \in JobId
    BY SizesAssumption DEF Enqueue, DrawId, TypeOK, JobId
<1>2. /\ handler[h].at = "enqueue" /\ handler[h] \in HandlerState
      /\ UNCHANGED <<clock, alertLast, reports>>
    BY DEF Enqueue, AlertTypes
<1>3. /\ handler'[h] \in HandlerState /\ handler'[h].at = "wait"
      /\ handler'[h].now = handler[h].now /\ handler'[h].todo = handler[h].todo
      /\ \A g \in Handlers \ {h} : handler'[g] = handler[g]
      /\ handler' \in [Handlers -> HandlerState]
    BY <1>1, <1>2 DEF Enqueue, AlertTypes, HandlerState
<1>4. AlertTypes'
    BY <1>2, <1>3 DEF AlertTypes
<1>5. \A g \in Handlers : Claims(g)' = Claims(g) /\ Alert(g)' = Alert(g)
                          /\ handler'[g].now = handler[g].now
    BY <1>2, <1>3 DEF Claims, Alert
<1>6. SpacedInv'
    BY <1>2, <1>5 DEF SpacedInv
<1> QED BY <1>4, <1>6

(* A claim becomes a report. *)
LEMMA CreatedKeeps ==
    ASSUME AlertTypes, SpacedInv, NEW h \in Handlers, Created(h)
    PROVE  AlertTypes' /\ SpacedInv'
<1>1. PICK d : d = Continue(handler[h])
    OBVIOUS
<1>2. PICK r : r = [alert |-> Alert(h), now |-> handler[h].now, job |-> handler[h].job]
    OBVIOUS
<1>3. /\ handler[h].at = "wait" /\ reports' = reports \cup {r}
      /\ handler' = [handler EXCEPT ![h] = d]
      /\ UNCHANGED <<clock, alertLast>>
    BY <1>1, <1>2 DEF Created, Alert
<1>4. /\ d \in HandlerState /\ d.at \in {"idle", "reserve"} /\ d.now <= clock
      /\ Len(d.todo) <= MaxAlerts /\ (d.at # "idle" => d.todo # <<>>)
    BY <1>1, <1>3, ContinueFacts
<1>5. r.alert = Alert(h) /\ r.now = handler[h].now /\ r.now \in Nat
    BY <1>2 DEF AlertTypes, HandlerState
<1>6. handler'[h] = d /\ \A g \in Handlers \ {h} : handler'[g] = handler[g]
    BY <1>3 DEF AlertTypes
<1>7. AlertTypes'
    BY <1>3, <1>4, <1>5, <1>6 DEF AlertTypes
<1>8. Claims(h) /\ ~Claims(h)'
      /\ \A g \in Handlers \ {h} : Claims(g)' = Claims(g) /\ Alert(g)' = Alert(g)
    BY <1>3, <1>4, <1>6 DEF Claims, Alert
<1>9. \A a, b : Apart(a, b) = Apart(b, a)
    BY DEF Apart
<1>10. \A s \in reports : s.alert = r.alert => Apart(r.now, s.now) /\ Apart(s.now, r.now)
    BY <1>5, <1>8, <1>9 DEF SpacedInv
<1>11. \A g \in Handlers \ {h} : Claims(g) /\ Alert(g) = r.alert => Apart(handler[g].now, r.now)
    BY <1>5, <1>8 DEF SpacedInv
<1>12. \A s, t \in reports' : s.alert = t.alert /\ s.job # t.job => Apart(s.now, t.now)
    BY <1>3, <1>10 DEF SpacedInv
<1>13. \A g \in Handlers : Claims(g)' =>
         /\ \A s \in reports' : s.alert = Alert(g)' => Apart(handler'[g].now, s.now)
         /\ \A k \in Handlers : k # g /\ Claims(k)' /\ Alert(k)' = Alert(g)'
                                  => Apart(handler'[g].now, handler'[k].now)
    BY <1>3, <1>6, <1>8, <1>11 DEF SpacedInv
<1>14. Cooldown > 0 =>
         /\ \A s \in reports' : s.alert \in DOMAIN alertLast' /\ s.now <= alertLast'[s.alert]
         /\ \A g \in Handlers : Claims(g)' =>
              Alert(g)' \in DOMAIN alertLast' /\ handler'[g].now <= alertLast'[Alert(g)']
    BY <1>3, <1>5, <1>6, <1>8 DEF SpacedInv
<1> QED BY <1>7, <1>12, <1>13, <1>14 DEF SpacedInv, Apart

LEMMA UnavailableKeeps ==
    ASSUME AlertTypes, SpacedInv, NEW h \in Handlers, Unavailable(h)
    PROVE  AlertTypes' /\ SpacedInv'
<1>1. PICK d : d = NoDelivery
    OBVIOUS
<1>2. /\ d \in HandlerState /\ d.at = "idle" /\ d.now <= clock
      /\ Len(d.todo) <= MaxAlerts
    BY <1>1, AlertAssumption DEF NoDelivery, HandlerState, AlertTypes
<1> QED BY <1>1, <1>2, Unclaimed DEF Unavailable

LEMMA AlertNextKeeps == AlertInv /\ [AlertNext]_serviceVars => AlertInv'
<1> SUFFICES ASSUME AlertInv, [AlertNext]_serviceVars PROVE AlertInv'
    OBVIOUS
<1>1. IInv'
    BY ServiceStep, NextKeeps DEF AlertInv
<1>2. ASSUME UNCHANGED <<handler, alertLast, reports>>,
             clock' \in 0..MaxTime, clock <= clock'
      PROVE  AlertTypes' /\ SpacedInv'
    <2>1. AlertTypes'
        <3>1. \A f \in DOMAIN alertLast : alertLast[f] \in Nat /\ alertLast[f] <= clock'
            BY <1>2, AlertAssumption DEF AlertInv, AlertTypes
        <3>2. \A h \in Handlers : handler[h].now \in Nat /\ handler[h].now <= clock'
            BY <1>2, AlertAssumption DEF AlertInv, AlertTypes, HandlerState
        <3> QED BY <1>2, <3>1, <3>2, AlertAssumption DEF AlertInv, AlertTypes
    <2>2. SpacedInv'
        BY <1>2 DEF AlertInv, SpacedInv, Claims, Alert
    <2> QED BY <2>1, <2>2
<1>3. CASE JobsStep \/ Tick \/ UNCHANGED serviceVars
    BY <1>1, <1>2, <1>3, AlertAssumption
       DEF JobsStep, Tick, serviceVars, alertVars, AlertInv, AlertTypes
<1>4. ASSUME NEW h \in Handlers, HandlerStep(h) PROVE AlertTypes' /\ SpacedInv'
    <2> USE DEF AlertInv
    <2>1. CASE Deliver(h)
        BY <2>1, DeliverKeeps
    <2>2. CASE Reserve(h)
        BY <2>2, ReserveKeeps
    <2>3. CASE Enqueue(h)
        BY <2>3, EnqueueKeeps DEF IInv
    <2>4. CASE Created(h)
        BY <2>4, CreatedKeeps
    <2>5. CASE Unavailable(h)
        BY <2>5, UnavailableKeeps
    <2> QED BY <1>4, <2>1, <2>2, <2>3, <2>4, <2>5 DEF HandlerStep
<1> QED BY <1>1, <1>3, <1>4 DEF AlertNext, AlertInv

LEMMA AlertInvariance == AlertSpec => []AlertInv
<1>1. AlertInit => AlertInv
    BY InitAlertInv
<1>2. AlertInv /\ [AlertNext]_serviceVars => AlertInv'
    BY AlertNextKeeps
<1> QED BY <1>1, <1>2, PTL DEF AlertSpec

-----------------------------------------------------------------------------
(* Every variable keeps its shape, for any deliveries. *)
THEOREM AlertTypeCorrect == AlertSpec => []AlertTypeOK
<1>1. AlertInv => AlertTypeOK
    <2> SUFFICES ASSUME AlertInv PROVE AlertTypeOK
        OBVIOUS
    <2>1. clock \in Nat /\ AlertTypes
        BY AlertAssumption DEF AlertInv, AlertTypes
    <2>2. \A h \in Handlers : handler[h].now \in 0..clock
        BY <2>1 DEF AlertTypes, HandlerState
    <2>3. ASSUME NEW h \in Handlers PROVE handler[h].todo \in Deliveries \cup {<<>>}
        <3>1. PICK todo \in Seq(Fingerprints) : todo = handler[h].todo /\ Len(todo) <= MaxAlerts
            BY <2>1 DEF AlertTypes, HandlerState
        <3>2. Len(todo) \in Nat /\ todo \in [1..Len(todo) -> Fingerprints]
            BY LenProperties
        <3>3. CASE Len(todo) = 0
            BY <3>1, <3>3, EmptySeq
        <3>4. CASE Len(todo) # 0
            <4>1. Len(todo) \in 1..MaxAlerts
                BY <3>1, <3>2, <3>4, AlertAssumption
            <4> QED BY <3>1, <3>2, <4>1 DEF Deliveries
        <3> QED BY <3>3, <3>4
    <2> QED BY <2>1, <2>2, <2>3 DEF AlertTypes, AlertTypeOK, HandlerState
<1> QED BY <1>1, AlertInvariance, PTL

(* Reports for one fingerprint are a cooldown apart, however many handlers deliver,
   and however late each gets to reserve with the time it took at the start. *)
THEOREM AlertsSpaced == AlertSpec => []ReportsSpaced
<1>1. AlertInv => ReportsSpaced
    BY DEF AlertInv, SpacedInv, Apart, ReportsSpaced
<1> QED BY <1>1, AlertInvariance, PTL

(* The job service under the webhook is the job service: what is proved of ReportJobs
   holds here, that no job is orphaned for one. *)
THEOREM WebhookKeepsService == AlertSpec => Spec
<1>1. AlertInit => Init
    BY DEF AlertInit
<1>2. [AlertNext]_serviceVars => [Next]_vars
    BY ServiceStep
<1> QED BY <1>1, <1>2, PTL DEF AlertSpec, Spec

-----------------------------------------------------------------------------
(* Deliveries end: what can be shown without fairness.  That a delivery is never kept
   waiting for good, and that each step it waits for brings its answer nearer; the
   fairness that makes such steps happen is TLC's part, in DeliveriesAnswered. *)

(* What a delivery needs at once: the mutex for a reservation, the answer of enqueue for a
   request. *)
HandlerCanGo(h) ==
    \/ handler[h].at = "reserve" /\ MutexFree
    \/ handler[h].at = "wait" /\ (Refused(handler[h].job) \/ Taken(handler[h].job))

(* A delivery never waits for a worker, nor for another delivery: it can go on, or the
   enqueue it has called can, or the cleanup can that has the mutex.  To draw an id
   nothing is needed. *)
DeliveryNeverStuck ==
    \A h \in Handlers : handler[h].at \in {"reserve", "wait"} =>
        \/ HandlerCanGo(h)
        \/ handler[h].at = "wait" /\ CallerCanGo(handler[h].job)
        \/ DropCanGo

(* How many steps a delivery is from its answer, at most: six for each alert. *)
EnqueueLeft(id) == IF caller[id] = "drawn" THEN 4
                   ELSE IF caller[id] = "inserted" THEN 3
                   ELSE IF caller[id] = "full" THEN 2 ELSE 1

AnswerLeft(h) ==
    IF handler[h].at = "idle" THEN 0
    ELSE 6 * (Len(handler[h].todo) - 1)
         + (IF handler[h].at = "reserve" THEN 6
            ELSE IF handler[h].at = "enqueue" THEN 5 ELSE EnqueueLeft(handler[h].job))

(* Its own steps, and those of the enqueue it waits for. *)
OwnStep(h) == \/ HandlerStep(h)
              \/ /\ handler[h].at = "wait" /\ caller[handler[h].job] \in {"drawn", "inserted", "full"}
                 /\ CallerStep(handler[h].job)

(* Nothing puts the answer off, and each such step brings it nearer. *)
AnswerComesNearer ==
    [][\A h \in Handlers : handler[h].at # "idle" =>
          /\ AnswerLeft(h)' <= AnswerLeft(h)
          /\ OwnStep(h) => AnswerLeft(h)' < AnswerLeft(h)]_serviceVars

-----------------------------------------------------------------------------
(* A handler waits for an id it has drawn. *)
WaitInv == \A h \in Handlers : handler[h].at = "wait" =>
              handler[h].job \in JobId /\ caller[handler[h].job] # "none"

(* A goroutine that has begun does not unbegin. *)
LEMMA BegunStays ==
    ASSUME IInv, [Next]_vars, NEW id \in JobId, caller[id] # "none"
    PROVE  caller'[id] # "none"
BY CallerStays, CallerMoves

LEMMA DrawnCaller ==
    ASSUME TypeOK, DrawId
    PROVE  seq' \in JobId /\ caller'[seq'] = "drawn"
BY SizesAssumption DEF DrawId, TypeOK, JobId

(* A handler changes by its own steps only. *)
LEMMA HandlerStays ==
    ASSUME AlertTypes, [AlertNext]_serviceVars, NEW h \in Handlers
    PROVE  handler'[h] = handler[h] \/ HandlerStep(h)
<1>1. ASSUME NEW g \in Handlers, HandlerStep(g)
      PROVE  handler'[h] = handler[h] \/ HandlerStep(h)
    BY <1>1 DEF HandlerStep, Deliver, Reserve, Enqueue, Created, Unavailable, AlertTypes
<1>2. CASE JobsStep \/ Tick \/ UNCHANGED serviceVars
    BY <1>2 DEF JobsStep, Tick, serviceVars, alertVars
<1> QED BY <1>1, <1>2 DEF AlertNext

LEMMA WaitKept == AlertInv /\ WaitInv /\ [AlertNext]_serviceVars => WaitInv'
<1> SUFFICES ASSUME AlertInv, WaitInv, [AlertNext]_serviceVars,
                    NEW h \in Handlers, handler'[h].at = "wait"
             PROVE  handler'[h].job \in JobId /\ caller'[handler'[h].job] # "none"
    BY DEF WaitInv
<1>0. [Next]_vars /\ IInv /\ AlertTypes
    BY ServiceStep DEF AlertInv
<1>1. CASE handler'[h] = handler[h]
    <2>1. handler[h].job \in JobId /\ caller[handler[h].job] # "none"
        BY <1>1 DEF WaitInv
    <2>2. PICK id \in JobId : id = handler[h].job
        BY <2>1
    <2>3. caller'[id] # "none"
        BY <1>0, <2>1, <2>2, BegunStays
    <2> QED BY <1>1, <2>2, <2>3
<1>2. CASE Enqueue(h)
    <2>1. handler'[h].job = seq'
        <3>1. PICK b : b = handler[h]
            OBVIOUS
        <3>2. b \in HandlerState
            BY <1>0, <3>1 DEF AlertTypes
        <3>3. handler'[h] = [b EXCEPT !.at = "wait", !.job = seq']
            BY <1>0, <1>2, <3>1 DEF Enqueue, AlertTypes
        <3> QED BY <3>2, <3>3 DEF HandlerState
    <2>2. PICK id : id = seq'
        OBVIOUS
    <2>3. id \in JobId /\ caller'[id] = "drawn"
        BY <1>0, <1>2, <2>2, DrawnCaller DEF Enqueue, IInv
    <2> QED BY <2>1, <2>2, <2>3
<1>3. CASE Deliver(h) \/ Reserve(h) \/ Created(h) \/ Unavailable(h)
    <2>1. handler'[h].at # "wait"
        <3>1. CASE Deliver(h)
            BY <1>0, <3>1 DEF Deliver, AlertTypes
        <3>2. CASE Unavailable(h)
            BY <1>0, <3>2 DEF Unavailable, AlertTypes, NoDelivery
        <3>3. CASE Created(h)
            BY <1>0, <3>3, ContinueFacts DEF Created, AlertTypes
        <3>4. CASE Reserve(h)
            <4>1. handler[h].at = "reserve" /\ handler[h] \in HandlerState
                BY <1>0, <3>4 DEF Reserve, AlertTypes
            <4>2. \/ handler'[h] = Continue(handler[h])
                  \/ handler'[h] = [handler[h] EXCEPT !.at = "enqueue"]
                BY <1>0, <3>4 DEF Reserve, AlertTypes
            <4>3. [handler[h] EXCEPT !.at = "enqueue"].at = "enqueue"
                BY <4>1 DEF HandlerState
            <4> QED BY <1>0, <4>1, <4>2, <4>3, ContinueFacts
        <3> QED BY <1>3, <3>1, <3>2, <3>3, <3>4
    <2> QED BY <2>1
<1> QED BY <1>0, <1>1, <1>2, <1>3, HandlerStays DEF HandlerStep

LEMMA Waiting == AlertSpec => []WaitInv
<1>1. AlertInit => WaitInv
    BY DEF AlertInit, WaitInv, NoDelivery
<1>2. AlertInv /\ WaitInv /\ [AlertNext]_serviceVars => WaitInv'
    BY WaitKept
<1> QED BY <1>1, <1>2, AlertInvariance, PTL DEF AlertSpec

LEMMA DeliveriesNotStuck == AlertInv /\ WaitInv /\ HolderInv => DeliveryNeverStuck
<1> SUFFICES ASSUME AlertInv, WaitInv, HolderInv, ~DropCanGo,
                    NEW h \in Handlers, handler[h].at \in {"reserve", "wait"}
             PROVE  HandlerCanGo(h) \/ (handler[h].at = "wait" /\ CallerCanGo(handler[h].job))
    BY DEF DeliveryNeverStuck
<1>1. MutexFree
    BY DEF HolderInv, DropCanGo, MutexFree
<1>2. CASE handler[h].at = "reserve"
    BY <1>1, <1>2 DEF HandlerCanGo
<1>3. CASE handler[h].at = "wait"
    <2>1. handler[h].job \in JobId /\ caller[handler[h].job] # "none"
        BY <1>3 DEF WaitInv
    <2>2. caller[handler[h].job] \in CallerStage
        BY <2>1 DEF AlertInv, IInv, TypeOK
    <2> QED BY <1>1, <1>3, <2>1, <2>2 DEF CallerStage, HandlerCanGo, CallerCanGo, Refused, Taken
<1> QED BY <1>2, <1>3

-----------------------------------------------------------------------------
LEMMA TodoFacts ==
    ASSUME AlertTypes, NEW h \in Handlers, handler[h].at # "idle"
    PROVE  Len(handler[h].todo) \in Nat /\ Len(handler[h].todo) >= 1
<1>1. PICK todo \in Seq(Fingerprints) : todo = handler[h].todo
    BY DEF AlertTypes, HandlerState
<1>2. todo # <<>>
    BY <1>1 DEF AlertTypes
<1> QED BY <1>1, <1>2, EmptySeq

LEMMA EnqueueLeftFacts ==
    ASSUME NEW id PROVE EnqueueLeft(id) \in 1..4
BY DEF EnqueueLeft

(* The answer to an enqueue only comes nearer. *)
LEMMA EnqueueNearer ==
    ASSUME IInv, [Next]_vars, NEW id \in JobId, caller[id] # "none"
    PROVE  /\ EnqueueLeft(id)' \in 1..4
           /\ EnqueueLeft(id)' <= EnqueueLeft(id)
           /\ CallerStep(id) /\ caller[id] \in {"drawn", "inserted", "full"}
                => EnqueueLeft(id)' < EnqueueLeft(id)
<1>1. ASSUME CallerStep(id)
      PROVE  \/ caller[id] = "drawn" /\ caller'[id] = "inserted"
             \/ caller[id] = "inserted" /\ caller'[id] \in {"armed", "full", "returned"}
             \/ caller[id] = "full" /\ caller'[id] \in {"rejected", "returned"}
             \/ /\ caller[id] \in {"armed", "releasing", "releaseFull"}
                /\ caller'[id] \in {"releasing", "releaseFull", "rejected", "returned"}
    BY <1>1, CallerMoves
<1>2. EnqueueLeft(id)' = IF caller'[id] = "drawn" THEN 4
                         ELSE IF caller'[id] = "inserted" THEN 3
                         ELSE IF caller'[id] = "full" THEN 2 ELSE 1
    BY DEF EnqueueLeft
<1>3. CASE CallerStep(id)
    BY <1>1, <1>2, <1>3 DEF EnqueueLeft
<1>4. CASE ~CallerStep(id)
    BY <1>2, <1>4, CallerStays DEF EnqueueLeft
<1> QED BY <1>3, <1>4

(* What is left after one alert of a delivery. *)
LEMMA ContinueLeft ==
    ASSUME AlertTypes, NEW h \in Handlers, handler[h].at # "idle",
           handler'[h] = Continue(handler[h])
    PROVE  AnswerLeft(h)' \in Nat /\ AnswerLeft(h)' <= 6 * (Len(handler[h].todo) - 1)
<1> DEFINE n == Len(handler[h].todo)
<1>1. n \in Nat /\ n >= 1
    BY TodoFacts
<1>2. CASE n > 1
    <2>1. PICK b \in HandlerState : b = handler[h]
        BY DEF AlertTypes
    <2>2. PICK rest : rest = Tail(b.todo)
        OBVIOUS
    <2>3. rest \in Seq(Fingerprints) /\ Len(rest) = n - 1
        BY <1>2, <2>1, <2>2, HeadTailProperties, EmptySeq DEF HandlerState
    <2>4. handler'[h] = [b EXCEPT !.at = "reserve", !.todo = rest, !.job = NoJob]
        BY <1>2, <2>1, <2>2 DEF Continue
    <2>5. handler'[h].at = "reserve" /\ handler'[h].todo = rest
        BY <2>1, <2>4 DEF HandlerState
    <2>6. AnswerLeft(h)' = 6 * (Len(rest) - 1) + 6
        BY <2>5 DEF AnswerLeft
    <2> QED BY <1>1, <1>2, <2>3, <2>6
<1>3. CASE ~(n > 1)
    <2>1. handler'[h].at = "idle"
        BY <1>3 DEF Continue, NoDelivery
    <2>2. AnswerLeft(h)' = 0
        BY <2>1 DEF AnswerLeft
    <2> QED BY <1>1, <2>2
<1> QED BY <1>2, <1>3

LEMMA OwnStepNearer ==
    ASSUME AlertTypes, IInv, NEW h \in Handlers, handler[h].at # "idle", HandlerStep(h)
    PROVE  /\ AnswerLeft(h) \in Nat /\ AnswerLeft(h)' \in Nat
           /\ AnswerLeft(h)' < AnswerLeft(h)
<1> DEFINE n == Len(handler[h].todo)
<1>1. n \in Nat /\ n >= 1
    BY TodoFacts
<1>2. PICK b \in HandlerState : b = handler[h]
    BY DEF AlertTypes
<1>3. CASE Reserve(h)
    <2>1. AnswerLeft(h) = 6 * (n - 1) + 6
        BY <1>3 DEF Reserve, AnswerLeft
    <2>2. CASE handler'[h] = Continue(handler[h])
        BY <1>1, <2>1, <2>2, ContinueLeft
    <2>3. CASE handler'[h] = [b EXCEPT !.at = "enqueue"]
        <3>1. handler'[h].at = "enqueue" /\ handler'[h].todo = handler[h].todo
            BY <1>2, <2>3 DEF HandlerState
        <3>2. AnswerLeft(h)' = 6 * (n - 1) + 5
            BY <3>1 DEF AnswerLeft
        <3> QED BY <1>1, <2>1, <3>2
    <2> QED BY <1>2, <1>3, <2>2, <2>3 DEF Reserve, AlertTypes
<1>4. CASE Enqueue(h)
    <2>1. handler[h].at = "enqueue" /\ handler'[h] = [b EXCEPT !.at = "wait", !.job = seq']
        BY <1>2, <1>4 DEF Enqueue, AlertTypes
    <2>2. handler'[h].at = "wait" /\ handler'[h].todo = handler[h].todo
          /\ handler'[h].job = seq'
        BY <1>2, <2>1 DEF HandlerState
    <2>3. PICK left : left = EnqueueLeft(handler[h].job)'
        OBVIOUS
    <2>4. left \in 1..4
        BY <2>3 DEF EnqueueLeft
    <2>5. AnswerLeft(h)' = 6 * (n - 1) + left
        BY <2>2, <2>3 DEF AnswerLeft
    <2>6. AnswerLeft(h) = 6 * (n - 1) + 5
        BY <2>1 DEF AnswerLeft
    <2> QED BY <1>1, <2>4, <2>5, <2>6
<1>5. CASE Created(h) \/ Unavailable(h)
    <2>1. handler[h].at = "wait"
        BY <1>5 DEF Created, Unavailable
    <2>2. PICK left \in 1..4 : left = EnqueueLeft(handler[h].job)
        BY EnqueueLeftFacts
    <2>3. AnswerLeft(h) = 6 * (n - 1) + left
        BY <2>1, <2>2 DEF AnswerLeft
    <2>4. AnswerLeft(h)' \in Nat /\ AnswerLeft(h)' <= 6 * (n - 1)
        <3>1. CASE Created(h)
            <4>1. handler'[h] = Continue(handler[h])
                BY <3>1 DEF Created, AlertTypes
            <4> QED BY <4>1, ContinueLeft
        <3>2. CASE Unavailable(h)
            <4>1. handler'[h].at = "idle"
                BY <3>2 DEF Unavailable, AlertTypes, NoDelivery
            <4>2. AnswerLeft(h)' = 0
                BY <4>1 DEF AnswerLeft
            <4> QED BY <1>1, <4>2
        <3> QED BY <1>5, <3>1, <3>2
    <2> QED BY <1>1, <2>2, <2>3, <2>4
<1>6. ~Deliver(h)
    BY DEF Deliver
<1> QED BY <1>3, <1>4, <1>5, <1>6 DEF HandlerStep

(* The delivery stands still, the job service does not. *)
LEMMA ServiceNearer ==
    ASSUME AlertInv, WaitInv, [Next]_vars, NEW h \in Handlers, handler[h].at # "idle",
           handler'[h] = handler[h]
    PROVE  /\ AnswerLeft(h)' <= AnswerLeft(h)
           /\ (/\ handler[h].at = "wait"
               /\ caller[handler[h].job] \in {"drawn", "inserted", "full"}
               /\ CallerStep(handler[h].job))
              => AnswerLeft(h)' < AnswerLeft(h)
<1> DEFINE n == Len(handler[h].todo)
<1>1. n \in Nat /\ n >= 1
    BY TodoFacts DEF AlertInv
<1>2. CASE handler[h].at = "wait"
    <2>1. PICK id \in JobId : id = handler[h].job
        BY <1>2 DEF WaitInv
    <2>2. caller[id] # "none"
        BY <1>2, <2>1 DEF WaitInv
    <2>3. PICK x, y : x = EnqueueLeft(id) /\ y = EnqueueLeft(id)'
        OBVIOUS
    <2>4. x \in 1..4 /\ y \in 1..4 /\ y <= x
          /\ (CallerStep(id) /\ caller[id] \in {"drawn", "inserted", "full"} => y < x)
        BY <2>2, <2>3, EnqueueLeftFacts, EnqueueNearer DEF AlertInv
    <2>5. AnswerLeft(h) = 6 * (n - 1) + x
        BY <1>2, <2>1, <2>3 DEF AnswerLeft
    <2>6. AnswerLeft(h)' = 6 * (n - 1) + y
        BY <1>2, <2>1, <2>3 DEF AnswerLeft
    <2>7. AnswerLeft(h)' <= AnswerLeft(h) /\ (y < x => AnswerLeft(h)' < AnswerLeft(h))
        BY <1>1, <2>4, <2>5, <2>6
    <2>8. CallerStep(id) /\ caller[id] \in {"drawn", "inserted", "full"}
            => AnswerLeft(h)' < AnswerLeft(h)
        BY <2>4, <2>7
    <2>9. CASE CallerStep(handler[h].job)
        <3>1. CallerStep(id)
            BY <2>1, <2>9, Zenon
        <3> QED BY <2>1, <2>7, <2>8, <3>1, Zenon
    <2> QED BY <2>7, <2>9, Zenon
<1>3. CASE handler[h].at # "wait"
    <2>1. handler[h].at \in {"reserve", "enqueue"}
        BY <1>3 DEF AlertInv, AlertTypes, HandlerState
    <2>2. AnswerLeft(h)' = AnswerLeft(h) /\ AnswerLeft(h) \in Nat
        BY <1>1, <2>1 DEF AnswerLeft
    <2> QED BY <1>3, <2>2
<1> QED BY <1>2, <1>3

LEMMA AnswerNearer ==
    ASSUME AlertInv, WaitInv, [AlertNext]_serviceVars, NEW h \in Handlers, handler[h].at # "idle"
    PROVE  /\ AnswerLeft(h)' <= AnswerLeft(h)
           /\ OwnStep(h) => AnswerLeft(h)' < AnswerLeft(h)
<1>0. [Next]_vars /\ IInv /\ AlertTypes
    BY ServiceStep DEF AlertInv
<1>1. CASE HandlerStep(h)
    <2>1. /\ AnswerLeft(h) \in Nat /\ AnswerLeft(h)' \in Nat
          /\ AnswerLeft(h)' < AnswerLeft(h)
        BY <1>0, <1>1, OwnStepNearer
    <2> QED BY <2>1
<1>2. CASE ~HandlerStep(h)
    <2>1. handler'[h] = handler[h]
        BY <1>0, <1>2, HandlerStays
    <2> QED BY <1>0, <1>2, <2>1, ServiceNearer DEF OwnStep
<1> QED BY <1>1, <1>2

(* Grafana's answer waits for no worker, however full the queue and however long the
   reports take: the delivery can go on, or its own enqueue, or the cleanup that has the
   mutex. *)
THEOREM DeliveriesNeverWaitForWorkers == AlertSpec => []DeliveryNeverStuck
<1>1. AlertSpec => []HolderInv
    BY WebhookKeepsService, Holder, PTL
<1> QED BY <1>1, AlertInvariance, Waiting, DeliveriesNotStuck, PTL

(* And it comes: a delivery of any length takes at most six such steps for each alert. *)
THEOREM AnswersComeNearer == AlertSpec => AnswerComesNearer
<1>1. AlertInv /\ WaitInv /\ [AlertNext]_serviceVars =>
        [\A h \in Handlers : handler[h].at # "idle" =>
            /\ AnswerLeft(h)' <= AnswerLeft(h)
            /\ OwnStep(h) => AnswerLeft(h)' < AnswerLeft(h)]_serviceVars
    BY AnswerNearer
<1> QED BY <1>1, AlertInvariance, Waiting, PTL DEF AlertSpec, AnswerComesNearer
=============================================================================
