-------------------------- MODULE ReportJobsProofs --------------------------
(***************************************************************************)
(* Proofs about ReportJobs, for every number of workers, every queue size, *)
(* every history limit and every number of requests.                       *)
(***************************************************************************)
EXTENDS ReportJobs, SequenceTheorems, TLAPS

-----------------------------------------------------------------------------
(* Sequences without repetitions: the list of jobs and the channel *)

(* Pushing a new element at the front: a new job in the list of enqueue. *)
LEMMA PushFront ==
    ASSUME NEW S, NEW s \in Seq(S), NEW e \in S, IsInjective(s), e \notin ToSet(s)
    PROVE  /\ <<e>> \o s \in Seq(S)
           /\ IsInjective(<<e>> \o s)
           /\ ToSet(<<e>> \o s) = {e} \cup ToSet(s)
           /\ Len(<<e>> \o s) = Len(s) + 1
<1> DEFINE t == <<e>> \o s
<1>1. /\ t \in Seq(S)
      /\ Len(t) = Len(s) + 1
      /\ t[1] = e
      /\ \A i \in 1..Len(s) : t[i + 1] = s[i]
    OBVIOUS
<1>2. DOMAIN t = 1..(Len(s) + 1) /\ DOMAIN s = 1..Len(s)
    BY <1>1
<1>3. \A i \in DOMAIN t : i = 1 \/ (i - 1 \in DOMAIN s /\ t[i] = s[i - 1])
    <2> TAKE i \in DOMAIN t
    <2> CASE i # 1
        <3>1. i - 1 \in 1..Len(s) /\ (i - 1) + 1 = i
            BY <1>2
        <3> QED BY <3>1, <1>1, <1>2
    <2> QED OBVIOUS
<1> HIDE DEF t
<1>4. IsInjective(t)
    BY <1>1, <1>2, <1>3 DEF IsInjective, ToSet
<1>5. ToSet(t) = {e} \cup ToSet(s)
    <2>1. ToSet(t) \subseteq {e} \cup ToSet(s)
        BY <1>1, <1>3 DEF ToSet
    <2>2. {e} \cup ToSet(s) \subseteq ToSet(t)
        <3>1. e \in ToSet(t)
            BY <1>1, <1>2 DEF ToSet
        <3>2. \A i \in DOMAIN s : s[i] \in ToSet(t)
            <4> TAKE i \in DOMAIN s
            <4>1. i + 1 \in DOMAIN t
                BY <1>2
            <4> QED BY <4>1, <1>1, <1>2 DEF ToSet
        <3> QED BY <3>1, <3>2 DEF ToSet
    <2> QED BY <2>1, <2>2
<1> QED BY <1>1, <1>4, <1>5 DEF t

(* Cutting a list at a limit: trimOldJobsLocked. *)
LEMMA Cut ==
    ASSUME NEW S, NEW s \in Seq(S), IsInjective(s), NEW n \in Nat, n <= Len(s)
    PROVE  LET t == SubSeq(s, 1, n)
           IN  /\ t \in Seq(S)
               /\ IsInjective(t)
               /\ ToSet(t) = ToSet(s) \ {s[i] : i \in (n + 1)..Len(s)}
               /\ Len(t) = n
<1> DEFINE t == SubSeq(s, 1, n)
<1>1. /\ t \in Seq(S)
      /\ DOMAIN t = 1..n
      /\ Len(t) = n
      /\ \A i \in 1..n : t[i] = s[i]
    OBVIOUS
<1>2. DOMAIN s = 1..Len(s)
    OBVIOUS
<1> HIDE DEF t
<1>3. IsInjective(t)
    BY <1>1, <1>2 DEF IsInjective
<1>4. ToSet(t) = ToSet(s) \ {s[i] : i \in (n + 1)..Len(s)}
    <2>1. ASSUME NEW i \in 1..n
          PROVE  t[i] \in ToSet(s) \ {s[k] : k \in (n + 1)..Len(s)}
        BY <1>1, <1>2 DEF ToSet, IsInjective
    <2>2. ASSUME NEW i \in DOMAIN s, s[i] \notin {s[k] : k \in (n + 1)..Len(s)}
          PROVE  s[i] \in ToSet(t)
        <3>1. i \in 1..n
            BY <1>2, <2>2
        <3> QED BY <3>1, <1>1 DEF ToSet
    <2>3. ToSet(t) \subseteq ToSet(s) \ {s[i] : i \in (n + 1)..Len(s)}
        BY <2>1, <1>1 DEF ToSet
    <2>4. ToSet(s) \ {s[i] : i \in (n + 1)..Len(s)} \subseteq ToSet(t)
        BY <2>2 DEF ToSet
    <2> QED BY <2>3, <2>4
<1> QED BY <1>1, <1>3, <1>4 DEF t

(* Taking one element out of a list. *)
LEMMA TakeOut ==
    ASSUME NEW S, NEW s \in Seq(S), IsInjective(s), NEW i \in DOMAIN s
    PROVE  LET t == RemoveAt(s, i)
           IN  /\ t \in Seq(S)
               /\ IsInjective(t)
               /\ ToSet(t) = ToSet(s) \ {s[i]}
               /\ Len(t) = Len(s) - 1
<1> DEFINE t == RemoveAt(s, i)
<1>1. i \in 1..Len(s) /\ DOMAIN s = 1..Len(s)
    OBVIOUS
<1>2. /\ t \in Seq(S)
      /\ Len(t) = Len(s) - 1
      /\ \A k \in 1..(Len(s) - 1) : t[k] = IF k < i THEN s[k] ELSE s[k + 1]
    <2> DEFINE p == SubSeq(s, 1, i - 1)
               q == SubSeq(s, i + 1, Len(s))
    <2>1. p \in Seq(S) /\ Len(p) = i - 1 /\ \A k \in 1..(i - 1) : p[k] = s[k]
        BY <1>1
    <2>2. q \in Seq(S) /\ Len(q) = Len(s) - i /\ \A k \in 1..(Len(s) - i) : q[k] = s[k + i]
        BY <1>1
    <2> HIDE DEF p, q
    <2>3. p \o q \in Seq(S) /\ Len(p \o q) = Len(s) - 1
        <3>1. p \o q \in Seq(S) /\ Len(p \o q) = Len(p) + Len(q)
            BY <2>1, <2>2, ConcatProperties
        <3>2. Len(p) + Len(q) = Len(s) - 1
            BY <1>1, <2>1, <2>2
        <3> QED BY <3>1, <3>2
    <2>4. \A k \in 1..(Len(s) - 1) : (p \o q)[k] = IF k < i THEN s[k] ELSE s[k + 1]
        <3> TAKE k \in 1..(Len(s) - 1)
        <3>1. CASE k < i
            BY <3>1, <1>1, <2>1, <2>2
        <3>2. CASE ~(k < i)
            <4>1. k - (i - 1) \in 1..(Len(s) - i)
                BY <3>2, <1>1
            <4>2. (p \o q)[k] = q[k - (i - 1)]
                BY <3>2, <1>1, <2>1, <2>2
            <4>3. q[k - (i - 1)] = s[k + 1]
                <5>1. (k - (i - 1)) + i = k + 1
                    BY <1>1
                <5> QED BY <4>1, <5>1, <2>2
            <4> QED BY <4>2, <4>3, <3>2
        <3> QED BY <3>1, <3>2
    <2>5. t = p \o q
        BY DEF p, q, RemoveAt
    <2> QED BY <2>3, <2>4, <2>5
<1> HIDE DEF t
<1>3. DOMAIN t = 1..(Len(s) - 1)
    BY <1>2
<1>4. IsInjective(t)
    <2> DEFINE at(k) == IF k < i THEN k ELSE k + 1
    <2>1. \A k \in DOMAIN t : at(k) \in DOMAIN s /\ t[k] = s[at(k)]
        BY <1>1, <1>2, <1>3
    <2>2. \A k, m \in DOMAIN t : at(k) = at(m) => k = m
        BY <1>1, <1>3
    <2> HIDE DEF at
    <2> QED BY <2>1, <2>2 DEF IsInjective
<1>5. ToSet(t) = ToSet(s) \ {s[i]}
    <2>1. ASSUME NEW k \in DOMAIN t
          PROVE  t[k] \in ToSet(s) \ {s[i]}
        BY <1>1, <1>2, <1>3 DEF ToSet, IsInjective
    <2>2. ASSUME NEW k \in DOMAIN s, s[k] # s[i]
          PROVE  s[k] \in ToSet(t)
        <3>1. CASE k < i
            BY <3>1, <1>1, <1>2, <1>3 DEF ToSet
        <3>2. CASE k > i
            <4>1. k - 1 \in DOMAIN t /\ (k - 1) + 1 = k /\ ~(k - 1 < i)
                BY <3>2, <1>1, <1>3
            <4>2. t[k - 1] = s[k]
                BY <4>1, <1>2, <1>3
            <4> QED BY <4>1, <4>2 DEF ToSet
        <3> QED BY <2>2, <3>1, <3>2, <1>1
    <2> QED BY <2>1, <2>2 DEF ToSet
<1> QED BY <1>2, <1>4, <1>5 DEF t

(* Appending a new element: an id sent to the channel, a row put into a buffer. *)
LEMMA PushBack ==
    ASSUME NEW S, NEW s \in Seq(S), NEW e \in S, IsInjective(s), e \notin ToSet(s)
    PROVE  /\ Append(s, e) \in Seq(S)
           /\ IsInjective(Append(s, e))
           /\ ToSet(Append(s, e)) = ToSet(s) \cup {e}
           /\ Len(Append(s, e)) = Len(s) + 1
<1> DEFINE t == Append(s, e)
<1>1. /\ t \in Seq(S)
      /\ DOMAIN t = 1..(Len(s) + 1)
      /\ Len(t) = Len(s) + 1
      /\ t[Len(s) + 1] = e
      /\ \A i \in 1..Len(s) : t[i] = s[i]
      /\ DOMAIN s = 1..Len(s)
      /\ Len(s) \in Nat
    OBVIOUS
<1> HIDE DEF t
<1>2. \A i \in DOMAIN t : i \in DOMAIN s \/ i = Len(s) + 1
    BY <1>1
<1>3. IsInjective(t)
    BY <1>1, <1>2 DEF IsInjective, ToSet
<1>4. ToSet(t) = ToSet(s) \cup {e}
    BY <1>1, <1>2 DEF ToSet
<1> QED BY <1>1, <1>3, <1>4 DEF t

(* Taking the head: an id received from the channel. *)
LEMMA PopFront ==
    ASSUME NEW S, NEW s \in Seq(S), IsInjective(s), s # <<>>
    PROVE  /\ Head(s) \in ToSet(s)
           /\ Head(s) \in S
           /\ Tail(s) \in Seq(S)
           /\ IsInjective(Tail(s))
           /\ ToSet(Tail(s)) = ToSet(s) \ {Head(s)}
           /\ Len(Tail(s)) = Len(s) - 1
<1> DEFINE t == Tail(s)
<1>1. /\ t \in Seq(S)
      /\ Len(t) = Len(s) - 1
      /\ DOMAIN t = 1..(Len(s) - 1)
      /\ \A i \in 1..(Len(s) - 1) : t[i] = s[i + 1]
      /\ DOMAIN s = 1..Len(s)
      /\ Len(s) \in Nat \ {0}
      /\ Head(s) = s[1]
      /\ Head(s) \in S
    OBVIOUS
<1> HIDE DEF t
<1>2. \A i \in DOMAIN s : i = 1 \/ (i - 1 \in DOMAIN t /\ t[i - 1] = s[i])
    <2> TAKE i \in DOMAIN s
    <2> CASE i # 1
        <3>1. i - 1 \in 1..(Len(s) - 1) /\ (i - 1) + 1 = i
            BY <1>1
        <3> QED BY <3>1, <1>1
    <2> QED OBVIOUS
<1>3. IsInjective(t)
    <2> SUFFICES ASSUME NEW i \in DOMAIN t, NEW j \in DOMAIN t, t[i] = t[j]
                 PROVE  i = j
        BY DEF IsInjective
    <2>1. /\ i \in Int /\ j \in Int
          /\ i + 1 \in DOMAIN s /\ j + 1 \in DOMAIN s
          /\ t[i] = s[i + 1] /\ t[j] = s[j + 1]
        BY <1>1
    <2>2. i + 1 = j + 1
        BY <2>1 DEF IsInjective
    <2> QED BY <2>1, <2>2
<1>4. ToSet(t) = ToSet(s) \ {Head(s)}
    <2>1. ASSUME NEW i \in DOMAIN t
          PROVE  t[i] \in ToSet(s) \ {Head(s)}
        BY <1>1 DEF ToSet, IsInjective
    <2>2. ASSUME NEW i \in DOMAIN s, s[i] # Head(s)
          PROVE  s[i] \in ToSet(t)
        BY <1>1, <1>2, <2>2 DEF ToSet
    <2> QED BY <2>1, <2>2 DEF ToSet
<1>5. Head(s) \in ToSet(s)
    BY <1>1 DEF ToSet
<1> QED BY <1>1, <1>3, <1>4, <1>5 DEF t

(* removeJobOrderLocked takes out the first occurrence, which is the only one. *)
LEMMA RemoveOne ==
    ASSUME NEW S, NEW s \in Seq(S), IsInjective(s), NEW e
    PROVE  LET t == RemoveJobOrder(s, e)
           IN  /\ t \in Seq(S)
               /\ IsInjective(t)
               /\ ToSet(t) = ToSet(s) \ {e}
               /\ Len(t) <= Len(s)
<1> DEFINE t == RemoveJobOrder(s, e)
<1>1. DOMAIN s = 1..Len(s) /\ Len(s) \in Nat
    OBVIOUS
<1>2. CASE e \notin ToSet(s)
    <2>1. t = s
        BY <1>1, <1>2 DEF RemoveJobOrder, RemoveFirst, ToSet
    <2> QED BY <1>1, <1>2, <2>1
<1>3. CASE e \in ToSet(s)
    <2>1. PICK i \in DOMAIN s : s[i] = e
        BY <1>3 DEF ToSet
    <2>2. {k \in 1..Len(s) : s[k] = e} = {i}
        BY <1>1, <2>1 DEF IsInjective
    <2>3. Min({i}) = i
        BY <1>1 DEF Min
    <2>4. t = RemoveAt(s, i)
        BY <1>1, <2>1, <2>2, <2>3 DEF RemoveJobOrder, RemoveFirst, SelectInSeq
    <2>5. /\ RemoveAt(s, i) \in Seq(S)
          /\ IsInjective(RemoveAt(s, i))
          /\ ToSet(RemoveAt(s, i)) = ToSet(s) \ {s[i]}
          /\ Len(RemoveAt(s, i)) = Len(s) - 1
        BY TakeOut
    <2> QED BY <2>1, <2>4, <2>5, <1>1
<1> QED BY <1>2, <1>3

-----------------------------------------------------------------------------
(* The inductive invariant.  NoOrphan alone is not inductive: that a status has
   its carrier survives a step only if no second carrier exists (OneCarrier), and
   that the table and the list agree is needed to know what a trim removes. *)
IInv == TypeOK /\ TableMatchesOrder /\ OneCarrier /\ NoOrphan /\ Bookkeeping

(* The list and the table after trimOldJobsLocked. *)
LEMMA InsertFacts ==
    ASSUME IInv, NEW id \in JobId, Insert(id)
    PROVE  /\ id \notin DOMAIN jobs
           /\ TableMatchesOrder'
           /\ jobOrder' \in Seq(JobId)
           /\ Head(jobOrder') = id
           /\ id \in DOMAIN jobs'
           /\ DOMAIN jobs' \subseteq DOMAIN jobs \cup {id}
           /\ jobs' \in [DOMAIN jobs' -> JobRecord]
           /\ jobs'[id] = NewJob(id)
           /\ \A k \in DOMAIN jobs' \ {id} : jobs'[k] = jobs[k]
           /\ \A k \in DOMAIN jobs \ DOMAIN jobs' :
                  Len(jobOrder) = HistoryLimit /\ k = Last(jobOrder)
<1> USE SizesAssumption
<1> DEFINE order == <<id>> \o jobOrder
           all == [k \in DOMAIN jobs \cup {id} |-> IF k = id THEN NewJob(id) ELSE jobs[k]]
<1>1. id \notin DOMAIN jobs
    BY DEF IInv, NoOrphan, Insert, CallerPending
<1>2. /\ jobOrder \in Seq(JobId)
      /\ IsInjective(jobOrder)
      /\ ToSet(jobOrder) = DOMAIN jobs
      /\ Len(jobOrder) <= HistoryLimit
      /\ jobs \in [DOMAIN jobs -> JobRecord]
      /\ Len(jobOrder) \in Nat
    BY DEF IInv, TypeOK, TableMatchesOrder
<1>3. /\ order \in Seq(JobId)
      /\ IsInjective(order)
      /\ ToSet(order) = {id} \cup DOMAIN jobs
      /\ Len(order) = Len(jobOrder) + 1
    BY <1>1, <1>2, PushFront
<1>4. order[1] = id /\ \A i \in 1..Len(jobOrder) : order[i + 1] = jobOrder[i]
    BY <1>2
<1>5. /\ jobs' = Without(all, PastLimit(order))
      /\ jobOrder' = IF Len(order) <= HistoryLimit
                     THEN order ELSE SubSeq(order, 1, HistoryLimit)
    BY DEF Insert
<1>6. NewJob(id) \in JobRecord
    BY DEF NewJob, JobRecord, Status
<1> HIDE DEF order
<1>7. /\ DOMAIN jobs' = DOMAIN all \ PastLimit(order)
      /\ \A k \in DOMAIN jobs' : jobs'[k] = all[k]
      /\ jobs' = [k \in DOMAIN jobs' |-> all[k]]
    BY <1>5 DEF Without
<1>8. /\ DOMAIN all = {id} \cup DOMAIN jobs
      /\ all[id] = NewJob(id)
      /\ \A k \in DOMAIN jobs : all[k] = jobs[k]
      /\ \A k \in DOMAIN all : all[k] \in JobRecord
    BY <1>1, <1>2, <1>6
<1> HIDE DEF all
<1>9. CASE Len(order) <= HistoryLimit
    <2>1. PastLimit(order) = {}
        BY <1>2, <1>3, <1>9 DEF PastLimit
    <2>2. DOMAIN jobs' = {id} \cup DOMAIN jobs
        BY <2>1, <1>7, <1>8
    <2>3. TableMatchesOrder'
        BY <1>3, <1>5, <1>9, <2>2 DEF TableMatchesOrder
    <2>4. jobOrder' = order /\ Head(order) = id
        BY <1>3, <1>4, <1>5, <1>9
    <2> QED BY <1>1, <1>3, <1>7, <1>8, <2>2, <2>3, <2>4
<1>10. CASE ~(Len(order) <= HistoryLimit)
    <2>1. Len(order) = HistoryLimit + 1 /\ Len(jobOrder) = HistoryLimit
        BY <1>2, <1>3, <1>10
    <2>2. PastLimit(order) = {order[HistoryLimit + 1]}
        BY <2>1 DEF PastLimit
    <2>3. order[HistoryLimit + 1] = Last(jobOrder)
        BY <1>4, <2>1 DEF Last
    <2>4. id # order[HistoryLimit + 1]
        BY <1>3, <1>4, <2>1 DEF IsInjective
    <2>5. /\ jobOrder' \in Seq(JobId)
          /\ IsInjective(jobOrder')
          /\ ToSet(jobOrder') = ToSet(order) \ PastLimit(order)
          /\ Len(jobOrder') = HistoryLimit
        BY <1>3, <1>5, <1>10, <2>1, Cut DEF PastLimit
    <2>6. TableMatchesOrder'
        BY <1>3, <1>7, <1>8, <2>5 DEF TableMatchesOrder
    <2>7. Head(jobOrder') = id
        BY <1>3, <1>4, <1>5, <1>10, <2>1
    <2> QED BY <1>1, <1>7, <1>8, <2>1, <2>2, <2>3, <2>4, <2>5, <2>6, <2>7
<1> QED BY <1>9, <1>10

(* Deleting a job from the table and from the list. *)
LEMMA DeleteFacts ==
    ASSUME IInv, NEW id \in JobId, DeleteJob(id)
    PROVE  /\ TableMatchesOrder'
           /\ jobOrder' \in Seq(JobId)
           /\ DOMAIN jobs' = DOMAIN jobs \ {id}
           /\ jobs' \in [DOMAIN jobs' -> JobRecord]
           /\ \A k \in DOMAIN jobs' : jobs'[k] = jobs[k]
<1>1. /\ DOMAIN jobs' = DOMAIN jobs \ {id}
      /\ jobs' = [k \in DOMAIN jobs' |-> jobs[k]]
    BY DEF DeleteJob, Without
<1>2. /\ jobOrder \in Seq(JobId)
      /\ IsInjective(jobOrder)
      /\ ToSet(jobOrder) = DOMAIN jobs
      /\ Len(jobOrder) <= HistoryLimit
      /\ jobs \in [DOMAIN jobs -> JobRecord]
    BY DEF IInv, TypeOK, TableMatchesOrder
<1>3. /\ jobOrder' \in Seq(JobId)
      /\ IsInjective(jobOrder')
      /\ ToSet(jobOrder') = ToSet(jobOrder) \ {id}
      /\ Len(jobOrder') <= Len(jobOrder)
    BY <1>2, RemoveOne DEF DeleteJob
<1>4. Len(jobOrder') <= HistoryLimit
    BY <1>2, <1>3, SizesAssumption
<1> QED BY <1>1, <1>2, <1>3, <1>4 DEF TableMatchesOrder

(* Changing the status of a job that may have left the table. *)
LEMMA SetStatusFacts ==
    ASSUME TypeOK, NEW id \in JobId, NEW status \in Status, SetStatus(id, status)
    PROVE  /\ DOMAIN jobs' = DOMAIN jobs
           /\ jobs' \in [DOMAIN jobs -> JobRecord]
           /\ \A k \in DOMAIN jobs :
                 /\ jobs'[k].status = IF k = id THEN status ELSE jobs[k].status
                 /\ jobs'[k].reportDir = jobs[k].reportDir
BY DEF TypeOK, SetStatus, JobRecord

(* What an action that leaves the table and the list alone leaves alone. *)
LEMMA SameTable ==
    ASSUME IInv, UNCHANGED <<jobs, jobOrder>>
    PROVE  TableMatchesOrder'
BY DEF IInv, TableMatchesOrder

(* Before the first request: the empty table and idle workers. *)
LEMMA InitIInv == Init => IInv
<1> SUFFICES ASSUME Init PROVE IInv
    OBVIOUS
<1> USE SizesAssumption, NamesAssumption
<1>1. TypeOK
    <2>1. DOMAIN jobs = {} /\ jobs \in [{} -> JobRecord]
        BY DEF Init
    <2>2. worker \in [Workers -> [at : WorkerStage, job : JobId \cup {NoJob}]]
        BY DEF Init, WorkerStage
    <2>3. caller \in [JobId -> CallerStage]
        BY DEF Init, CallerStage
    <2>4. jobOrder \in Seq(JobId) /\ queue \in Seq(JobId) /\ Len(queue) = 0
        BY DEF Init
    <2>5. seq \in 0..MaxJobs /\ delayed \subseteq JobId /\ Len(queue) <= QueueSize
        BY <2>4 DEF Init
    <2>6. dropping \subseteq Dirs /\ cancelled \in BOOLEAN
        BY DEF Init
    <2>7. DOMAIN jobs \subseteq JobId /\ jobs \in [DOMAIN jobs -> JobRecord]
        BY <2>1
    <2> QED BY <2>2, <2>3, <2>4, <2>5, <2>6, <2>7 DEF TypeOK
<1>2. TableMatchesOrder
    BY DEF Init, TableMatchesOrder, IsInjective, ToSet
<1>3. OneCarrier
    BY DEF Init, OneCarrier, IsInjective, ToSet, Holds
<1>4. NoOrphan
    BY DEF Init, NoOrphan
<1>5. Bookkeeping
    BY DEF Init, Bookkeeping, JobId
<1> QED BY <1>1, <1>2, <1>3, <1>4, <1>5 DEF IInv

(* A request draws a new id from the counter. *)
LEMMA DrawIdKeeps == IInv /\ DrawId => IInv'
<1> SUFFICES ASSUME IInv, DrawId PROVE IInv'
    OBVIOUS
<1> USE SizesAssumption, NamesAssumption
<1>1. /\ seq + 1 \in JobId
      /\ seq' = seq + 1
      /\ caller' = [caller EXCEPT ![seq + 1] = "drawn"]
      /\ caller \in [JobId -> CallerStage]
      /\ caller[seq + 1] = "none"
      /\ seq \in Nat
    BY DEF IInv, TypeOK, Bookkeeping, DrawId, JobId
<1>2. TypeOK'
    BY <1>1 DEF IInv, TypeOK, DrawId, CallerStage, JobId
<1>3. TableMatchesOrder'
    BY SameTable DEF DrawId
<1>4. OneCarrier'
    BY <1>1 DEF IInv, TypeOK, OneCarrier, Holds, DrawId
<1>5. NoOrphan'
    <2>1. \A id \in DOMAIN jobs : caller[id] # "none"
        BY DEF IInv, NoOrphan, CallerPending
    <2>2. \A id \in DOMAIN jobs : id # seq + 1 /\ (id \in delayed' <=> id \in delayed)
        BY <1>1, <2>1 DEF DrawId
    <2> QED BY <1>1, <2>2 DEF IInv, TypeOK, NoOrphan, DrawId
<1>6. Bookkeeping'
    BY <1>1 DEF IInv, TypeOK, Bookkeeping, DrawId, JobId
<1> QED BY <1>2, <1>3, <1>4, <1>5, <1>6 DEF IInv

(* The first critical section of enqueue, with its trim of the history. *)
LEMMA InsertKeeps == ASSUME NEW id \in JobId PROVE IInv /\ Insert(id) => IInv'
<1> SUFFICES ASSUME IInv, Insert(id) PROVE IInv'
    OBVIOUS
<1> USE NamesAssumption
<1>1. /\ TableMatchesOrder'
      /\ jobOrder' \in Seq(JobId)
      /\ DOMAIN jobs' \subseteq DOMAIN jobs \cup {id}
      /\ jobs' \in [DOMAIN jobs' -> JobRecord]
      /\ id \in DOMAIN jobs' => jobs'[id] = NewJob(id)
      /\ \A k \in DOMAIN jobs' \ {id} : jobs'[k] = jobs[k]
    BY InsertFacts
<1>2. /\ caller' = [caller EXCEPT ![id] = "inserted"]
      /\ caller \in [JobId -> CallerStage]
      /\ caller[id] = "drawn"
      /\ UNCHANGED <<seq, delayed, queue, worker, dropping, cancelled>>
    BY DEF IInv, TypeOK, Insert
<1>3. TypeOK'
    BY <1>1, <1>2 DEF IInv, TypeOK, CallerStage
<1>4. OneCarrier'
    BY <1>2 DEF IInv, OneCarrier, Holds
<1>5. NoOrphan'
    <2> SUFFICES ASSUME NEW k \in DOMAIN jobs' PROVE NoOrphan!(k)'
        BY DEF NoOrphan
    <2>1. CASE k = id
        BY <2>1, <1>1, <1>2 DEF IInv, OneCarrier, NewJob, Holds, CallerPending
    <2>2. CASE k # id
        BY <2>2, <1>1, <1>2 DEF IInv, NoOrphan
    <2> QED BY <2>1, <2>2
<1>6. Bookkeeping'
    BY <1>1, <1>2 DEF IInv, Bookkeeping, NewJob, JobRecord
<1> QED BY <1>1, <1>3, <1>4, <1>5, <1>6 DEF IInv

(* enqueue arms the timer of a delayed job. *)
LEMMA ArmTimerKeeps == ASSUME NEW id \in JobId PROVE IInv /\ ArmTimer(id) => IInv'
<1> SUFFICES ASSUME IInv, ArmTimer(id) PROVE IInv'
    OBVIOUS
<1>1. /\ caller' = [caller EXCEPT ![id] = "armed"]
      /\ caller \in [JobId -> CallerStage]
      /\ caller[id] = "inserted"
      /\ id \in delayed
      /\ UNCHANGED <<seq, delayed, jobs, jobOrder, queue, worker, dropping, cancelled>>
    BY DEF IInv, TypeOK, ArmTimer
<1>2. TypeOK'
    BY <1>1 DEF IInv, TypeOK, CallerStage
<1>3. TableMatchesOrder'
    BY <1>1, SameTable
<1>4. OneCarrier'
    BY <1>1 DEF IInv, OneCarrier, Holds
<1>5. NoOrphan'
    BY <1>1 DEF IInv, NoOrphan, CallerPending
<1>6. Bookkeeping'
    BY <1>1 DEF IInv, Bookkeeping
<1> QED BY <1>2, <1>3, <1>4, <1>5, <1>6 DEF IInv

(* Both sends: from a request that is not delayed and from a timer. *)
LEMMA SendKeeps ==
    ASSUME NEW id \in JobId, NEW from, NEW full, IInv, Send(id, from, full),
           \/ from = "inserted" /\ full = "full" /\ id \notin delayed
           \/ from = "releasing" /\ full = "releaseFull"
    PROVE  IInv'
<1>1. /\ caller \in [JobId -> CallerStage]
      /\ caller[id] = from
      /\ UNCHANGED <<seq, delayed, jobs, jobOrder, worker, dropping, cancelled>>
    BY DEF IInv, TypeOK, Send
<1>2. TableMatchesOrder'
    BY <1>1, SameTable
<1>3. CASE Len(queue) < QueueSize
    <2>1. /\ caller' = [caller EXCEPT ![id] = "returned"]
          /\ queue' = Append(queue, id)
        BY <1>3 DEF Send, QueueHasRoom
    <2>2. id \notin ToSet(queue) /\ \A w \in Workers : ~Holds(w, id)
        BY <1>1 DEF IInv, OneCarrier
    <2>3. /\ queue' \in Seq(JobId)
          /\ IsInjective(queue')
          /\ ToSet(queue') = ToSet(queue) \cup {id}
          /\ Len(queue') <= QueueSize
        <3>1. queue \in Seq(JobId) /\ IsInjective(queue)
            BY DEF IInv, TypeOK, OneCarrier
        <3>2. /\ queue' \in Seq(JobId)
              /\ IsInjective(queue')
              /\ ToSet(queue') = ToSet(queue) \cup {id}
              /\ Len(queue') = Len(queue) + 1
            BY <2>1, <2>2, <3>1, PushBack
        <3> QED BY <3>1, <3>2, <1>3, SizesAssumption
    <2>4. TypeOK'
        BY <1>1, <2>1, <2>3 DEF IInv, TypeOK, CallerStage
    <2>5. OneCarrier'
        BY <1>1, <2>1, <2>2, <2>3 DEF IInv, OneCarrier, Holds
    <2>6. NoOrphan'
        <3> SUFFICES ASSUME NEW k \in DOMAIN jobs' PROVE NoOrphan!(k)'
            BY DEF NoOrphan
        <3>1. CASE k = id
            <4>1. NoOrphan!(id)
                BY <3>1, <1>1 DEF IInv, NoOrphan
            <4>2. jobs[id].status = "queued"
                BY <1>1, <4>1
            <4>3. /\ ~\E w \in Workers : worker[w] = [at |-> "claimed", job |-> id]
                  /\ ~\E w \in Workers : worker[w] = [at |-> "generating", job |-> id]
                BY <2>2 DEF Holds
            <4>4. /\ caller'[id] = "returned" /\ id \in ToSet(queue')
                  /\ jobs' = jobs /\ worker' = worker
                BY <1>1, <2>1, <2>3
            <4> QED BY <3>1, <4>2, <4>3, <4>4
        <3>2. CASE k # id
            BY <3>2, <1>1, <2>1, <2>3 DEF IInv, NoOrphan
        <3> QED BY <3>1, <3>2
    <2>7. Bookkeeping'
        BY <1>1, <2>1 DEF IInv, Bookkeeping
    <2> QED BY <1>2, <2>4, <2>5, <2>6, <2>7 DEF IInv
<1>4. CASE ~(Len(queue) < QueueSize)
    <2>1. caller' = [caller EXCEPT ![id] = full] /\ queue' = queue
        BY <1>4 DEF Send, QueueHasRoom
    <2>2. TypeOK'
        BY <1>1, <2>1 DEF IInv, TypeOK, CallerStage
    <2>3. OneCarrier'
        BY <1>1, <2>1 DEF IInv, OneCarrier, Holds
    <2>4. NoOrphan'
        BY <1>1, <2>1 DEF IInv, NoOrphan, CallerPending
    <2>5. Bookkeeping'
        BY <1>1, <2>1 DEF IInv, Bookkeeping
    <2> QED BY <1>2, <2>2, <2>3, <2>4, <2>5 DEF IInv
<1> QED BY <1>3, <1>4

(* enqueue takes the job back that found the channel full. *)
LEMMA RejectKeeps == ASSUME NEW id \in JobId PROVE IInv /\ Reject(id) => IInv'
<1> SUFFICES ASSUME IInv, Reject(id) PROVE IInv'
    OBVIOUS
<1>1. /\ TableMatchesOrder'
      /\ jobOrder' \in Seq(JobId)
      /\ DOMAIN jobs' = DOMAIN jobs \ {id}
      /\ jobs' \in [DOMAIN jobs' -> JobRecord]
      /\ \A k \in DOMAIN jobs' : jobs'[k] = jobs[k]
    BY DeleteFacts DEF Reject
<1>2. /\ caller' = [caller EXCEPT ![id] = "rejected"]
      /\ caller \in [JobId -> CallerStage]
      /\ caller[id] = "full"
      /\ UNCHANGED <<seq, delayed, queue, worker, dropping, cancelled>>
    BY DEF IInv, TypeOK, Reject
<1>3. TypeOK'
    BY <1>1, <1>2 DEF IInv, TypeOK, CallerStage
<1>4. OneCarrier'
    BY <1>2 DEF IInv, OneCarrier, Holds
<1>5. NoOrphan'
    BY <1>1, <1>2 DEF IInv, NoOrphan
<1>6. Bookkeeping'
    BY <1>1, <1>2 DEF IInv, Bookkeeping
<1> QED BY <1>1, <1>3, <1>4, <1>5, <1>6 DEF IInv

(* The critical section of releaseScheduled. *)
LEMMA ReleaseKeeps == ASSUME NEW id \in JobId PROVE IInv /\ Release(id) => IInv'
<1> SUFFICES ASSUME IInv, Release(id) PROVE IInv'
    OBVIOUS
<1>1. /\ caller \in [JobId -> CallerStage]
      /\ caller[id] = "armed"
      /\ UNCHANGED <<seq, delayed, jobOrder, queue, worker, dropping, cancelled>>
    BY DEF IInv, TypeOK, Release
<1>2. CASE id \in DOMAIN jobs /\ jobs[id].status = "scheduled"
    <2>1. caller' = [caller EXCEPT ![id] = "releasing"]
        BY <1>2 DEF Release
    <2>2. /\ DOMAIN jobs' = DOMAIN jobs
          /\ jobs' \in [DOMAIN jobs -> JobRecord]
          /\ \A k \in DOMAIN jobs :
                /\ jobs'[k].status = IF k = id THEN "queued" ELSE jobs[k].status
                /\ jobs'[k].reportDir = jobs[k].reportDir
        BY <1>2, SetStatusFacts DEF IInv, Release, Status
    <2>3. TypeOK'
        BY <1>1, <2>1, <2>2 DEF IInv, TypeOK, CallerStage
    <2>4. TableMatchesOrder'
        BY <1>1, <2>2 DEF IInv, TableMatchesOrder
    <2>5. OneCarrier'
        BY <1>1, <2>1 DEF IInv, OneCarrier, Holds
    <2>6. NoOrphan'
        <3> SUFFICES ASSUME NEW k \in DOMAIN jobs' PROVE NoOrphan!(k)'
            BY DEF NoOrphan
        <3>1. CASE k = id
            <4>1. \A w \in Workers : ~Holds(w, id)
                BY <1>1 DEF IInv, OneCarrier
            <4> QED BY <3>1, <4>1, <1>1, <2>1, <2>2 DEF CallerPending, Holds
        <3>2. CASE k # id
            BY <3>2, <1>1, <2>1, <2>2 DEF IInv, NoOrphan
        <3> QED BY <3>1, <3>2
    <2>7. Bookkeeping'
        BY <1>1, <1>2, <2>1, <2>2 DEF IInv, Bookkeeping
    <2> QED BY <2>3, <2>4, <2>5, <2>6, <2>7 DEF IInv
<1>3. CASE ~(id \in DOMAIN jobs /\ jobs[id].status = "scheduled")
    <2>1. caller' = [caller EXCEPT ![id] = "returned"] /\ jobs' = jobs
        BY <1>3 DEF Release
    <2>2. id \notin DOMAIN jobs
        BY <1>1, <1>3 DEF IInv, NoOrphan
    <2>3. TypeOK'
        BY <1>1, <2>1 DEF IInv, TypeOK, CallerStage
    <2>4. TableMatchesOrder'
        BY <1>1, <2>1, SameTable
    <2>5. OneCarrier'
        BY <1>1, <2>1 DEF IInv, OneCarrier, Holds
    <2>6. NoOrphan'
        BY <1>1, <2>1, <2>2 DEF IInv, NoOrphan
    <2>7. Bookkeeping'
        BY <1>1, <2>1 DEF IInv, Bookkeeping
    <2> QED BY <2>3, <2>4, <2>5, <2>6, <2>7 DEF IInv
<1> QED BY <1>2, <1>3

(* releaseScheduled fails a job that found the channel full. *)
LEMMA FailReleasedKeeps == ASSUME NEW id \in JobId PROVE IInv /\ FailReleased(id) => IInv'
<1> SUFFICES ASSUME IInv, FailReleased(id) PROVE IInv'
    OBVIOUS
<1>1. /\ caller' = [caller EXCEPT ![id] = "returned"]
      /\ caller \in [JobId -> CallerStage]
      /\ caller[id] = "releaseFull"
      /\ UNCHANGED <<seq, delayed, jobOrder, queue, worker, dropping, cancelled>>
    BY DEF IInv, TypeOK, FailReleased
<1>2. /\ DOMAIN jobs' = DOMAIN jobs
      /\ jobs' \in [DOMAIN jobs -> JobRecord]
      /\ \A k \in DOMAIN jobs :
            /\ jobs'[k].status = IF k = id THEN "failed" ELSE jobs[k].status
            /\ jobs'[k].reportDir = jobs[k].reportDir
    BY SetStatusFacts DEF IInv, FailReleased, Status
<1>3. \A w \in Workers : ~Holds(w, id)
    BY <1>1 DEF IInv, OneCarrier
<1>4. id \notin ToSet(queue)
    BY <1>1 DEF IInv, OneCarrier
<1>5. TypeOK'
    BY <1>1, <1>2 DEF IInv, TypeOK, CallerStage
<1>6. TableMatchesOrder'
    BY <1>1, <1>2 DEF IInv, TableMatchesOrder
<1>7. OneCarrier'
    BY <1>1 DEF IInv, OneCarrier, Holds
<1>8. NoOrphan'
    <2> SUFFICES ASSUME NEW k \in DOMAIN jobs' PROVE NoOrphan!(k)'
        BY DEF NoOrphan
    <2>1. CASE k = id
        BY <2>1, <1>1, <1>2, <1>3, <1>4 DEF CallerPending, Holds
    <2>2. CASE k # id
        BY <2>2, <1>1, <1>2 DEF IInv, NoOrphan
    <2> QED BY <2>1, <2>2
<1>9. Bookkeeping'
    <2>1. id \in DOMAIN jobs => jobs[id].status = "queued"
        BY <1>1 DEF IInv, NoOrphan
    <2> QED BY <1>1, <1>2, <2>1 DEF IInv, Bookkeeping
<1> QED BY <1>5, <1>6, <1>7, <1>8, <1>9 DEF IInv

(* A worker takes an id from the channel. *)
LEMMA ReceiveKeeps == ASSUME NEW w \in Workers PROVE IInv /\ Receive(w) => IInv'
<1> SUFFICES ASSUME IInv, Receive(w) PROVE IInv'
    OBVIOUS
<1> USE NamesAssumption
<1> DEFINE id == Head(queue)
<1>1. /\ id \in ToSet(queue)
      /\ id \in JobId
      /\ queue' \in Seq(JobId)
      /\ IsInjective(queue')
      /\ ToSet(queue') = ToSet(queue) \ {id}
      /\ Len(queue') <= QueueSize
    <2>1. queue \in Seq(JobId) /\ IsInjective(queue) /\ queue # <<>> /\ Len(queue) <= QueueSize
        BY DEF IInv, TypeOK, OneCarrier, Receive
    <2>2. queue' = Tail(queue)
        BY DEF Receive
    <2>3. /\ id \in ToSet(queue)
          /\ id \in JobId
          /\ queue' \in Seq(JobId)
          /\ IsInjective(queue')
          /\ ToSet(queue') = ToSet(queue) \ {id}
          /\ Len(queue') = Len(queue) - 1
        BY <2>1, <2>2, PopFront
    <2> QED BY <2>1, <2>3, SizesAssumption
<1>2. /\ worker' = [worker EXCEPT ![w] = [at |-> "claimed", job |-> id]]
      /\ worker \in [Workers -> [at : WorkerStage, job : JobId \cup {NoJob}]]
      /\ worker[w].at = "idle"
      /\ worker[w].job = NoJob
      /\ UNCHANGED <<seq, delayed, jobs, jobOrder, caller, dropping, cancelled>>
    BY DEF IInv, TypeOK, Bookkeeping, Receive
<1> HIDE DEF id
<1>3. caller[id] = "returned" /\ \A v \in Workers : ~Holds(v, id)
    BY <1>1 DEF IInv, OneCarrier
<1>4. TypeOK'
    BY <1>1, <1>2 DEF IInv, TypeOK, WorkerStage
<1>5. TableMatchesOrder'
    BY <1>2, SameTable
<1>6. OneCarrier'
    BY <1>1, <1>2, <1>3 DEF IInv, OneCarrier, Holds
<1>7. NoOrphan'
    <2> SUFFICES ASSUME NEW k \in DOMAIN jobs' PROVE NoOrphan!(k)'
        BY DEF NoOrphan
    <2>1. CASE k = id
        BY <2>1, <1>1, <1>2, <1>3 DEF IInv, NoOrphan, Holds
    <2>2. CASE k # id
        <3>1. k \in JobId /\ k # NoJob
            BY <1>2 DEF IInv, TypeOK
        <3>2. \A v \in Workers : \A at \in {"claimed", "generating"} :
                  worker'[v] = [at |-> at, job |-> k] <=> worker[v] = [at |-> at, job |-> k]
            BY <2>2, <3>1, <1>2
        <3> QED BY <2>2, <3>2, <1>1, <1>2 DEF IInv, NoOrphan
    <2> QED BY <2>1, <2>2
<1>8. Bookkeeping'
    BY <1>1, <1>2 DEF IInv, Bookkeeping
<1> QED BY <1>4, <1>5, <1>6, <1>7, <1>8 DEF IInv

(* A worker that lets its job go, or takes its status one step further, whatever
   it does to the table: the three marks of runJob share these facts. *)
LEMMA WorkerHoldsFacts ==
    ASSUME IInv, NEW w \in Workers, worker[w].at \in {"claimed", "generating"}
    PROVE  LET id == worker[w].job
           IN  /\ id \in JobId
               /\ caller[id] = "returned"
               /\ id \notin ToSet(queue)
               /\ \A v \in Workers \ {w} : worker[v].job # id
               /\ worker[w] = [at |-> worker[w].at, job |-> id]
               /\ id \in DOMAIN jobs => /\ jobs[id].reportDir = NoDir
                                        /\ jobs[id].status # "done"
<1> DEFINE id == worker[w].job
<1>1. worker[w] \in [at : WorkerStage, job : JobId \cup {NoJob}]
    BY DEF IInv, TypeOK
<1>2. id \in JobId
    BY <1>1 DEF IInv, Bookkeeping
<1>3. worker[w] = [at |-> worker[w].at, job |-> id]
    BY <1>1
<1>4. /\ caller[id] = "returned"
      /\ id \notin ToSet(queue)
      /\ \A v \in Workers \ {w} : worker[v].job # id
    BY <1>2 DEF IInv, OneCarrier, Holds
<1>5. id \in DOMAIN jobs => jobs[id].status \in {"queued", "running"}
    BY <1>3 DEF IInv, NoOrphan
<1>6. id \in DOMAIN jobs => jobs[id].reportDir = NoDir /\ jobs[id].status # "done"
    BY <1>5 DEF IInv, Bookkeeping
<1> QED BY <1>2, <1>3, <1>4, <1>6

(* The common shape of markJobRunning, markJobDone and markJobFailed in a worker. *)
LEMMA MarkKeeps ==
    ASSUME IInv, NEW w \in Workers, worker[w].at \in {"claimed", "generating"},
           NEW status \in {"running", "done", "failed"},
           UNCHANGED <<seq, delayed, jobOrder, queue, caller, dropping, cancelled>>,
           DOMAIN jobs' = DOMAIN jobs,
           jobs' \in [DOMAIN jobs -> JobRecord],
           \A k \in DOMAIN jobs \ {worker[w].job} : jobs'[k] = jobs[k],
           worker[w].job \in DOMAIN jobs =>
               /\ jobs'[worker[w].job].status = status
               /\ jobs'[worker[w].job].reportDir = NoDir <=> status # "done",
           worker' = [worker EXCEPT ![w] =
               IF status = "running" /\ worker[w].job \in DOMAIN jobs
               THEN [at |-> "generating", job |-> worker[w].job] ELSE Idle]
    PROVE  IInv'
<1> USE NamesAssumption
<1> DEFINE id == worker[w].job
           busy == status = "running" /\ id \in DOMAIN jobs
<1>1. /\ id \in JobId
      /\ caller[id] = "returned"
      /\ id \notin ToSet(queue)
      /\ \A v \in Workers \ {w} : worker[v].job # id
    BY WorkerHoldsFacts
<1>2. /\ worker \in [Workers -> [at : WorkerStage, job : JobId \cup {NoJob}]]
      /\ worker' = [worker EXCEPT ![w] =
                       IF busy THEN [at |-> "generating", job |-> id] ELSE Idle]
    BY DEF IInv, TypeOK
<1>3. /\ \A v \in Workers \ {w} : worker'[v] = worker[v]
      /\ worker'[w] = IF busy THEN [at |-> "generating", job |-> id]
                      ELSE [at |-> "idle", job |-> NoJob]
    BY <1>2 DEF Idle
<1>4. TypeOK'
    <2>1. worker' \in [Workers -> [at : WorkerStage, job : JobId \cup {NoJob}]]
        BY <1>1, <1>2 DEF Idle, WorkerStage
    <2> QED BY <2>1 DEF IInv, TypeOK
<1>5. TableMatchesOrder'
    BY DEF IInv, TableMatchesOrder
<1>6. OneCarrier'
    BY <1>1, <1>3 DEF IInv, OneCarrier, Holds
<1>7. NoOrphan'
    <2> SUFFICES ASSUME NEW k \in DOMAIN jobs' PROVE NoOrphan!(k)'
        BY DEF NoOrphan
    <2>0. k \in JobId /\ k # NoJob
        BY DEF IInv, TypeOK
    <2>1. CASE k = id
        <3>1. jobs'[k].status = status
            BY <2>1
        <3>2. ~\E v \in Workers : worker'[v] = [at |-> "claimed", job |-> k]
            BY <2>0, <2>1, <1>1, <1>3
        <3>3. status = "running" <=>
                  \E v \in Workers : worker'[v] = [at |-> "generating", job |-> k]
            BY <2>0, <2>1, <1>1, <1>3
        <3> QED BY <2>1, <3>1, <3>2, <3>3, <1>1
    <2>2. CASE k # id
        <3>1. \A v \in Workers : \A at \in {"claimed", "generating"} :
                  worker'[v] = [at |-> at, job |-> k] <=> worker[v] = [at |-> at, job |-> k]
            BY <2>0, <2>2, <1>3
        <3>2. jobs'[k] = jobs[k]
            BY <2>2
        <3> QED BY <3>1, <3>2 DEF IInv, NoOrphan
    <2> QED BY <2>1, <2>2
<1>8. Bookkeeping'
    <2>1. \A v \in Workers : worker'[v].job = NoJob <=> worker'[v].at \in {"idle", "stopped"}
        BY <1>1, <1>3 DEF IInv, Bookkeeping
    <2>2. \A k \in DOMAIN jobs' : jobs'[k].reportDir = NoDir <=> jobs'[k].status # "done"
        BY DEF IInv, Bookkeeping
    <2> QED BY <2>1, <2>2 DEF IInv, Bookkeeping
<1> QED BY <1>4, <1>5, <1>6, <1>7, <1>8 DEF IInv

(* A worker starts a job, or skips one that left the table. *)
LEMMA MarkJobRunningKeeps == ASSUME NEW w \in Workers PROVE IInv /\ MarkJobRunning(w) => IInv'
<1> SUFFICES ASSUME IInv, MarkJobRunning(w) PROVE IInv'
    OBVIOUS
<1>1. worker[w].at = "claimed" /\ SetStatus(worker[w].job, "running")
    BY DEF MarkJobRunning
<1>2. worker[w].job \in JobId /\ (worker[w].job \in DOMAIN jobs => jobs[worker[w].job].reportDir = NoDir)
    BY <1>1, WorkerHoldsFacts
<1>3. DOMAIN jobs' = DOMAIN jobs /\ jobs' \in [DOMAIN jobs -> JobRecord]
    BY <1>1, <1>2, SetStatusFacts DEF IInv, Status
<1>4. /\ \A k \in DOMAIN jobs \ {worker[w].job} : jobs'[k] = jobs[k]
      /\ worker[w].job \in DOMAIN jobs =>
             /\ jobs'[worker[w].job].status = "running"
             /\ jobs'[worker[w].job].reportDir = NoDir
    BY <1>1, <1>2 DEF IInv, TypeOK, SetStatus, JobRecord
<1> QED BY <1>1, <1>3, <1>4, MarkKeeps DEF MarkJobRunning

(* A worker records the report directory of a finished job. *)
LEMMA MarkJobDoneKeeps == ASSUME NEW w \in Workers PROVE IInv /\ MarkJobDone(w) => IInv'
<1> SUFFICES ASSUME IInv, MarkJobDone(w) PROVE IInv'
    OBVIOUS
<1>1. worker[w].at = "generating" /\ worker[w].job \in JobId
    BY WorkerHoldsFacts DEF MarkJobDone
<1>2. PICK d \in Dirs :
         jobs' = IF worker[w].job \in DOMAIN jobs
                 THEN [jobs EXCEPT ![worker[w].job] = [status |-> "done", reportDir |-> d]]
                 ELSE jobs
    BY DEF MarkJobDone
<1>3. /\ DOMAIN jobs' = DOMAIN jobs
      /\ jobs' \in [DOMAIN jobs -> JobRecord]
      /\ \A k \in DOMAIN jobs \ {worker[w].job} : jobs'[k] = jobs[k]
      /\ worker[w].job \in DOMAIN jobs =>
             /\ jobs'[worker[w].job].status = "done"
             /\ jobs'[worker[w].job].reportDir # NoDir
    BY <1>2, NamesAssumption DEF IInv, TypeOK, JobRecord, Status
<1> QED BY <1>1, <1>3, MarkKeeps DEF MarkJobDone

(* A worker records a failure. *)
LEMMA MarkJobFailedKeeps == ASSUME NEW w \in Workers PROVE IInv /\ MarkJobFailed(w) => IInv'
<1> SUFFICES ASSUME IInv, MarkJobFailed(w) PROVE IInv'
    OBVIOUS
<1>1. worker[w].at = "generating" /\ SetStatus(worker[w].job, "failed")
    BY DEF MarkJobFailed
<1>2. worker[w].job \in JobId /\ (worker[w].job \in DOMAIN jobs => jobs[worker[w].job].reportDir = NoDir)
    BY <1>1, WorkerHoldsFacts
<1>3. DOMAIN jobs' = DOMAIN jobs /\ jobs' \in [DOMAIN jobs -> JobRecord]
    BY <1>1, <1>2, SetStatusFacts DEF IInv, Status
<1>4. /\ \A k \in DOMAIN jobs \ {worker[w].job} : jobs'[k] = jobs[k]
      /\ worker[w].job \in DOMAIN jobs =>
             /\ jobs'[worker[w].job].status = "failed"
             /\ jobs'[worker[w].job].reportDir = NoDir
    BY <1>1, <1>2 DEF IInv, TypeOK, SetStatus, JobRecord
<1> QED BY <1>1, <1>3, <1>4, MarkKeeps DEF MarkJobFailed

(* A worker returns when the context is cancelled. *)
LEMMA StopWorkerKeeps == ASSUME NEW w \in Workers PROVE IInv /\ StopWorker(w) => IInv'
<1> SUFFICES ASSUME IInv, StopWorker(w) PROVE IInv'
    OBVIOUS
<1>1. /\ worker' = [worker EXCEPT ![w].at = "stopped"]
      /\ worker \in [Workers -> [at : WorkerStage, job : JobId \cup {NoJob}]]
      /\ worker[w].at = "idle"
      /\ UNCHANGED <<seq, delayed, jobs, jobOrder, queue, caller, dropping, cancelled>>
    BY DEF IInv, TypeOK, StopWorker
<1>2. TypeOK'
    BY <1>1 DEF IInv, TypeOK, WorkerStage
<1>3. TableMatchesOrder'
    BY <1>1, SameTable
<1>4. OneCarrier'
    BY <1>1 DEF IInv, OneCarrier, Holds
<1>5. NoOrphan'
    <2> SUFFICES ASSUME NEW k \in DOMAIN jobs' PROVE NoOrphan!(k)'
        BY DEF NoOrphan
    <2>1. \A v \in Workers : \A at \in {"claimed", "generating"} :
              worker'[v] = [at |-> at, job |-> k] <=> worker[v] = [at |-> at, job |-> k]
        BY <1>1
    <2> QED BY <1>1, <2>1 DEF IInv, NoOrphan
<1>6. Bookkeeping'
    BY <1>1 DEF IInv, Bookkeeping
<1> QED BY <1>2, <1>3, <1>4, <1>5, <1>6 DEF IInv

(* One iteration of dropJobsForDirs that finds a job. *)
LEMMA DropJobKeeps == ASSUME NEW id \in JobId PROVE IInv /\ DropJob(id) => IInv'
<1> SUFFICES ASSUME IInv, DropJob(id) PROVE IInv'
    OBVIOUS
<1>1. /\ TableMatchesOrder'
      /\ jobOrder' \in Seq(JobId)
      /\ DOMAIN jobs' = DOMAIN jobs \ {id}
      /\ jobs' \in [DOMAIN jobs' -> JobRecord]
      /\ \A k \in DOMAIN jobs' : jobs'[k] = jobs[k]
    BY DeleteFacts DEF DropJob
<1>2. UNCHANGED <<seq, delayed, queue, caller, worker, cancelled>> /\ dropping' \subseteq Dirs
    BY DEF IInv, TypeOK, DropJob
<1>3. TypeOK'
    BY <1>1, <1>2 DEF IInv, TypeOK
<1>4. OneCarrier'
    BY <1>2 DEF IInv, OneCarrier, Holds
<1>5. NoOrphan'
    BY <1>1, <1>2 DEF IInv, NoOrphan
<1>6. Bookkeeping'
    BY <1>1, <1>2 DEF IInv, Bookkeeping
<1> QED BY <1>1, <1>3, <1>4, <1>5, <1>6 DEF IInv

(* Cancel, BeginDrop and stuttering leave everything the invariant speaks of alone. *)
LEMMA IdleKeeps ==
    ASSUME IInv, UNCHANGED <<seq, delayed, jobs, jobOrder, queue, caller, worker>>,
           dropping' \subseteq Dirs, cancelled' \in BOOLEAN
    PROVE  IInv'
<1>1. TypeOK'
    BY DEF IInv, TypeOK
<1>2. TableMatchesOrder'
    BY SameTable
<1>3. OneCarrier'
    BY DEF IInv, OneCarrier, Holds
<1>4. NoOrphan'
    BY DEF IInv, NoOrphan
<1>5. Bookkeeping'
    BY DEF IInv, Bookkeeping
<1> QED BY <1>1, <1>2, <1>3, <1>4, <1>5 DEF IInv

(* Every step keeps the inductive invariant. *)
LEMMA NextKeeps == IInv /\ [Next]_vars => IInv'
<1> SUFFICES ASSUME IInv, [Next]_vars PROVE IInv'
    OBVIOUS
<1>1. CASE DrawId
    BY <1>1, DrawIdKeeps
<1>2. CASE Cancel
    BY <1>2, IdleKeeps DEF Cancel, IInv, TypeOK
<1>3. CASE BeginDrop
    BY <1>3, IdleKeeps DEF BeginDrop, IInv, TypeOK
<1>4. CASE DropStep
    BY <1>4, DropJobKeeps DEF DropStep
<1>5. ASSUME NEW id \in JobId, CallerStep(id) PROVE IInv'
    <2>1. CASE Insert(id)
        BY <2>1, InsertKeeps
    <2>2. CASE ArmTimer(id)
        BY <2>2, ArmTimerKeeps
    <2>3. CASE SendNew(id)
        BY <2>3, SendKeeps DEF SendNew
    <2>4. CASE Reject(id)
        BY <2>4, RejectKeeps
    <2>5. CASE Release(id)
        BY <2>5, ReleaseKeeps
    <2>6. CASE SendReleased(id)
        BY <2>6, SendKeeps DEF SendReleased
    <2>7. CASE FailReleased(id)
        BY <2>7, FailReleasedKeeps
    <2> QED BY <1>5, <2>1, <2>2, <2>3, <2>4, <2>5, <2>6, <2>7 DEF CallerStep
<1>6. ASSUME NEW w \in Workers, WorkerStep(w) PROVE IInv'
    <2>1. CASE Receive(w)
        BY <2>1, ReceiveKeeps
    <2>2. CASE MarkJobRunning(w)
        BY <2>2, MarkJobRunningKeeps
    <2>3. CASE MarkJobDone(w)
        BY <2>3, MarkJobDoneKeeps
    <2>4. CASE MarkJobFailed(w)
        BY <2>4, MarkJobFailedKeeps
    <2>5. CASE StopWorker(w)
        BY <2>5, StopWorkerKeeps
    <2> QED BY <1>6, <2>1, <2>2, <2>3, <2>4, <2>5 DEF WorkerStep
<1>7. CASE UNCHANGED vars
    BY <1>7, IdleKeeps DEF vars, IInv, TypeOK
<1> QED BY <1>1, <1>2, <1>3, <1>4, <1>5, <1>6, <1>7 DEF Next

(* The inductive invariant holds in every reachable state. *)
LEMMA Invariance == Spec => []IInv
<1>1. Init => IInv
    BY InitIInv
<1>2. IInv /\ [Next]_vars => IInv'
    BY NextKeeps
<1> QED BY <1>1, <1>2, PTL DEF Spec

(* The variables keep their types and the channel its capacity. *)
THEOREM TypeCorrect == Spec => []TypeOK
<1>1. IInv => TypeOK
    BY DEF IInv
<1> QED BY <1>1, Invariance, PTL

(* The list and the table of jobs agree at every unlock, without repetitions and
   within the history limit. *)
THEOREM TableAndOrderAgree == Spec => []TableMatchesOrder
<1>1. IInv => TableMatchesOrder
    BY DEF IInv
<1> QED BY <1>1, Invariance, PTL

(* At most one goroutine, channel slot or worker acts for a job: no report is
   generated twice for one request. *)
THEOREM AtMostOneCarrier == Spec => []OneCarrier
<1>1. IInv => OneCarrier
    BY DEF IInv
<1> QED BY <1>1, Invariance, PTL

(* No job of the table waits for something nobody is going to do. *)
THEOREM NoJobOrphaned == Spec => []NoOrphan
<1>1. IInv => NoOrphan
    BY DEF IInv
<1> QED BY <1>1, Invariance, PTL

(* Unfinished jobs never name a report directory: the guard of the cleanup that
   compares directories of unfinished jobs is never met. *)
THEOREM DirectoryOnlyWhenDone == Spec => []Bookkeeping
<1>1. IInv => Bookkeeping
    BY DEF IInv
<1> QED BY <1>1, Invariance, PTL

-----------------------------------------------------------------------------
(* Refinement *)

(* The answer to a lookup depends on the table and on whether the job has been
   inserted; a change of one job's status changes one answer. *)
LEMMA ViewOfStatus ==
    ASSUME NEW id \in JobId,
           DOMAIN jobs' = DOMAIN jobs,
           \A k \in DOMAIN jobs \ {id} : jobs'[k].status = jobs[k].status,
           \A k \in JobId : caller'[k] \in {"none", "drawn"} <=> caller[k] \in {"none", "drawn"}
    PROVE  /\ id \in DOMAIN jobs => view' = [view EXCEPT ![id] = jobs'[id].status]
           /\ id \notin DOMAIN jobs => view' = view
BY DEF view

(* Steps that change neither the table nor what was inserted change no answer. *)
LEMMA SameView ==
    ASSUME UNCHANGED jobs,
           \A k \in JobId : caller'[k] \in {"none", "drawn"} <=> caller[k] \in {"none", "drawn"}
    PROVE  view' = view
BY DEF view

(* A job deleted from the table is gone; the other answers stay. *)
LEMMA ViewOfDelete ==
    ASSUME NEW id \in DOMAIN jobs, DOMAIN jobs \subseteq JobId,
           DOMAIN jobs' = DOMAIN jobs \ {id},
           \A k \in DOMAIN jobs' : jobs'[k] = jobs[k],
           caller[id] \notin {"none", "drawn"},
           \A k \in JobId : caller'[k] \in {"none", "drawn"} <=> caller[k] \in {"none", "drawn"}
    PROVE  view' = [view EXCEPT ![id] = "gone"]
BY DEF view

(* The answers while a job is in the table. *)
LEMMA ViewInTable ==
    ASSUME IInv, NEW id \in DOMAIN jobs
    PROVE  /\ id \in JobId
           /\ view[id] = jobs[id].status
           /\ view[id] \in Status
BY DEF IInv, TypeOK, view, JobRecord

(* Inserting a job creates it, and the trim pushes out only visible jobs. *)
LEMMA InsertCreates ==
    ASSUME IInv, NEW id \in JobId, Insert(id) PROVE Lifecycle!Create(id)
<1> DEFINE pushedOut == DOMAIN jobs \ DOMAIN jobs'
<1>1. /\ id \notin DOMAIN jobs
      /\ id \in DOMAIN jobs'
      /\ DOMAIN jobs' \subseteq DOMAIN jobs \cup {id}
      /\ jobs'[id] = NewJob(id)
      /\ \A k \in DOMAIN jobs' \ {id} : jobs'[k] = jobs[k]
    BY InsertFacts
<1>2. /\ caller \in [JobId -> CallerStage]
      /\ caller[id] = "drawn"
      /\ caller' = [caller EXCEPT ![id] = "inserted"]
    BY DEF IInv, TypeOK, Insert
<1>3. DOMAIN jobs \subseteq JobId /\ \A k \in DOMAIN jobs : caller[k] \notin {"none", "drawn"}
    BY DEF IInv, TypeOK, NoOrphan, CallerPending
<1>4. view[id] = "unknown"
    BY <1>1, <1>2 DEF view
<1>5. pushedOut \in SUBSET (JobId \ {id})
    BY <1>1, <1>3
<1>6. \A k \in pushedOut : view[k] \in Lifecycle!Visible
    BY ViewInTable DEF Status, Lifecycle!Visible, Lifecycle!Unfinished, Lifecycle!Finished
<1>7. NewJob(id).status \in {"scheduled", "queued"}
    BY DEF NewJob
<1>8. view' = [k \in JobId |-> IF k = id THEN NewJob(id).status
                               ELSE IF k \in pushedOut THEN "gone"
                               ELSE view[k]]
    BY <1>1, <1>2, <1>3 DEF view
<1> HIDE DEF pushedOut
<1> QED BY <1>4, <1>5, <1>6, <1>7, <1>8 DEF Lifecycle!Create

(* Every step is a step of JobLifecycle or leaves every answer alone. *)
LEMMA StepRefines == IInv /\ [Next]_vars => [Lifecycle!Next]_view
<1> SUFFICES ASSUME IInv, [Next]_vars PROVE Lifecycle!Next \/ view' = view
    OBVIOUS
<1>1. caller \in [JobId -> CallerStage] /\ DOMAIN jobs \subseteq JobId
    BY DEF IInv, TypeOK
<1>2. CASE DrawId
    <2>1. seq + 1 \in JobId /\ caller[seq + 1] = "none"
        BY <1>2, SizesAssumption DEF IInv, TypeOK, Bookkeeping, DrawId, JobId
    <2>2. caller' = [caller EXCEPT ![seq + 1] = "drawn"] /\ jobs' = jobs
        BY <1>2 DEF DrawId
    <2> QED BY <1>1, <2>1, <2>2, SameView
<1>3. CASE Cancel \/ BeginDrop \/ UNCHANGED vars
    BY <1>3, SameView DEF Cancel, BeginDrop, vars
<1>4. ASSUME NEW id \in JobId, DropJob(id) PROVE Lifecycle!Next
    <2>1. id \in DOMAIN jobs /\ jobs[id].reportDir \in Dirs
        BY <1>4 DEF DropJob, InDirs, IInv, TypeOK
    <2>2. jobs[id].status = "done" /\ caller[id] \notin {"none", "drawn"}
        BY <2>1, NamesAssumption DEF IInv, Bookkeeping, NoOrphan, CallerPending
    <2>3. /\ DOMAIN jobs' = DOMAIN jobs \ {id}
          /\ \A k \in DOMAIN jobs' : jobs'[k] = jobs[k]
        BY <1>4, DeleteFacts DEF DropJob
    <2>4. view' = [view EXCEPT ![id] = "gone"]
        BY <1>1, <1>4, <2>1, <2>2, <2>3, ViewOfDelete DEF DropJob
    <2>5. Lifecycle!Forget(id)
        BY <2>1, <2>2, <2>4, ViewInTable DEF Lifecycle!Forget, Lifecycle!Move
    <2> QED BY <2>5 DEF Lifecycle!Next
<1>5. ASSUME NEW id \in JobId, CallerStep(id) PROVE Lifecycle!Next \/ view' = view
    <2>1. CASE Insert(id)
        BY <2>1, InsertCreates DEF Lifecycle!Next
    <2>2. CASE ArmTimer(id)
        BY <1>1, <2>2, SameView DEF ArmTimer
    <2>3. CASE SendNew(id)
        BY <1>1, <2>3, SameView DEF SendNew, Send
    <2>4. CASE SendReleased(id)
        BY <1>1, <2>4, SameView DEF SendReleased, Send
    <2>5. CASE Reject(id)
        <3>1. /\ caller[id] = "full"
              /\ caller' = [caller EXCEPT ![id] = "rejected"]
              /\ DOMAIN jobs' = DOMAIN jobs \ {id}
              /\ \A k \in DOMAIN jobs' : jobs'[k] = jobs[k]
            BY <2>5, DeleteFacts DEF Reject
        <3>2. CASE id \in DOMAIN jobs
            <4>1. jobs[id].status = "queued"
                BY <3>1, <3>2 DEF IInv, NoOrphan
            <4>2. view' = [view EXCEPT ![id] = "gone"]
                BY <1>1, <3>1, <3>2, ViewOfDelete
            <4>3. Lifecycle!Forget(id)
                BY <3>2, <4>1, <4>2, ViewInTable DEF Lifecycle!Forget, Lifecycle!Move
            <4> QED BY <4>3 DEF Lifecycle!Next
        <3>3. CASE id \notin DOMAIN jobs
            BY <1>1, <3>1, <3>3 DEF view
        <3> QED BY <3>2, <3>3
    <2>6. CASE Release(id)
        <3>1. CASE id \in DOMAIN jobs /\ jobs[id].status = "scheduled"
            <4>1. /\ SetStatus(id, "queued")
                  /\ caller[id] = "armed"
                  /\ caller' = [caller EXCEPT ![id] = "releasing"]
                BY <2>6, <3>1 DEF Release
            <4>2. /\ DOMAIN jobs' = DOMAIN jobs
                  /\ \A k \in DOMAIN jobs :
                        jobs'[k].status = IF k = id THEN "queued" ELSE jobs[k].status
                BY <4>1, SetStatusFacts DEF IInv, Status
            <4>3. view' = [view EXCEPT ![id] = "queued"]
                BY <1>1, <3>1, <4>1, <4>2, ViewOfStatus
            <4>4. Lifecycle!Release(id)
                BY <3>1, <4>3, ViewInTable DEF Lifecycle!Release, Lifecycle!Move
            <4> QED BY <4>4 DEF Lifecycle!Next
        <3>2. CASE ~(id \in DOMAIN jobs /\ jobs[id].status = "scheduled")
            BY <1>1, <2>6, <3>2, SameView DEF Release
        <3> QED BY <3>1, <3>2
    <2>7. CASE FailReleased(id)
        <3>1. /\ SetStatus(id, "failed")
              /\ caller[id] = "releaseFull"
              /\ caller' = [caller EXCEPT ![id] = "returned"]
            BY <2>7 DEF FailReleased
        <3>2. /\ DOMAIN jobs' = DOMAIN jobs
              /\ \A k \in DOMAIN jobs :
                    jobs'[k].status = IF k = id THEN "failed" ELSE jobs[k].status
            BY <3>1, SetStatusFacts DEF IInv, Status
        <3>3. CASE id \in DOMAIN jobs
            <4>1. jobs[id].status = "queued"
                BY <3>1, <3>3 DEF IInv, NoOrphan
            <4>2. view' = [view EXCEPT ![id] = "failed"]
                BY <1>1, <3>1, <3>2, <3>3, ViewOfStatus
            <4>3. Lifecycle!Fail(id)
                BY <3>3, <4>1, <4>2, ViewInTable DEF Lifecycle!Fail, Lifecycle!Move
            <4> QED BY <4>3 DEF Lifecycle!Next
        <3>4. CASE id \notin DOMAIN jobs
            BY <1>1, <3>1, <3>2, <3>4, ViewOfStatus
        <3> QED BY <3>3, <3>4
    <2> QED BY <1>5, <2>1, <2>2, <2>3, <2>4, <2>5, <2>6, <2>7 DEF CallerStep
<1>6. ASSUME NEW w \in Workers, WorkerStep(w) PROVE Lifecycle!Next \/ view' = view
    <2> DEFINE id == worker[w].job
    <2>1. CASE Receive(w) \/ StopWorker(w)
        BY <2>1, SameView DEF Receive, StopWorker
    <2>2. ASSUME worker[w].at \in {"claimed", "generating"}
          PROVE  /\ id \in JobId
                 /\ worker[w] = [at |-> worker[w].at, job |-> id]
        BY <2>2, WorkerHoldsFacts
    <2>3. CASE MarkJobRunning(w)
        <3>1. id \in JobId /\ worker[w] = [at |-> "claimed", job |-> id]
            BY <2>2, <2>3 DEF MarkJobRunning
        <3>2. /\ DOMAIN jobs' = DOMAIN jobs
              /\ caller' = caller
              /\ \A k \in DOMAIN jobs :
                    jobs'[k].status = IF k = id THEN "running" ELSE jobs[k].status
            BY <2>3, <3>1, SetStatusFacts DEF MarkJobRunning, IInv, Status
        <3> HIDE DEF id
        <3>3. CASE id \in DOMAIN jobs
            <4>1. jobs[id].status = "queued"
                <5>1. NoOrphan!(id)
                    BY <3>3 DEF IInv, NoOrphan
                <5> QED BY <3>1, <5>1
            <4>2. view' = [view EXCEPT ![id] = "running"]
                BY <3>1, <3>2, <3>3, ViewOfStatus
            <4>3. Lifecycle!Run(id)
                BY <3>3, <4>1, <4>2, ViewInTable DEF Lifecycle!Run, Lifecycle!Move
            <4> QED BY <3>1, <4>3 DEF Lifecycle!Next
        <3>4. CASE id \notin DOMAIN jobs
            BY <3>1, <3>2, <3>4, ViewOfStatus
        <3> QED BY <3>3, <3>4
    <2>4. CASE MarkJobDone(w)
        <3>1. id \in JobId /\ worker[w] = [at |-> "generating", job |-> id]
            BY <2>2, <2>4 DEF MarkJobDone
        <3>2. PICK d \in Dirs :
                 jobs' = IF id \in DOMAIN jobs
                         THEN [jobs EXCEPT ![id] = [status |-> "done", reportDir |-> d]]
                         ELSE jobs
            BY <2>4 DEF MarkJobDone
        <3>3. /\ DOMAIN jobs' = DOMAIN jobs
              /\ caller' = caller
              /\ \A k \in DOMAIN jobs :
                    jobs'[k].status = IF k = id THEN "done" ELSE jobs[k].status
            BY <2>4, <3>2 DEF MarkJobDone, IInv, TypeOK
        <3> HIDE DEF id
        <3>4. CASE id \in DOMAIN jobs
            <4>1. jobs[id].status = "running"
                <5>1. NoOrphan!(id)
                    BY <3>4 DEF IInv, NoOrphan
                <5> QED BY <3>1, <5>1
            <4>2. view' = [view EXCEPT ![id] = "done"]
                BY <3>1, <3>3, <3>4, ViewOfStatus
            <4>3. Lifecycle!Succeed(id)
                BY <3>4, <4>1, <4>2, ViewInTable DEF Lifecycle!Succeed, Lifecycle!Move
            <4> QED BY <3>1, <4>3 DEF Lifecycle!Next
        <3>5. CASE id \notin DOMAIN jobs
            BY <3>1, <3>3, <3>5, ViewOfStatus
        <3> QED BY <3>4, <3>5
    <2>5. CASE MarkJobFailed(w)
        <3>1. id \in JobId /\ worker[w] = [at |-> "generating", job |-> id]
            BY <2>2, <2>5 DEF MarkJobFailed
        <3>2. /\ DOMAIN jobs' = DOMAIN jobs
              /\ caller' = caller
              /\ \A k \in DOMAIN jobs :
                    jobs'[k].status = IF k = id THEN "failed" ELSE jobs[k].status
            BY <2>5, <3>1, SetStatusFacts DEF MarkJobFailed, IInv, Status
        <3> HIDE DEF id
        <3>3. CASE id \in DOMAIN jobs
            <4>1. jobs[id].status = "running"
                <5>1. NoOrphan!(id)
                    BY <3>3 DEF IInv, NoOrphan
                <5> QED BY <3>1, <5>1
            <4>2. view' = [view EXCEPT ![id] = "failed"]
                BY <3>1, <3>2, <3>3, ViewOfStatus
            <4>3. Lifecycle!Fail(id)
                BY <3>3, <4>1, <4>2, ViewInTable DEF Lifecycle!Fail, Lifecycle!Move
            <4> QED BY <3>1, <4>3 DEF Lifecycle!Next
        <3>4. CASE id \notin DOMAIN jobs
            BY <3>1, <3>2, <3>4, ViewOfStatus
        <3> QED BY <3>3, <3>4
    <2> QED BY <1>6, <2>1, <2>3, <2>4, <2>5 DEF WorkerStep
<1> QED BY <1>2, <1>3, <1>4, <1>5, <1>6 DEF Next, DropStep

(* The service implements the life of a job it promises to its clients. *)
THEOREM ImplementsJobLifecycle == Spec => ImplementsLifecycle
<1>1. Init => Lifecycle!Init
    BY DEF Init, view, Lifecycle!Init
<1>2. IInv /\ [Next]_vars => [Lifecycle!Next]_view
    BY StepRefines
<1> QED BY <1>1, <1>2, Invariance, PTL DEF Spec, ImplementsLifecycle, Lifecycle!Spec

-----------------------------------------------------------------------------
(* What an unfinished job may disappear for *)

UnfinishedLeaves ==
    \A id \in DOMAIN jobs \ DOMAIN jobs' :
        jobs[id].status \in Lifecycle!Unfinished =>
            \/ caller[id] = "full" /\ caller'[id] = "rejected"
            \/ /\ Len(jobOrder) = HistoryLimit
               /\ id = Last(jobOrder)
               /\ Head(jobOrder') \notin DOMAIN jobs

(* No step makes an unfinished job disappear for another reason. *)
LEMMA StepPushesOut == IInv /\ [Next]_vars => UnfinishedLeaves
<1> SUFFICES ASSUME IInv, [Next]_vars PROVE UnfinishedLeaves
    OBVIOUS
<1>1. CASE DOMAIN jobs \subseteq DOMAIN jobs'
    BY <1>1 DEF UnfinishedLeaves
<1>2. ASSUME NEW id \in JobId, Insert(id) PROVE UnfinishedLeaves
    BY <1>2, InsertFacts DEF UnfinishedLeaves
<1>3. ASSUME NEW id \in JobId, Reject(id) PROVE UnfinishedLeaves
    <2>1. DOMAIN jobs' = DOMAIN jobs \ {id}
        BY <1>3, DeleteFacts DEF Reject
    <2>2. caller[id] = "full" /\ caller'[id] = "rejected"
        BY <1>3 DEF Reject, IInv, TypeOK
    <2> QED BY <2>1, <2>2 DEF UnfinishedLeaves
<1>4. ASSUME NEW id \in JobId, DropJob(id) PROVE UnfinishedLeaves
    <2>1. DOMAIN jobs' = DOMAIN jobs \ {id}
        BY <1>4, DeleteFacts DEF DropJob
    <2>2. id \in DOMAIN jobs /\ jobs[id].reportDir \in Dirs
        BY <1>4 DEF DropJob, InDirs, IInv, TypeOK
    <2>3. jobs[id].status = "done"
        BY <2>2, NamesAssumption DEF IInv, Bookkeeping
    <2> QED BY <2>1, <2>3 DEF UnfinishedLeaves, Lifecycle!Unfinished
<1>5. ASSUME NEW id \in JobId, CallerStep(id), ~Insert(id), ~Reject(id)
      PROVE  DOMAIN jobs \subseteq DOMAIN jobs'
    BY <1>5 DEF CallerStep, ArmTimer, SendNew, Release, SendReleased, FailReleased, Send, SetStatus
<1>6. ASSUME NEW w \in Workers, WorkerStep(w)
      PROVE  DOMAIN jobs \subseteq DOMAIN jobs'
    BY <1>6 DEF WorkerStep, Receive, MarkJobRunning, MarkJobDone, MarkJobFailed, StopWorker, SetStatus
<1>7. CASE DrawId \/ Cancel \/ BeginDrop \/ UNCHANGED vars
    BY <1>7, <1>1 DEF DrawId, Cancel, BeginDrop, vars
<1> QED BY <1>1, <1>2, <1>3, <1>4, <1>5, <1>6, <1>7 DEF Next, DropStep

(* A job that is not finished leaves the table only when its own request is refused
   or when it is the oldest of a full table and a newer job arrives. *)
THEOREM OnlyPushedOut == Spec => UnfinishedLeavesOnlyWhenPushedOut
<1>1. IInv /\ [Next]_vars => [UnfinishedLeaves]_vars
    BY StepPushesOut
<1> QED BY <1>1, Invariance, PTL
        DEF Spec, UnfinishedLeavesOnlyWhenPushedOut, UnfinishedLeaves

-----------------------------------------------------------------------------
(* Jobs end: what can be shown without fairness *)

(* Who can go on at once: the goroutine of a request or timer, a worker, the cleanup that
   holds the mutex. *)
CallerCanGo(id) ==
    \/ caller[id] \in {"inserted", "releasing"}
    \/ caller[id] \in {"drawn", "full", "armed", "releaseFull"} /\ MutexFree

WorkerCanGo(w) ==
    \/ worker[w].at = "idle" /\ queue # <<>>
    \/ worker[w].at \in {"claimed", "generating"} /\ MutexFree

ToDrop    == {id \in DOMAIN jobs : InDirs(id, dropping)}
DropCanGo == dropping # {} /\ ToDrop # {}

(* A job that is not finished has somebody who can bring it on: its goroutine or its
   worker, any worker while it waits in the channel, or the cleanup that keeps the
   mutex from them. *)
NoJobStuck ==
    \A id \in JobId : view[id] \in Lifecycle!Unfinished =>
        \/ DropCanGo
        \/ CallerCanGo(id)
        \/ \E w \in Workers : WorkerCanGo(w) /\ Holds(w, id)
        \/ id \in ToSet(queue) /\ \E w \in Workers : WorkerCanGo(w)
        \/ id \in ToSet(queue) /\ cancelled

(* The cleanup does not keep the mutex for ever: nothing is added to what it has to
   drop, and each of its steps drops a job. *)
DropsEnd ==
    [][dropping # {} => /\ ToDrop' \subseteq ToDrop
                        /\ DropStep => ToDrop' # ToDrop]_vars

(* How many steps a request is from its end, at most. *)
CallerLeft == [drawn |-> 5, inserted |-> 4, armed |-> 3, releasing |-> 2, full |-> 1,
               releaseFull |-> 1]
WorkerLeft == [claimed |-> 2, generating |-> 1]

Away(id, d) ==
    \/ caller[id] \in DOMAIN CallerLeft /\ d = QueueSize + 2 + CallerLeft[caller[id]]
    \/ \E k \in DOMAIN queue : queue[k] = id /\ d = 2 + k
    \/ \E w \in Workers : /\ Holds(w, id) /\ worker[w].at \in DOMAIN WorkerLeft
                          /\ d = WorkerLeft[worker[w].at]

Over(id) == view[id] \in Lifecycle!Finished \cup {"gone"}

Closer(id, d) == Over(id)' \/ \E e \in Nat : e < d /\ Away(id, e)'

(* No step puts a job further from its end, whoever else comes and goes. *)
NeverFurther ==
    [][\A id \in JobId, d \in Nat : Away(id, d) => Closer(id, d) \/ Away(id, d)']_vars

(* Each step of a request or timer brings its own job closer, and each step of a worker
   but its end brings some job closer. *)
StepsBringCloser ==
    [][/\ \A id \in JobId : CallerStep(id) => \E d \in Nat : Away(id, d) /\ Closer(id, d)
       /\ \A w \in Workers : WorkerStep(w) =>
             StopWorker(w) \/ \E id \in JobId, d \in Nat : Away(id, d) /\ Closer(id, d)]_vars

(* A job that is not finished is some steps from its end. *)
Bounded == \A id \in JobId : view[id] \in Lifecycle!Unfinished => \E d \in Nat : Away(id, d)

-----------------------------------------------------------------------------
(* The holder of the mutex has something to drop, and workers end only after the
   cancellation. *)
HolderInv == /\ dropping # {} => ToDrop # {}
             /\ \A w \in Workers : worker[w].at = "stopped" => cancelled

(* Only the cleanup changes the table while it has the mutex. *)
LEMMA MutexGuards ==
    ASSUME [Next]_vars
    PROVE  \/ BeginDrop \/ DropStep
           \/ dropping = {} /\ dropping' = {}
           \/ UNCHANGED <<jobs, dropping>>
<1>1. CASE DrawId \/ Cancel
    BY <1>1 DEF DrawId, Cancel
<1>2. ASSUME NEW id \in JobId, CallerStep(id)
      PROVE  (dropping = {} /\ dropping' = {}) \/ UNCHANGED <<jobs, dropping>>
    BY <1>2 DEF CallerStep, Insert, ArmTimer, SendNew, Reject, Release, SendReleased, FailReleased,
                Send, MutexFree
<1>3. ASSUME NEW w \in Workers, WorkerStep(w)
      PROVE  (dropping = {} /\ dropping' = {}) \/ UNCHANGED <<jobs, dropping>>
    BY <1>3 DEF WorkerStep, Receive, MarkJobRunning, MarkJobDone, MarkJobFailed, StopWorker,
                MutexFree
<1>4. CASE UNCHANGED vars
    BY <1>4 DEF vars
<1> QED BY <1>1, <1>2, <1>3, <1>4 DEF Next

(* One iteration of the cleanup. *)
LEMMA DropFacts ==
    ASSUME IInv, NEW id \in JobId, DropJob(id)
    PROVE  /\ id \in ToDrop
           /\ ToDrop' \subseteq ToDrop \ {id}
           /\ dropping' # {} => ToDrop' # {}
           /\ UNCHANGED <<worker, cancelled>>
<1>1. /\ DOMAIN jobs' = DOMAIN jobs \ {id}
      /\ \A k \in DOMAIN jobs' : jobs'[k] = jobs[k]
    BY DeleteFacts DEF DropJob
<1>2. dropping' = IF \E k \in DOMAIN jobs \ {id} : InDirs(k, dropping) THEN dropping ELSE {}
    BY DEF DropJob
<1>3. \A k \in DOMAIN jobs' : InDirs(k, dropping)' => dropping' = dropping /\ InDirs(k, dropping)
    BY <1>1, <1>2 DEF InDirs
<1>4. \A k \in DOMAIN jobs' : dropping' = dropping /\ InDirs(k, dropping) => InDirs(k, dropping)'
    BY <1>1 DEF InDirs
<1>5. dropping' # {} => dropping' = dropping /\ \E k \in DOMAIN jobs' : InDirs(k, dropping)
    BY <1>1, <1>2
<1>6. ToDrop' = {k \in DOMAIN jobs' : InDirs(k, dropping)'}
    BY DEF ToDrop
<1> QED BY <1>1, <1>3, <1>4, <1>5, <1>6 DEF DropJob, ToDrop

LEMMA HolderKept == IInv /\ HolderInv /\ [Next]_vars => HolderInv'
<1> SUFFICES ASSUME IInv, HolderInv, [Next]_vars PROVE HolderInv'
    OBVIOUS
<1>1. dropping' # {} => ToDrop' # {}
    <2>1. CASE BeginDrop
        BY <2>1 DEF BeginDrop, ToDrop, InDirs
    <2>2. CASE DropStep
        BY <2>2, DropFacts DEF DropStep
    <2>3. CASE UNCHANGED <<jobs, dropping>>
        BY <2>3 DEF HolderInv, ToDrop, InDirs
    <2> QED BY <2>1, <2>2, <2>3, MutexGuards
<1>2. \A w \in Workers : worker'[w].at = "stopped" => cancelled'
    <2>0. worker \in [Workers -> [at : WorkerStage, job : JobId \cup {NoJob}]]
        BY DEF IInv, TypeOK
    <2>1. CASE DrawId \/ Cancel \/ BeginDrop \/ UNCHANGED vars
        BY <2>1 DEF DrawId, Cancel, BeginDrop, vars, HolderInv
    <2>2. CASE DropStep
        BY <2>2, DropFacts DEF DropStep, HolderInv
    <2>3. ASSUME NEW id \in JobId, CallerStep(id)
          PROVE  UNCHANGED <<worker, cancelled>>
        BY <2>3 DEF CallerStep, Insert, ArmTimer, SendNew, Reject, Release, SendReleased,
                    FailReleased, Send
    <2>4. ASSUME NEW v \in Workers, WorkerStep(v)
          PROVE  \A w \in Workers : worker'[w].at = "stopped" => cancelled'
        <3>1. CASE StopWorker(v)
            BY <3>1 DEF StopWorker
        <3>2. CASE Receive(v)
            BY <2>0, <3>2 DEF Receive, HolderInv
        <3>3. CASE MarkJobRunning(v) \/ MarkJobDone(v) \/ MarkJobFailed(v)
            BY <2>0, <3>3 DEF MarkJobRunning, MarkJobDone, MarkJobFailed, HolderInv, Idle
        <3> QED BY <2>4, <3>1, <3>2, <3>3 DEF WorkerStep
    <2> QED BY <2>1, <2>2, <2>3, <2>4 DEF Next, HolderInv
<1> QED BY <1>1, <1>2 DEF HolderInv

LEMMA Holder == Spec => []HolderInv
<1>1. Init => HolderInv
    BY DEF Init, HolderInv
<1>2. IInv /\ HolderInv /\ [Next]_vars => HolderInv'
    BY HolderKept
<1> QED BY <1>1, <1>2, Invariance, PTL DEF Spec

(* An unfinished job is in the table, with its carrier. *)
LEMMA UnfinishedCarried ==
    ASSUME IInv, NEW id \in JobId, view[id] \in Lifecycle!Unfinished
    PROVE  \/ caller[id] \in {"inserted", "armed", "full", "releasing", "releaseFull"}
           \/ id \in ToSet(queue)
           \/ \E w \in Workers : Holds(w, id) /\ worker[w].at \in {"claimed", "generating"}
<1>1. id \in DOMAIN jobs /\ jobs[id].status \in {"scheduled", "queued", "running"}
    BY DEF view, Lifecycle!Unfinished
<1>2. NoOrphan!(id)
    BY <1>1 DEF IInv, NoOrphan
<1>3. CASE jobs[id].status = "scheduled"
    BY <1>2, <1>3
<1>4. CASE jobs[id].status = "queued"
    <2>1. ASSUME NEW w \in Workers, worker[w] = [at |-> "claimed", job |-> id]
          PROVE  Holds(w, id) /\ worker[w].at \in {"claimed", "generating"}
        BY <2>1 DEF Holds
    <2> QED BY <1>2, <1>4, <2>1
<1>5. CASE jobs[id].status = "running"
    <2>1. PICK w \in Workers : worker[w] = [at |-> "generating", job |-> id]
        BY <1>2, <1>5
    <2>2. Holds(w, id) /\ worker[w].at \in {"claimed", "generating"}
        BY <2>1 DEF Holds
    <2> QED BY <2>2
<1> QED BY <1>1, <1>3, <1>4, <1>5

LEMMA NotStuck == IInv /\ HolderInv => NoJobStuck
<1> SUFFICES ASSUME IInv, HolderInv, NEW id \in JobId, view[id] \in Lifecycle!Unfinished,
                    ~DropCanGo
             PROVE  \/ CallerCanGo(id)
                    \/ \E w \in Workers : WorkerCanGo(w) /\ Holds(w, id)
                    \/ id \in ToSet(queue) /\ \E w \in Workers : WorkerCanGo(w)
                    \/ id \in ToSet(queue) /\ cancelled
    BY DEF NoJobStuck
<1>1. MutexFree
    BY DEF HolderInv, DropCanGo, MutexFree
<1>2. CASE caller[id] \in {"inserted", "armed", "full", "releasing", "releaseFull"}
    BY <1>1, <1>2 DEF CallerCanGo
<1>3. CASE \E w \in Workers : Holds(w, id) /\ worker[w].at \in {"claimed", "generating"}
    BY <1>1, <1>3 DEF WorkerCanGo
<1>4. CASE id \in ToSet(queue) /\ ~cancelled
    <2>1. PICK w \in Workers : TRUE
        BY WorkersAssumption
    <2>2. worker[w].at \in {"idle", "claimed", "generating"}
        BY <1>4 DEF IInv, TypeOK, WorkerStage, HolderInv
    <2>3. queue # <<>>
        BY <1>4 DEF ToSet
    <2> QED BY <1>1, <1>4, <2>2, <2>3 DEF WorkerCanGo
<1> QED BY <1>2, <1>3, <1>4, UnfinishedCarried

LEMMA DropsShrink ==
    ASSUME IInv, [Next]_vars
    PROVE  dropping # {} => ToDrop' \subseteq ToDrop /\ (DropStep => ToDrop' # ToDrop)
<1>1. CASE DropStep
    BY <1>1, DropFacts DEF DropStep
<1>2. CASE UNCHANGED <<jobs, dropping>> /\ ~DropStep
    BY <1>2 DEF ToDrop, InDirs
<1>3. CASE BeginDrop
    BY <1>3 DEF BeginDrop, MutexFree
<1> QED BY <1>1, <1>2, <1>3, MutexGuards

LEMMA CarriedIsAway ==
    ASSUME IInv, NEW id \in JobId,
           \/ caller[id] \in {"inserted", "armed", "full", "releasing", "releaseFull"}
           \/ id \in ToSet(queue)
           \/ \E w \in Workers : Holds(w, id) /\ worker[w].at \in {"claimed", "generating"}
    PROVE  \E d \in Nat : Away(id, d)
<1>1. CASE caller[id] \in {"inserted", "armed", "full", "releasing", "releaseFull"}
    <2>1. caller[id] \in DOMAIN CallerLeft /\ CallerLeft[caller[id]] \in Nat
        BY <1>1 DEF CallerLeft
    <2>2. QueueSize + 2 + CallerLeft[caller[id]] \in Nat
        BY <2>1, SizesAssumption
    <2> QED BY <2>1, <2>2 DEF Away
<1>2. CASE id \in ToSet(queue)
    <2>1. PICK k \in DOMAIN queue : queue[k] = id
        BY <1>2 DEF ToSet
    <2>2. 2 + k \in Nat
        BY <2>1 DEF IInv, TypeOK
    <2> QED BY <2>1, <2>2 DEF Away
<1>3. CASE \E w \in Workers : Holds(w, id) /\ worker[w].at \in {"claimed", "generating"}
    <2>1. PICK w \in Workers : Holds(w, id) /\ worker[w].at \in {"claimed", "generating"}
        BY <1>3
    <2>2. worker[w].at \in DOMAIN WorkerLeft /\ WorkerLeft[worker[w].at] \in Nat
        BY <2>1 DEF WorkerLeft
    <2> QED BY <2>1, <2>2 DEF Away
<1> QED BY <1>1, <1>2, <1>3

(* A lookup of a job that is not in the table, and whose request has been inserted. *)
LEMMA GoneIsOver ==
    ASSUME NEW id \in JobId, id \notin DOMAIN jobs', caller'[id] \notin {"none", "drawn"}
    PROVE  Over(id)'
BY DEF Over, view, Lifecycle!Finished

LEMMA FinishedIsOver ==
    ASSUME NEW id \in JobId, id \in DOMAIN jobs', jobs'[id].status \in {"done", "failed"}
    PROVE  Over(id)'
BY DEF Over, view, Lifecycle!Finished

(* Where the goroutine of a request or timer is, and where its step takes it. *)
LEMMA CallerMoves ==
    ASSUME IInv, NEW id \in JobId, CallerStep(id)
    PROVE  \/ caller[id] = "drawn" /\ caller'[id] = "inserted"
           \/ caller[id] = "inserted" /\ caller'[id] \in {"armed", "full"}
           \/ caller[id] = "armed" /\ caller'[id] = "releasing"
           \/ caller[id] = "releasing" /\ caller'[id] = "releaseFull"
           \/ /\ caller[id] \in {"inserted", "releasing"}
              /\ caller'[id] = "returned"
              /\ Len(queue) < QueueSize /\ queue' = Append(queue, id)
           \/ /\ caller[id] \in {"full", "armed", "releaseFull"}
              /\ caller'[id] \in {"rejected", "returned"}
              /\ Over(id)'
<1>0. caller \in [JobId -> CallerStage]
    BY DEF IInv, TypeOK
<1>1. CASE Insert(id) \/ ArmTimer(id)
    BY <1>0, <1>1 DEF Insert, ArmTimer
<1>2. CASE SendNew(id) \/ SendReleased(id)
    BY <1>0, <1>2 DEF SendNew, SendReleased, Send, QueueHasRoom
<1>3. CASE Reject(id)
    <2>1. id \notin DOMAIN jobs'
        BY <1>3, DeleteFacts DEF Reject
    <2>2. caller[id] = "full" /\ caller'[id] = "rejected"
        BY <1>0, <1>3 DEF Reject
    <2> QED BY <2>1, <2>2, GoneIsOver
<1>4. CASE Release(id)
    <2>1. caller[id] = "armed"
        BY <1>4 DEF Release
    <2>2. CASE id \in DOMAIN jobs
        <3>1. jobs[id].status = "scheduled"
            BY <2>1, <2>2 DEF IInv, NoOrphan
        <3> QED BY <1>0, <1>4, <2>1, <2>2, <3>1 DEF Release
    <2>3. CASE id \notin DOMAIN jobs
        <3>1. jobs' = jobs /\ caller'[id] = "returned"
            BY <1>0, <1>4, <2>3 DEF Release
        <3> QED BY <2>1, <2>3, <3>1, GoneIsOver
    <2> QED BY <2>2, <2>3
<1>5. CASE FailReleased(id)
    <2>1. caller[id] = "releaseFull" /\ caller'[id] = "returned" /\ SetStatus(id, "failed")
        BY <1>0, <1>5 DEF FailReleased
    <2>2. /\ DOMAIN jobs' = DOMAIN jobs
          /\ id \in DOMAIN jobs => jobs'[id].status = "failed"
        BY <2>1, SetStatusFacts DEF IInv, Status
    <2> QED BY <2>1, <2>2, GoneIsOver, FinishedIsOver
<1> QED BY <1>1, <1>2, <1>3, <1>4, <1>5 DEF CallerStep

(* A request or timer that has not ended is its job's only carrier. *)
LEMMA CallerAlone ==
    ASSUME IInv, NEW id \in JobId, caller[id] \in DOMAIN CallerLeft, NEW d, Away(id, d)
    PROVE  d = QueueSize + 2 + CallerLeft[caller[id]]
<1>1. caller[id] # "returned"
    BY DEF CallerLeft
<1>2. id \notin ToSet(queue) /\ \A w \in Workers : ~Holds(w, id)
    BY <1>1 DEF IInv, OneCarrier
<1>3. \A k \in DOMAIN queue : queue[k] # id
    BY <1>2 DEF ToSet
<1> QED BY <1>2, <1>3 DEF Away

LEMMA CallerCloser ==
    ASSUME IInv, NEW id \in JobId, CallerStep(id)
    PROVE  \E d \in Nat : Away(id, d) /\ Closer(id, d)
<1> DEFINE left(at) == QueueSize + 2 + CallerLeft[at]
<1>1. /\ \A at \in DOMAIN CallerLeft : left(at) \in Nat
      /\ left("inserted") < left("drawn") /\ left("armed") < left("inserted")
      /\ left("full") < left("inserted") /\ left("releasing") < left("armed")
      /\ left("releaseFull") < left("releasing")
      /\ QueueSize + 2 < left("inserted") /\ QueueSize + 2 < left("releasing")
    BY SizesAssumption DEF CallerLeft
<1>2. DOMAIN CallerLeft = {"drawn", "inserted", "armed", "releasing", "full", "releaseFull"}
    BY DEF CallerLeft
<1>3. caller[id] \in DOMAIN CallerLeft
    BY <1>2, CallerMoves
<1>4. PICK d \in Nat : d = left(caller[id])
    BY <1>1, <1>3
<1>5. Away(id, d)
    BY <1>3, <1>4 DEF Away
<1>6. ASSUME NEW at \in DOMAIN CallerLeft, caller'[id] = at, left(at) < d
      PROVE  Closer(id, d)
    <2>1. Away(id, left(at))'
        BY <1>6 DEF Away
    <2>2. left(at) \in Nat
        BY <1>1
    <2> QED BY <1>6, <2>1, <2>2 DEF Closer
<1>7. ASSUME caller[id] \in {"inserted", "releasing"},
             Len(queue) < QueueSize, queue' = Append(queue, id)
      PROVE  Closer(id, d)
    <2>1. PICK k : k = Len(queue) + 1
        OBVIOUS
    <2>2. /\ k \in DOMAIN queue' /\ queue'[k] = id
          /\ 2 + k \in Nat /\ 2 + k <= QueueSize + 2
        BY <1>7, <2>1, SizesAssumption DEF IInv, TypeOK
    <2>3. Away(id, 2 + k)'
        BY <2>2 DEF Away
    <2>4. 2 + k < d
        BY <1>1, <1>4, <1>7, <2>2, SizesAssumption
    <2> QED BY <2>2, <2>3, <2>4 DEF Closer
<1>8. Over(id)' => Closer(id, d)
    BY DEF Closer
<1> HIDE DEF left
<1>9. Closer(id, d)
    BY <1>1, <1>2, <1>4, <1>6, <1>7, <1>8, CallerMoves
<1> QED BY <1>5, <1>9

(* What the step of a worker leaves where it is. *)
LEMMA WorkerFrame ==
    ASSUME IInv, NEW w \in Workers, WorkerStep(w)
    PROVE  /\ caller' = caller
           /\ \A v \in Workers \ {w} : worker'[v] = worker[v]
           /\ ~Receive(w) => queue' = queue
BY DEF WorkerStep, Receive, MarkJobRunning, MarkJobDone, MarkJobFailed, StopWorker, IInv, TypeOK

(* A goroutine stays where it is but for its own steps, once it has begun. *)
LEMMA CallerStays ==
    ASSUME IInv, [Next]_vars, NEW id \in JobId, caller[id] # "none"
    PROVE  caller'[id] = caller[id] \/ CallerStep(id)
<1>0. caller \in [JobId -> CallerStage]
    BY DEF IInv, TypeOK
<1>1. CASE DrawId
    <2>1. caller[seq + 1] = "none" \/ seq + 1 \notin JobId
        BY DEF IInv, TypeOK, Bookkeeping, JobId
    <2>2. caller' = [caller EXCEPT ![seq + 1] = "drawn"]
        BY <1>1 DEF DrawId
    <2> QED BY <1>0, <2>1, <2>2
<1>2. CASE Cancel \/ BeginDrop \/ DropStep \/ UNCHANGED vars
    BY <1>2 DEF Cancel, BeginDrop, DropStep, DropJob, vars
<1>3. ASSUME NEW k \in JobId, CallerStep(k)
      PROVE  caller'[id] = caller[id] \/ CallerStep(id)
    <2>1. CASE k = id
        BY <1>3, <2>1, Zenon
    <2>2. CASE k # id
        <3>1. \E x : caller' = [caller EXCEPT ![k] = x]
            BY <1>3 DEF CallerStep, Insert, ArmTimer, SendNew, Reject, Release, SendReleased,
                        FailReleased, Send
        <3> QED BY <1>0, <2>2, <3>1
    <2> QED BY <2>1, <2>2
<1>4. ASSUME NEW w \in Workers, WorkerStep(w)
      PROVE  caller'[id] = caller[id]
    BY <1>4, WorkerFrame
<1> QED BY <1>1, <1>2, <1>3, <1>4 DEF Next

LEMMA CallerKeepsOthers ==
    ASSUME IInv, NEW id \in JobId, CallerStep(id), NEW k \in JobId \ {id}, NEW d, Away(k, d)
    PROVE  Away(k, d)'
<1>1. worker' = worker /\ (queue' = queue \/ queue' = Append(queue, id))
    BY DEF CallerStep, Insert, ArmTimer, SendNew, Reject, Release, SendReleased, FailReleased, Send
<1>2. caller'[k] = caller[k]
    BY DEF CallerStep, Insert, ArmTimer, SendNew, Reject, Release, SendReleased, FailReleased, Send,
           IInv, TypeOK
<1>3. \A i \in DOMAIN queue : i \in DOMAIN queue' /\ queue'[i] = queue[i]
    BY <1>1 DEF IInv, TypeOK
<1> QED BY <1>1, <1>2, <1>3 DEF Away, Holds

(* A worker with a job brings it on or to its end. *)
LEMMA HolderCloser ==
    ASSUME IInv, NEW w \in Workers, WorkerStep(w), worker[w].at \in {"claimed", "generating"},
           NEW id \in JobId, worker[w].job = id, NEW d, d = WorkerLeft[worker[w].at]
    PROVE  Closer(id, d)
<1>1. caller' = caller /\ caller[id] = "returned"
    BY WorkerFrame, WorkerHoldsFacts
<1>2. CASE MarkJobRunning(w)
    <2>1. worker[w].at = "claimed" /\ d = 2 /\ DOMAIN jobs' = DOMAIN jobs
        BY <1>2 DEF MarkJobRunning, WorkerLeft, SetStatus
    <2>2. CASE id \in DOMAIN jobs
        <3>1. worker'[w] = [at |-> "generating", job |-> id]
            BY <1>2, <2>2 DEF MarkJobRunning, IInv, TypeOK
        <3>2. Away(id, 1)'
            BY <3>1 DEF Away, Holds, WorkerLeft
        <3> QED BY <2>1, <3>2 DEF Closer
    <2>3. CASE id \notin DOMAIN jobs
        BY <1>1, <2>1, <2>3, GoneIsOver DEF Closer
    <2> QED BY <2>2, <2>3
<1>3. CASE MarkJobDone(w) \/ MarkJobFailed(w)
    <2>1. /\ DOMAIN jobs' = DOMAIN jobs
          /\ id \in DOMAIN jobs => jobs'[id].status \in {"done", "failed"}
        <3>1. CASE MarkJobDone(w)
            BY <3>1 DEF MarkJobDone
        <3>2. CASE MarkJobFailed(w)
            BY <3>2, SetStatusFacts DEF MarkJobFailed, IInv, Status
        <3> QED BY <1>3, <3>1, <3>2
    <2>2. Over(id)'
        BY <1>1, <2>1, GoneIsOver, FinishedIsOver
    <2> QED BY <2>2 DEF Closer
<1> QED BY <1>2, <1>3 DEF WorkerStep, Receive, StopWorker

(* The job that is received comes closer, and so do those behind it. *)
LEMMA ReceivedCloser ==
    ASSUME IInv, NEW w \in Workers, Receive(w), NEW k \in DOMAIN queue, NEW id, id = queue[k]
    PROVE  Closer(id, 2 + k)
<1>1. queue \in Seq(JobId) /\ queue # <<>> /\ queue' = Tail(queue)
    BY DEF Receive, IInv, TypeOK
<1>2. worker'[w] = [at |-> "claimed", job |-> Head(queue)]
    BY DEF Receive, IInv, TypeOK
<1>3. CASE k = 1
    <2>1. Head(queue) = queue[1]
        BY <1>1
    <2>2. Away(id, 2)'
        BY <1>2, <1>3, <2>1 DEF Away, Holds, WorkerLeft
    <2> QED BY <1>3, <2>2 DEF Closer
<1>4. CASE k # 1
    <2>1. k - 1 \in DOMAIN queue' /\ queue'[k - 1] = queue[k] /\ k \in Nat /\ 2 + (k - 1) \in Nat
        BY <1>1, <1>4
    <2>2. Away(id, 2 + (k - 1))'
        BY <2>1 DEF Away
    <2>3. 2 + (k - 1) < 2 + k
        BY <2>1
    <2> QED BY <2>1, <2>2, <2>3 DEF Closer
<1> QED BY <1>3, <1>4

LEMMA WorkerKeepsAway ==
    ASSUME IInv, NEW w \in Workers, WorkerStep(w), NEW id \in JobId, NEW d, Away(id, d)
    PROVE  Closer(id, d) \/ Away(id, d)'
<1>1. CASE caller[id] \in DOMAIN CallerLeft /\ d = QueueSize + 2 + CallerLeft[caller[id]]
    BY <1>1, WorkerFrame DEF Away
<1>2. ASSUME NEW k \in DOMAIN queue, queue[k] = id, d = 2 + k
      PROVE  Closer(id, d) \/ Away(id, d)'
    <2>1. CASE Receive(w)
        BY <1>2, <2>1, ReceivedCloser
    <2>2. CASE ~Receive(w)
        BY <1>2, <2>2, WorkerFrame DEF Away
    <2> QED BY <2>1, <2>2
<1>3. ASSUME NEW v \in Workers, Holds(v, id), worker[v].at \in DOMAIN WorkerLeft,
             d = WorkerLeft[worker[v].at]
      PROVE  Closer(id, d) \/ Away(id, d)'
    <2>1. CASE v = w
        <3>1. worker[w].at \in {"claimed", "generating"}
            BY <1>3, <2>1 DEF WorkerLeft
        <3> QED BY <1>3, <2>1, <3>1, HolderCloser DEF Holds
    <2>2. CASE v # w
        <3>1. worker'[v] = worker[v]
            BY <2>2, WorkerFrame
        <3> QED BY <1>3, <3>1 DEF Away, Holds
    <2> QED BY <2>1, <2>2
<1> QED BY <1>1, <1>2, <1>3 DEF Away

LEMMA WorkerCloser ==
    ASSUME IInv, NEW w \in Workers, WorkerStep(w), ~StopWorker(w)
    PROVE  \E id \in JobId, d \in Nat : Away(id, d) /\ Closer(id, d)
<1>1. CASE Receive(w)
    <2>1. 1 \in DOMAIN queue /\ queue[1] \in JobId /\ 2 + 1 \in Nat
        BY <1>1 DEF Receive, IInv, TypeOK
    <2>2. PICK id \in JobId : id = queue[1]
        BY <2>1
    <2>3. Away(id, 2 + 1) /\ Closer(id, 2 + 1)
        BY <1>1, <2>1, <2>2, ReceivedCloser DEF Away
    <2> QED BY <2>1, <2>3
<1>2. CASE ~Receive(w)
    <2>1. worker[w].at \in {"claimed", "generating"}
        BY <1>2 DEF WorkerStep, MarkJobRunning, MarkJobDone, MarkJobFailed
    <2>2. PICK id \in JobId : id = worker[w].job
        BY <2>1, WorkerHoldsFacts
    <2>3. PICK d \in Nat : d = WorkerLeft[worker[w].at]
        BY <2>1 DEF WorkerLeft
    <2>4. Away(id, d)
        BY <2>1, <2>2, <2>3 DEF Away, Holds, WorkerLeft
    <2>5. Closer(id, d)
        BY <2>1, <2>2, <2>3, HolderCloser
    <2> QED BY <2>4, <2>5
<1> QED BY <1>1, <1>2

LEMMA OthersKeepAway ==
    ASSUME IInv, DrawId \/ Cancel \/ BeginDrop \/ DropStep \/ UNCHANGED vars,
           NEW id \in JobId, NEW d, Away(id, d)
    PROVE  Away(id, d)'
<1>1. queue' = queue /\ worker' = worker
    BY DEF DrawId, Cancel, BeginDrop, DropStep, DropJob, vars
<1>2. caller[id] \in DOMAIN CallerLeft => caller'[id] = caller[id]
    <2>1. CASE DrawId
        <3>1. caller[seq + 1] = "none" \/ seq + 1 \notin JobId
            BY DEF IInv, TypeOK, Bookkeeping, JobId
        <3>2. "none" \notin DOMAIN CallerLeft
            BY DEF CallerLeft
        <3>3. caller' = [caller EXCEPT ![seq + 1] = "drawn"] /\ caller \in [JobId -> CallerStage]
            BY <2>1 DEF DrawId, IInv, TypeOK
        <3> QED BY <3>1, <3>2, <3>3
    <2>2. CASE ~DrawId
        <3>1. caller' = caller
            BY <2>2 DEF Cancel, BeginDrop, DropStep, DropJob, vars
        <3> QED BY <3>1
    <2> QED BY <2>1, <2>2
<1> QED BY <1>1, <1>2 DEF Away, Holds

LEMMA StepKeepsAway ==
    ASSUME IInv, [Next]_vars, NEW id \in JobId, NEW d \in Nat, Away(id, d)
    PROVE  Closer(id, d) \/ Away(id, d)'
<1>1. ASSUME NEW k \in JobId, CallerStep(k)
      PROVE  Closer(id, d) \/ Away(id, d)'
    <2>1. CASE k = id
        <3>1. PICK e \in Nat : Away(id, e) /\ Closer(id, e)
            BY <1>1, <2>1, CallerCloser
        <3>2. caller[id] \in DOMAIN CallerLeft
            BY <1>1, <2>1, CallerMoves DEF CallerLeft
        <3> QED BY <3>1, <3>2, CallerAlone
    <2>2. CASE k # id
        BY <1>1, <2>2, CallerKeepsOthers
    <2> QED BY <2>1, <2>2
<1>2. ASSUME NEW w \in Workers, WorkerStep(w)
      PROVE  Closer(id, d) \/ Away(id, d)'
    BY <1>2, WorkerKeepsAway
<1> QED BY <1>1, <1>2, OthersKeepAway DEF Next

(* For any number of workers, requests and cleanups an unfinished job has somebody who
   can bring it on, until the service is cancelled while the job is in the channel. *)
THEOREM SomebodyCanGoOn == Spec => []NoJobStuck
BY Invariance, Holder, NotStuck, PTL

(* The cleanup ends what it does under the mutex. *)
THEOREM CleanupLetsGo == Spec => DropsEnd
<1>1. IInv /\ [Next]_vars =>
        [dropping # {} => ToDrop' \subseteq ToDrop /\ (DropStep => ToDrop' # ToDrop)]_vars
    BY DropsShrink
<1> QED BY <1>1, Invariance, PTL DEF Spec, DropsEnd

(* An unfinished job is a number of steps from its end ... *)
THEOREM EndIsNear == Spec => []Bounded
<1>1. IInv => Bounded
    BY UnfinishedCarried, CarriedIsAway DEF Bounded
<1> QED BY <1>1, Invariance, PTL

(* ... to which nothing adds ... *)
THEOREM NoJobFallsBack == Spec => NeverFurther
<1>1. IInv /\ [Next]_vars =>
        [\A id \in JobId, d \in Nat : Away(id, d) => Closer(id, d) \/ Away(id, d)']_vars
    BY StepKeepsAway
<1> QED BY <1>1, Invariance, PTL DEF Spec, NeverFurther

(* ... and from which every step of its own carrier takes one off. *)
THEOREM EveryStepCounts == Spec => StepsBringCloser
<1>1. IInv /\ [Next]_vars =>
        [/\ \A id \in JobId : CallerStep(id) => \E d \in Nat : Away(id, d) /\ Closer(id, d)
         /\ \A w \in Workers : WorkerStep(w) =>
               StopWorker(w) \/ \E id \in JobId, d \in Nat : Away(id, d) /\ Closer(id, d)]_vars
    BY CallerCloser, WorkerCloser
<1> QED BY <1>1, Invariance, PTL DEF Spec, StepsBringCloser
=============================================================================
