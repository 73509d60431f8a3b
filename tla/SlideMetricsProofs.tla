------------------------- MODULE SlideMetricsProofs -------------------------
(***************************************************************************)
(* Proofs about SlideMetrics, for any tables, nodes, windows and series:   *)
(* what the deques of CalculateMTIE hold, and so what it returns.          *)
(***************************************************************************)
EXTENDS SlideMetrics, TLAPS

(* The offsets, and for the deque of the minima the same upside down: both deques are
   one algorithm. *)
Up   == [i \in Indexes |-> Offset(i)]
Down == [i \in Indexes |-> -Offset(i)]

(* A deque d over the values f: positions rise, values fall. *)
Falls(d, f) == \A i, j \in DOMAIN d : i < j => d[i] < d[j] /\ f[d[i]] > f[d[j]]

(* The deque answers for a position with a later one of no smaller value. *)
Answers(d, f, k) == \E i \in DOMAIN d : d[i] >= k /\ f[d[i]] >= f[k]

(* All positions from a to b have an answer; and, while position b is on its way into
   the deque, all before it have one, which may be b. *)
Covers(d, f, a, b)  == \A k \in a..b : Answers(d, f, k)
Awaits(d, f, a, b)  == \A k \in a..(b - 1) : f[b] >= f[k] \/ Answers(d, f, k)

Settled(d, f, a, b) == d \in Seq(a..b) /\ Falls(d, f) /\ Covers(d, f, a, b)
Pushing(d, f, a, b) == d \in Seq(a..(b - 1)) /\ Falls(d, f) /\ Awaits(d, f, a, b)
(* The window has been shrunk: an entry of the place it left may still be there. *)
Trimming(d, f, a, b) == d \in Seq((a - 1)..b) /\ Falls(d, f) /\ Covers(d, f, a, b)

(* What the two deques hold at each stage of an iteration. *)
DequesInv ==
    CASE stage = "popMax" -> /\ Pushing(maxDeque, Up, left, right)
                             /\ Pushing(minDeque, Down, left, right)
      [] stage = "popMin" -> /\ Settled(maxDeque, Up, left, right)
                             /\ Pushing(minDeque, Down, left, right)
      [] stage = "trim"   -> /\ Trimming(maxDeque, Up, left, right)
                             /\ Trimming(minDeque, Down, left, right)
      [] OTHER            -> /\ Settled(maxDeque, Up, left, right)
                             /\ Settled(minDeque, Down, left, right)

(* The positions that have been measured. *)
Measured == 1..(IF stage = "insert" THEN right ELSE right - 1)

(* The window of right begins where it should or is still too wide, and mtie is the
   widest spread of the positions measured, which two of them have. *)
WindowInv == \A k \in 1..(left - 1) : Time(right) - Time(k) > tau
WidestSoFar == \A i, j \in Measured : Together(i, j) => Offset(i) - Offset(j) <= mtie
SomeSpread == \E i, j \in Indexes : Together(i, j) /\ mtie = Offset(i) - Offset(j)

Running == stage \in {"popMax", "popMin", "shrink", "trim", "insert"}

LoopInv ==
    IF Running
    THEN /\ tau \in Taus
         /\ right \in Indexes /\ left \in 1..right /\ mtie \in Nat
         /\ stage = "insert" => right = Len(samples)
         /\ stage = "trim" => left > 1
         /\ DequesInv /\ WindowInv /\ WidestSoFar /\ SomeSpread
    ELSE /\ tau = 0 /\ right = 0 /\ left = 0 /\ mtie = 0
         /\ maxDeque = <<>> /\ minDeque = <<>>

(* Every window of every pair is stored, given up, or still to come. *)
Ahead == (todo \X Taus)
         \cup (IF stage = "tau" \/ Running THEN {pair} \X taus ELSE {})
         \cup (IF Running THEN {<<pair, tau>>} ELSE {})

CycleInv ==
    /\ stage \in {"wait", "next", "tau", "popMax", "popMin", "shrink", "trim", "insert", "stopped"}
    /\ cancelled \in BOOLEAN
    /\ todo \subseteq Pairs
    /\ pair \in Pairs
    /\ taus \subseteq Taus
    /\ rows \subseteq Pairs \X Taus
    /\ given \subseteq Pairs \X Taus
    /\ IF stage = "tau" \/ Running THEN samples \in Series /\ Len(samples) >= 3
                                   ELSE samples = <<>>
    /\ stage \in {"wait", "stopped"} => todo = {}
    /\ rows \cup given \cup Ahead = Pairs \X Taus

SlideInv == CycleInv /\ LoopInv

-----------------------------------------------------------------------------
(* One deque *)

(* Popping the last entry, which the value on its way in answers for. *)
LEMMA PopBack ==
    ASSUME NEW a \in Nat, NEW b \in Nat, NEW f, NEW d,
           \A k \in a..b : f[k] \in Int,
           Pushing(d, f, a, b), d # <<>>, f[Last(d)] <= f[b]
    PROVE  Pushing(Front(d), f, a, b)
<1> DEFINE e == Front(d)
           n == Len(d)
<1>1. /\ d \in Seq(a..(b - 1)) /\ n \in Nat \ {0} /\ DOMAIN d = 1..n
      /\ Last(d) = d[n]
      /\ \A i \in 1..n : d[i] \in a..(b - 1)
    BY DEF Pushing, Last
<1>2. /\ e \in Seq(a..(b - 1)) /\ DOMAIN e = 1..(n - 1)
      /\ \A i \in 1..(n - 1) : e[i] = d[i]
    BY <1>1 DEF Front
<1> HIDE DEF e, n
<1>3. Falls(e, f)
    <2>1. \A i \in DOMAIN e : i \in DOMAIN d /\ e[i] = d[i]
        BY <1>1, <1>2
    <2> QED BY <2>1 DEF Pushing, Falls
<1>4. Awaits(e, f, a, b)
    <2> SUFFICES ASSUME NEW k \in a..(b - 1), ~(f[b] >= f[k])
                 PROVE  Answers(e, f, k)
        BY DEF Awaits
    <2>1. PICK i \in DOMAIN d : d[i] >= k /\ f[d[i]] >= f[k]
        BY DEF Pushing, Awaits, Answers
    <2>2. /\ f[k] \in Int /\ f[b] \in Int /\ f[d[i]] \in Int
          /\ f[d[n]] \in Int
        <3>1. k \in a..b /\ b \in a..b /\ d[i] \in a..b /\ d[n] \in a..b
            BY <1>1
        <3> QED BY <3>1
    <2>3. i # n
        BY <2>1, <2>2, <1>1
    <2>4. i \in DOMAIN e /\ e[i] = d[i]
        BY <2>3, <1>1, <1>2
    <2> QED BY <2>1, <2>4 DEF Answers
<1> QED BY <1>2, <1>3, <1>4 DEF Pushing, e

(* Pushing the position once the last entry has a larger value. *)
LEMMA PushLast ==
    ASSUME NEW a \in Nat, NEW b \in Nat, a <= b, NEW f, NEW d,
           \A k \in a..b : f[k] \in Int,
           Pushing(d, f, a, b), d = <<>> \/ f[Last(d)] > f[b]
    PROVE  Settled(Append(d, b), f, a, b)
<1> DEFINE e == Append(d, b)
           n == Len(d)
<1>1. /\ d \in Seq(a..(b - 1)) /\ n \in Nat /\ DOMAIN d = 1..n
      /\ d # <<>> => n > 0 /\ f[d[n]] > f[b]
      /\ \A i \in 1..n : d[i] \in a..(b - 1)
    BY DEF Pushing, Last
<1>2. /\ DOMAIN e = 1..(n + 1) /\ e[n + 1] = b
      /\ \A i \in 1..n : e[i] = d[i]
    BY <1>1
<1>3. e \in Seq(a..b)
    <2>1. d \in Seq(a..b)
        BY <1>1
    <2> QED BY <2>1
<1>4. \A i \in 1..n : f[d[i]] > f[b]
    <2> TAKE i \in 1..n
    <2>1. n # 0 /\ d # <<>>
        BY <1>1
    <2>2. i = n \/ f[d[i]] > f[d[n]]
        <3>1. n \in Nat /\ n > 0 /\ i \in 1..n /\ DOMAIN d = 1..n
            BY <1>1, <2>1
        <3> HIDE DEF n
        <3>2. i \in DOMAIN d /\ n \in DOMAIN d /\ (i = n \/ i < n)
            BY <3>1
        <3> QED BY <3>2 DEF Pushing, Falls
    <2>3. d[i] \in a..b /\ d[n] \in a..b /\ b \in a..b
        BY <1>1, <2>1
    <2>4. f[d[i]] \in Int /\ f[d[n]] \in Int /\ f[b] \in Int
        BY <2>3
    <2>5. f[d[n]] > f[b]
        BY <1>1, <2>1
    <2> QED BY <2>2, <2>4, <2>5
<1> HIDE DEF e, n
<1>5. Falls(e, f)
    <2> SUFFICES ASSUME NEW i \in 1..(n + 1), NEW j \in 1..(n + 1), i < j
                 PROVE  e[i] < e[j] /\ f[e[i]] > f[e[j]]
        BY <1>2 DEF Falls
    <2>1. n \in Nat /\ i \in 1..n /\ e[i] = d[i]
        BY <1>1, <1>2
    <2>2. CASE j \in 1..n
        <3>1. i \in DOMAIN d /\ j \in DOMAIN d /\ e[j] = d[j]
            BY <1>1, <1>2, <2>1, <2>2
        <3> QED BY <2>1, <3>1 DEF Pushing, Falls
    <2>3. CASE j = n + 1
        BY <1>1, <1>2, <1>4, <2>1, <2>3
    <2> QED BY <2>1, <2>2, <2>3
<1>6. Covers(e, f, a, b)
    <2> SUFFICES ASSUME NEW k \in a..b PROVE Answers(e, f, k)
        BY DEF Covers
    <2>0. f[k] \in Int /\ f[b] \in Int
        BY <1>1
    <2>1. CASE f[b] >= f[k]
        <3>1. n + 1 \in DOMAIN e /\ e[n + 1] >= k
            BY <1>1, <1>2
        <3> QED BY <3>1, <2>1, <1>2 DEF Answers
    <2>2. CASE ~(f[b] >= f[k])
        <3>1. k \in a..(b - 1)
            BY <2>0, <2>2
        <3>2. PICK i \in DOMAIN d : d[i] >= k /\ f[d[i]] >= f[k]
            BY <3>1, <2>2 DEF Pushing, Awaits, Answers
        <3>3. i \in DOMAIN e /\ e[i] = d[i]
            BY <1>1, <1>2
        <3> QED BY <3>2, <3>3 DEF Answers
    <2> QED BY <2>1, <2>2
<1> QED BY <1>3, <1>5, <1>6 DEF Settled, e

(* The next position: all before it have an answer. *)
LEMMA Advance ==
    ASSUME NEW a \in Nat, NEW b \in Nat, NEW f, NEW d, Settled(d, f, a, b)
    PROVE  Pushing(d, f, a, b + 1)
<1>1. (b + 1) - 1 = b
    OBVIOUS
<1> QED BY <1>1 DEF Settled, Pushing, Awaits, Covers

(* The window is shrunk by one. *)
LEMMA Loosen ==
    ASSUME NEW a \in Nat, NEW b \in Nat, NEW f, NEW d, Settled(d, f, a, b)
    PROVE  Trimming(d, f, a + 1, b)
<1>1. (a + 1) - 1 = a /\ \A k \in (a + 1)..b : k \in a..b
    OBVIOUS
<1> QED BY <1>1 DEF Settled, Trimming, Covers

(* The entry that has left the window is taken out at the front. *)
LEMMA PopOld ==
    ASSUME NEW a \in Nat, NEW b \in Nat, NEW f, NEW d,
           Trimming(d, f, a, b), d # <<>>, Head(d) < a
    PROVE  Trimming(Tail(d), f, a, b)
<1> DEFINE e == Tail(d)
           n == Len(d)
<1>1. /\ d \in Seq((a - 1)..b) /\ n \in Nat \ {0} /\ DOMAIN d = 1..n
      /\ Head(d) = d[1]
      /\ \A i \in 1..n : d[i] \in (a - 1)..b
    BY DEF Trimming
<1>2. /\ e \in Seq((a - 1)..b) /\ DOMAIN e = 1..(n - 1)
      /\ \A i \in 1..(n - 1) : e[i] = d[i + 1]
    BY <1>1
<1> HIDE DEF e, n
<1>3. Falls(e, f)
    <2> SUFFICES ASSUME NEW i \in DOMAIN e, NEW j \in DOMAIN e, i < j
                 PROVE  e[i] < e[j] /\ f[e[i]] > f[e[j]]
        BY DEF Falls
    <2>0. i \in 1..(n - 1) /\ j \in 1..(n - 1)
        BY <1>2
    <2>1. i + 1 \in DOMAIN d /\ j + 1 \in DOMAIN d /\ i + 1 < j + 1
        <3>1. n \in Nat /\ DOMAIN d = 1..n
            BY <1>1
        <3> QED BY <2>0, <3>1
    <2>2. d[i + 1] < d[j + 1] /\ f[d[i + 1]] > f[d[j + 1]]
        BY <2>1 DEF Trimming, Falls
    <2>3. e[i] = d[i + 1] /\ e[j] = d[j + 1]
        BY <1>2
    <2> QED BY <2>2, <2>3
<1>4. Covers(e, f, a, b)
    <2> SUFFICES ASSUME NEW k \in a..b PROVE Answers(e, f, k)
        BY DEF Covers
    <2>1. PICK i \in DOMAIN d : d[i] >= k /\ f[d[i]] >= f[k]
        BY DEF Trimming, Covers, Answers
    <2>2. i # 1
        BY <2>1, <1>1
    <2>3. i - 1 \in DOMAIN e /\ (i - 1) + 1 = i
        <3>1. i \in 1..n /\ n \in Nat
            BY <1>1
        <3>2. i - 1 \in 1..(n - 1) /\ (i - 1) + 1 = i
            BY <2>2, <3>1
        <3> QED BY <3>2, <1>2
    <2>4. e[i - 1] = d[i]
        BY <2>3, <1>2
    <2> QED BY <2>1, <2>3, <2>4 DEF Answers
<1> QED BY <1>2, <1>3, <1>4 DEF Trimming, e

(* No old entry is left when the first is not one. *)
LEMMA NoneOld ==
    ASSUME NEW a \in Nat, NEW b \in Nat, NEW f, NEW d,
           Trimming(d, f, a, b), d = <<>> \/ Head(d) >= a
    PROVE  Settled(d, f, a, b)
<1>1. /\ d \in Seq((a - 1)..b) /\ Len(d) \in Nat /\ DOMAIN d = 1..Len(d)
      /\ \A i \in 1..Len(d) : d[i] \in (a - 1)..b
      /\ d # <<>> => Head(d) = d[1] /\ Len(d) > 0
    BY DEF Trimming
<1>2. \A i \in 1..Len(d) : d[i] \in a..b
    <2> TAKE i \in 1..Len(d)
    <2>1. d # <<>> /\ 1 \in DOMAIN d /\ d[1] >= a
        BY <1>1
    <2>2. i = 1 \/ d[1] < d[i]
        <3>1. i \in DOMAIN d /\ (i = 1 \/ 1 < i)
            BY <1>1
        <3> QED BY <2>1, <3>1 DEF Trimming, Falls
    <2> QED BY <1>1, <2>1, <2>2
<1>3. d \in Seq(a..b)
    BY <1>1, <1>2
<1> QED BY <1>3 DEF Trimming, Settled

(* The first entry is the position of the largest value of the window. *)
LEMMA HeadIsLargest ==
    ASSUME NEW a \in Nat, NEW b \in Nat, a <= b, NEW f, NEW d,
           \A k \in a..b : f[k] \in Int, Settled(d, f, a, b)
    PROVE  /\ d # <<>>
           /\ Head(d) \in a..b
           /\ \A k \in a..b : f[k] <= f[Head(d)]
<1>1. /\ d \in Seq(a..b) /\ Len(d) \in Nat /\ DOMAIN d = 1..Len(d)
      /\ \A i \in 1..Len(d) : d[i] \in a..b
    BY DEF Settled
<1>2. ASSUME NEW k \in a..b
      PROVE  d # <<>> /\ f[k] <= f[d[1]]
    <2>1. PICK i \in DOMAIN d : d[i] >= k /\ f[d[i]] >= f[k]
        BY DEF Settled, Covers, Answers
    <2>2. 1 \in DOMAIN d /\ (i = 1 \/ 1 < i)
        BY <1>1, <2>1
    <2>3. i = 1 \/ f[d[1]] > f[d[i]]
        BY <2>2 DEF Settled, Falls
    <2>4. f[k] \in Int /\ f[d[1]] \in Int /\ f[d[i]] \in Int
        BY <1>1, <2>2
    <2> QED BY <2>1, <2>2, <2>3, <2>4, <1>1
<1>3. d # <<>>
    BY <1>2
<1>4. Head(d) = d[1] /\ 1 \in DOMAIN d
    BY <1>1, <1>3
<1> QED BY <1>1, <1>2, <1>3, <1>4

-----------------------------------------------------------------------------
(* The goroutine: which windows are done, given up and still to come *)

(* No window is empty. *)
LEMMA TausArePositive == Taus \subseteq Nat /\ 0 \notin Taus
BY SeriesAssumption

(* Between two windows the locals of CalculateMTIE say nothing. *)
LEMMA Resting ==
    ASSUME LoopInv, ~Running, ~Running', UNCHANGED <<tau, mtieVars>>
    PROVE  LoopInv'
BY DEF LoopInv, mtieVars

(* Before the first tick nothing runs and every window counts as given up. *)
LEMMA InitSlideInv == Init => SlideInv
<1> SUFFICES ASSUME Init PROVE SlideInv
    OBVIOUS
<1>1. ~Running /\ stage = "wait" /\ todo = {}
    BY DEF Init, Running
<1>2. CycleInv
    <2>1. Ahead = {}
        BY <1>1 DEF Ahead
    <2> QED BY <1>1, <2>1 DEF Init, CycleInv
<1>3. LoopInv
    BY <1>1 DEF Init, LoopInv
<1> QED BY <1>2, <1>3 DEF SlideInv

(* The context may be done at any time. *)
LEMMA CancelKeeps == SlideInv /\ Cancel => SlideInv'
<1> SUFFICES ASSUME SlideInv, Cancel PROVE SlideInv'
    OBVIOUS
<1>1. UNCHANGED <<stage, todo, pair, samples, taus, tau, rows, given, mtieVars>> /\ cancelled'
    BY DEF Cancel
<1>2. CycleInv'
    BY <1>1 DEF SlideInv, CycleInv, Ahead, Running
<1>3. LoopInv'
    BY <1>1 DEF SlideInv, LoopInv, mtieVars, Running, DequesInv, WindowInv, WidestSoFar,
                SomeSpread, Measured, Together, Up, Down, Indexes, Offset, Time
<1> QED BY <1>2, <1>3 DEF SlideInv

(* The goroutine stops between cycles. *)
LEMMA StopKeeps == SlideInv /\ Stop => SlideInv'
<1> SUFFICES ASSUME SlideInv, Stop PROVE SlideInv'
    OBVIOUS
<1>1. ~Running /\ ~Running' /\ UNCHANGED <<tau, mtieVars>>
    BY DEF Stop, Running
<1>2. CycleInv'
    BY <1>1 DEF Stop, SlideInv, CycleInv, Ahead
<1> QED BY <1>1, <1>2, Resting DEF SlideInv

(* A tick: the windows of inactive nodes, or of all, are given up at once. *)
LEMMA StartCycleKeeps == SlideInv /\ StartCycle => SlideInv'
<1> SUFFICES ASSUME SlideInv, StartCycle PROVE SlideInv'
    OBVIOUS
<1>1. /\ ~Running /\ ~Running' /\ stage' \in {"wait", "next"}
      /\ UNCHANGED <<cancelled, pair, samples, taus, tau, mtieVars>>
      /\ rows' = {} /\ samples = <<>>
    BY DEF StartCycle, Running, SlideInv, CycleInv
<1>2. /\ todo' \subseteq Pairs
      /\ stage' = "wait" => todo' = {}
      /\ given' = (Pairs \ todo') \X Taus
    BY DEF StartCycle, Pairs
<1>3. CycleInv'
    <2>1. Ahead' = todo' \X Taus
        BY <1>1 DEF Ahead
    <2>2. rows' \cup given' \cup Ahead' = Pairs \X Taus
        BY <1>1, <1>2, <2>1
    <2> QED BY <1>1, <1>2, <2>2 DEF SlideInv, CycleInv
<1> QED BY <1>1, <1>3, Resting DEF SlideInv

(* The last pair is done. *)
LEMMA EndCycleKeeps == SlideInv /\ EndCycle => SlideInv'
<1> SUFFICES ASSUME SlideInv, EndCycle PROVE SlideInv'
    OBVIOUS
<1>1. ~Running /\ ~Running' /\ UNCHANGED <<tau, mtieVars>>
    BY DEF EndCycle, Running
<1>2. CycleInv'
    BY <1>1 DEF EndCycle, SlideInv, CycleInv, Ahead
<1> QED BY <1>1, <1>2, Resting DEF SlideInv

(* A pair without enough samples: all its windows are given up. *)
LEMMA SkipKeeps == SlideInv /\ Skip => SlideInv'
<1> SUFFICES ASSUME SlideInv, Skip PROVE SlideInv'
    OBVIOUS
<1>1. ~Running /\ ~Running' /\ stage = "next" /\ stage' = "next"
      /\ UNCHANGED <<cancelled, samples, taus, tau, rows, mtieVars>>
    BY DEF Skip, Running
<1>2. PICK p \in todo : /\ todo' = todo \ {p}
                        /\ pair' = p
                        /\ given' = given \cup ({p} \X Taus)
    BY DEF Skip, Following
<1>3. CycleInv'
    <2>1. Ahead = todo \X Taus /\ Ahead' = todo' \X Taus
        BY <1>1 DEF Ahead
    <2>2. given' \cup Ahead' = given \cup Ahead
        BY <1>2, <2>1
    <2>3. p \in Pairs /\ todo' \subseteq Pairs /\ given' \subseteq Pairs \X Taus
        BY <1>2 DEF SlideInv, CycleInv
    <2>4. rows' \cup given' \cup Ahead' = Pairs \X Taus
        BY <1>1, <2>2 DEF SlideInv, CycleInv
    <2> QED BY <1>1, <1>2, <2>3, <2>4 DEF SlideInv, CycleInv
<1> QED BY <1>1, <1>3, Resting DEF SlideInv

(* A pair with samples: all its windows are to come. *)
LEMMA FetchKeeps == SlideInv /\ Fetch => SlideInv'
<1> SUFFICES ASSUME SlideInv, Fetch PROVE SlideInv'
    OBVIOUS
<1>1. /\ ~Running /\ ~Running' /\ stage = "next" /\ stage' = "tau"
      /\ UNCHANGED <<cancelled, tau, rows, given, mtieVars>>
    BY DEF Fetch, Running
<1>2. PICK p \in todo : /\ todo' = todo \ {p}
                        /\ pair' = p
                        /\ samples' \in Series /\ Len(samples') >= 3
                        /\ taus' = Taus
    BY DEF Fetch, Following
<1>3. CycleInv'
    <2>1. Ahead = todo \X Taus /\ Ahead' = (todo' \X Taus) \cup ({p} \X Taus)
        BY <1>1, <1>2 DEF Ahead
    <2>2. Ahead' = Ahead
        BY <1>2, <2>1
    <2>3. p \in Pairs /\ todo' \subseteq Pairs
        BY <1>2 DEF SlideInv, CycleInv
    <2> QED BY <1>1, <1>2, <2>2, <2>3 DEF SlideInv, CycleInv
<1> QED BY <1>1, <1>3, Resting DEF SlideInv

(* No window of the pair is left. *)
LEMMA EndPairKeeps == SlideInv /\ EndPair => SlideInv'
<1> SUFFICES ASSUME SlideInv, EndPair PROVE SlideInv'
    OBVIOUS
<1>1. /\ ~Running /\ ~Running' /\ stage = "tau" /\ stage' = "next" /\ taus = {}
      /\ samples' = <<>>
      /\ UNCHANGED <<cancelled, todo, pair, taus, tau, rows, given, mtieVars>>
    BY DEF EndPair, Running
<1>2. CycleInv'
    <2>1. Ahead' = Ahead
        BY <1>1 DEF Ahead
    <2> QED BY <1>1, <2>1 DEF SlideInv, CycleInv
<1> QED BY <1>1, <1>2, Resting DEF SlideInv

(* One statement fails: its window is given up and the others go on. *)
LEMMA InsertKeeps == SlideInv /\ InsertSlideMetrics => SlideInv'
<1> SUFFICES ASSUME SlideInv, InsertSlideMetrics PROVE SlideInv'
    OBVIOUS
<1>1. /\ Running /\ ~Running' /\ stage = "insert" /\ stage' = "tau" /\ tau \in Taus
      /\ tau' = 0 /\ right' = 0 /\ left' = 0 /\ mtie' = 0
      /\ maxDeque' = <<>> /\ minDeque' = <<>>
      /\ UNCHANGED <<cancelled, todo, pair, samples, taus>>
    BY DEF InsertSlideMetrics, Locals, AfterInsertError, Running, SlideInv, LoopInv
<1>2. \/ rows' = rows \cup {<<pair, tau>>} /\ given' = given
      \/ given' = given \cup {<<pair, tau>>} /\ rows' = rows
    BY DEF InsertSlideMetrics
<1>3. CycleInv'
    <2>1. Ahead = Ahead' \cup {<<pair, tau>>}
        BY <1>1 DEF Ahead
    <2>2. rows' \cup given' \cup Ahead' = rows \cup given \cup Ahead
        BY <1>2, <2>1
    <2>3. <<pair, tau>> \in Pairs \X Taus
        BY <1>1 DEF SlideInv, CycleInv
    <2>4. rows' \subseteq Pairs \X Taus /\ given' \subseteq Pairs \X Taus
        BY <1>2, <2>3 DEF SlideInv, CycleInv
    <2>5. rows' \cup given' \cup Ahead' = Pairs \X Taus
        BY <2>2 DEF SlideInv, CycleInv
    <2> QED BY <1>1, <2>4, <2>5 DEF SlideInv, CycleInv
<1>4. LoopInv'
    BY <1>1 DEF LoopInv
<1> QED BY <1>3, <1>4 DEF SlideInv

(* The steps of the loop leave the account of the windows alone. *)
LEMMA LoopKeepsCycle ==
    ASSUME CycleInv, Running, Running',
           UNCHANGED <<cancelled, todo, pair, samples, taus, tau, rows, given>>
    PROVE  CycleInv'
<1>1. Ahead' = Ahead
    BY DEF Ahead
<1>2. stage' \in {"wait", "next", "tau", "popMax", "popMin", "shrink", "trim", "insert", "stopped"}
      /\ stage' \notin {"wait", "stopped"}
    BY DEF Running
<1> QED BY <1>1, <1>2 DEF CycleInv

-----------------------------------------------------------------------------
(* The loop of CalculateMTIE *)

(* What the assumption on Series says of the samples at work. *)
LEMMA SampleFacts ==
    ASSUME CycleInv, stage = "tau" \/ Running
    PROVE  /\ samples \in Series /\ samples \in Seq(Sample) /\ Len(samples) \in Nat
           /\ Len(samples) >= 3 /\ DOMAIN samples = Indexes
           /\ \A i \in Indexes : Offset(i) \in Int /\ Time(i) \in Nat
           /\ \A i, j \in Indexes : i <= j => Time(i) <= Time(j)
           /\ \A i \in Indexes : Up[i] = Offset(i) /\ Down[i] = -Offset(i)
           /\ \A i \in Indexes : Up[i] \in Int /\ Down[i] \in Int
<1>1. samples \in Series /\ Len(samples) >= 3
    BY DEF CycleInv
<1>2. samples \in Seq(Sample)
    BY <1>1, SeriesAssumption
<1>3. Len(samples) \in Nat /\ DOMAIN samples = Indexes
    BY <1>2 DEF Indexes
<1>4. \A i \in Indexes : samples[i] \in Sample
    BY <1>2, <1>3
<1>5. \A i \in Indexes : Offset(i) \in Int /\ Time(i) \in Nat
    BY <1>4 DEF Sample, Offset, Time
<1>6. \A i, j \in Indexes : i <= j => Time(i) <= Time(j)
    BY <1>1, <1>3, SeriesAssumption DEF Time
<1>7. \A i \in Indexes : Up[i] = Offset(i) /\ Down[i] = -Offset(i)
    BY DEF Up, Down
<1>8. \A i \in Indexes : Up[i] \in Int /\ Down[i] \in Int
    BY <1>5, <1>7
<1> QED BY <1>1, <1>2, <1>3, <1>5, <1>6, <1>7, <1>8

(* Where the window lies. *)
LEMMA WindowFacts ==
    ASSUME CycleInv, LoopInv, Running
    PROVE  /\ tau \in Nat /\ left \in Nat \ {0} /\ right \in Nat /\ left <= right
           /\ right \in Indexes /\ left..right \subseteq Indexes /\ 1..right \subseteq Indexes
           /\ \A k \in left..right : Up[k] \in Int /\ Down[k] \in Int
<1>1. right \in Indexes /\ left \in 1..right /\ tau \in Taus
    BY DEF LoopInv
<1>2. right \in 1..Len(samples) /\ Len(samples) \in Nat
    BY <1>1, SampleFacts DEF Indexes
<1>3. left..right \subseteq Indexes /\ 1..right \subseteq Indexes
    BY <1>1, <1>2 DEF Indexes
<1> QED BY <1>1, <1>2, <1>3, SampleFacts, TausArePositive

LEMMA LastElement ==
    ASSUME NEW S, NEW d \in Seq(S), d # <<>>
    PROVE  Last(d) \in S
BY DEF Last

(* The last entry of a deque, which a value on its way in is compared with. *)
LEMMA LastInWindow ==
    ASSUME CycleInv, LoopInv, Running, NEW f, NEW d, Pushing(d, f, left, right), d # <<>>
    PROVE  Last(d) \in Indexes
<1>1. d \in Seq(left..(right - 1))
    BY DEF Pushing
<1>2. Last(d) \in left..(right - 1)
    BY <1>1, LastElement
<1>3. left \in Nat /\ right \in Nat /\ left..right \subseteq Indexes
    BY WindowFacts
<1> QED BY <1>2, <1>3

(* The series does not change while it is worked on. *)
LEMMA SameSamples ==
    ASSUME UNCHANGED samples
    PROVE  /\ Up' = Up /\ Down' = Down /\ Indexes' = Indexes
           /\ \A i : Offset(i)' = Offset(i) /\ Time(i)' = Time(i)
BY DEF Up, Down, Indexes, Offset, Time

(* What has been measured stays so while mtie and right do. *)
LEMMA SameMeasure ==
    ASSUME UNCHANGED <<samples, tau, right, mtie>>, stage # "insert", stage' # "insert",
           WidestSoFar, SomeSpread
    PROVE  WidestSoFar' /\ SomeSpread'
<1>1. Measured' = Measured
    BY DEF Measured
<1>2. \A i, j : Together(i, j)' = Together(i, j)
    BY DEF Together, Time
<1> QED BY <1>1, <1>2, SameSamples DEF WidestSoFar, SomeSpread, Offset, Indexes, Together, Time

(* An iteration of one of the loops over the deques. *)
LEMMA DequeStep ==
    ASSUME SlideInv, Running, Running', stage # "insert", stage' # "insert",
           UNCHANGED <<cancelled, todo, pair, samples, taus, tau, rows, given>>,
           UNCHANGED <<right, left, mtie>>, stage' = "trim" => stage = "trim", DequesInv'
    PROVE  SlideInv'
<1>1. CycleInv'
    BY LoopKeepsCycle DEF SlideInv
<1>2. WidestSoFar' /\ SomeSpread'
    BY SameMeasure DEF SlideInv, LoopInv
<1>3. WindowInv'
    BY DEF SlideInv, LoopInv, WindowInv, Time
<1>4. LoopInv'
    BY <1>2, <1>3, SameSamples DEF SlideInv, LoopInv
<1> QED BY <1>1, <1>4 DEF SlideInv

(* A window is begun with empty deques. *)
LEMMA NextTauKeeps == SlideInv /\ NextTau => SlideInv'
<1> SUFFICES ASSUME SlideInv, NextTau PROVE SlideInv'
    OBVIOUS
<1>1. PICK t \in taus : tau' = t /\ taus' = taus \ {t}
    BY DEF NextTau
<1>2. /\ ~Running /\ Running' /\ stage = "tau" /\ stage' = "popMax"
      /\ right' = 1 /\ left' = 1 /\ maxDeque' = <<>> /\ minDeque' = <<>> /\ mtie' = 0
      /\ UNCHANGED <<cancelled, todo, pair, samples, rows, given>>
    BY DEF NextTau, Locals, Running
<1>3. CycleInv'
    <2>1. Ahead' = Ahead
        BY <1>1, <1>2 DEF Ahead
    <2> QED BY <1>1, <1>2, <2>1 DEF SlideInv, CycleInv
<1>4. DequesInv'
    <2>1. \A f : Pushing(<<>>, f, 1, 1)
        BY DEF Pushing, Falls, Awaits
    <2> QED BY <1>2, <2>1 DEF DequesInv
<1>5. 1 \in Indexes /\ Indexes' = Indexes /\ t \in Nat /\ t \in Taus
    BY <1>1, <1>2, SampleFacts, SameSamples, TausArePositive DEF SlideInv, CycleInv, Indexes
<1>6. WindowInv' /\ WidestSoFar'
    BY <1>2 DEF WindowInv, WidestSoFar, Measured
<1>7. SomeSpread'
    <2>1. Offset(1)' \in Int /\ Time(1)' \in Int
        BY <1>2, <1>5, SampleFacts, SameSamples DEF SlideInv
    <2>2. (Together(1, 1) /\ mtie = Offset(1) - Offset(1))'
        BY <1>1, <1>2, <1>5, <2>1 DEF Together
    <2> QED BY <1>5, <2>2 DEF SomeSpread
<1>8. LoopInv'
    BY <1>1, <1>2, <1>4, <1>5, <1>6, <1>7 DEF LoopInv
<1> QED BY <1>3, <1>8 DEF SlideInv

(* The deque of the maxima gives up an entry for the position on its way in. *)
LEMMA PopMaxKeeps == SlideInv /\ PopMax => SlideInv'
<1> SUFFICES ASSUME SlideInv, PopMax PROVE SlideInv'
    OBVIOUS
<1>1. /\ stage = "popMax" /\ stage' = "popMax" /\ Running /\ Running'
      /\ maxDeque # <<>> /\ Offset(Last(maxDeque)) <= Offset(right)
      /\ maxDeque' = Front(maxDeque)
      /\ UNCHANGED <<cancelled, todo, pair, samples, taus, tau, rows, given>>
      /\ UNCHANGED <<right, left, minDeque, mtie>>
    BY DEF PopMax, Running, control, BackNoLarger
<1>2. Pushing(maxDeque, Up, left, right) /\ Pushing(minDeque, Down, left, right)
    BY <1>1 DEF SlideInv, LoopInv, DequesInv
<1>3. Last(maxDeque) \in Indexes
    BY <1>1, <1>2, LastInWindow DEF SlideInv
<1>4. Up[Last(maxDeque)] <= Up[right]
    BY <1>1, <1>3, WindowFacts, SampleFacts DEF SlideInv
<1>5. Pushing(Front(maxDeque), Up, left, right)
    BY <1>1, <1>2, <1>4, WindowFacts, PopBack DEF SlideInv
<1>6. DequesInv'
    BY <1>1, <1>2, <1>5, SameSamples DEF DequesInv
<1> QED BY <1>1, <1>6, DequeStep

(* The position enters the deque of the maxima. *)
LEMMA PushMaxKeeps == SlideInv /\ PushMax => SlideInv'
<1> SUFFICES ASSUME SlideInv, PushMax PROVE SlideInv'
    OBVIOUS
<1>1. /\ stage = "popMax" /\ stage' = "popMin" /\ Running /\ Running'
      /\ maxDeque = <<>> \/ ~(Offset(Last(maxDeque)) <= Offset(right))
      /\ maxDeque' = Append(maxDeque, right)
      /\ UNCHANGED <<cancelled, todo, pair, samples, taus, tau, rows, given>>
      /\ UNCHANGED <<right, left, minDeque, mtie>>
    BY DEF PushMax, Running, BackNoLarger
<1>2. Pushing(maxDeque, Up, left, right) /\ Pushing(minDeque, Down, left, right)
    BY <1>1 DEF SlideInv, LoopInv, DequesInv
<1>3. maxDeque # <<>> => Last(maxDeque) \in Indexes
    BY <1>1, <1>2, LastInWindow DEF SlideInv
<1>4. maxDeque = <<>> \/ Up[Last(maxDeque)] > Up[right]
    BY <1>1, <1>3, WindowFacts, SampleFacts DEF SlideInv
<1>5. Settled(Append(maxDeque, right), Up, left, right)
    BY <1>1, <1>2, <1>4, WindowFacts, PushLast DEF SlideInv
<1>6. DequesInv'
    BY <1>1, <1>2, <1>5, SameSamples DEF DequesInv
<1> QED BY <1>1, <1>6, DequeStep

(* The same for the minima, upside down. *)
LEMMA PopMinKeeps == SlideInv /\ PopMin => SlideInv'
<1> SUFFICES ASSUME SlideInv, PopMin PROVE SlideInv'
    OBVIOUS
<1>1. /\ stage = "popMin" /\ stage' = "popMin" /\ Running /\ Running'
      /\ minDeque # <<>> /\ Offset(Last(minDeque)) >= Offset(right)
      /\ minDeque' = Front(minDeque)
      /\ UNCHANGED <<cancelled, todo, pair, samples, taus, tau, rows, given>>
      /\ UNCHANGED <<right, left, maxDeque, mtie>>
    BY DEF PopMin, Running, control, BackNoSmaller
<1>2. Settled(maxDeque, Up, left, right) /\ Pushing(minDeque, Down, left, right)
    BY <1>1 DEF SlideInv, LoopInv, DequesInv
<1>3. Last(minDeque) \in Indexes
    BY <1>1, <1>2, LastInWindow DEF SlideInv
<1>4. Down[Last(minDeque)] <= Down[right]
    BY <1>1, <1>3, WindowFacts, SampleFacts DEF SlideInv
<1>5. Pushing(Front(minDeque), Down, left, right)
    BY <1>1, <1>2, <1>4, WindowFacts, PopBack DEF SlideInv
<1>6. DequesInv'
    BY <1>1, <1>2, <1>5, SameSamples DEF DequesInv
<1> QED BY <1>1, <1>6, DequeStep

(* The position enters the deque of the minima. *)
LEMMA PushMinKeeps == SlideInv /\ PushMin => SlideInv'
<1> SUFFICES ASSUME SlideInv, PushMin PROVE SlideInv'
    OBVIOUS
<1>1. /\ stage = "popMin" /\ stage' = "shrink" /\ Running /\ Running'
      /\ minDeque = <<>> \/ ~(Offset(Last(minDeque)) >= Offset(right))
      /\ minDeque' = Append(minDeque, right)
      /\ UNCHANGED <<cancelled, todo, pair, samples, taus, tau, rows, given>>
      /\ UNCHANGED <<right, left, maxDeque, mtie>>
    BY DEF PushMin, Running, BackNoSmaller
<1>2. Settled(maxDeque, Up, left, right) /\ Pushing(minDeque, Down, left, right)
    BY <1>1 DEF SlideInv, LoopInv, DequesInv
<1>3. minDeque # <<>> => Last(minDeque) \in Indexes
    BY <1>1, <1>2, LastInWindow DEF SlideInv
<1>4. minDeque = <<>> \/ Down[Last(minDeque)] > Down[right]
    BY <1>1, <1>3, WindowFacts, SampleFacts DEF SlideInv
<1>5. Settled(Append(minDeque, right), Down, left, right)
    BY <1>1, <1>2, <1>4, WindowFacts, PushLast DEF SlideInv
<1>6. DequesInv'
    BY <1>1, <1>2, <1>5, SameSamples DEF DequesInv
<1> QED BY <1>1, <1>6, DequeStep

LEMMA ShrinkKeeps == SlideInv /\ Shrink => SlideInv'
<1> SUFFICES ASSUME SlideInv, Shrink PROVE SlideInv'
    OBVIOUS
<1>1. /\ stage = "shrink" /\ stage' = "trim" /\ Running /\ Running'
      /\ left < right /\ Time(right) - Time(left) > tau
      /\ left' = left + 1
      /\ UNCHANGED <<cancelled, todo, pair, samples, taus, tau, rows, given>>
      /\ UNCHANGED <<right, maxDeque, minDeque, mtie>>
    BY DEF Shrink, Running, TooWide
<1>2. Settled(maxDeque, Up, left, right) /\ Settled(minDeque, Down, left, right)
    BY <1>1 DEF SlideInv, LoopInv, DequesInv
<1>3. Trimming(maxDeque, Up, left + 1, right) /\ Trimming(minDeque, Down, left + 1, right)
    BY <1>1, <1>2, WindowFacts, Loosen DEF SlideInv
<1>4. DequesInv'
    BY <1>1, <1>3, SameSamples DEF DequesInv
<1>5. WindowInv'
    <2>1. ASSUME NEW k \in 1..left
          PROVE  Time(right) - Time(k) > tau
        <3>1. k = left \/ k \in 1..(left - 1)
            BY <1>1, WindowFacts DEF SlideInv
        <3> QED BY <1>1, <3>1 DEF SlideInv, LoopInv, WindowInv
    <2>2. left' - 1 = left
        BY <1>1, WindowFacts DEF SlideInv
    <2> QED BY <1>1, <2>1, <2>2 DEF WindowInv, Time
<1>6. left' \in 1..right' /\ left' > 1
    BY <1>1, WindowFacts DEF SlideInv
<1>7. LoopInv'
    <2>1. WidestSoFar' /\ SomeSpread'
        BY <1>1, SameMeasure DEF SlideInv, LoopInv
    <2> QED BY <1>1, <1>4, <1>5, <1>6, <2>1, SameSamples DEF SlideInv, LoopInv
<1> QED BY <1>1, <1>7, LoopKeepsCycle DEF SlideInv

(* An entry that left the window is dropped from the maxima. *)
LEMMA TrimMaxKeeps == SlideInv /\ TrimMax => SlideInv'
<1> SUFFICES ASSUME SlideInv, TrimMax PROVE SlideInv'
    OBVIOUS
<1>1. /\ stage = "trim" /\ stage' = "trim" /\ Running /\ Running'
      /\ maxDeque # <<>> /\ Head(maxDeque) < left
      /\ maxDeque' = Tail(maxDeque)
      /\ UNCHANGED <<cancelled, todo, pair, samples, taus, tau, rows, given>>
      /\ UNCHANGED <<right, left, minDeque, mtie>>
    BY DEF TrimMax, Running, control, HasOld
<1>2. Trimming(maxDeque, Up, left, right) /\ Trimming(minDeque, Down, left, right)
    BY <1>1 DEF SlideInv, LoopInv, DequesInv
<1>3. Trimming(Tail(maxDeque), Up, left, right)
    BY <1>1, <1>2, WindowFacts, PopOld DEF SlideInv
<1>4. DequesInv'
    BY <1>1, <1>2, <1>3, SameSamples DEF DequesInv
<1> QED BY <1>1, <1>4, DequeStep

(* And from the minima. *)
LEMMA TrimMinKeeps == SlideInv /\ TrimMin => SlideInv'
<1> SUFFICES ASSUME SlideInv, TrimMin PROVE SlideInv'
    OBVIOUS
<1>1. /\ stage = "trim" /\ stage' = "trim" /\ Running /\ Running'
      /\ minDeque # <<>> /\ Head(minDeque) < left
      /\ minDeque' = Tail(minDeque)
      /\ UNCHANGED <<cancelled, todo, pair, samples, taus, tau, rows, given>>
      /\ UNCHANGED <<right, left, maxDeque, mtie>>
    BY DEF TrimMin, Running, control, HasOld
<1>2. Trimming(maxDeque, Up, left, right) /\ Trimming(minDeque, Down, left, right)
    BY <1>1 DEF SlideInv, LoopInv, DequesInv
<1>3. Trimming(Tail(minDeque), Down, left, right)
    BY <1>1, <1>2, WindowFacts, PopOld DEF SlideInv
<1>4. DequesInv'
    BY <1>1, <1>2, <1>3, SameSamples DEF DequesInv
<1> QED BY <1>1, <1>4, DequeStep

(* No entry outside the window is left. *)
LEMMA TrimmedKeeps == SlideInv /\ Trimmed => SlideInv'
<1> SUFFICES ASSUME SlideInv, Trimmed PROVE SlideInv'
    OBVIOUS
<1>1. /\ stage = "trim" /\ stage' = "shrink" /\ Running /\ Running'
      /\ maxDeque = <<>> \/ ~(Head(maxDeque) < left)
      /\ minDeque = <<>> \/ ~(Head(minDeque) < left)
      /\ UNCHANGED <<cancelled, todo, pair, samples, taus, tau, rows, given>>
      /\ UNCHANGED <<right, left, maxDeque, minDeque, mtie>>
    BY DEF Trimmed, Running, mtieVars, HasOld
<1>2. Trimming(maxDeque, Up, left, right) /\ Trimming(minDeque, Down, left, right)
    BY <1>1 DEF SlideInv, LoopInv, DequesInv
<1>3. /\ maxDeque = <<>> \/ Head(maxDeque) >= left
      /\ minDeque = <<>> \/ Head(minDeque) >= left
    <2>1. ASSUME NEW f, NEW d, Trimming(d, f, left, right), d # <<>>
          PROVE  Head(d) \in Int
        <3>1. left - 1 \in Int /\ right \in Int /\ d \in Seq((left - 1)..right)
            BY <1>1, <2>1, WindowFacts DEF Trimming, SlideInv
        <3> QED BY <2>1, <3>1
    <2> QED BY <1>1, <1>2, <2>1, WindowFacts DEF SlideInv
<1>4. Settled(maxDeque, Up, left, right) /\ Settled(minDeque, Down, left, right)
    BY <1>1, <1>2, <1>3, WindowFacts, NoneOld DEF SlideInv
<1>5. DequesInv'
    BY <1>1, <1>4, SameSamples DEF DequesInv
<1> QED BY <1>1, <1>5, DequeStep

(* What an iteration measures: the widest spread of the window of right, and the
   window has all earlier samples that lie within tau. *)
LEMMA MeasureFacts ==
    ASSUME SlideInv, stage = "shrink", ~TooWide
    PROVE  /\ Spread \in Nat
           /\ \A i \in 1..right : Together(i, right) =>
                Offset(i) - Offset(right) <= Spread /\ Offset(right) - Offset(i) <= Spread
           /\ \E i, j \in Indexes : Together(i, j) /\ Spread = Offset(i) - Offset(j)
<1> DEFINE h == Head(maxDeque)
           l == Head(minDeque)
<1>1. Running
    BY DEF Running
<1>2. /\ tau \in Nat /\ left \in Nat \ {0} /\ right \in Nat /\ left <= right
      /\ left..right \subseteq Indexes /\ 1..right \subseteq Indexes
      /\ \A k \in left..right : Up[k] \in Int /\ Down[k] \in Int
    BY <1>1, WindowFacts DEF SlideInv
<1>3. /\ \A i \in Indexes : Offset(i) \in Int /\ Time(i) \in Nat
      /\ \A i, j \in Indexes : i <= j => Time(i) <= Time(j)
      /\ \A i \in Indexes : Up[i] = Offset(i) /\ Down[i] = -Offset(i)
    BY <1>1, SampleFacts DEF SlideInv
<1>4. Settled(maxDeque, Up, left, right) /\ Settled(minDeque, Down, left, right)
    BY <1>1 DEF SlideInv, LoopInv, DequesInv
<1>5. maxDeque # <<>> /\ h \in left..right /\ \A k \in left..right : Up[k] <= Up[h]
    BY <1>2, <1>4, HeadIsLargest
<1>6. minDeque # <<>> /\ l \in left..right /\ \A k \in left..right : Down[k] <= Down[l]
    BY <1>2, <1>4, HeadIsLargest
<1> HIDE DEF h, l
<1>7. Spread = Offset(h) - Offset(l)
    BY <1>5, <1>6 DEF Spread, h, l
<1>8. ASSUME NEW k \in left..right
      PROVE  /\ k \in Indexes /\ Offset(k) \in Int
             /\ Offset(k) <= Offset(h) /\ Offset(l) <= Offset(k)
    <2>1. k \in Indexes /\ h \in Indexes /\ l \in Indexes
        BY <1>2, <1>5, <1>6
    <2>2. Up[k] <= Up[h] /\ Down[k] <= Down[l]
        BY <1>5, <1>6
    <2> QED BY <1>3, <2>1, <2>2
<1>9. Offset(h) \in Int /\ Offset(l) \in Int /\ h \in Indexes /\ l \in Indexes
    BY <1>5, <1>6, <1>8
<1>10. Spread \in Nat
    <2>1. Offset(l) <= Offset(h)
        BY <1>6, <1>8
    <2> QED BY <1>7, <1>9, <2>1
<1>11. ASSUME NEW i \in 1..right, Together(i, right)
       PROVE  Offset(i) - Offset(right) <= Spread /\ Offset(right) - Offset(i) <= Spread
    <2>1. ~(Time(right) - Time(i) > tau)
        <3>1. Time(right) - Time(i) <= tau
            BY <1>11 DEF Together
        <3>2. i \in Indexes /\ right \in Indexes
            BY <1>2
        <3>3. Time(right) \in Nat /\ Time(i) \in Nat
            BY <1>3, <3>2
        <3> QED BY <1>2, <3>1, <3>3
    <2>2. i \notin 1..(left - 1)
        BY <1>1, <2>1 DEF SlideInv, LoopInv, WindowInv
    <2>3. i \in left..right /\ right \in left..right
        BY <1>2, <2>2
    <2>4. /\ Offset(i) \in Int /\ Offset(i) <= Offset(h) /\ Offset(l) <= Offset(i)
          /\ Offset(right) \in Int /\ Offset(right) <= Offset(h) /\ Offset(l) <= Offset(right)
        BY <1>8, <2>3
    <2> QED BY <1>7, <1>9, <2>4
<1>12. Together(h, l)
    <2>1. /\ left \in Indexes /\ right \in Indexes
          /\ h >= left /\ h <= right /\ l >= left /\ l <= right
        BY <1>2, <1>5, <1>6
    <2>2. /\ Time(left) <= Time(h) /\ Time(h) <= Time(right)
          /\ Time(left) <= Time(l) /\ Time(l) <= Time(right)
        BY <1>3, <1>9, <2>1
    <2>3. Time(left) \in Nat /\ Time(right) \in Nat /\ Time(h) \in Nat /\ Time(l) \in Nat
        BY <1>3, <1>9, <2>1
    <2>4. left = right \/ Time(right) - Time(left) <= tau
        BY <1>2, <2>3 DEF TooWide
    <2> QED BY <1>2, <2>2, <2>3, <2>4 DEF Together
<1> QED BY <1>7, <1>9, <1>10, <1>11, <1>12

(* The spread of the window counts, and the next position is on its way in. *)
LEMMA MeasureKeeps == SlideInv /\ Measure => SlideInv'
<1> SUFFICES ASSUME SlideInv, Measure PROVE SlideInv'
    OBVIOUS
<1>1. /\ stage = "shrink" /\ ~TooWide
      /\ mtie' = IF Spread > mtie THEN Spread ELSE mtie
      /\ UNCHANGED <<cancelled, todo, pair, samples, taus, tau, rows, given>>
      /\ UNCHANGED <<left, maxDeque, minDeque>>
    BY DEF Measure
<1>2. \/ right = Len(samples) /\ stage' = "insert" /\ right' = right
      \/ right # Len(samples) /\ stage' = "popMax" /\ right' = right + 1
    BY DEF Measure
<1>3. Running /\ Running'
    BY <1>1, <1>2 DEF Running
<1>4. /\ tau \in Nat /\ left \in Nat \ {0} /\ right \in Nat /\ left <= right
      /\ right \in Indexes /\ 1..right \subseteq Indexes
    BY <1>3, WindowFacts DEF SlideInv
<1>5. /\ \A i \in Indexes : Offset(i) \in Int /\ Time(i) \in Nat
      /\ \A i, j \in Indexes : i <= j => Time(i) <= Time(j)
      /\ Len(samples) \in Nat
    BY <1>3, SampleFacts DEF SlideInv
<1>6. mtie \in Nat /\ WidestSoFar /\ SomeSpread /\ WindowInv /\ tau \in Taus /\ left \in 1..right
    BY <1>3 DEF SlideInv, LoopInv
<1>7. mtie' \in Nat /\ mtie' >= mtie /\ mtie' >= Spread /\ mtie' \in {mtie, Spread}
    BY <1>1, <1>6, MeasureFacts
<1>8. Measured' = 1..right /\ Measured = 1..(right - 1)
    BY <1>1, <1>2, <1>4 DEF Measured
<1>9. ASSUME NEW i \in 1..right, NEW j \in 1..right, Together(i, j)
      PROVE  Offset(i) - Offset(j) <= mtie'
    <2>0. i \in Indexes /\ j \in Indexes /\ Offset(i) \in Int /\ Offset(j) \in Int
          /\ Offset(right) \in Int
        BY <1>4, <1>5
    <2>1. CASE i \in Measured /\ j \in Measured
        <3>1. Offset(i) - Offset(j) <= mtie
            BY <1>6, <1>9, <2>1 DEF WidestSoFar
        <3> QED BY <2>0, <3>1, <1>6, <1>7
    <2>2. CASE j = right
        <3>1. Offset(i) - Offset(right) <= Spread
            BY <1>1, <1>9, <2>2, MeasureFacts
        <3> QED BY <2>0, <2>2, <3>1, <1>1, <1>7, MeasureFacts
    <2>3. CASE i = right
        <3>1. Together(j, right)
            BY <1>9, <2>3 DEF Together
        <3>2. Offset(right) - Offset(j) <= Spread
            BY <1>1, <3>1, MeasureFacts
        <3> QED BY <2>0, <2>3, <3>2, <1>1, <1>7, MeasureFacts
    <2>4. (i \in Measured \/ i = right) /\ (j \in Measured \/ j = right)
        BY <1>4, <1>8
    <2> QED BY <2>1, <2>2, <2>3, <2>4
<1>10. WidestSoFar'
    BY <1>1, <1>8, <1>9, SameSamples DEF WidestSoFar, Together, Offset, Time
<1>11. SomeSpread'
    <2>1. \E i, j \in Indexes : Together(i, j) /\ mtie' = Offset(i) - Offset(j)
        BY <1>1, <1>6, <1>7, MeasureFacts DEF SomeSpread
    <2> QED BY <1>1, <2>1, SameSamples DEF SomeSpread, Together, Offset, Time
<1>12. right' \in Indexes' /\ left' \in 1..right' /\ (stage' = "insert" => right' = Len(samples'))
    BY <1>1, <1>2, <1>4, <1>5, SameSamples DEF Indexes
<1>13. DequesInv'
    <2>1. Settled(maxDeque, Up, left, right) /\ Settled(minDeque, Down, left, right)
        BY <1>1, <1>3 DEF SlideInv, LoopInv, DequesInv
    <2>2. /\ Pushing(maxDeque, Up, left, right + 1)
          /\ Pushing(minDeque, Down, left, right + 1)
        BY <1>4, <2>1, Advance
    <2> QED BY <1>1, <1>2, <2>1, <2>2, SameSamples DEF DequesInv
<1>14. WindowInv'
    <2>1. right \in Indexes /\ right' \in Indexes /\ right <= right'
        BY <1>1, <1>2, <1>4, <1>12, SameSamples
    <2>2. ASSUME NEW k \in 1..(left - 1)
          PROVE  Time(right') - Time(k) > tau
        <3>1. k \in Indexes
            BY <1>4
        <3>2. Time(right) <= Time(right')
            BY <1>5, <2>1
        <3>3. Time(right) - Time(k) > tau
            BY <1>6 DEF WindowInv
        <3>4. Time(right) \in Nat /\ Time(right') \in Nat /\ Time(k) \in Nat
            BY <1>5, <2>1, <3>1
        <3> QED BY <1>4, <3>2, <3>3, <3>4
    <2> QED BY <1>1, <2>2 DEF WindowInv, Time
<1>15. LoopInv'
    BY <1>1, <1>2, <1>3, <1>6, <1>7, <1>10, <1>11, <1>12, <1>13, <1>14 DEF LoopInv
<1> QED BY <1>1, <1>3, <1>15, LoopKeepsCycle DEF SlideInv

(* A step of nobody. *)
LEMMA StutterKeeps == SlideInv /\ UNCHANGED vars => SlideInv'
<1> SUFFICES ASSUME SlideInv, UNCHANGED vars PROVE SlideInv'
    OBVIOUS
<1>1. UNCHANGED control /\ UNCHANGED mtieVars
    BY DEF vars
<1>2. CycleInv'
    BY <1>1 DEF control, SlideInv, CycleInv, Ahead, Running
<1>3. LoopInv'
    BY <1>1 DEF control, SlideInv, LoopInv, mtieVars, Running, DequesInv, WindowInv, WidestSoFar,
                SomeSpread, Measured, Together, Up, Down, Indexes, Offset, Time
<1> QED BY <1>2, <1>3 DEF SlideInv

(* Every step keeps the invariant. *)
LEMMA NextKeeps == SlideInv /\ [Next]_vars => SlideInv'
BY CancelKeeps, StopKeeps, StartCycleKeeps, EndCycleKeeps, SkipKeeps, FetchKeeps, NextTauKeeps,
   EndPairKeeps, InsertKeeps, PopMaxKeeps, PushMaxKeeps, PopMinKeeps, PushMinKeeps, ShrinkKeeps,
   TrimMaxKeeps, TrimMinKeeps, TrimmedKeeps, MeasureKeeps, StutterKeeps DEF Next, MtieStep

(* So it holds always. *)
LEMMA Invariance == Spec => []SlideInv
BY InitSlideInv, NextKeeps, PTL DEF Spec

-----------------------------------------------------------------------------
(* What follows *)

(* The invariant says where the entries of the deques lie. *)
LEMMA Shapes == SlideInv => SlideTypeOK
<1> SUFFICES ASSUME SlideInv PROVE SlideTypeOK
    OBVIOUS
<1>1. CASE ~Running
    <2>1. Deque(<<>>)
        BY DEF Deque
    <2>2. samples \in Seq(Sample) /\ Len(samples) \in Nat
        <3>1. samples = <<>> \/ samples \in Seq(Sample)
            BY SampleFacts DEF SlideInv, CycleInv
        <3>2. <<>> \in Seq(Sample)
            OBVIOUS
        <3>3. samples \in Seq(Sample)
            BY <3>1, <3>2
        <3> QED BY <3>3
    <2> QED BY <1>1, <2>1, <2>2 DEF SlideTypeOK, SlideInv, CycleInv, LoopInv
<1>2. CASE Running
    <2>1. ASSUME NEW f, NEW d,
                 \/ Settled(d, f, left, right)
                 \/ Pushing(d, f, left, right)
                 \/ stage = "trim" /\ Trimming(d, f, left, right)
          PROVE  Deque(d)
        <3>0. /\ left \in Nat \ {0} /\ right \in Nat /\ left..right \subseteq Indexes
              /\ right \in Indexes /\ 1..right \subseteq Indexes
              /\ stage = "trim" => left > 1
            BY <1>2, WindowFacts DEF SlideInv, LoopInv
        <3>1. \/ d \in Seq(left..right) \/ d \in Seq(left..(right - 1))
              \/ stage = "trim" /\ d \in Seq((left - 1)..right)
            BY <2>1 DEF Settled, Pushing, Trimming
        <3>2. \A i, j \in DOMAIN d : i < j => d[i] < d[j]
            BY <2>1 DEF Settled, Pushing, Trimming, Falls
        <3>3. /\ left..right \subseteq Indexes /\ left..(right - 1) \subseteq Indexes
              /\ stage = "trim" => (left - 1)..right \subseteq Indexes
            BY <3>0
        <3>4. \A S : S \subseteq Indexes /\ d \in Seq(S) => d \in Seq(Indexes)
            OBVIOUS
        <3>5. d \in Seq(Indexes)
            BY <3>1, <3>3, <3>4
        <3> QED BY <3>2, <3>5 DEF Deque
    <2>2. Deque(maxDeque) /\ Deque(minDeque)
        BY <1>2, <2>1 DEF SlideInv, LoopInv, DequesInv
    <2>3. samples \in Seq(Sample)
        BY <1>2, SampleFacts DEF SlideInv
    <2>4. right \in 0..Len(samples) /\ left \in 0..right
        BY <1>2, WindowFacts, SampleFacts DEF SlideInv, Indexes
    <2> QED BY <1>2, <2>2, <2>3, <2>4 DEF SlideTypeOK, SlideInv, CycleInv, LoopInv
<1> QED BY <1>1, <1>2

(* The variables keep their shape, and the deques hold positions of the series in
   ascending order: for any series, however its samples are spaced. *)
THEOREM SlideTypeCorrect == Spec => []SlideTypeOK
BY Invariance, Shapes, PTL

(* All positions have been measured when the loop is over. *)
LEMMA WidestAtTheEnd == SlideInv => MtieIsWidestSpread
<1> SUFFICES ASSUME SlideInv, stage = "insert" PROVE mtie = Max(Spreads)
    BY DEF MtieIsWidestSpread
<1>1. Running
    BY DEF Running
<1>2. Measured = Indexes
    BY <1>1 DEF SlideInv, LoopInv, Measured, Indexes
<1>3. mtie \in Nat /\ WidestSoFar /\ SomeSpread
    BY <1>1 DEF SlideInv, LoopInv
<1>4. mtie \in Spreads
    <2>1. PICK i, j \in Indexes : Together(i, j) /\ mtie = Offset(i) - Offset(j)
        BY <1>3 DEF SomeSpread
    <2>2. <<i, j>> \in {q \in Indexes \X Indexes : Together(q[1], q[2])}
        BY <2>1
    <2> QED BY <2>1, <2>2 DEF Spreads
<1>5. \A s \in Spreads : mtie >= s /\ s \in Int
    <2> SUFFICES ASSUME NEW s \in Spreads PROVE mtie >= s /\ s \in Int
        OBVIOUS
    <2>1. PICK q \in Indexes \X Indexes : Together(q[1], q[2]) /\ s = Offset(q[1]) - Offset(q[2])
        BY DEF Spreads
    <2>2. q[1] \in Indexes /\ q[2] \in Indexes
        OBVIOUS
    <2>3. Offset(q[1]) \in Int /\ Offset(q[2]) \in Int
        BY <1>1, <2>2, SampleFacts DEF SlideInv
    <2>4. Offset(q[1]) - Offset(q[2]) <= mtie
        BY <1>2, <1>3, <2>1, <2>2 DEF WidestSoFar
    <2> QED BY <1>3, <2>1, <2>3, <2>4
<1>6. Max(Spreads) \in Spreads /\ \A s \in Spreads : Max(Spreads) >= s
    BY <1>4, <1>5 DEF Max
<1>7. Max(Spreads) \in Int /\ Max(Spreads) >= mtie /\ mtie >= Max(Spreads)
    BY <1>4, <1>5, <1>6
<1> QED BY <1>3, <1>7

(* CalculateMTIE returns the largest difference of two offsets that lie at most tau
   apart, for any series whose samples come in the order of time. *)
THEOREM MtieIsRight == Spec => []MtieIsWidestSpread
BY Invariance, WidestAtTheEnd, PTL

(* Between cycles no window is still to come. *)
LEMMA NoneAhead == SlideInv => CycleComplete
<1> SUFFICES ASSUME SlideInv, stage = "wait" PROVE rows \cup given = Pairs \X Taus
    BY DEF CycleComplete
<1>1. Ahead = {}
    BY DEF SlideInv, CycleInv, Ahead, Running
<1> QED BY <1>1 DEF SlideInv, CycleInv

(* A failing statement costs its own rows: after a cycle every window of every pair was
   stored or given up for a reason of its own, for any tables, nodes and windows. *)
THEOREM CyclesComplete == Spec => []CycleComplete
BY Invariance, NoneAhead, PTL

-----------------------------------------------------------------------------
(* The deviations *)

(* A window is at least one sample wide. *)
LEMMA TauSamplesType ==
    ASSUME SlideInv, stage = "insert"
    PROVE  TauSamples \in Nat \ {0}
<1> DEFINE span == Time(Len(samples)) - Time(1)
           n    == Len(samples)
<1>1. Running
    BY DEF Running
<1>2. n \in Nat /\ n >= 3 /\ 1 \in Indexes /\ n \in Indexes /\ tau \in Nat
    BY <1>1, SampleFacts, WindowFacts DEF SlideInv, Indexes
<1>3. Time(1) \in Nat /\ Time(n) \in Nat /\ Time(1) <= Time(n)
    BY <1>1, <1>2, SampleFacts DEF SlideInv
<1>4. span \in Nat
    BY <1>3
<1>5. tau * (n - 1) \in Nat
    BY <1>2
<1>6. span # 0 => (tau * (n - 1)) \div span \in Int
    <2> DEFINE total == tau * (n - 1)
    <2> HIDE DEF total, span
    <2>1. total \in Nat
        BY <1>5 DEF total
    <2>2. span # 0 => total \div span \in Int
        BY <1>4, <2>1
    <2> QED BY <2>2 DEF total
<1> HIDE DEF span, n
<1>7. TauSamples = LET fitting == IF span = 0 THEN tau ELSE (tau * (n - 1)) \div span
                   IN  IF fitting < 1 THEN 1 ELSE fitting
    BY DEF TauSamples, span, n
<1>8. PICK fitting \in Int : TauSamples = IF fitting < 1 THEN 1 ELSE fitting
    BY <1>2, <1>6, <1>7
<1> QED BY <1>8

(* The offsets of a clock that is off by a more and runs fast by b a sample. *)
Line(a, b) == [i \in Indexes |-> Offset(i) + a + b * i]

(* A constant offset and a constant frequency error cancel in a second difference. *)
LEMMA DriftCancels ==
    ASSUME SlideInv, stage = "insert", NEW a \in Int, NEW b \in Int,
           NEW m \in Nat, NEW i \in Nat \ {0}, i + 2 * m <= Len(samples)
    PROVE  SecondDifference(Line(a, b), i, m) = SecondDifference(Offsets, i, m)
<1>1. Running
    BY DEF Running
<1>2. i \in Indexes /\ i + m \in Indexes /\ i + 2 * m \in Indexes
    BY <1>1, SampleFacts DEF SlideInv, Indexes
<1>3. Offset(i) \in Int /\ Offset(i + m) \in Int /\ Offset(i + 2 * m) \in Int
    BY <1>1, <1>2, SampleFacts DEF SlideInv
<1>4. /\ Offsets[i] = Offset(i) /\ Offsets[i + m] = Offset(i + m)
      /\ Offsets[i + 2 * m] = Offset(i + 2 * m)
    BY <1>2 DEF Offsets
<1>5. /\ Line(a, b)[i] = Offset(i) + a + b * i
      /\ Line(a, b)[i + m] = Offset(i + m) + a + b * (i + m)
      /\ Line(a, b)[i + 2 * m] = Offset(i + 2 * m) + a + b * (i + 2 * m)
    BY <1>2 DEF Line
<1>6. /\ b * i \in Int /\ b * m \in Int
      /\ b * (i + m) = b * i + b * m
      /\ b * (i + 2 * m) = b * i + 2 * (b * m)
    OBVIOUS
<1>7. Line(a, b)[i + 2 * m] - 2 * Line(a, b)[i + m] + Line(a, b)[i]
        = Offset(i + 2 * m) - 2 * Offset(i + m) + Offset(i)
    <2> DEFINE p == b * i
               q == b * m
               x == Offset(i)
               y == Offset(i + m)
               z == Offset(i + 2 * m)
    <2>1. p \in Int /\ q \in Int /\ x \in Int /\ y \in Int /\ z \in Int
        BY <1>3, <1>6
    <2>2. /\ Line(a, b)[i] = x + a + p
          /\ Line(a, b)[i + m] = y + a + (p + q)
          /\ Line(a, b)[i + 2 * m] = z + a + (p + 2 * q)
        BY <1>5, <1>6
    <2> HIDE DEF p, q, x, y, z
    <2>3. (z + a + (p + 2 * q)) - 2 * (y + a + (p + q)) + (x + a + p) = z - 2 * y + x
        BY <2>1
    <2> QED BY <2>2, <2>3 DEF x, y, z
<1> QED BY <1>4, <1>7 DEF SecondDifference

(* So the sums ADEV and TDEV are computed from agree: their terms do. *)
LEMMA SumsAgree ==
    ASSUME SlideInv, stage = "insert", NEW a \in Int, NEW b \in Int
    PROVE  /\ AdevSum(Line(a, b), TauSamples) = AdevSum(Offsets, TauSamples)
           /\ TdevSum(Line(a, b), TauSamples) = TdevSum(Offsets, TauSamples)
<1> DEFINE n == Len(samples)
           m == TauSamples
           line == Line(a, b)
<1>0. Running
    BY DEF Running
<1>1. m \in Nat /\ m > 0 /\ n \in Nat
    BY <1>0, TauSamplesType, SampleFacts DEF SlideInv
<1> HIDE DEF m
<1>2. Len(Offsets) = n /\ Len(line) = n
    <2>1. \A i \in 1..n : Offset(i) \in Int /\ Offset(i) + a + b * i \in Int
        BY <1>0, SampleFacts DEF SlideInv, Indexes
    <2>2. Offsets \in [1..n -> Int] /\ line \in [1..n -> Int]
        BY <2>1 DEF Offsets, Line, Indexes
    <2> HIDE DEF n, line
    <2> QED BY <1>1, <2>2
<1>3. AdevSum(line, m) = AdevSum(Offsets, m)
    <2>1. ASSUME NEW i \in AdevStarts(n, m)
          PROVE  Square(SecondDifference(line, i, m)) = Square(SecondDifference(Offsets, i, m))
        BY <1>1, DriftCancels DEF AdevStarts
    <2> HIDE DEF line
    <2>2. [i \in AdevStarts(n, m) |-> Square(SecondDifference(line, i, m))]
            = [i \in AdevStarts(n, m) |-> Square(SecondDifference(Offsets, i, m))]
        BY <2>1
    <2> QED BY <1>2, <2>2 DEF AdevSum
<1>4. TdevSum(line, m) = TdevSum(Offsets, m)
    <2> DEFINE Term(x, i) ==
                 Square(SumFunction([j \in 0..(m - 1) |-> SecondDifference(x, i + j, m)]))
    <2>1. ASSUME NEW i \in TdevStarts(n, m)
          PROVE  Term(line, i) = Term(Offsets, i)
        <3>1. ASSUME NEW j \in 0..(m - 1)
              PROVE  SecondDifference(line, i + j, m) = SecondDifference(Offsets, i + j, m)
            <4>1. i + j \in Nat \ {0} /\ (i + j) + 2 * m <= n
                BY <1>1 DEF TdevStarts
            <4> QED BY <1>1, <4>1, DriftCancels
        <3> HIDE DEF line
        <3>2. [j \in 0..(m - 1) |-> SecondDifference(line, i + j, m)]
                = [j \in 0..(m - 1) |-> SecondDifference(Offsets, i + j, m)]
            BY <3>1
        <3> QED BY <3>2
    <2> HIDE DEF line
    <2>2. [i \in TdevStarts(n, m) |-> Term(line, i)]
            = [i \in TdevStarts(n, m) |-> Term(Offsets, i)]
        BY <2>1
    <2>3. /\ TdevSum(line, m) = SumFunction([i \in TdevStarts(n, m) |-> Term(line, i)])
          /\ TdevSum(Offsets, m) = SumFunction([i \in TdevStarts(n, m) |-> Term(Offsets, i)])
        BY <1>2 DEF TdevSum
    <2> QED BY <2>2, <2>3
<1> QED BY <1>3, <1>4 DEF m

(* ADEV and TDEV see neither a constant offset nor a constant frequency error, however
   large, for any series and window. *)
THEOREM AnyDriftIgnored ==
    ASSUME NEW a \in Int, NEW b \in Int
    PROVE  Spec => [](stage = "insert" =>
                        /\ AdevSum(Line(a, b), TauSamples) = AdevSum(Offsets, TauSamples)
                        /\ TdevSum(Line(a, b), TauSamples) = TdevSum(Offsets, TauSamples))
<1>1. SlideInv => (stage = "insert" =>
                     /\ AdevSum(Line(a, b), TauSamples) = AdevSum(Offsets, TauSamples)
                     /\ TdevSum(Line(a, b), TauSamples) = TdevSum(Offsets, TauSamples))
    BY SumsAgree
<1> QED BY <1>1, Invariance, PTL

(* The error the runs try is one of them, and the loops end where the series does. *)
LEMMA RunsDrift == SlideInv => DeviationsIgnoreDrift
<1> SUFFICES ASSUME SlideInv, stage = "insert" PROVE DeviationsIgnoreDrift
    BY DEF DeviationsIgnoreDrift
<1> DEFINE n == Len(samples)
           m == TauSamples
<1>1. m \in Nat /\ m > 0 /\ n \in Nat
    BY TauSamplesType, SampleFacts DEF SlideInv, Running
<1>2. Drifting = Line(3, 2)
    BY DEF Drifting, Line
<1>3. AdevSum(Drifting, m) = AdevSum(Offsets, m) /\ TdevSum(Drifting, m) = TdevSum(Offsets, m)
    BY <1>2, SumsAgree
<1> HIDE DEF n, m
<1>4. 2 * m < n => 1 \in AdevStarts(n, m) /\ n - 2 * m \in AdevStarts(n, m)
    BY <1>1 DEF AdevStarts
<1>5. 3 * m <= n => 1 \in TdevStarts(n, m) /\ n - 3 * m + 1 \in TdevStarts(n, m)
    BY <1>1 DEF TdevStarts
<1> QED BY <1>3, <1>4, <1>5 DEF DeviationsIgnoreDrift, m, n

(* The property of the runs, for any series and window: the sums do not see the drift,
   and their loops start at the first sample and end at the last. *)
THEOREM DriftIgnored == Spec => []DeviationsIgnoreDrift
BY Invariance, RunsDrift, PTL
=============================================================================
