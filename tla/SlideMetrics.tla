---------------------------- MODULE SlideMetrics ----------------------------
(***************************************************************************)
(* The sliding windows of src/internal/app/window_metrics.go: a ticker     *)
(* starts a cycle that goes through the tables and active nodes, fetches   *)
(* the samples of each, and stores MTIE, TDEV and ADEV for each length of  *)
(* the window.                                                             *)
(*                                                                         *)
(* CalculateMTIE is the loop over samples with its two monotonic deques,   *)
(* one action per iteration of each inner loop.  TDEV and ADEV are the     *)
(* sums of squares their roots are taken of.  Times and offsets are        *)
(* integers; the rounding of float64 is left out.                          *)
(***************************************************************************)
EXTENDS Integers, Sequences, FiniteSetsExt

CONSTANTS
    Tables,     \* the keys of the map tables
    Nodes,      \* node ids
    Taus,       \* tauSeconds, as a set: the windows do not depend on one another
    Series      \* what GetOffsets may return: samples in the order of time

Sample == [time : Nat, offset : Int]

ASSUME SeriesAssumption ==
    /\ Taus \subseteq Nat \ {0}
    /\ Series \subseteq Seq(Sample)
    /\ \A s \in Series : \A i, j \in DOMAIN s : i <= j => s[i].time <= s[j].time

VARIABLES
    stage,      \* where the goroutine is
    cancelled,  \* the context is done
    todo,       \* <<table, node>> left in this cycle
    pair,       \* the one at work
    samples,    \* its samples
    taus,       \* the windows left for it
    tau,        \* the one at work
    right, left, maxDeque, minDeque, mtie,   \* locals of CalculateMTIE
    rows,       \* history: <<pair, tau>> stored in this cycle
    given       \* history: <<pair, tau>> given up in this cycle, for an error or few samples

control == <<stage, cancelled, todo, pair, samples, taus, tau, rows, given>>
mtieVars == <<right, left, maxDeque, minDeque, mtie>>
vars == <<control, mtieVars>>

Pairs == Tables \X Nodes

LocalsReused(first) == /\ right' = first /\ left' = first             \* faulty variant
                       /\ UNCHANGED <<maxDeque, minDeque>> /\ mtie' = 0

(* The locals of CalculateMTIE while it does not run, and when its loop begins. *)
Locals(first) == /\ right' = first /\ left' = first
                 /\ maxDeque' = <<>> /\ minDeque' = <<>> /\ mtie' = 0

Init ==
    /\ stage = "wait"
    /\ cancelled = FALSE
    /\ todo = {}
    /\ pair \in Pairs
    /\ samples = <<>>
    /\ taus = {}
    /\ tau = 0
    /\ right = 0 /\ left = 0 /\ maxDeque = <<>> /\ minDeque = <<>> /\ mtie = 0
    /\ rows = {}
    /\ given = Pairs \X Taus

-----------------------------------------------------------------------------
(* Run and calculateSlideWindows *)

Cancel ==
    /\ ~cancelled
    /\ cancelled' = TRUE
    /\ UNCHANGED <<stage, todo, pair, samples, taus, tau, rows, given, mtieVars>>

Stop ==
    /\ stage = "wait"
    /\ cancelled
    /\ stage' = "stopped"
    /\ UNCHANGED <<cancelled, todo, pair, samples, taus, tau, rows, given, mtieVars>>

(* A tick: GetNodeIDList returns the active nodes, or an error that ends the cycle. *)
StartCycle ==
    /\ stage = "wait"
    /\ \/ /\ \E active \in SUBSET Nodes :
               /\ ~cancelled
               /\ todo' = Tables \X active
               /\ given' = (Pairs \ todo') \X Taus
          /\ stage' = "next"
       \/ /\ todo' = {}
          /\ given' = Pairs \X Taus
          /\ stage' = "wait"
    /\ rows' = {}
    /\ UNCHANGED <<cancelled, pair, samples, taus, tau, mtieVars>>

(* The order of the tables is that of a Go map; all nodes of a table come together. *)
Following == {p \in todo : \A q \in todo : q[1] = pair[1] => p[1] = pair[1]}

EndCycle ==
    /\ stage = "next"
    /\ todo = {}
    /\ stage' = "wait"
    /\ UNCHANGED <<cancelled, todo, pair, samples, taus, tau, rows, given, mtieVars>>

(* GetOffsets returned an error, or fewer than three samples: continue. *)
Skip ==
    /\ stage = "next"
    /\ \E p \in Following :
        /\ todo' = todo \ {p}
        /\ pair' = p
        /\ given' = given \cup ({p} \X Taus)
    /\ UNCHANGED <<stage, cancelled, samples, taus, tau, rows, mtieVars>>

Fetch ==
    /\ stage = "next"
    /\ ~cancelled
    /\ \E p \in Following, s \in Series :
        /\ Len(s) >= 3
        /\ todo' = todo \ {p}
        /\ pair' = p
        /\ samples' = s
        /\ taus' = Taus
    /\ stage' = "tau"
    /\ UNCHANGED <<cancelled, tau, rows, given, mtieVars>>

(* The next window of the pair: CalculateMTIE starts. *)
NextTau ==
    /\ stage = "tau"
    /\ \E t \in taus :
        /\ tau' = t
        /\ taus' = taus \ {t}
    /\ Locals(1)
    /\ stage' = "popMax"
    /\ UNCHANGED <<cancelled, todo, pair, samples, rows, given>>

EndPair ==
    /\ stage = "tau"
    /\ taus = {}
    /\ samples' = <<>>
    /\ stage' = "next"
    /\ UNCHANGED <<cancelled, todo, pair, taus, tau, rows, given, mtieVars>>

LeavePair == "next"                                                   \* faulty variant
AfterInsertError == "tau"

InsertSlideMetrics ==
    /\ stage = "insert"
    /\ \/ /\ ~cancelled
          /\ rows' = rows \cup {<<pair, tau>>}
          /\ stage' = "tau"
          /\ UNCHANGED given
       \/ /\ given' = given \cup {<<pair, tau>>}
          /\ stage' = AfterInsertError
          /\ UNCHANGED rows
    /\ tau' = 0
    /\ Locals(0)
    /\ UNCHANGED <<cancelled, todo, pair, samples, taus>>

-----------------------------------------------------------------------------
(* CalculateMTIE *)

Offset(i) == samples[i].offset
Time(i)   == samples[i].time
Last(dq)  == dq[Len(dq)]
Front(dq) == SubSeq(dq, 1, Len(dq) - 1)

BackNoLarger  == maxDeque # <<>> /\ Offset(Last(maxDeque)) <= Offset(right)
BackNoSmaller == minDeque # <<>> /\ Offset(Last(minDeque)) >= Offset(right)

PopMax ==
    /\ stage = "popMax"
    /\ BackNoLarger
    /\ maxDeque' = Front(maxDeque)
    /\ UNCHANGED <<control, right, left, minDeque, mtie>>

PushMax ==
    /\ stage = "popMax"
    /\ ~BackNoLarger
    /\ maxDeque' = Append(maxDeque, right)
    /\ stage' = "popMin"
    /\ UNCHANGED <<cancelled, todo, pair, samples, taus, tau, rows, given, right, left, minDeque, mtie>>

PopMin ==
    /\ stage = "popMin"
    /\ BackNoSmaller
    /\ minDeque' = Front(minDeque)
    /\ UNCHANGED <<control, right, left, maxDeque, mtie>>

PushMin ==
    /\ stage = "popMin"
    /\ ~BackNoSmaller
    /\ minDeque' = Append(minDeque, right)
    /\ stage' = "shrink"
    /\ UNCHANGED <<cancelled, todo, pair, samples, taus, tau, rows, given, right, left, maxDeque, mtie>>

TooWide == left < right /\ Time(right) - Time(left) > tau

Shrink ==
    /\ stage = "shrink"
    /\ TooWide
    /\ left' = left + 1
    /\ stage' = "trim"
    /\ UNCHANGED <<cancelled, todo, pair, samples, taus, tau, rows, given, right, maxDeque, minDeque, mtie>>

HasOldLate(dq) == dq # <<>> /\ Head(dq) < left - 1                   \* faulty variant
HasOld(dq) == dq # <<>> /\ Head(dq) < left

TrimMax ==
    /\ stage = "trim"
    /\ HasOld(maxDeque)
    /\ maxDeque' = Tail(maxDeque)
    /\ UNCHANGED <<control, right, left, minDeque, mtie>>

TrimMin ==
    /\ stage = "trim"
    /\ ~HasOld(maxDeque)
    /\ HasOld(minDeque)
    /\ minDeque' = Tail(minDeque)
    /\ UNCHANGED <<control, right, left, maxDeque, mtie>>

Trimmed ==
    /\ stage = "trim"
    /\ ~HasOld(maxDeque) /\ ~HasOld(minDeque)
    /\ stage' = "shrink"
    /\ UNCHANGED <<cancelled, todo, pair, samples, taus, tau, rows, given, mtieVars>>

Spread == IF maxDeque = <<>> \/ minDeque = <<>> THEN 0
          ELSE Offset(Head(maxDeque)) - Offset(Head(minDeque))

Measure ==
    /\ stage = "shrink"
    /\ ~TooWide
    /\ mtie' = IF Spread > mtie THEN Spread ELSE mtie
    /\ IF right = Len(samples) THEN stage' = "insert" /\ UNCHANGED right
                               ELSE stage' = "popMax" /\ right' = right + 1
    /\ UNCHANGED <<cancelled, todo, pair, samples, taus, tau, rows, given, left, maxDeque, minDeque>>

MtieStep == PopMax \/ PushMax \/ PopMin \/ PushMin \/ Shrink \/ TrimMax \/ TrimMin \/ Trimmed \/ Measure

Next == \/ Cancel \/ Stop \/ StartCycle \/ EndCycle \/ Skip \/ Fetch \/ NextTau \/ EndPair
        \/ InsertSlideMetrics \/ MtieStep

Spec == Init /\ [][Next]_vars

-----------------------------------------------------------------------------
(* CalculateTDEV and CalculateADEV *)

(* tau as a number of samples: tau over the average gap, rounded down, at least 1. *)
TauSamples ==
    LET span    == Time(Len(samples)) - Time(1)
        fitting == IF span = 0 THEN tau ELSE (tau * (Len(samples) - 1)) \div span
    IN  IF fitting < 1 THEN 1 ELSE fitting

Square(v) == v * v

Slope(x, i, m) == x[i + 2 * m] - x[i + m] + x[i]                      \* faulty variant
SecondDifference(x, i, m) == x[i + 2 * m] - 2 * x[i + m] + x[i]

(* The positions the loops start from, none where the series is too short. *)
AdevStarts(n, m) == {i \in 1..n : i + 2 * m <= n}
TdevStarts(n, m) == {i \in 1..n : i + 3 * m <= n + 1}

AdevSum(x, m) ==
    SumFunction([i \in AdevStarts(Len(x), m) |-> Square(SecondDifference(x, i, m))])

TdevSum(x, m) ==
    SumFunction([i \in TdevStarts(Len(x), m) |->
                    Square(SumFunction([j \in 0..(m - 1) |-> SecondDifference(x, i + j, m)]))])

-----------------------------------------------------------------------------
(* Properties *)

Indexes  == 1..Len(samples)
Deque(dq) == /\ dq \in Seq(Indexes)
             /\ \A i, j \in DOMAIN dq : i < j => dq[i] < dq[j]

(* Every variable keeps its shape; the deques hold positions of the series in
   ascending order. *)
SlideTypeOK ==
    /\ stage \in {"wait", "next", "tau", "popMax", "popMin", "shrink", "trim", "insert", "stopped"}
    /\ cancelled \in BOOLEAN
    /\ todo \subseteq Pairs
    /\ pair \in Pairs
    /\ samples \in Seq(Sample)
    /\ taus \subseteq Taus
    /\ tau \in Taus \cup {0}
    /\ right \in 0..Len(samples) /\ left \in 0..right
    /\ Deque(maxDeque) /\ Deque(minDeque)
    /\ mtie \in Nat
    /\ rows \subseteq Pairs \X Taus
    /\ given \subseteq Pairs \X Taus

Together(i, j) == Time(i) - Time(j) <= tau /\ Time(j) - Time(i) <= tau

Spreads == {Offset(p[1]) - Offset(p[2]) :
              p \in {q \in Indexes \X Indexes : Together(q[1], q[2])}}

(* MTIE is the largest difference of two offsets that lie at most tau apart in time:
   the deques never lose the extremes of a window, nor keep one that has left it. *)
MtieIsWidestSpread == stage = "insert" => mtie = Max(Spreads)

Offsets  == [i \in Indexes |-> Offset(i)]
Drifting == [i \in Indexes |-> Offset(i) + 3 + 2 * i]

(* ADEV and TDEV measure the instability of a clock: they do not see a constant offset
   or a constant frequency error, as long as samples are evenly spaced.  Their loops
   stay inside the series and use its first and its last sample. *)
DeviationsIgnoreDrift ==
    stage = "insert" =>
        LET n == Len(samples)
            m == TauSamples
        IN  /\ AdevSum(Drifting, m) = AdevSum(Offsets, m)
            /\ TdevSum(Drifting, m) = TdevSum(Offsets, m)
            /\ 2 * m < n => 1 \in AdevStarts(n, m) /\ n - 2 * m \in AdevStarts(n, m)
            /\ 3 * m <= n => 1 \in TdevStarts(n, m) /\ n - 3 * m + 1 \in TdevStarts(n, m)

(* One failing statement costs its own rows and no others: after a cycle each window of
   each pair was stored or given up for a reason of its own. *)
CycleComplete == stage = "wait" => rows \cup given = Pairs \X Taus
=============================================================================
