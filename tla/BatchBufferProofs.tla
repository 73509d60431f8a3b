------------------------- MODULE BatchBufferProofs --------------------------
(***************************************************************************)
(* Proofs about BatchBuffer, for every number of writers, tables, rows and *)
(* failures.                                                               *)
(***************************************************************************)
EXTENDS BatchBuffer, SequenceTheorems, FiniteSetTheorems, TLAPS

-----------------------------------------------------------------------------
(* Sequences without repetitions: the rows of a buffer *)

(* Joining two sequences that share nothing: rows put back before newer ones. *)
LEMMA Joined ==
    ASSUME NEW S, NEW s \in Seq(S), NEW t \in Seq(S), IsInjective(s), IsInjective(t),
           ToSet(s) \cap ToSet(t) = {}
    PROVE  /\ s \o t \in Seq(S)
           /\ IsInjective(s \o t)
           /\ ToSet(s \o t) = ToSet(s) \cup ToSet(t)
<1> DEFINE u == s \o t
           n == Len(s)
<1>1. /\ u \in Seq(S)
      /\ DOMAIN u = 1..(n + Len(t))
      /\ n \in Nat /\ Len(t) \in Nat
      /\ DOMAIN s = 1..n
      /\ DOMAIN t = 1..Len(t)
      /\ \A i \in 1..n : u[i] = s[i]
      /\ \A i \in (n + 1)..(n + Len(t)) : u[i] = t[i - n]
    BY ConcatProperties
<1> HIDE DEF u, n
<1>2. ASSUME NEW i \in DOMAIN u
      PROVE  \/ i \in DOMAIN s /\ u[i] = s[i] /\ u[i] \in ToSet(s)
             \/ i - n \in DOMAIN t /\ i > n /\ u[i] = t[i - n] /\ u[i] \in ToSet(t)
    <2>1. CASE i <= n
        BY <2>1, <1>1 DEF ToSet
    <2>2. CASE i > n
        <3>1. i - n \in DOMAIN t /\ i \in (n + 1)..(n + Len(t))
            BY <2>2, <1>1
        <3> QED BY <3>1, <2>2, <1>1 DEF ToSet
    <2> QED BY <2>1, <2>2, <1>1
<1>3. ASSUME NEW i \in DOMAIN u, NEW k \in DOMAIN u, u[i] = u[k]
      PROVE  i = k
    <2>1. CASE i \in DOMAIN s /\ k \in DOMAIN s
        BY <2>1, <1>1, <1>3 DEF IsInjective
    <2>2. CASE i - n \in DOMAIN t /\ k - n \in DOMAIN t /\ i > n /\ k > n
        <3>1. u[i] = t[i - n] /\ u[k] = t[k - n]
            BY <2>2, <1>1
        <3>2. i - n = k - n
            BY <3>1, <2>2, <1>3 DEF IsInjective
        <3> QED BY <3>2, <1>1
    <2> QED BY <1>2, <1>3, <2>1, <2>2
<1>4. IsInjective(u)
    BY <1>3 DEF IsInjective
<1>5. ToSet(u) = ToSet(s) \cup ToSet(t)
    <2>1. \A i \in DOMAIN s : s[i] \in ToSet(u)
        BY <1>1 DEF ToSet
    <2>2. \A i \in DOMAIN t : t[i] \in ToSet(u)
        <3> TAKE i \in DOMAIN t
        <3>1. i + n \in (n + 1)..(n + Len(t)) /\ (i + n) - n = i
            BY <1>1
        <3>2. u[i + n] = t[i] /\ i + n \in DOMAIN u
            BY <3>1, <1>1
        <3> QED BY <3>2 DEF ToSet
    <2> QED BY <1>2, <2>1, <2>2 DEF ToSet
<1> QED BY <1>1, <1>4, <1>5 DEF u

(* Appending a new row: a sequence of one is joined to the buffer. *)
LEMMA PushBack ==
    ASSUME NEW S, NEW s \in Seq(S), NEW e \in S, IsInjective(s), e \notin ToSet(s)
    PROVE  /\ Append(s, e) \in Seq(S)
           /\ IsInjective(Append(s, e))
           /\ ToSet(Append(s, e)) = ToSet(s) \cup {e}
<1> DEFINE one == <<e>>
<1>1. one \in Seq(S) /\ DOMAIN one = {1} /\ one[1] = e
    OBVIOUS
<1>2. Append(s, e) = s \o one
    OBVIOUS
<1> HIDE DEF one
<1>3. IsInjective(one) /\ ToSet(one) = {e}
    BY <1>1 DEF IsInjective, ToSet
<1>4. ToSet(s) \cap ToSet(one) = {}
    BY <1>3
<1> QED BY <1>1, <1>2, <1>3, <1>4, Joined

-----------------------------------------------------------------------------
(* The inductive invariant.  No part of it is inductive alone: that a row is not
   lost needs its only holder, and that duplicates are explained needs to know
   that a row a flush is copying is nowhere else. *)
IInv == TypeOK /\ OneHolder /\ NoRowLost /\ DuplicatesExplained

(* Where a flusher goes after a flush: it holds no rows any more. *)
LEMMA NextPlace ==
    ASSUME TypeOK, NEW p \in Flusher
    PROVE  /\ AfterOk(p) \in ProcState
           /\ AfterOk(p).rows = <<>>
           /\ AfterOk(p).at \in {"ready", "swap", "exited"}
           /\ AfterError(p) \in ProcState
           /\ AfterError(p).rows = <<>>
           /\ AfterError(p).at \in {"ready", "exited"}
<1>1. proc[p] \in ProcState /\ 1 \in Tables /\ <<>> \in Seq(Row)
    BY BatchAssumption DEF TypeOK, Tables
<1>2. proc[p].table < TableCount => proc[p].table + 1 \in Tables
    BY <1>1, BatchAssumption DEF ProcState, Tables
<1>3. Ready \in ProcState /\ Ready.rows = <<>> /\ Ready.at = "ready"
    BY <1>1 DEF Ready, ProcState
<1>4. [Ready EXCEPT !.at = "exited"] \in ProcState
    BY <1>1 DEF Ready, ProcState
<1>5. /\ FlushAllStart(proc[p].final) \in ProcState
      /\ FlushAllStart(proc[p].final).rows = <<>>
      /\ FlushAllStart(proc[p].final).at = "swap"
    BY <1>1 DEF FlushAllStart, Ready, ProcState
<1>6. ASSUME proc[p].table < TableCount
      PROVE  [FlushAllStart(proc[p].final) EXCEPT !.table = proc[p].table + 1] \in ProcState
    BY <1>1, <1>2, <1>6 DEF FlushAllStart, Ready, ProcState
<1>7. /\ [Ready EXCEPT !.at = "exited"].rows = <<>>
      /\ [Ready EXCEPT !.at = "exited"].at = "exited"
      /\ [FlushAllStart(proc[p].final) EXCEPT !.table = proc[p].table + 1].rows = <<>>
      /\ [FlushAllStart(proc[p].final) EXCEPT !.table = proc[p].table + 1].at = "swap"
    BY DEF FlushAllStart, Ready
<1> QED BY <1>3, <1>4, <1>5, <1>6, <1>7 DEF AfterOk, AfterError

(* An empty sequence holds no row. *)
LEMMA NoRows == ToSet(<<>>) = {} /\ IsInjective(<<>>)
BY DEF ToSet, IsInjective

(* What the type invariant says of a single table and of a single flusher. *)
LEMMA Types ==
    ASSUME TypeOK
    PROVE  /\ \A t \in Tables : /\ accepted[t] \in Nat
                                /\ accepted[t] \in 0..MaxRows
                                /\ buf[t] \in Seq(Row)
                                /\ \A r \in Row : copies[t][r] \in Nat
           /\ \A p \in Flusher : /\ proc[p] \in ProcState
                                 /\ proc[p].rows \in Seq(Row)
                                 /\ proc[p].table \in Tables
           /\ Row \subseteq Nat /\ lostAcks \in Nat
BY BatchAssumption DEF TypeOK, ProcState, Row

(* Nothing is inserted, buffered or in hand at the start. *)
LEMMA InitIInv == Init => IInv
<1> SUFFICES ASSUME Init PROVE IInv
    OBVIOUS
<1>1. 1 \in Tables /\ <<>> \in Seq(Row) /\ ToSet(<<>>) = {} /\ IsInjective(<<>>)
    BY BatchAssumption, NoRows DEF Tables
<1>2. Ready \in ProcState /\ Ready.rows = <<>> /\ Ready.table = 1
    BY <1>1 DEF Ready, ProcState
<1>3. TypeOK
    <2>1. accepted \in [Tables -> 0..MaxRows]
        BY BatchAssumption DEF Init
    <2>2. buf \in [Tables -> Seq(Row)]
        BY <1>1 DEF Init
    <2>3. proc \in [Flusher -> ProcState] /\ \A p \in Flusher : proc[p].rows = <<>>
        BY <1>2 DEF Init
    <2>4. copies \in [Tables -> [Row -> Nat]]
        BY DEF Init
    <2>5. faults \in 0..MaxFaults /\ lostAcks \in Nat
        BY BatchAssumption DEF Init
    <2>6. ctxDone \in BOOLEAN
        BY DEF Init
    <2> QED BY <2>1, <2>2, <2>3, <2>4, <2>5, <2>6 DEF TypeOK
<1>4. \A t \in Tables, r \in Row : ~Buffered(t, r) /\ \A p \in Flusher : ~InHand(p, t, r)
    BY <1>1, <1>2 DEF Init, Buffered, InHand
<1>5. OneHolder
    BY <1>1, <1>2, <1>4 DEF Init, OneHolder
<1>6. NoRowLost
    BY DEF Init, NoRowLost
<1>7. DuplicatesExplained
    BY <1>4, BatchAssumption DEF Init, DuplicatesExplained, Row
<1> QED BY <1>3, <1>5, <1>6, <1>7 DEF IInv

(* Steps that move no row: every flusher keeps the rows it holds, and its table
   while it holds any. *)
LEMMA SameHands ==
    ASSUME \A p \in Flusher : /\ proc'[p].rows = proc[p].rows
                              /\ proc[p].rows # <<>> => proc'[p].table = proc[p].table
    PROVE  \A p \in Flusher, t \in Tables, r \in Row : InHand(p, t, r)' <=> InHand(p, t, r)
BY NoRows DEF InHand

(* Steps that move no row and store none keep the three safety invariants. *)
LEMMA NoMoveKeeps ==
    ASSUME IInv, UNCHANGED <<accepted, buf, copies, lostAcks>>,
           \A p \in Flusher : /\ proc'[p].rows = proc[p].rows
                              /\ proc[p].rows # <<>> => proc'[p].table = proc[p].table
    PROVE  OneHolder' /\ NoRowLost' /\ DuplicatesExplained'
<1>1. \A p \in Flusher, t \in Tables, r \in Row : InHand(p, t, r)' <=> InHand(p, t, r)
    BY SameHands
<1>2. \A t \in Tables, r \in Row : Buffered(t, r)' <=> Buffered(t, r)
    BY DEF Buffered
<1>3. \A t \in Tables : 1..accepted[t] \subseteq Row
    BY Types, BatchAssumption DEF IInv, Row
<1>4. NoRowLost'
    <2> SUFFICES ASSUME NEW t \in Tables, NEW r \in 1..accepted[t]
                 PROVE  Buffered(t, r)' \/ copies[t][r] > 0 \/ \E p \in Flusher : InHand(p, t, r)'
        BY DEF NoRowLost
    <2>1. r \in Row
        BY <1>3
    <2> QED BY <2>1, <1>1, <1>2 DEF IInv, NoRowLost
<1>5. DuplicatesExplained'
    BY <1>1, <1>2 DEF IInv, DuplicatesExplained
<1>6. OneHolder'
    BY <1>1, <1>2 DEF IInv, OneHolder
<1> QED BY <1>4, <1>5, <1>6

(* Insert appends a row that no buffer, flush or database has. *)
LEMMA InsertKeeps ==
    ASSUME NEW w \in Writers, NEW t \in Tables, IInv, Insert(w, t)
    PROVE  IInv'
<1> DEFINE n == accepted[t] + 1
<1>1. /\ n \in Row /\ n \in 0..MaxRows /\ n = accepted[t] + 1
      /\ accepted' = [accepted EXCEPT ![t] = n]
      /\ accepted'[t] = n
      /\ \A k \in Tables \ {t} : accepted'[k] = accepted[k]
      /\ \A k \in Tables : accepted[k] \in Nat /\ accepted'[k] \in Nat
                           /\ accepted[k] <= accepted'[k] /\ 1..accepted'[k] \subseteq Row
    <2>1. accepted \in [Tables -> 0..MaxRows] /\ MaxRows \in Nat /\ accepted[t] < MaxRows
        BY BatchAssumption DEF IInv, TypeOK, Insert
    <2>2. n \in Row /\ n \in 0..MaxRows /\ n = accepted[t] + 1
        BY <2>1 DEF Row
    <2>3. accepted' = [accepted EXCEPT ![t] = n]
        BY DEF Insert
    <2>4. accepted'[t] = n /\ \A k \in Tables \ {t} : accepted'[k] = accepted[k]
        BY <2>1, <2>3
    <2>5. \A k \in Tables : accepted[k] \in Nat /\ accepted[k] <= MaxRows
        BY <2>1
    <2> QED BY <2>1, <2>2, <2>3, <2>4, <2>5 DEF Row
<1> HIDE DEF n
<1>2. /\ buf[t] \in Seq(Row)
      /\ buf' = [buf EXCEPT ![t] = Append(buf[t], n)]
      /\ buf'[t] = Append(buf[t], n)
      /\ \A k \in Tables \ {t} : buf'[k] = buf[k]
    BY <1>1 DEF IInv, TypeOK, Insert
<1>3. ~Buffered(t, n) /\ \A p \in Flusher : ~InHand(p, t, n)
    BY <1>1 DEF IInv, OneHolder
<1>4. IsInjective(buf[t]) /\ n \notin ToSet(buf[t])
    BY <1>3 DEF IInv, OneHolder, Buffered
<1>5. /\ buf'[t] \in Seq(Row)
      /\ IsInjective(buf'[t])
      /\ ToSet(buf'[t]) = ToSet(buf[t]) \cup {n}
    BY <1>1, <1>2, <1>4, PushBack
<1>6. w \in Flusher /\ proc \in [Flusher -> ProcState] /\ proc[w].rows = <<>>
    BY DEF IInv, TypeOK, Flusher, Insert
<1>7. PICK q \in ProcState : /\ q.rows = <<>> /\ q.at \in {"ready", "swap"}
                             /\ proc' = [proc EXCEPT ![w] = q]
    <2>1. 1 \in Tables /\ <<>> \in Seq(Row)
        BY BatchAssumption DEF Tables
    <2>2. Ready \in ProcState /\ [Ready EXCEPT !.at = "swap", !.table = t] \in ProcState
        BY <2>1 DEF Ready, ProcState
    <2>3. /\ [Ready EXCEPT !.at = "swap", !.table = t].rows = <<>>
          /\ [Ready EXCEPT !.at = "swap", !.table = t].at = "swap"
          /\ Ready.rows = <<>> /\ Ready.at = "ready"
        BY DEF Ready
    <2> QED BY <2>2, <2>3 DEF Insert
<1>8. /\ proc' \in [Flusher -> ProcState]
      /\ \A p \in Flusher : /\ proc'[p].rows = proc[p].rows
                            /\ proc[p].rows # <<>> => proc'[p].table = proc[p].table
                            /\ proc'[p].at \notin {"copying", "requeue"} => proc'[p].rows = <<>>
    BY <1>6, <1>7 DEF IInv, TypeOK
<1>9. UNCHANGED <<copies, faults, lostAcks, ctxDone>>
    BY DEF Insert
<1>10. TypeOK'
    <2>1. accepted' \in [Tables -> 0..MaxRows]
        BY <1>1 DEF IInv, TypeOK
    <2>2. buf' \in [Tables -> Seq(Row)]
        BY <1>2, <1>5 DEF IInv, TypeOK
    <2> QED BY <2>1, <2>2, <1>8, <1>9 DEF IInv, TypeOK
<1>11. \A p \in Flusher, k \in Tables, r \in Row : InHand(p, k, r)' <=> InHand(p, k, r)
    BY <1>8, SameHands
<1>12. \A k \in Tables, r \in Row : Buffered(k, r)' <=> Buffered(k, r) \/ (k = t /\ r = n)
    BY <1>2, <1>5 DEF Buffered
<1>13. OneHolder'
    <2>1. \A k \in Tables : IsInjective(buf'[k])
        BY <1>2, <1>5 DEF IInv, OneHolder
    <2>2. \A p \in Flusher : IsInjective(proc'[p].rows)
        BY <1>8 DEF IInv, OneHolder
    <2>3. \A k \in Tables, r \in Row : r <= accepted[k] => r <= accepted'[k]
        BY <1>1 DEF Row
    <2>4. n <= accepted'[t]
        BY <1>1 DEF Row
    <2> QED BY <2>1, <2>2, <2>3, <2>4, <1>3, <1>11, <1>12 DEF IInv, OneHolder
<1>14. NoRowLost'
    <2> SUFFICES ASSUME NEW k \in Tables, NEW r \in 1..accepted'[k]
                 PROVE  Buffered(k, r)' \/ copies'[k][r] > 0 \/ \E p \in Flusher : InHand(p, k, r)'
        BY DEF NoRowLost
    <2>1. r \in Row /\ (r \in 1..accepted[k] \/ (k = t /\ r = n))
        BY <1>1
    <2> QED BY <2>1, <1>9, <1>11, <1>12 DEF IInv, NoRowLost
<1>15. DuplicatesExplained'
    <2> SUFFICES ASSUME NEW k \in Tables, NEW r \in Row
                 PROVE  /\ copies'[k][r] > 0 => r <= accepted'[k]
                        /\ copies'[k][r] <= IF k \in Keyed THEN 1 ELSE 1 + lostAcks'
                        /\ copies'[k][r] > lostAcks' => /\ ~Buffered(k, r)'
                                                        /\ \A p \in Flusher : ~InHand(p, k, r)'
        BY DEF DuplicatesExplained
    <2>1. copies[k][r] \in Nat /\ lostAcks \in Nat
        BY Types DEF IInv
    <2>2. k = t /\ r = n => ~(copies[k][r] > lostAcks)
        BY <2>1, <1>1 DEF IInv, DuplicatesExplained
    <2>3. copies[k][r] > 0 => r <= accepted'[k]
        BY <1>1 DEF IInv, DuplicatesExplained, Row
    <2> QED BY <2>1, <2>2, <2>3, <1>9, <1>11, <1>12 DEF IInv, DuplicatesExplained
<1> QED BY <1>10, <1>13, <1>14, <1>15 DEF IInv

(* The ticker begins to flush. *)
LEMMA StartKeeps == ASSUME IInv, Tick \/ FinalFlush PROVE IInv'
<1>1. Ticker \in Flusher /\ proc \in [Flusher -> ProcState] /\ proc[Ticker].rows = <<>>
    BY DEF IInv, TypeOK, Flusher, Tick, FinalFlush
<1>2. PICK q \in ProcState : /\ q.rows = <<>> /\ q.at = "swap"
                             /\ proc' = [proc EXCEPT ![Ticker] = q]
    <2>1. 1 \in Tables /\ <<>> \in Seq(Row)
        BY BatchAssumption DEF Tables
    <2>2. \A final \in BOOLEAN : /\ FlushAllStart(final) \in ProcState
                                 /\ FlushAllStart(final).rows = <<>>
                                 /\ FlushAllStart(final).at = "swap"
        BY <2>1 DEF FlushAllStart, Ready, ProcState
    <2> QED BY <2>2 DEF Tick, FinalFlush
<1>3. UNCHANGED <<accepted, buf, copies, faults, lostAcks, ctxDone>>
    BY DEF Tick, FinalFlush
<1>4. TypeOK'
    BY <1>1, <1>2, <1>3 DEF IInv, TypeOK
<1>5. OneHolder' /\ NoRowLost' /\ DuplicatesExplained'
    BY <1>1, <1>2, <1>3, NoMoveKeeps
<1> QED BY <1>4, <1>5 DEF IInv

(* A flush takes a whole buffer, or finds it empty. *)
LEMMA SwapKeeps == ASSUME NEW p \in Flusher, IInv, Swap(p) PROVE IInv'
<1> DEFINE t == proc[p].table
<1>1. /\ t \in Tables /\ t = proc[p].table
      /\ proc[p] \in ProcState /\ proc[p].rows = <<>> /\ proc[p].at = "swap"
      /\ proc \in [Flusher -> ProcState]
    BY DEF IInv, TypeOK, Swap, ProcState
<1> HIDE DEF t
<1>2. UNCHANGED <<accepted, copies, faults, lostAcks, ctxDone>>
    BY DEF Swap
<1>3. CASE buf[t] = <<>>
    <2>1. buf' = buf
        BY <1>1, <1>3 DEF IInv, TypeOK, Swap
    <2>2. proc' = [proc EXCEPT ![p] = AfterOk(p)]
        BY <1>1, <1>3 DEF Swap
    <2>3. /\ proc' \in [Flusher -> ProcState]
          /\ \A k \in Flusher : /\ proc'[k].rows = proc[k].rows
                                /\ proc[k].rows # <<>> => proc'[k].table = proc[k].table
                                /\ proc'[k].at \notin {"copying", "requeue"} => proc'[k].rows = <<>>
        BY <1>1, <2>2, NextPlace DEF IInv, TypeOK
    <2>4. TypeOK'
        BY <1>2, <2>1, <2>3 DEF IInv, TypeOK
    <2>5. OneHolder' /\ NoRowLost' /\ DuplicatesExplained'
        BY <1>2, <2>1, <2>3, NoMoveKeeps
    <2> QED BY <2>4, <2>5 DEF IInv
<1>4. CASE buf[t] # <<>>
    <2>1. /\ buf' = [buf EXCEPT ![t] = <<>>]
          /\ buf' \in [Tables -> Seq(Row)]
          /\ buf'[t] = <<>>
          /\ \A k \in Tables \ {t} : buf'[k] = buf[k]
        BY <1>1 DEF IInv, TypeOK, Swap
    <2>2. PICK q \in ProcState : /\ q.rows = buf[t] /\ q.at = "copying" /\ q.table = t
                                 /\ proc' = [proc EXCEPT ![p] = q]
        <3> DEFINE q == [proc[p] EXCEPT !.at = "copying", !.rows = buf[t],
                                        !.live = ~ctxDone \/ proc[p].final]
        <3>1. proc' = [proc EXCEPT ![p] = q]
            BY <1>1, <1>4 DEF Swap
        <3>2. buf[t] \in Seq(Row) /\ (~ctxDone \/ proc[p].final) \in BOOLEAN
            BY <1>1 DEF IInv, TypeOK
        <3>3. q \in ProcState /\ q.rows = buf[t] /\ q.at = "copying" /\ q.table = t
            BY <1>1, <3>2 DEF ProcState
        <3> QED BY <3>1, <3>3
    <2>3. /\ proc' \in [Flusher -> ProcState]
          /\ proc'[p].rows = buf[t] /\ proc'[p].table = t /\ proc'[p].at = "copying"
          /\ \A k \in Flusher \ {p} : proc'[k] = proc[k]
        BY <1>1, <2>2
    <2>4. TypeOK'
        BY <1>2, <2>1, <2>3 DEF IInv, TypeOK
    <2>5. \A k \in Tables, r \in Row : Buffered(k, r)' <=> Buffered(k, r) /\ k # t
        BY <2>1, NoRows DEF Buffered
    <2>6. \A f \in Flusher, k \in Tables, r \in Row :
              InHand(f, k, r)' <=> IF f = p THEN Buffered(k, r) /\ k = t ELSE InHand(f, k, r)
        BY <2>3 DEF InHand, Buffered
    <2>7. OneHolder'
        <3>1. \A k \in Tables : IsInjective(buf'[k])
            BY <2>1, NoRows DEF IInv, OneHolder
        <3>2. \A k \in Flusher : IsInjective(proc'[k].rows)
            BY <1>1, <2>3 DEF IInv, OneHolder
        <3> QED BY <1>2, <2>5, <2>6, <3>1, <3>2 DEF IInv, OneHolder
    <2>8. NoRowLost'
        <3> SUFFICES ASSUME NEW k \in Tables, NEW r \in 1..accepted[k]
                     PROVE  Buffered(k, r)' \/ copies[k][r] > 0 \/ \E f \in Flusher : InHand(f, k, r)'
            BY <1>2 DEF NoRowLost
        <3>1. r \in Row
            BY Types, BatchAssumption DEF IInv, Row
        <3>2. \A f \in Flusher : InHand(f, k, r) => f # p
            BY <1>1, NoRows DEF InHand
        <3> QED BY <2>5, <2>6, <3>1, <3>2 DEF IInv, NoRowLost
    <2>9. DuplicatesExplained'
        BY <1>2, <2>5, <2>6 DEF IInv, DuplicatesExplained
    <2> QED BY <2>4, <2>7, <2>8, <2>9 DEF IInv
<1> QED BY <1>3, <1>4

(* The rows in the database after a commit. *)
LEMMA StoredFacts ==
    ASSUME TypeOK, NEW p \in Flusher
    PROVE  LET t == proc[p].table
           IN  \A k \in Tables, r \in Row :
                 LET c == [copies EXCEPT ![t] = Stored(t, proc[p].rows)]
                 IN  /\ c \in [Tables -> [Row -> Nat]]
                     /\ InHand(p, k, r) => c[k][r] = IF k \in Keyed /\ copies[k][r] > 0
                                                     THEN copies[k][r] ELSE copies[k][r] + 1
                     /\ ~InHand(p, k, r) => c[k][r] = copies[k][r]
<1> DEFINE t == proc[p].table
           s == Stored(t, proc[p].rows)
           c == [copies EXCEPT ![t] = s]
<1>1. t \in Tables /\ copies \in [Tables -> [Row -> Nat]]
    BY Types DEF TypeOK
<1>2. s \in [Row -> Nat]
    BY <1>1 DEF Stored
<1>3. \A r \in Row : s[r] = IF r \notin ToSet(proc[p].rows) \/ (t \in Keyed /\ copies[t][r] > 0)
                            THEN copies[t][r] ELSE copies[t][r] + 1
    BY DEF Stored
<1> HIDE DEF s
<1>4. c \in [Tables -> [Row -> Nat]] /\ c[t] = s /\ \A k \in Tables \ {t} : c[k] = copies[k]
    BY <1>1, <1>2
<1> HIDE DEF c, t
<1>5. ASSUME NEW k \in Tables, NEW r \in Row
      PROVE  InHand(p, k, r) <=> k = t /\ r \in ToSet(proc[p].rows)
    BY DEF InHand, t
<1> QED BY <1>3, <1>4, <1>5 DEF s, c, t

(* A commit, acknowledged or not: the rows are in the database once more. *)
LEMMA CommitKeeps ==
    ASSUME NEW p \in Flusher, IInv, UNCHANGED <<accepted, buf>>,
           copies' = [copies EXCEPT ![proc[p].table] = Stored(proc[p].table, proc[p].rows)],
           \A f \in Flusher \ {p} : proc'[f] = proc[f],
           \/ lostAcks' = lostAcks /\ proc'[p].rows = <<>>
           \/ /\ lostAcks' = lostAcks + 1
              /\ proc'[p].rows = proc[p].rows
              /\ proc'[p].table = proc[p].table
    PROVE  OneHolder' /\ NoRowLost' /\ DuplicatesExplained'
<1>1. \A f \in Flusher, k \in Tables, r \in Row : InHand(f, k, r)' => InHand(f, k, r)
    BY NoRows DEF InHand
<1>2. \A f \in Flusher \ {p}, k \in Tables, r \in Row : InHand(f, k, r)' <=> InHand(f, k, r)
    BY DEF InHand
<1>3. \A k \in Tables, r \in Row : Buffered(k, r)' <=> Buffered(k, r)
    BY DEF Buffered
<1>4. \A k \in Tables, r \in Row :
        /\ InHand(p, k, r) => copies'[k][r] = IF k \in Keyed /\ copies[k][r] > 0
                                              THEN copies[k][r] ELSE copies[k][r] + 1
        /\ ~InHand(p, k, r) => copies'[k][r] = copies[k][r]
    BY StoredFacts DEF IInv
<1>5. OneHolder'
    <2>1. \A f \in Flusher : IsInjective(proc'[f].rows)
        BY NoRows DEF IInv, OneHolder
    <2> QED BY <1>1, <1>3, <2>1 DEF IInv, OneHolder
<1>6. NoRowLost'
    <2> SUFFICES ASSUME NEW k \in Tables, NEW r \in 1..accepted[k]
                 PROVE  Buffered(k, r)' \/ copies'[k][r] > 0 \/ \E f \in Flusher : InHand(f, k, r)'
        BY DEF NoRowLost
    <2>1. r \in Row /\ copies[k][r] \in Nat
        BY Types, BatchAssumption DEF IInv, Row
    <2>2. copies[k][r] > 0 => copies'[k][r] > 0
        BY <2>1, <1>4
    <2>3. InHand(p, k, r) => copies'[k][r] > 0
        BY <2>1, <1>4
    <2> QED BY <2>1, <2>2, <2>3, <1>2, <1>3 DEF IInv, NoRowLost
<1>7. DuplicatesExplained'
    <2> SUFFICES ASSUME NEW k \in Tables, NEW r \in Row
                 PROVE  /\ copies'[k][r] > 0 => r <= accepted[k]
                        /\ copies'[k][r] <= IF k \in Keyed THEN 1 ELSE 1 + lostAcks'
                        /\ copies'[k][r] > lostAcks' => /\ ~Buffered(k, r)'
                                                        /\ \A f \in Flusher : ~InHand(f, k, r)'
        BY DEF DuplicatesExplained
    <2>1. copies[k][r] \in Nat /\ lostAcks \in Nat
        BY Types DEF IInv
    <2>2. /\ copies[k][r] > 0 => r <= accepted[k]
          /\ copies[k][r] <= IF k \in Keyed THEN 1 ELSE 1 + lostAcks
          /\ copies[k][r] > lostAcks => /\ ~Buffered(k, r)
                                        /\ \A f \in Flusher : ~InHand(f, k, r)
        BY DEF IInv, DuplicatesExplained
    <2>3. CASE InHand(p, k, r)
        <3>1. /\ r <= accepted[k] /\ ~Buffered(k, r)
              /\ \A f \in Flusher \ {p} : ~InHand(f, k, r)
            BY <2>3 DEF IInv, OneHolder
        <3>2. copies[k][r] <= lostAcks
            BY <2>1, <2>2, <2>3
        <3>3. /\ copies'[k][r] \in Nat /\ copies'[k][r] <= lostAcks + 1
              /\ k \in Keyed => copies'[k][r] <= 1
            BY <2>1, <2>2, <2>3, <3>2, <1>4
        <3>4. CASE lostAcks' = lostAcks /\ proc'[p].rows = <<>>
            <4>1. ~InHand(p, k, r)'
                BY <3>4, NoRows DEF InHand
            <4> QED BY <2>1, <3>1, <3>3, <3>4, <4>1, <1>1, <1>3
        <3>5. CASE lostAcks' = lostAcks + 1
            BY <2>1, <3>1, <3>3, <3>5
        <3> QED BY <3>4, <3>5
    <2>4. CASE ~InHand(p, k, r)
        <3>1. copies'[k][r] = copies[k][r] /\ lostAcks <= lostAcks'
            BY <2>1, <2>4, <1>4
        <3>2. lostAcks' \in Nat
            BY <2>1
        <3> QED BY <2>1, <2>2, <3>1, <3>2, <1>1, <1>3
    <2> QED BY <2>3, <2>4
<1> QED BY <1>5, <1>6, <1>7

(* The copy succeeds. *)
LEMMA CopySucceedsKeeps == ASSUME NEW p \in Flusher, IInv, CopySucceeds(p) PROVE IInv'
<1>1. /\ copies' = [copies EXCEPT ![proc[p].table] = Stored(proc[p].table, proc[p].rows)]
      /\ copies' \in [Tables -> [Row -> Nat]]
    <2>1. [copies EXCEPT ![proc[p].table] = Stored(proc[p].table, proc[p].rows)]
              \in [Tables -> [Row -> Nat]]
        <3>1. proc[p].table \in Tables
            BY Types DEF IInv
        <3>2. Stored(proc[p].table, proc[p].rows) \in [Row -> Nat]
            BY <3>1 DEF IInv, TypeOK, Stored
        <3> QED BY <3>1, <3>2 DEF IInv, TypeOK
    <2> QED BY <2>1 DEF CopySucceeds
<1>2. /\ proc' \in [Flusher -> ProcState]
      /\ proc'[p] = AfterOk(p)
      /\ \A f \in Flusher \ {p} : proc'[f] = proc[f]
    BY NextPlace DEF IInv, TypeOK, CopySucceeds
<1>3. UNCHANGED <<accepted, buf, faults, lostAcks, ctxDone>>
    BY DEF CopySucceeds
<1>4. AfterOk(p).rows = <<>>
    BY NextPlace DEF IInv
<1>5. TypeOK'
    BY <1>1, <1>2, <1>3, <1>4 DEF IInv, TypeOK
<1>6. OneHolder' /\ NoRowLost' /\ DuplicatesExplained'
    BY <1>1, <1>2, <1>3, <1>4, CommitKeeps
<1> QED BY <1>5, <1>6 DEF IInv

(* An error raises the count of failures within its bound, or not at all. *)
LEMMA ErrorBounded ==
    ASSUME TypeOK, NEW p \in Flusher, Error(p)
    PROVE  faults' \in 0..MaxFaults
BY BatchAssumption DEF TypeOK, Error

(* The copy fails and nothing was stored. *)
LEMMA CopyFailsKeeps == ASSUME NEW p \in Flusher, IInv, CopyFails(p) PROVE IInv'
<1>1. /\ proc \in [Flusher -> ProcState] /\ proc[p] \in ProcState
      /\ proc' = [proc EXCEPT ![p] = [proc[p] EXCEPT !.at = "requeue"]]
    BY DEF IInv, TypeOK, CopyFails
<1>2. /\ [proc[p] EXCEPT !.at = "requeue"] \in ProcState
      /\ [proc[p] EXCEPT !.at = "requeue"].at = "requeue"
      /\ [proc[p] EXCEPT !.at = "requeue"].rows = proc[p].rows
      /\ [proc[p] EXCEPT !.at = "requeue"].table = proc[p].table
    BY <1>1 DEF ProcState
<1>3. /\ proc' \in [Flusher -> ProcState]
      /\ \A f \in Flusher : /\ proc'[f].rows = proc[f].rows
                            /\ proc'[f].table = proc[f].table
                            /\ proc'[f].at \notin {"copying", "requeue"} => proc'[f].rows = <<>>
    BY <1>1, <1>2 DEF IInv, TypeOK
<1>4. UNCHANGED <<accepted, buf, copies, lostAcks, ctxDone>> /\ faults' \in 0..MaxFaults
    BY ErrorBounded DEF IInv, CopyFails
<1>5. TypeOK'
    BY <1>3, <1>4 DEF IInv, TypeOK
<1>6. OneHolder' /\ NoRowLost' /\ DuplicatesExplained'
    BY <1>3, <1>4, NoMoveKeeps
<1> QED BY <1>5, <1>6 DEF IInv

(* The copy is stored, but the flush does not learn it. *)
LEMMA CommitLosesAckKeeps ==
    ASSUME NEW p \in Flusher, IInv, CommitLosesAck(p) PROVE IInv'
<1>1. /\ copies' = [copies EXCEPT ![proc[p].table] = Stored(proc[p].table, proc[p].rows)]
      /\ copies' \in [Tables -> [Row -> Nat]]
    <2>1. proc[p].table \in Tables
        BY Types DEF IInv
    <2>2. Stored(proc[p].table, proc[p].rows) \in [Row -> Nat]
        BY <2>1 DEF IInv, TypeOK, Stored
    <2>3. copies' = [copies EXCEPT ![proc[p].table] = Stored(proc[p].table, proc[p].rows)]
        BY DEF CommitLosesAck
    <2> QED BY <2>1, <2>2, <2>3 DEF IInv, TypeOK
<1>2. /\ proc \in [Flusher -> ProcState] /\ proc[p] \in ProcState
      /\ proc' = [proc EXCEPT ![p] = [proc[p] EXCEPT !.at = "requeue"]]
    BY DEF IInv, TypeOK, CommitLosesAck
<1>3. /\ [proc[p] EXCEPT !.at = "requeue"] \in ProcState
      /\ [proc[p] EXCEPT !.at = "requeue"].at = "requeue"
      /\ [proc[p] EXCEPT !.at = "requeue"].rows = proc[p].rows
      /\ [proc[p] EXCEPT !.at = "requeue"].table = proc[p].table
    BY <1>2 DEF ProcState
<1>4. /\ proc' \in [Flusher -> ProcState]
      /\ proc'[p].rows = proc[p].rows
      /\ proc'[p].table = proc[p].table
      /\ proc'[p].at = "requeue"
      /\ \A f \in Flusher \ {p} : proc'[f] = proc[f]
    BY <1>2, <1>3
<1>5. UNCHANGED <<accepted, buf, ctxDone>> /\ lostAcks' = lostAcks + 1 /\ faults' \in 0..MaxFaults
    BY ErrorBounded DEF IInv, CommitLosesAck
<1>6. lostAcks' \in Nat
    BY <1>5 DEF IInv, TypeOK
<1>7. TypeOK'
    BY <1>1, <1>4, <1>5, <1>6 DEF IInv, TypeOK
<1>8. OneHolder' /\ NoRowLost' /\ DuplicatesExplained'
    BY <1>1, <1>4, <1>5, CommitKeeps
<1> QED BY <1>7, <1>8 DEF IInv

(* The rows go back in front of the buffer: none of them is in it, so the buffer
   stays free of repetitions, and no other flush has one of them. *)
LEMMA RequeueKeeps == ASSUME NEW p \in Flusher, IInv, Requeue(p) PROVE IInv'
<1> DEFINE t == proc[p].table
           rows == proc[p].rows
<1>1. /\ t \in Tables /\ t = proc[p].table /\ rows = proc[p].rows
      /\ rows \in Seq(Row) /\ buf[t] \in Seq(Row)
      /\ buf' = [buf EXCEPT ![t] = rows \o buf[t]]
    BY Types DEF IInv, Requeue, RowsPutBack
<1> HIDE DEF t, rows
<1>2. IsInjective(rows) /\ IsInjective(buf[t]) /\ ToSet(rows) \cap ToSet(buf[t]) = {}
    <2>1. ToSet(rows) \subseteq Row
        BY <1>1 DEF ToSet
    <2>2. \A r \in ToSet(rows) : r \notin ToSet(buf[t])
        BY <1>1, <2>1 DEF IInv, OneHolder, InHand, Buffered
    <2> QED BY <1>1, <2>2 DEF IInv, OneHolder
<1>3. /\ rows \o buf[t] \in Seq(Row)
      /\ IsInjective(rows \o buf[t])
      /\ ToSet(rows \o buf[t]) = ToSet(rows) \cup ToSet(buf[t])
    BY <1>1, <1>2, Joined
<1>4. /\ buf' \in [Tables -> Seq(Row)]
      /\ buf'[t] = rows \o buf[t]
      /\ \A k \in Tables \ {t} : buf'[k] = buf[k]
    BY <1>1, <1>3 DEF IInv, TypeOK
<1>5. /\ proc' \in [Flusher -> ProcState]
      /\ proc'[p].rows = <<>>
      /\ \A f \in Flusher \ {p} : proc'[f] = proc[f]
    BY NextPlace DEF IInv, TypeOK, Requeue
<1>6. accepted' = accepted /\ copies' = copies /\ UNCHANGED <<faults, lostAcks, ctxDone>>
    BY DEF Requeue
<1>7. TypeOK'
    BY <1>4, <1>5, <1>6 DEF IInv, TypeOK
<1>8. \A k \in Tables, r \in Row : Buffered(k, r)' <=> Buffered(k, r) \/ InHand(p, k, r)
    BY <1>1, <1>3, <1>4 DEF Buffered, InHand
<1>9. \A f \in Flusher, k \in Tables, r \in Row : InHand(f, k, r)' <=> f # p /\ InHand(f, k, r)
    BY <1>5, NoRows DEF InHand
<1>10. OneHolder'
    <2>1. \A k \in Tables : IsInjective(buf'[k])
        BY <1>3, <1>4 DEF IInv, OneHolder
    <2>2. \A f \in Flusher : IsInjective(proc'[f].rows)
        BY <1>5, NoRows DEF IInv, OneHolder
    <2> QED BY <1>6, <1>8, <1>9, <2>1, <2>2 DEF IInv, OneHolder
<1>11. NoRowLost'
    <2> SUFFICES ASSUME NEW k \in Tables, NEW r \in 1..accepted[k]
                 PROVE  Buffered(k, r)' \/ copies[k][r] > 0 \/ \E f \in Flusher : InHand(f, k, r)'
        BY <1>6 DEF NoRowLost
    <2>1. r \in Row
        BY Types, BatchAssumption DEF IInv, Row
    <2> QED BY <2>1, <1>8, <1>9 DEF IInv, NoRowLost
<1>12. DuplicatesExplained'
    BY <1>6, <1>8, <1>9 DEF IInv, DuplicatesExplained
<1> QED BY <1>7, <1>10, <1>11, <1>12 DEF IInv

(* Cancelling the context moves no row. *)
LEMMA CancelKeeps == ASSUME IInv, Cancel PROVE IInv'
<1>1. UNCHANGED <<accepted, buf, proc, copies, faults, lostAcks>> /\ ctxDone' \in BOOLEAN
    BY DEF Cancel
<1>2. TypeOK'
    BY <1>1 DEF IInv, TypeOK
<1>3. OneHolder' /\ NoRowLost' /\ DuplicatesExplained'
    BY <1>1, NoMoveKeeps
<1> QED BY <1>2, <1>3 DEF IInv

(* A step that changes nothing. *)
LEMMA StutterKeeps == ASSUME IInv, UNCHANGED vars PROVE IInv'
<1>1. UNCHANGED <<accepted, buf, proc, copies, faults, lostAcks, ctxDone>>
    BY DEF vars
<1>2. TypeOK'
    BY <1>1 DEF IInv, TypeOK
<1>3. OneHolder' /\ NoRowLost' /\ DuplicatesExplained'
    BY <1>1, NoMoveKeeps
<1> QED BY <1>2, <1>3 DEF IInv

(* The invariant holds in every reachable state. *)
LEMMA Invariance == Spec => []IInv
<1>1. IInv /\ [Next]_vars => IInv'
    <2> SUFFICES ASSUME IInv, [Next]_vars PROVE IInv'
        OBVIOUS
    <2>1. ASSUME NEW w \in Writers, NEW t \in Tables, Insert(w, t) PROVE IInv'
        BY <2>1, InsertKeeps
    <2>2. CASE Tick \/ FinalFlush
        BY <2>2, StartKeeps
    <2>3. CASE Cancel
        BY <2>3, CancelKeeps
    <2>4. ASSUME NEW p \in Flusher, FlushStep(p) PROVE IInv'
        BY <2>4, SwapKeeps, CopySucceedsKeeps, CopyFailsKeeps, CommitLosesAckKeeps, RequeueKeeps
           DEF FlushStep
    <2>5. CASE UNCHANGED vars
        BY <2>5, StutterKeeps
    <2> QED BY <2>1, <2>2, <2>3, <2>4, <2>5 DEF Next
<1> QED BY InitIInv, <1>1, PTL DEF Spec

(* Every variable keeps its shape: batch_pg.go's buffers hold rows of their own
   table and only a flush in progress holds rows. *)
THEOREM TypeCorrect == Spec => []TypeOK
<1>1. IInv => TypeOK
    BY DEF IInv
<1> QED BY <1>1, Invariance, PTL

(* The swap of a flush and the requeue after its error never copy a row into two
   places, with any number of goroutines flushing the same table. *)
THEOREM RowsInOnePlace == Spec => []OneHolder
<1>1. IInv => OneHolder
    BY DEF IInv
<1> QED BY <1>1, Invariance, PTL

(* A row Insert has accepted is buffered, in the hands of a flush or stored, after
   any failures. *)
THEOREM RowsKept == Spec => []NoRowLost
<1>1. IInv => NoRowLost
    BY DEF IInv
<1> QED BY <1>1, Invariance, PTL

(* Only a commit whose answer was lost stores a row twice, and never into a table
   whose INSERT ignores conflicts. *)
THEOREM OnlyLostAcksDuplicate == Spec => []DuplicatesExplained
<1>1. IInv => DuplicatesExplained
    BY DEF IInv
<1> QED BY <1>1, Invariance, PTL

-----------------------------------------------------------------------------
(* The bound of the buffers.  It is inductive together with the fact that nothing
   is requeued before the first failure. *)
BoundInv ==
    (faults = 0 /\ ~ctxDone) =>
        /\ \A p \in Flusher : proc[p].at # "requeue"
        /\ \A t \in Tables : Len(buf[t]) < MaxSize + Cardinality(Swapping(t))

(* The writers about to flush one table are finitely many. *)
LEMMA SwappingFinite ==
    ASSUME NEW t \in Tables
    PROVE  IsFiniteSet(Swapping(t)) /\ Cardinality(Swapping(t)) \in Nat
<1>1. Swapping(t) \subseteq Writers
    BY DEF Swapping
<1> QED BY <1>1, BatchAssumption, FS_Subset, FS_CardinalityType

(* The writer whose row fills the buffer is one more that will flush it. *)
LEMMA InsertBounded ==
    ASSUME NEW w \in Writers, NEW t \in Tables, TypeOK, BoundInv, Insert(w, t)
    PROVE  BoundInv'
<1> SUFFICES ASSUME faults = 0, ~ctxDone
             PROVE  /\ \A p \in Flusher : proc'[p].at # "requeue"
                    /\ \A k \in Tables : Len(buf'[k]) < MaxSize + Cardinality(Swapping(k)')
    BY DEF BoundInv, Insert
<1>1. /\ \A p \in Flusher : proc[p].at # "requeue"
      /\ \A k \in Tables : Len(buf[k]) < MaxSize + Cardinality(Swapping(k))
    BY DEF BoundInv
<1>2. /\ proc \in [Flusher -> ProcState] /\ w \in Flusher /\ proc[w].at = "ready"
      /\ buf[t] \in Seq(Row) /\ accepted[t] + 1 \in Row
      /\ accepted'[t] = accepted[t] + 1
      /\ MaxSize \in Nat
    BY BatchAssumption DEF TypeOK, Insert, Flusher, Row
<1>3. /\ buf'[t] = Append(buf[t], accepted[t] + 1)
      /\ \A k \in Tables \ {t} : buf'[k] = buf[k]
    BY <1>2 DEF Insert, TypeOK
<1>4. Len(buf'[t]) = Len(buf[t]) + 1 /\ Len(buf[t]) \in Nat
    BY <1>2, <1>3
<1>5. CASE ShouldFlush(Len(buf'[t]))
    <2>1. /\ proc'[w].at = "swap" /\ proc'[w].table = t
          /\ \A p \in Flusher \ {w} : proc'[p] = proc[p]
        BY <1>2, <1>5 DEF Insert, Ready
    <2>2. Swapping(t)' = Swapping(t) \cup {w} /\ w \notin Swapping(t)
        BY <1>2, <2>1 DEF Swapping, Flusher
    <2>3. \A k \in Tables \ {t} : Swapping(k)' = Swapping(k)
        BY <1>2, <2>1 DEF Swapping, Flusher
    <2>4. Cardinality(Swapping(t)') = Cardinality(Swapping(t)) + 1
        BY <2>2, SwappingFinite, FS_AddElement
    <2>5. Len(buf'[t]) < MaxSize + Cardinality(Swapping(t)')
        BY <1>1, <1>2, <1>4, <2>4, SwappingFinite
    <2>6. \A p \in Flusher : proc'[p].at # "requeue"
        BY <1>1, <2>1
    <2> QED BY <1>1, <1>3, <2>3, <2>5, <2>6
<1>6. CASE ~ShouldFlush(Len(buf'[t]))
    <2>1. proc'[w].at = "ready" /\ \A p \in Flusher \ {w} : proc'[p] = proc[p]
        BY <1>2, <1>6 DEF Insert, Ready
    <2>2. \A k \in Tables : Swapping(k)' = Swapping(k)
        BY <1>2, <2>1 DEF Swapping, Flusher
    <2>3. Len(buf'[t]) < MaxSize
        BY <1>2, <1>4, <1>6 DEF ShouldFlush
    <2>4. Len(buf'[t]) < MaxSize + Cardinality(Swapping(t)')
        BY <1>2, <1>4, <2>2, <2>3, SwappingFinite
    <2>5. \A p \in Flusher : proc'[p].at # "requeue"
        BY <1>1, <2>1
    <2> QED BY <1>1, <1>3, <2>2, <2>4, <2>5
<1> QED BY <1>5, <1>6

(* A flush empties its buffer; afterwards its writer swaps nothing. *)
LEMMA SwapBounded ==
    ASSUME NEW p \in Flusher, TypeOK, BoundInv, Swap(p)
    PROVE  BoundInv'
<1> SUFFICES ASSUME faults = 0, ~ctxDone
             PROVE  /\ \A q \in Flusher : proc'[q].at # "requeue"
                    /\ \A k \in Tables : Len(buf'[k]) < MaxSize + Cardinality(Swapping(k)')
    BY DEF BoundInv, Swap
<1>0. PICK t \in Tables : t = proc[p].table
    BY Types
<1>1. /\ \A q \in Flusher : proc[q].at # "requeue"
      /\ \A k \in Tables : Len(buf[k]) < MaxSize + Cardinality(Swapping(k))
    BY DEF BoundInv
<1>2. /\ proc[p] \in ProcState
      /\ MaxSize \in Nat \ {0}
      /\ \A k \in Tables \ {t} : buf'[k] = buf[k]
      /\ buf'[t] = <<>>
    BY <1>0, Types, BatchAssumption DEF TypeOK, Swap
<1>3. /\ proc'[p].at \in {"ready", "swap", "exited", "copying"}
      /\ p # Ticker => proc'[p].at # "swap"
      /\ \A q \in Flusher \ {p} : proc'[q] = proc[q]
    <2>1. CASE buf[t] = <<>>
        <3>1. p # Ticker => AfterOk(p).at # "swap"
            BY DEF AfterOk, Ready
        <3>2. proc' = [proc EXCEPT ![p] = AfterOk(p)]
            BY <1>0, <2>1 DEF Swap
        <3> QED BY <3>1, <3>2, NextPlace DEF TypeOK
    <2>2. CASE buf[t] # <<>>
        <3> DEFINE n == [proc[p] EXCEPT !.at = "copying", !.rows = buf[t],
                                        !.live = ~ctxDone \/ proc[p].final]
        <3>1. proc' = [proc EXCEPT ![p] = n]
            BY <1>0, <2>2 DEF Swap
        <3>2. n.at = "copying"
            BY <1>2 DEF ProcState
        <3> HIDE DEF n
        <3> QED BY <3>1, <3>2 DEF TypeOK
    <2> QED BY <2>1, <2>2
<1>4. \A k \in Tables \ {t} : Swapping(k)' = Swapping(k)
    BY <1>0, <1>2, <1>3, BatchAssumption DEF Swapping, Flusher
<1>5. Cardinality(Swapping(t)') \in Nat
    <2>1. Swapping(t)' \subseteq Writers
        BY DEF Swapping
    <2> QED BY <2>1, BatchAssumption, FS_Subset, FS_CardinalityType
<1>6. Len(buf'[t]) < MaxSize + Cardinality(Swapping(t)')
    BY <1>2, <1>5
<1>7. \A q \in Flusher : proc'[q].at # "requeue"
    BY <1>1, <1>3
<1>8. \A k \in Tables \ {t} : Len(buf'[k]) < MaxSize + Cardinality(Swapping(k)')
    BY <1>1, <1>2, <1>4
<1>9. \A k \in Tables : Len(buf'[k]) < MaxSize + Cardinality(Swapping(k)')
    BY <1>6, <1>8
<1> QED BY <1>7, <1>9

(* Steps that change no buffer and neither begin nor end a swap of a writer. *)
LEMMA SameSwapsBounded ==
    ASSUME TypeOK, BoundInv, buf' = buf,
           faults' = 0 /\ ~ctxDone' => faults = 0 /\ ~ctxDone,
           faults' = 0 /\ ~ctxDone' => \A p \in Flusher : proc'[p].at = "requeue" => proc[p].at = "requeue",
           \A w \in Writers : /\ proc'[w].at = "swap" <=> proc[w].at = "swap"
                              /\ proc[w].at = "swap" => proc'[w].table = proc[w].table
    PROVE  BoundInv'
<1>1. \A t \in Tables : Swapping(t)' = Swapping(t)
    BY DEF Swapping
<1> QED BY <1>1 DEF BoundInv

(* The steps that are neither an insert nor the take of a buffer. *)
LEMMA OthersBounded ==
    ASSUME TypeOK, BoundInv,
           \/ Tick \/ FinalFlush \/ Cancel \/ UNCHANGED vars
           \/ \E p \in Flusher : CopySucceeds(p) \/ CopyFails(p) \/ CommitLosesAck(p) \/ Requeue(p)
    PROVE  BoundInv'
<1>1. CASE Tick \/ FinalFlush
    <2>1. /\ buf' = buf /\ faults' = faults /\ ctxDone' = ctxDone
          /\ \A p \in Flusher \ {Ticker} : proc'[p] = proc[p]
          /\ proc'[Ticker].at = "swap"
        BY <1>1 DEF Tick, FinalFlush, TypeOK, FlushAllStart, Ready, Flusher
    <2> QED BY <2>1, BatchAssumption, SameSwapsBounded DEF Flusher
<1>2. CASE Cancel
    BY <1>2 DEF Cancel, BoundInv
<1>3. CASE UNCHANGED vars
    BY <1>3, SameSwapsBounded DEF vars
<1>4. ASSUME NEW p \in Flusher, CopySucceeds(p) PROVE BoundInv'
    <2>1. /\ buf' = buf /\ faults' = faults /\ ctxDone' = ctxDone
          /\ proc[p].at = "copying"
          /\ \A q \in Flusher \ {p} : proc'[q] = proc[q]
          /\ proc'[p] = AfterOk(p)
        BY <1>4 DEF CopySucceeds, TypeOK
    <2>2. AfterOk(p).at # "requeue" /\ (p # Ticker => AfterOk(p).at = "ready")
        BY NextPlace DEF AfterOk, Ready
    <2> QED BY <2>1, <2>2, BatchAssumption, SameSwapsBounded DEF Flusher
<1>5. ASSUME NEW p \in Flusher, CopyFails(p) \/ CommitLosesAck(p) PROVE BoundInv'
    <2>1. Error(p) /\ ctxDone' = ctxDone /\ faults \in Nat
        BY <1>5, BatchAssumption DEF CopyFails, CommitLosesAck, TypeOK
    <2>2. ctxDone' \/ faults' # 0
        BY <2>1 DEF Error
    <2> QED BY <2>2 DEF BoundInv
<1>6. ASSUME NEW p \in Flusher, Requeue(p) PROVE BoundInv'
    <2>1. proc[p].at = "requeue" /\ UNCHANGED <<faults, ctxDone>>
        BY <1>6 DEF Requeue
    <2> QED BY <2>1 DEF BoundInv
<1> QED BY <1>1, <1>2, <1>3, <1>4, <1>5, <1>6

(* While the database has not failed, a buffer is shorter than the size that
   triggers a flush, plus one row per writer that has seen it full. *)
THEOREM BuffersBounded == Spec => []BufferBounded
<1>1. Init => BoundInv
    <2> SUFFICES ASSUME Init PROVE BoundInv
        OBVIOUS
    <2>1. \A p \in Flusher : proc[p].at = "ready"
        BY DEF Init, Ready
    <2>2. \A t \in Tables : buf[t] = <<>> /\ Len(buf[t]) = 0
        BY DEF Init
    <2> QED BY <2>1, <2>2, SwappingFinite, BatchAssumption DEF BoundInv
<1>2. TypeOK /\ BoundInv /\ [Next]_vars => BoundInv'
    <2> SUFFICES ASSUME TypeOK, BoundInv, [Next]_vars PROVE BoundInv'
        OBVIOUS
    <2>1. ASSUME NEW w \in Writers, NEW t \in Tables, Insert(w, t) PROVE BoundInv'
        BY <2>1, InsertBounded
    <2>2. ASSUME NEW p \in Flusher, FlushStep(p) PROVE BoundInv'
        BY <2>2, SwapBounded, OthersBounded DEF FlushStep
    <2>3. CASE Tick \/ FinalFlush \/ Cancel \/ UNCHANGED vars
        BY <2>3, OthersBounded
    <2> QED BY <2>1, <2>2, <2>3 DEF Next
<1>3. BoundInv => BufferBounded
    BY DEF BoundInv, BufferBounded
<1> QED BY <1>1, <1>2, <1>3, TypeCorrect, PTL DEF Spec

-----------------------------------------------------------------------------
(* Flushes end: what can be shown without fairness.  That a flush is never kept waiting
   by another one or by the writers, that each step of its own brings it nearer to its end
   whatever fails, and that the last flush leads out of Run; that such steps happen is
   the fairness TLC assumes in RunReturns. *)
InFlush(s)  == s.at \in {"swap", "copying", "requeue"}
Flushing(p) == InFlush(proc[p])

(* A flush that runs can go on, even when the database may not fail any more: the only
   copy that cannot succeed is one whose context is done, and that one returns. *)
FlushNeverStuck ==
    \A p \in Flusher : Flushing(p) =>
        \/ proc[p].at \in {"swap", "requeue"}
        \/ proc[p].at = "copying" /\ (proc[p].live \/ (ctxDone /\ ~proc[p].final))

(* How many steps a flush has left, at most: three for each table. *)
StageLeft == [ready |-> 0, exited |-> 0, swap |-> 3, copying |-> 2, requeue |-> 1]

StepsLeft(p, s) ==
    StageLeft[s.at] + (IF p = Ticker /\ InFlush(s) THEN 3 * (TableCount - s.table) ELSE 0)

FlushLeft(p) == StepsLeft(p, proc[p])

(* Every step of a flush brings it nearer to its end, a failed copy too, and no step of
   another goroutine takes it further away. *)
FlushAdvances ==
    [][\A p \in Flusher :
         /\ FlushStep(p) => FlushLeft(p)' < FlushLeft(p)
         /\ Flushing(p) => FlushLeft(p)' <= FlushLeft(p)]_vars

(* The flush of a Run that is about to return never becomes one of a Run that goes on:
   it stays the last one until Run has returned, and Run does not come back. *)
LastFlushIsLast ==
    [][/\ proc[Ticker].final => proc'[Ticker].final \/ proc'[Ticker].at = "exited"
       /\ proc[Ticker].at = "exited" => proc'[Ticker].at = "exited"]_vars

(* The context of a copy that cannot succeed, and who can be in the last flush. *)
FlushInv ==
    \A p \in Flusher :
        /\ proc[p].at = "copying" /\ ~proc[p].live => ctxDone /\ ~proc[p].final
        /\ proc[p].final => p = Ticker /\ Flushing(p)

(* The places of a flusher outside its flush, and on to the next table. *)
LEMMA Places ==
    /\ Ready.at = "ready" /\ ~Ready.final
    /\ [Ready EXCEPT !.at = "exited"].at = "exited"
    /\ ~[Ready EXCEPT !.at = "exited"].final
    /\ \A f, k : LET s == [FlushAllStart(f) EXCEPT !.table = k]
                 IN  s.at = "swap" /\ s.table = k /\ s.final = f
    /\ \A f : LET s == FlushAllStart(f) IN s.at = "swap" /\ s.table = 1 /\ s.final = f
BY DEF FlushAllStart, Ready

(* Where a flush without error leads to. *)
LEMMA AfterOkFacts ==
    ASSUME NEW p \in Flusher
    PROVE  \/ AfterOk(p).at = "ready" /\ ~AfterOk(p).final
              /\ (p = Ticker => ~proc[p].final)
           \/ AfterOk(p).at = "exited" /\ ~AfterOk(p).final /\ p = Ticker
           \/ /\ p = Ticker
              /\ proc[p].table < TableCount
              /\ AfterOk(p).at = "swap"
              /\ AfterOk(p).table = proc[p].table + 1
              /\ AfterOk(p).final = proc[p].final
<1>1. CASE p # Ticker
    BY <1>1, Places DEF AfterOk
<1>2. CASE p = Ticker /\ proc[p].table < TableCount
    BY <1>2, Places DEF AfterOk
<1>3. CASE p = Ticker /\ ~(proc[p].table < TableCount)
    BY <1>3, Places DEF AfterOk
<1> QED BY <1>1, <1>2, <1>3

LEMMA AfterErrorFacts ==
    ASSUME NEW p \in Flusher
    PROVE  /\ ~AfterError(p).final
           /\ \/ AfterError(p).at = "ready" /\ (p = Ticker => ~proc[p].final)
              \/ AfterError(p).at = "exited" /\ p = Ticker
BY Places DEF AfterError

(* What one step of a flush does to its flusher, and to nobody else. *)
LEMMA FlushMoves ==
    ASSUME TypeOK, NEW p \in Flusher, FlushStep(p)
    PROVE  /\ ctxDone' = ctxDone
           /\ \A q \in Flusher \ {p} : proc'[q] = proc[q]
           /\ Flushing(p)
           /\ \/ proc'[p] = AfterOk(p) /\ proc[p].at \in {"swap", "copying"}
              \/ proc'[p] = AfterError(p) /\ proc[p].at = "requeue"
              \/ /\ proc[p].at = "swap" /\ proc'[p].at = "copying"
                 /\ proc'[p].table = proc[p].table /\ proc'[p].final = proc[p].final
                 /\ proc'[p].live <=> (~ctxDone \/ proc[p].final)
              \/ /\ proc[p].at = "copying" /\ proc'[p].at = "requeue"
                 /\ proc'[p].table = proc[p].table /\ proc'[p].final = proc[p].final
<1>1. proc \in [Flusher -> ProcState] /\ proc[p] \in ProcState
    BY DEF TypeOK
<1>2. CASE Swap(p)
    <2>1. /\ ctxDone' = ctxDone /\ proc[p].at = "swap"
          /\ proc' = [proc EXCEPT ![p] =
                 IF buf[proc[p].table] = <<>> THEN AfterOk(p)
                 ELSE [@ EXCEPT !.at = "copying", !.rows = buf[proc[p].table],
                                !.live = ~ctxDone \/ proc[p].final]]
        BY <1>2 DEF Swap
    <2> QED BY <1>1, <2>1 DEF Flushing, InFlush, ProcState
<1>3. CASE CopySucceeds(p)
    BY <1>1, <1>3 DEF CopySucceeds, Flushing, InFlush
<1>4. CASE CopyFails(p) \/ CommitLosesAck(p)
    <2>1. /\ ctxDone' = ctxDone /\ proc[p].at = "copying"
          /\ proc' = [proc EXCEPT ![p].at = "requeue"]
        BY <1>4 DEF CopyFails, CommitLosesAck
    <2> QED BY <1>1, <2>1 DEF Flushing, InFlush, ProcState
<1>5. CASE Requeue(p)
    BY <1>1, <1>5 DEF Requeue, Flushing, InFlush
<1> QED BY <1>2, <1>3, <1>4, <1>5 DEF FlushStep

(* What the other steps do: a flush that runs stays where it is. *)
LEMMA OthersWait ==
    ASSUME TypeOK, [Next]_vars, \A p \in Flusher : ~FlushStep(p), NEW p \in Flusher
    PROVE  /\ ctxDone => ctxDone'
           /\ \/ proc'[p] = proc[p]
              \/ /\ proc[p].at = "ready"
                 /\ \/ proc'[p].at \in {"ready", "swap"} /\ ~proc'[p].final
                    \/ p = Ticker /\ proc'[p].at = "swap"
<1>1. proc \in [Flusher -> ProcState]
    BY DEF TypeOK
<1>2. ASSUME NEW w \in Writers, NEW t \in Tables, Insert(w, t)
      PROVE  /\ ctxDone' = ctxDone
             /\ \A q \in Flusher \ {w} : proc'[q] = proc[q]
             /\ proc[w].at = "ready"
             /\ proc'[w].at \in {"ready", "swap"} /\ ~proc'[w].final
    <2>1. PICK c \in BOOLEAN :
            /\ ctxDone' = ctxDone /\ proc[w].at = "ready"
            /\ proc' = [proc EXCEPT ![w] = IF c THEN [Ready EXCEPT !.at = "swap", !.table = t]
                                           ELSE Ready]
        <3>1. CASE ShouldFlush(Len(buf'[t]))
            BY <1>2, <3>1 DEF Insert
        <3>2. CASE ~ShouldFlush(Len(buf'[t]))
            BY <1>2, <3>2 DEF Insert
        <3> QED BY <3>1, <3>2
    <2> QED BY <1>1, <2>1 DEF Ready, Flusher
<1>3. ASSUME Tick \/ FinalFlush
      PROVE  /\ ctxDone' = ctxDone
             /\ \A q \in Flusher \ {Ticker} : proc'[q] = proc[q]
             /\ proc[Ticker].at = "ready" /\ proc'[Ticker].at = "swap"
    <2>1. PICK f : /\ ctxDone' = ctxDone /\ proc[Ticker].at = "ready"
                   /\ proc' = [proc EXCEPT ![Ticker] = FlushAllStart(f)]
        BY <1>3 DEF Tick, FinalFlush
    <2> QED BY <1>1, <2>1, Places DEF Flusher
<1>4. CASE Cancel \/ UNCHANGED vars
    BY <1>4 DEF Cancel, vars
<1>5. CASE \E w \in Writers, t \in Tables : Insert(w, t)
    BY <1>2, <1>5 DEF Flusher
<1>6. CASE Tick \/ FinalFlush
    BY <1>3, <1>6
<1> QED BY <1>4, <1>5, <1>6 DEF Next

LEMMA FlushInvariance == Spec => []FlushInv
<1>1. Init => FlushInv
    BY DEF Init, FlushInv, Ready, Flushing, InFlush
<1>2. IInv /\ FlushInv /\ [Next]_vars => FlushInv'
    <2> SUFFICES ASSUME IInv, FlushInv, [Next]_vars, NEW p \in Flusher
                 PROVE  /\ proc'[p].at = "copying" /\ ~proc'[p].live => ctxDone' /\ ~proc'[p].final
                        /\ proc'[p].final => p = Ticker /\ Flushing(p)'
        BY DEF FlushInv
    <2>0. TypeOK
        BY DEF IInv
    <2>1. CASE FlushStep(p)
        <3>1. proc[p].final => p = Ticker
            BY DEF FlushInv
        <3>2. CASE proc'[p] = AfterOk(p)
            BY <3>1, <3>2, AfterOkFacts DEF Flushing, InFlush
        <3>3. CASE proc'[p] = AfterError(p)
            BY <3>3, AfterErrorFacts
        <3>4. CASE proc'[p].at = "copying"
            BY <2>0, <2>1, <3>1, <3>4, FlushMoves, AfterOkFacts, AfterErrorFacts DEF Flushing, InFlush
        <3>5. CASE proc'[p].at = "requeue" /\ proc'[p].final = proc[p].final
            BY <3>1, <3>5 DEF Flushing, InFlush
        <3> QED BY <2>0, <2>1, <3>2, <3>3, <3>4, <3>5, FlushMoves
    <2>2. CASE \E q \in Flusher \ {p} : FlushStep(q)
        <3>1. proc'[p] = proc[p] /\ ctxDone' = ctxDone
            BY <2>0, <2>2, FlushMoves
        <3> QED BY <3>1 DEF FlushInv, Flushing, InFlush
    <2>3. CASE \A q \in Flusher : ~FlushStep(q)
        BY <2>0, <2>3, OthersWait DEF FlushInv, Flushing, InFlush
    <2> QED BY <2>1, <2>2, <2>3
<1> QED BY <1>1, <1>2, Invariance, PTL DEF Spec

(* No flush waits for another goroutine or for a failure. *)
THEOREM FlushesNeverStuck == Spec => []FlushNeverStuck
<1>1. FlushInv => FlushNeverStuck
    BY DEF FlushInv, FlushNeverStuck, Flushing, InFlush
<1> QED BY <1>1, FlushInvariance, PTL

(* The steps a flush has left. *)
LEMMA LeftFacts ==
    ASSUME NEW p \in Flusher, NEW s \in ProcState
    PROVE  \E n \in Nat :
               /\ n = (IF p = Ticker /\ InFlush(s) THEN TableCount - s.table ELSE 0)
               /\ StepsLeft(p, s) = StageLeft[s.at] + 3 * n
               /\ StageLeft[s.at] \in 0..3
<1>1. /\ s.at \in {"ready", "swap", "copying", "requeue", "exited"}
      /\ s.table \in 1..TableCount /\ TableCount \in Nat
    BY BatchAssumption DEF ProcState, Tables
<1>2. PICK n : n = (IF p = Ticker /\ InFlush(s) THEN TableCount - s.table ELSE 0)
    OBVIOUS
<1>3. n \in Nat
    BY <1>1, <1>2
<1>4. StageLeft[s.at] \in 0..3
    BY <1>1 DEF StageLeft
<1>5. StepsLeft(p, s) = StageLeft[s.at] + 3 * n
    <2>1. CASE p = Ticker /\ InFlush(s)
        BY <1>2, <2>1 DEF StepsLeft
    <2>2. CASE ~(p = Ticker /\ InFlush(s))
        <3>1. n = 0 /\ StepsLeft(p, s) = StageLeft[s.at] + 0
            BY <1>2, <2>2 DEF StepsLeft
        <3> QED BY <1>4, <3>1
    <2> QED BY <2>1, <2>2
<1> QED BY <1>2, <1>3, <1>4, <1>5

(* A step of a flush, whatever it meets. *)
LEMMA StepCloser ==
    ASSUME TypeOK, TypeOK', NEW p \in Flusher, FlushStep(p)
    PROVE  FlushLeft(p)' < FlushLeft(p)
<1>0. proc[p] \in ProcState /\ proc'[p] \in ProcState
    BY DEF TypeOK
<1>1. PICK n \in Nat :
         /\ n = (IF p = Ticker /\ Flushing(p) THEN TableCount - proc[p].table ELSE 0)
         /\ FlushLeft(p) = StageLeft[proc[p].at] + 3 * n
    BY <1>0, LeftFacts DEF FlushLeft, Flushing
<1>2. PICK m \in Nat :
         /\ m = (IF p = Ticker /\ Flushing(p)' THEN TableCount - proc'[p].table ELSE 0)
         /\ FlushLeft(p)' = StageLeft[proc'[p].at] + 3 * m
    BY <1>0, LeftFacts DEF FlushLeft, Flushing
<1>3. Flushing(p) /\ TableCount \in Nat /\ proc[p].table \in 1..TableCount
    BY FlushMoves, BatchAssumption DEF TypeOK, ProcState, Tables
<1>4. CASE ~Flushing(p)'
    <2>1. proc'[p].at \in {"ready", "exited"}
        BY <1>4, FlushMoves, AfterOkFacts, AfterErrorFacts DEF Flushing, InFlush
    <2>2. FlushLeft(p)' = 0
        BY <1>2, <1>4, <2>1 DEF StageLeft
    <2>3. StageLeft[proc[p].at] \in 1..3
        BY <1>3 DEF Flushing, InFlush, StageLeft
    <2> QED BY <1>1, <2>2, <2>3
<1>5. CASE proc'[p].at = "swap"
    <2>1. /\ p = Ticker /\ proc[p].table < TableCount /\ proc'[p].table = proc[p].table + 1
          /\ proc[p].at \in {"swap", "copying"}
        BY <1>5, FlushMoves, AfterOkFacts, AfterErrorFacts
    <2>2. n = m + 1
        BY <1>1, <1>2, <1>3, <1>5, <2>1 DEF Flushing, InFlush
    <2>3. FlushLeft(p)' = 3 + 3 * m
        BY <1>2, <1>5 DEF StageLeft
    <2>4. StageLeft[proc[p].at] \in 2..3
        BY <2>1 DEF StageLeft
    <2> QED BY <1>1, <2>2, <2>3, <2>4
<1>6. CASE proc'[p].at \in {"copying", "requeue"}
    <2>1. /\ proc'[p].table = proc[p].table
          /\ \/ proc[p].at = "swap" /\ proc'[p].at = "copying"
             \/ proc[p].at = "copying" /\ proc'[p].at = "requeue"
        BY <1>6, FlushMoves, AfterOkFacts, AfterErrorFacts
    <2>2. m = n
        BY <1>1, <1>2, <1>3, <1>6, <2>1 DEF Flushing, InFlush
    <2>3. StageLeft[proc[p].at] = StageLeft[proc'[p].at] + 1 /\ StageLeft[proc'[p].at] \in Nat
        BY <2>1 DEF StageLeft
    <2> QED BY <1>1, <1>2, <2>2, <2>3
<1> QED BY <1>4, <1>5, <1>6 DEF Flushing, InFlush

(* The measure of a flusher that stands still. *)
LEMMA StandsStill ==
    ASSUME NEW p \in Flusher, proc'[p] = proc[p]
    PROVE  FlushLeft(p)' = FlushLeft(p)
BY DEF FlushLeft

LEMMA FlushCloser ==
    ASSUME IInv, IInv', [Next]_vars, NEW p \in Flusher
    PROVE  /\ FlushStep(p) => FlushLeft(p)' < FlushLeft(p)
           /\ Flushing(p) => FlushLeft(p)' <= FlushLeft(p)
<1>1. TypeOK /\ TypeOK'
    BY DEF IInv
<1>2. FlushLeft(p) \in Nat /\ FlushLeft(p)' \in Nat
    <2>1. \A s \in ProcState : StepsLeft(p, s) \in Nat
        <3> SUFFICES ASSUME NEW s \in ProcState PROVE StepsLeft(p, s) \in Nat
            OBVIOUS
        <3>1. PICK n \in Nat : StepsLeft(p, s) = StageLeft[s.at] + 3 * n /\ StageLeft[s.at] \in 0..3
            BY LeftFacts
        <3> QED BY <3>1
    <2> QED BY <1>1, <2>1 DEF FlushLeft, TypeOK
<1>3. CASE FlushStep(p)
    BY <1>1, <1>2, <1>3, StepCloser
<1>4. CASE ~FlushStep(p) /\ Flushing(p)
    <2>1. proc'[p] = proc[p]
        <3>1. ASSUME NEW q \in Flusher, FlushStep(q)
              PROVE  proc'[p] = proc[p]
            BY <1>1, <1>4, <3>1, FlushMoves
        <3>2. CASE \A q \in Flusher : ~FlushStep(q)
            BY <1>1, <1>4, <3>2, OthersWait DEF Flushing, InFlush
        <3> QED BY <3>1, <3>2
    <2> QED BY <1>2, <1>4, <2>1, StandsStill
<1> QED BY <1>3, <1>4

(* A flush ends after at most three steps for each table, failures included. *)
THEOREM FlushesEnd == Spec => FlushAdvances
<1>1. IInv /\ IInv' /\ [Next]_vars =>
        [\A p \in Flusher :
            /\ FlushStep(p) => FlushLeft(p)' < FlushLeft(p)
            /\ Flushing(p) => FlushLeft(p)' <= FlushLeft(p)]_vars
    BY FlushCloser
<1> QED BY <1>1, Invariance, PTL DEF Spec, FlushAdvances

(* Run returns by its last flush, and for good. *)
THEOREM LastFlushLeadsOut == Spec => LastFlushIsLast
<1>1. IInv /\ FlushInv /\ [Next]_vars =>
        [/\ proc[Ticker].final => proc'[Ticker].final \/ proc'[Ticker].at = "exited"
         /\ proc[Ticker].at = "exited" => proc'[Ticker].at = "exited"]_vars
    <2> SUFFICES ASSUME IInv, FlushInv, [Next]_vars
                 PROVE  /\ proc[Ticker].final => proc'[Ticker].final \/ proc'[Ticker].at = "exited"
                        /\ proc[Ticker].at = "exited" => proc'[Ticker].at = "exited"
        OBVIOUS
    <2>0. TypeOK /\ Ticker \in Flusher
        BY DEF IInv, Flusher
    <2>1. CASE FlushStep(Ticker)
        <3>1. proc[Ticker].at # "exited"
            BY <2>0, <2>1, FlushMoves DEF Flushing, InFlush
        <3>2. AfterOk(Ticker).final = proc[Ticker].final \/ AfterOk(Ticker).at = "exited"
              \/ ~proc[Ticker].final
            BY <2>0, AfterOkFacts
        <3>3. AfterError(Ticker).at = "exited" \/ ~proc[Ticker].final
            BY <2>0, AfterErrorFacts
        <3> QED BY <2>0, <2>1, <3>1, <3>2, <3>3, FlushMoves
    <2>2. ASSUME NEW q \in Flusher \ {Ticker}, FlushStep(q)
          PROVE  proc'[Ticker] = proc[Ticker]
        BY <2>0, <2>2, FlushMoves
    <2>3. CASE \A q \in Flusher : ~FlushStep(q)
        BY <2>0, <2>3, OthersWait DEF FlushInv, Flushing, InFlush
    <2> QED BY <2>1, <2>2, <2>3
<1> QED BY <1>1, Invariance, FlushInvariance, PTL DEF Spec, LastFlushIsLast
=============================================================================
