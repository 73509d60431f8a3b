---------------------------- MODULE BatchBuffer -----------------------------
(***************************************************************************)
(* The batching metric storage: src/internal/storage/batch_pg.go.          *)
(*                                                                         *)
(* Each of the seven metric tables has a buffer with a mutex of its own.   *)
(* Ingest goroutines append rows and flush a buffer they find full; the    *)
(* goroutine of Run flushes every table on a ticker, in a fixed order, and *)
(* once more when its context ends.  A flush takes the whole buffer under  *)
(* the mutex, copies it to the database in one transaction without the     *)
(* mutex, and puts the rows back in front of the buffer when the copy      *)
(* returns an error.  The error of Commit does not say whether the         *)
(* transaction was committed.  The seven Insert and flush functions differ *)
(* only in their columns and in whether the INSERT says ON CONFLICT DO     *)
(* NOTHING; they are one action per step here, with the table as argument. *)
(***************************************************************************)
EXTENDS Naturals, FiniteSets, SequencesExt

CONSTANTS
    Writers,     \* goroutines that call the Insert functions
    Ticker,      \* the goroutine of Run
    TableCount,  \* tables, numbered in the order FlushAll visits them
    Keyed,       \* tables whose INSERT ignores a row that is already there
    MaxSize,     \* Batch.MaxSize: a buffer this long is flushed by its writer
    MaxRows,     \* bound: rows inserted into one table
    MaxInserts,  \* bound: rows inserted in all
    MaxFaults    \* bound: failures of the database in one behaviour

Tables  == 1..TableCount
Row     == 1..MaxRows
Flusher == Writers \cup {Ticker}

ASSUME BatchAssumption ==
    /\ IsFiniteSet(Writers)
    /\ Ticker \notin Writers
    /\ TableCount \in Nat \ {0}
    /\ Keyed \subseteq Tables
    /\ MaxSize \in Nat \ {0}
    /\ MaxRows \in Nat
    /\ MaxInserts \in Nat
    /\ MaxFaults \in Nat

VARIABLES
    accepted,   \* per table, how many rows Insert has appended
    buf,        \* per table, the buffered rows
    proc,       \* per flusher, where it is and what it holds
    copies,     \* per table and row, how often the row is in the database
    faults,     \* failures of the database so far
    lostAcks,   \* commits that were applied although Commit returned an error
    ctxDone     \* the context of the ingest and of Run has been cancelled

vars == <<accepted, buf, proc, copies, faults, lostAcks, ctxDone>>

(* swap: about to take the buffer of the table; copying: inside copyViaTempTable
   with the rows taken; requeue: the copy returned an error, rows not yet back. *)
ProcState == [at    : {"ready", "swap", "copying", "requeue", "exited"},
              table : Tables,
              rows  : Seq(Row),
              live  : BOOLEAN,   \* the context was not done when the copy began
              final : BOOLEAN]   \* the flush of a Run that is about to return

Ready == [at |-> "ready", table |-> 1, rows |-> <<>>, live |-> TRUE, final |-> FALSE]

Init ==
    /\ accepted = [t \in Tables |-> 0]
    /\ buf = [t \in Tables |-> <<>>]
    /\ proc = [p \in Flusher |-> Ready]
    /\ copies = [t \in Tables |-> [r \in Row |-> 0]]
    /\ faults = 0
    /\ lostAcks = 0
    /\ ctxDone = FALSE

-----------------------------------------------------------------------------
(* Insert *)

FullLate(length)   == length > MaxSize                     \* faulty variant
ShouldFlush(length) == length >= MaxSize

Inserted == UNION {{t} \X (1..accepted[t]) : t \in Tables}

(* Append under the mutex; the decision to flush outlives the unlock. *)
Insert(w, t) ==
    /\ proc[w].at = "ready"
    /\ accepted[t] < MaxRows
    /\ Cardinality(Inserted) < MaxInserts
    /\ accepted' = [accepted EXCEPT ![t] = @ + 1]
    /\ buf' = [buf EXCEPT ![t] = Append(@, accepted'[t])]
    /\ proc' = [proc EXCEPT ![w] = IF ShouldFlush(Len(buf'[t]))
                                   THEN [Ready EXCEPT !.at = "swap", !.table = t]
                                   ELSE Ready]
    /\ UNCHANGED <<copies, faults, lostAcks, ctxDone>>

-----------------------------------------------------------------------------
(* Run and FlushAll *)

FlushAllStart(final) == [Ready EXCEPT !.at = "swap", !.table = 1, !.final = final]

(* A tick may win the select even when the context is already done. *)
Tick ==
    /\ proc[Ticker].at = "ready"
    /\ proc' = [proc EXCEPT ![Ticker] = FlushAllStart(FALSE)]
    /\ UNCHANGED <<accepted, buf, copies, faults, lostAcks, ctxDone>>

FinalFlush ==
    /\ proc[Ticker].at = "ready"
    /\ ctxDone
    /\ proc' = [proc EXCEPT ![Ticker] = FlushAllStart(TRUE)]
    /\ UNCHANGED <<accepted, buf, copies, faults, lostAcks, ctxDone>>

Cancel ==
    /\ ~ctxDone
    /\ ctxDone' = TRUE
    /\ UNCHANGED <<accepted, buf, proc, copies, faults, lostAcks>>

AfterOkStays(p) ==                                         \* faulty variant
    IF p = Ticker /\ proc[p].table < TableCount
    THEN [FlushAllStart(proc[p].final) EXCEPT !.table = proc[p].table + 1] ELSE Ready

(* What p does after a flush without error: the writer returns, FlushAll goes on
   to the next table. *)
AfterOk(p) ==
    IF p # Ticker THEN Ready
    ELSE IF proc[p].table < TableCount
    THEN [FlushAllStart(proc[p].final) EXCEPT !.table = proc[p].table + 1]
    ELSE IF proc[p].final THEN [Ready EXCEPT !.at = "exited"] ELSE Ready

AfterErrorKeepsRows(p) ==                                  \* faulty variant
    [proc[p] EXCEPT !.at = IF p = Ticker /\ proc[p].final THEN "exited" ELSE "ready"]

(* After an error FlushAll returns at once: the later tables keep their rows. *)
AfterError(p) ==
    IF p = Ticker /\ proc[p].final THEN [Ready EXCEPT !.at = "exited"] ELSE Ready

-----------------------------------------------------------------------------
(* One flush *)

(* Take the buffer; an empty one is done.  The final flush has a context of its own. *)
Swap(p) ==
    /\ proc[p].at = "swap"
    /\ LET t == proc[p].table
       IN  /\ buf' = [buf EXCEPT ![t] = <<>>]
           /\ proc' = [proc EXCEPT ![p] =
                 IF buf[t] = <<>> THEN AfterOk(p)
                 ELSE [@ EXCEPT !.at = "copying", !.rows = buf[t],
                                !.live = ~ctxDone \/ proc[p].final]]
    /\ UNCHANGED <<accepted, copies, faults, lostAcks, ctxDone>>

StoredAgain(t, rows) == [r \in Row |-> copies[t][r] + (IF r \in ToSet(rows) THEN 1 ELSE 0)] \* faulty variant

(* The rows in the database once the transaction is committed. *)
Stored(t, rows) ==
    [r \in Row |-> IF r \notin ToSet(rows) \/ (t \in Keyed /\ copies[t][r] > 0)
                   THEN copies[t][r] ELSE copies[t][r] + 1]

CopySucceeds(p) ==
    /\ proc[p].at = "copying"
    /\ proc[p].live
    /\ copies' = [copies EXCEPT ![proc[p].table] = Stored(proc[p].table, proc[p].rows)]
    /\ proc' = [proc EXCEPT ![p] = AfterOk(p)]
    /\ UNCHANGED <<accepted, buf, faults, lostAcks, ctxDone>>

(* An error is a fault of the database, or the end of the context of the flush. *)
Error(p) ==
    IF ctxDone /\ ~proc[p].final THEN UNCHANGED faults
    ELSE faults < MaxFaults /\ faults' = faults + 1

(* Acquire, Begin, CREATE, CopyFrom, INSERT or Commit failed and nothing was
   committed. *)
CopyFails(p) ==
    /\ proc[p].at = "copying"
    /\ Error(p)
    /\ proc' = [proc EXCEPT ![p].at = "requeue"]
    /\ UNCHANGED <<accepted, buf, copies, lostAcks, ctxDone>>

(* Commit returned an error after the database had committed. *)
CommitLosesAck(p) ==
    /\ proc[p].at = "copying"
    /\ proc[p].live
    /\ Error(p)
    /\ lostAcks' = lostAcks + 1
    /\ copies' = [copies EXCEPT ![proc[p].table] = Stored(proc[p].table, proc[p].rows)]
    /\ proc' = [proc EXCEPT ![p].at = "requeue"]
    /\ UNCHANGED <<accepted, buf, ctxDone>>

RowsDropped(p)      == buf[proc[p].table]                        \* faulty variants
RowsPutBackTwice(p) == proc[p].rows \o buf[proc[p].table] \o proc[p].rows

RowsPutBack(p) == proc[p].rows \o buf[proc[p].table]

Requeue(p) ==
    /\ proc[p].at = "requeue"
    /\ buf' = [buf EXCEPT ![proc[p].table] = RowsPutBack(p)]
    /\ proc' = [proc EXCEPT ![p] = AfterError(p)]
    /\ UNCHANGED <<accepted, copies, faults, lostAcks, ctxDone>>

FlushStep(p) == \/ Swap(p) \/ CopySucceeds(p) \/ CopyFails(p)
                \/ CommitLosesAck(p) \/ Requeue(p)

Next == \/ \E w \in Writers, t \in Tables : Insert(w, t)
        \/ Tick
        \/ FinalFlush
        \/ Cancel
        \/ \E p \in Flusher : FlushStep(p)

Spec == Init /\ [][Next]_vars

(* The ticker ticks, the final flush is selected once the context is done, and the
   calls of a flush return: pgx ends them at the latest when the connection dies.
   Nothing forces an insert or a cancellation. *)
Fairness == /\ WF_vars(Tick)
            /\ SF_vars(FinalFlush)
            /\ \A p \in Flusher : WF_vars(FlushStep(p))

FairSpec == Spec /\ Fairness

-----------------------------------------------------------------------------
(* Properties *)

(* Every variable keeps its shape, and only processes inside a flush hold rows. *)
TypeOK ==
    /\ accepted \in [Tables -> 0..MaxRows]
    /\ buf \in [Tables -> Seq(Row)]
    /\ proc \in [Flusher -> ProcState]
    /\ \A p \in Flusher : proc[p].at \notin {"copying", "requeue"} => proc[p].rows = <<>>
    /\ copies \in [Tables -> [Row -> Nat]]
    /\ faults \in 0..MaxFaults
    /\ lostAcks \in Nat
    /\ ctxDone \in BOOLEAN

Buffered(t, r) == r \in ToSet(buf[t])
InHand(p, t, r) == proc[p].table = t /\ r \in ToSet(proc[p].rows)

(* A row is in one place: swaps, concurrent flushes of one table and requeues
   never put it twice into a buffer, or into a buffer and a running flush, or
   into two flushes.  Without this a failed flush would multiply rows. *)
OneHolder ==
    /\ \A t \in Tables : IsInjective(buf[t])
    /\ \A p \in Flusher : IsInjective(proc[p].rows)
    /\ \A t \in Tables, r \in Row :
        /\ Buffered(t, r) => r <= accepted[t]
        /\ \A p \in Flusher : InHand(p, t, r) =>
            /\ r <= accepted[t]
            /\ ~Buffered(t, r)
            /\ \A q \in Flusher \ {p} : ~InHand(q, t, r)

(* No row is lost while the process runs: what Insert appended is buffered, in
   the hands of a flush, or in the database, whatever failed in between. *)
NoRowLost ==
    \A t \in Tables : \A r \in 1..accepted[t] :
        Buffered(t, r) \/ copies[t][r] > 0 \/ \E p \in Flusher : InHand(p, t, r)

(* Duplicates in the database have one cause, a commit whose answer was lost, and
   never appear in a table with ON CONFLICT DO NOTHING; a row that was never
   inserted is not in the database. *)
DuplicatesExplained ==
    \A t \in Tables, r \in Row :
        /\ copies[t][r] > 0 => r <= accepted[t]
        /\ copies[t][r] <= IF t \in Keyed THEN 1 ELSE 1 + lostAcks
        /\ copies[t][r] > lostAcks => /\ ~Buffered(t, r)
                                      /\ \A p \in Flusher : ~InHand(p, t, r)

Swapping(t) == {w \in Writers : proc[w].at = "swap" /\ proc[w].table = t}

(* The size limit holds as long as the database answers: a buffer grows past
   MaxSize - 1 only by the rows of writers that already know it is full and are
   about to take it. *)
BufferBounded ==
    (faults = 0 /\ ~ctxDone) => \A t \in Tables : Len(buf[t]) < MaxSize + Cardinality(Swapping(t))

(* A failure never hides a row for good: when the database recovers, the ticker
   brings every accepted row to the database, unless the service is stopped. *)
RowsReachDatabase ==
    \A t \in Tables, r \in Row :
        r <= accepted[t] ~> copies[t][r] > 0 \/ ctxDone

(* A stopped service ends its last flush and returns from Run. *)
RunReturns == ctxDone ~> proc[Ticker].at = "exited"
=============================================================================
