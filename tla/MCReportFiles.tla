---------------------------- MODULE MCReportFiles ---------------------------
(* Instances of ReportFiles for TLC. *)
EXTENDS ReportFiles, TLC

CONSTANTS d1, d2

(* Every request has a period of its own. *)
OwnPeriods == [id \in JobId |-> IF id = 1 THEN d1 ELSE d2]

(* Every request asks for the same period. *)
SamePeriod == [id \in JobId |-> d1]
=============================================================================
