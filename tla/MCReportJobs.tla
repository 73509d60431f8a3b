---------------------------- MODULE MCReportJobs ----------------------------
(* The instance of ReportJobs for TLC. *)
EXTENDS ReportJobs
=============================================================================
