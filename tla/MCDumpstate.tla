------------------------------ MODULE MCDumpstate ------------------------------
(* Constants of the TLC run of Dumpstate. *)
EXTENDS Dumpstate

\* Two dumps, two switches of verbose logging, and each accident once.
BugReportBudget ==
  [dumps |-> 2, switches |-> 2, crashes |-> 1, others |-> 1, faults |-> 1]
================================================================================
