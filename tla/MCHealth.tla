------------------------------- MODULE MCHealth -------------------------------
(* Constants of the TLC run of Health. *)
EXTENDS Health

\* A gauge that loses its power twice and learns once, a service that stops
\* once, one read and one write that fail; of all that, two events.
ServiceBudget ==
  [stops |-> 1, resets |-> 2, learns |-> 1, readFaults |-> 1, writeFaults |-> 1]

AtMostTwoEvents ==
  left["stops"] + left["resets"] + left["learns"] + left["readFaults"]
    + left["writeFaults"] >= 4
===============================================================================
