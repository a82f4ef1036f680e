------------------------------- MODULE MCUsbHal -------------------------------
(* Constants of the TLC runs of UsbHal. *)
EXTENDS UsbHal

Register == [kind |-> "setCallback", arg |-> "callback"]
Clear == [kind |-> "setCallback", arg |-> "null"]
ToSink == [kind |-> "mode", arg |-> "sink"]
ToSource == [kind |-> "mode", arg |-> "source"]
DataOff == [kind |-> "data", arg |-> "off"]
DataOn == [kind |-> "data", arg |-> "on"]
QueryPort == [kind |-> "query", arg |-> "none"]
PlainCalls == [kind : {"reset", "query", "unsupported"}, arg : {"none"}]
RoleCalls == [kind : {"role"}, arg : {"data"}]

SwitchCalls == {Register, QueryPort, ToSink, ToSource}
ClearCalls == {Register, Clear, ToSink}
EveryCall == {Register, Clear, ToSink, DataOff, DataOn} \cup PlainCalls \cup RoleCalls

NoBudget == [k \in Kinds |-> 0]

\* A registration, then switches and status queries, with a partner that comes
\* and goes and a wait that wakes for nothing.
SwitchBudget ==
  [NoBudget EXCEPT !["calls"] = 3, !["attach"] = 3, !["detach"] = 2,
                   !["spurious"] = 1, !["other"] = 1]

\* Every call and everything that can fail, and a restart.
FaultBudget ==
  [NoBudget EXCEPT !["calls"] = 3, !["attach"] = 1,
                   !["faults"] = 1, !["crashes"] = 1, !["gadget"] = 1]

\* A callback that comes and goes, and one type-c uevent.
DestroyBudget == [NoBudget EXCEPT !["calls"] = 2, !["attach"] = 1]
=============================================================================
