------------------------------ MODULE MCUsbStack ------------------------------
(* Constants of the TLC run of UsbStack. *)
EXTENDS UsbStack

\* A function the kernel serves alone, and one with a functionfs daemon too.
StackRequests == {{"rndis"}, {"adb", "rndis"}}

DataCalls ==
  [kind : {"data"}, arg : {"on", "off"}] \cup [kind : {"reset"}, arg : {"none"}]

NoBudget == [k \in Kinds |-> 0]

\* UsbHal's Kinds.
UsbKinds == {"calls", "crashes", "faults", "spurious", "attach", "detach",
             "other", "gadget"}
NoUsbBudget == [k \in UsbKinds |-> 0]

\* Two requests, and an unlink that fails.
StackBudget == [NoBudget EXCEPT !["calls"] = 2, !["unlinkFaults"] = 1]

\* Two calls of enableUsbData and resetUsbPort.
DataBudget == [NoUsbBudget EXCEPT !["calls"] = 2]
===============================================================================
