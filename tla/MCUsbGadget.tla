----------------------------- MODULE MCUsbGadget -----------------------------
(* Constants of the TLC runs of UsbGadget. *)
EXTENDS UsbGadget, TLC

\* One functionfs function and one the kernel serves alone.
TwoRequests == {{"adb"}, {"rndis"}}

\* Two functionfs daemons, alone and together.
FfsRequests == {{"adb"}, {"adb", "mtp"}}

NoBudget == [k \in Kinds |-> 0]

\* Up to three calls on two threads, and every kind of accident: a failing
\* write, a failing unlink, a daemon that dies, the USB HAL writing the UDC
\* attribute, a restart of the service and an unlocked reset().
RequestBudget ==
  [k \in Kinds |-> IF k = "calls" THEN 3 ELSE IF k = "vendor" THEN 0 ELSE 1]

\* Bound: no behaviour has more than four of these events, so three calls meet
\* one accident and two calls any two.
AtMostFourEvents ==
  left["calls"] + left["writeFaults"] + left["unlinkFaults"] + left["closes"]
    + left["usbHal"] + left["crashes"] + left["resets"] >= 5

\* Two calls one after the other, each kind of failure once, and another process that
\* sets vendor.usb.config once.
LiveBudget ==
  [NoBudget EXCEPT !["calls"] = 2, !["writeFaults"] = 1, !["unlinkFaults"] = 1,
                   !["vendor"] = 1]

\* One call, and one daemon that dies once.
DeathBudget == [NoBudget EXCEPT !["calls"] = 1, !["closes"] = 1]

CallerSymmetry == Permutations(Callers)
=============================================================================
