------------------------------- MODULE UsbStack -------------------------------
(***************************************************************************)
(* The USB gadget HAL (UsbGadget) and the USB HAL (UsbHal), two processes  *)
(* that write one UDC attribute without knowing of each other: PULLUP_PATH *)
(* of usb/usb/Usb.cpp and of usb/gadget/UsbGadget.cpp.                     *)
(*                                                                         *)
(* Each process takes its own steps; where the one has the other in its    *)
(* environment (UsbHalPullUp, UsbHalPullDown, GadgetHal), the other's real *)
(* steps take that place.                                                  *)
(***************************************************************************)
EXTENDS UsbGadget

CONSTANTS
  Calls, MaxUevents,  \* what UsbHal's clients ask for; its bound on uevents
  UsbBudget           \* bound: UsbHal's Budget

\* The other process is no longer part of the environment.
ASSUME StackAssumption == Budget["usbHal"] = 0 /\ UsbBudget["gadget"] = 0

VARIABLES
  \* UsbHal's variables, but for the UDC attribute.
  mCallback, usbLock, mRoleSwitchLock, mPartnerLock, mPartnerUp,
  mUsbDataEnabled, destroyThread, usbPc, connected, usbCall, usbResult,
  signalled, sigPending, portType, partner, uevents, usbData, usbLeft,
  lastStatus, addedSince, missed, unheard,
  \* The kernel: what the gadget was bound with.  A function that is linked
  \* once the gadget is bound stays out of what the host sees.
  bound

HAL == INSTANCE UsbHal WITH
  Budget <- UsbBudget, mLock <- usbLock, pc <- usbPc, call <- usbCall,
  result <- usbResult, left <- usbLeft, bindable <- Bindable

ASSUME UsbAssumption ==
  HAL!CallsAssumption /\ HAL!MaxUeventsAssumption /\ HAL!BudgetAssumption

usbHal ==
  <<mCallback, usbLock, mRoleSwitchLock, mPartnerLock, mPartnerUp,
    mUsbDataEnabled, destroyThread, usbPc, connected, usbCall, usbResult,
    signalled, sigPending, portType, partner, uevents, usbData, usbLeft,
    lastStatus, addedSince, missed, unheard>>

gadgetHal ==
  <<hal, call, monitor, mEventFd, inotify, links, ids, outside, left, appliedFor>>

stackVars == <<vars, usbHal, bound>>

StackInit == Init /\ HAL!Init /\ bound = {}

BoundAfter ==
  CASE ~udc' -> {}
    [] ~udc /\ udc' -> links
    [] OTHER -> bound

GadgetStep == Next /\ UNCHANGED usbHal
UsbStep == UNCHANGED gadgetHal /\ HAL!Next

StackNext == (GadgetStep \/ UsbStep) /\ bound' = BoundAfter

StackSpec == StackInit /\ [][StackNext]_stackVars

----------------------------------------------------------------------------

\* No accident so far: nothing failed, nobody died or was restarted.
NoAccident ==
  /\ \A k \in {"writeFaults", "unlinkFaults", "closes", "crashes", "resets"} :
       left[k] = Budget[k]
  /\ usbLeft["crashes"] = UsbBudget["crashes"]
  /\ usbLeft["faults"] = UsbBudget["faults"]

EnableUsbDataWrites == usbPc["binder"] = "udcWrite" /\ usbPc' # usbPc

\* Whatever the monitor or a call of the gadget HAL binds is a whole
\* composition; a half-linked one is bound by enableUsbData, which writes the UDC
\* attribute whatever the gadget HAL is doing, after an unlink that failed by the
\* monitor that was left behind, and when vendor.usb.config is set between its two
\* readings, for the ids and for the links.
OnlyUsbHalBindsParts ==
  [][(/\ ~udc /\ udc'
      /\ \A k \in {"vendor", "unlinkFaults"} : left[k] = Budget[k])
     => WholeComposition \/ EnableUsbDataWrites]_stackVars

\* A client told SUCCESS for its functions has all of them in front of the host,
\* or nothing: never the part the USB HAL bound while they were being linked.
SuccessIsWhole ==
  \A c \in Callers :
    (/\ pc[c] = "answer" /\ status = "SUCCESS"
     /\ req[c].callback /\ req[c].functions # NONE)
      => bound \in {{}, links}

\* Both processes are at rest.
AtRest ==
  /\ Idle
  /\ monPc \in {"off", "epoll"} /\ inotifyQ = 0
  /\ usbPc["binder"] = "idle"

\* Data turned on last leaves the gadget bound, in whatever order the two
\* processes read and wrote the attribute: a pull-up refused while functions
\* are replaced, or because their daemons were late, is made up for by the
\* gadget HAL.
UpWhenDataOn ==
  AtRest /\ NoAccident /\ Bindable /\ usbCall = [kind |-> "data", arg |-> "on"]
    => udc

===============================================================================
