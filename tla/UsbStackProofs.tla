----------------------------- MODULE UsbStackProofs -----------------------------
(***************************************************************************)
(* Proofs about UsbStack: what the two processes bind together, what a     *)
(* client that is told SUCCESS may rely on, and that data turned on last   *)
(* leaves the gadget bound, for any binder threads, requests, calls and    *)
(* budgets.  The invariants of UsbGadgetProofs are shown to survive the    *)
(* steps of the USB HAL, which change the UDC attribute under it, and with *)
(* them what is proved in GadgetServiceProofs.                             *)
(***************************************************************************)
EXTENDS UsbStack, GadgetServiceProofs

USE DEF LockFree, LinksAfterLoop, NoEndpoints, MonitorToStop, PullupAtStart,
        FirstMonitorPc, StopSignalled

----------------------------------------------------------------------------
(* The inductive invariant. *)

\* Neither process has the other in its environment; what is spent does not come
\* back.
AloneInv ==
  /\ left["usbHal"] = 0 /\ usbLeft["gadget"] = 0
  /\ \A k \in HAL!Kinds : usbLeft[k] <= UsbBudget[k]

\* resetUsbPort is the call that resets.
ResetInv == usbPc["binder"] = "reset" => usbCall.kind = "reset"

\* The gadget is bound with the links of a call that is told SUCCESS, unless it is
\* not bound at all.
SuccessInv ==
  /\ ~udc => bound = {}
  /\ \A c \in Callers :
       pc[c] = "wait" /\ (gadgetPullup \/ monPc = "publish")
         => bound \in {{}, links}

\* Functionfs functions are linked for a request that names some.
FfsInv ==
  \A c \in Callers :
    /\ pc[c] = "link" => (links \cup Range(todo)) \cap Ffs \subseteq req[c].functions
    /\ pc[c] = "pullUp" => links \cap Ffs = {}

\* A monitor only stops for the call that joins it.
StopInv ==
  /\ mEventFd \/ (mMonitorCreated /\ (stopSeen \/ monPc = "exited"))
       => \E c \in Callers : pc[c] = "join"
  /\ scan >= 1

\* A call is replacing the functions.
Building == \E c \in Callers : pc[c] \notin {"idle", "locking", "wait", "answer"}

\* Afterwards the monitor looks after the functionfs functions that are linked, and
\* once it has bound the gadget their daemons are up.
WatchInv ==
  NoAccident /\ ~Building =>
    /\ ~mMonitorCreated => links \cap Ffs = {}
    /\ mMonitorCreated => watched = links \cap Ffs
                          /\ Range(mEndpointList) = links \cap Ffs
    /\ mMonitorCreated /\ (~writeUdc \/ monPc = "publish") => Bindable

\* The monitor is on its way to pull the gadget up, or an event will send it there.
MonitorComes ==
  /\ writeUdc
  /\ \/ monPc \in {"scan", "write"}
     \/ monPc = "event" /\ batch > 0
     \/ monPc \in {"event", "epoll"} /\ inotifyQ > 0

DataOn == usbCall = [kind |-> "data", arg |-> "on"]

\* With data turned on the gadget is bound, or the call, the monitor or the
\* binder thread of the USB HAL is about to.
OnInv ==
  (/\ NoAccident /\ ~Building /\ Bindable /\ DataOn
   /\ ~MonitorComes /\ usbPc["binder"] \notin {"udcRead", "udcWrite"})
    => udc

UsbTypes ==
  /\ DOMAIN usbPc = HAL!Threads
  /\ usbLeft \in [HAL!Kinds -> Nat]

\* Those of UsbGadget that hold of the two processes together.
GadgetInv == IInv /\ AskedInv /\ PartsInv /\ LeftInv

StackInv ==
  /\ GadgetInv /\ UsbTypes /\ AloneInv /\ ResetInv
  /\ SuccessInv /\ SuccessIsWhole /\ FfsInv /\ StopInv /\ WatchInv /\ OnInv

----------------------------------------------------------------------------
(* The steps of the USB HAL, as far as the gadget is concerned. *)

\* A label of a thread.
LEMMA UsbGoto ==
  ASSUME DOMAIN usbPc = HAL!Threads, NEW t \in HAL!Threads, NEW label,
         HAL!Goto(t, label)
  PROVE  /\ DOMAIN usbPc' = HAL!Threads /\ usbPc'[t] = label
         /\ \A u \in HAL!Threads \ {t} : usbPc'[u] = usbPc[u]
BY DEF HAL!Goto

\* A step that has nothing to do with the UDC attribute.
Elsewhere ==
  /\ UNCHANGED <<udc, usbCall>>
  /\ DOMAIN usbPc' = HAL!Threads
  /\ \/ usbPc'["binder"] = usbPc["binder"]
     \/ /\ usbPc["binder"] \notin {"udcRead", "udcWrite", "reset"}
        /\ usbPc'["binder"] \notin {"udcRead", "udcWrite", "reset"}

UsbSpends == UNCHANGED usbLeft \/ \E k \in HAL!Kinds : HAL!Spend(k)

LEMMA UsbThreads == "binder" \in HAL!Threads /\ "worker" \in HAL!Threads
BY DEF HAL!Threads

LEMMA UsbKindNames ==
  {"calls", "crashes", "faults", "spurious", "attach", "detach", "other", "gadget"}
    = HAL!Kinds
BY DEF HAL!Kinds

LEMMA UsbSteps ==
  ASSUME UsbTypes, HAL!Next
  PROVE  \/ Elsewhere
         \/ \E c \in Calls : HAL!Call(c)
         \/ HAL!ReadUdc \/ HAL!WriteUdc \/ HAL!ResetPort
         \/ HAL!GadgetHal \/ HAL!Crash
<1> USE UsbThreads DEF HAL!members, HAL!locks, HAL!locals, HAL!port, HAL!data,
        HAL!history
<1>1. DOMAIN usbPc = HAL!Threads
  BY DEF UsbTypes
<1>2. ASSUME UNCHANGED <<usbPc, udc, usbCall>> PROVE Elsewhere
  BY <1>1, <1>2 DEF Elsewhere
<1>3. ASSUME NEW label, label \notin {"udcRead", "udcWrite", "reset"},
             usbPc["binder"] \notin {"udcRead", "udcWrite", "reset"},
             HAL!Goto("binder", label), UNCHANGED <<udc, usbCall>>
      PROVE  Elsewhere
  BY <1>1, <1>3, UsbGoto DEF Elsewhere
<1>4. ASSUME NEW label, HAL!Goto("worker", label), UNCHANGED <<udc, usbCall>>
      PROVE  Elsewhere
  BY <1>1, <1>4, UsbGoto DEF Elsewhere
<1>5. CASE HAL!SetCallback
  BY <1>1, <1>3, <1>5
  DEF HAL!SetCallback, HAL!ReplaceCallback, HAL!ClearCallback, HAL!JoinWorker,
      HAL!RegisterCallback, Elsewhere
<1>6. CASE HAL!TakeRoleSwitchLock \/ HAL!WriteRole \/ HAL!NotifyRoleSwitch
  BY <1>3, <1>6
  DEF HAL!TakeRoleSwitchLock, HAL!WriteRole, HAL!NotifyRoleSwitch
<1>7. CASE HAL!OpenPortType \/ HAL!ArmPartner \/ HAL!WritePortType \/ HAL!Wake
  BY <1>3, <1>7
  DEF HAL!OpenPortType, HAL!ArmPartner, HAL!WritePortType, HAL!Wake
<1>8. CASE HAL!TimeOut \/ HAL!CheckPartner \/ HAL!GiveUp \/ HAL!SwitchToDrp
  BY <1>3, <1>8
  DEF HAL!TimeOut, HAL!CheckPartner, HAL!GiveUp, HAL!SwitchToDrp,
      HAL!AfterTimeout
<1>9. CASE HAL!WriteDataPath \/ HAL!Acknowledge
  BY <1>3, <1>9 DEF HAL!WriteDataPath, HAL!Acknowledge
<1>10. CASE HAL!Query("binder") \/ HAL!Query("worker")
  BY <1>3, <1>4, <1>10 DEF HAL!Query, HAL!ReadPort, HAL!ReportPort
<1>11. CASE \/ HAL!OpenSocket \/ HAL!CheckDestroy \/ HAL!EnterWait
            \/ HAL!ReceiveUevent \/ HAL!EpollFails
  BY <1>4, <1>11
  DEF HAL!OpenSocket, HAL!CheckDestroy, HAL!EnterWait, HAL!ReceiveUevent,
      HAL!EpollFails, HAL!Leave
<1>12. CASE \/ HAL!PartnerAdded \/ HAL!TryRoleSwitchLock \/ HAL!LookForPartner
            \/ HAL!WorkerSwitchToDrp
  BY <1>4, <1>12
  DEF HAL!PartnerAdded, HAL!TryRoleSwitchLock, HAL!LookForPartner,
      HAL!WorkerSwitchToDrp
<1>13. CASE HAL!SigHandler
  BY <1>2, <1>4, <1>13 DEF HAL!SigHandler
<1>14. CASE HAL!Attach \/ HAL!Detach \/ HAL!OtherUevent
  BY <1>2, <1>14 DEF HAL!Attach, HAL!Detach, HAL!OtherUevent
<1>15. CASE HAL!Quiescent
  BY <1>2, <1>15 DEF HAL!Quiescent, HAL!vars
<1> QED
  BY <1>5, <1>6, <1>7, <1>8, <1>9, <1>10, <1>11, <1>12, <1>13, <1>14, <1>15
  DEF HAL!Next, HAL!Binder, HAL!SwitchRole, HAL!SwitchMode, HAL!EnableUsbData,
      HAL!Work, HAL!UeventEvent, HAL!Environment

\* Each step spends at most one of the USB HAL's budget.
LEMMA UsbSpendSteps ==
  ASSUME HAL!Next PROVE UsbSpends
<1> USE UsbKindNames
<1>1. CASE HAL!Binder
  <2>1. CASE HAL!SetCallback
    BY <2>1
    DEF UsbSpends, HAL!SetCallback, HAL!ReplaceCallback, HAL!ClearCallback,
        HAL!JoinWorker, HAL!RegisterCallback
  <2>2. CASE HAL!SwitchRole
    BY <2>2
    DEF UsbSpends, HAL!SwitchRole, HAL!TakeRoleSwitchLock, HAL!WriteRole,
        HAL!NotifyRoleSwitch, HAL!SwitchMode, HAL!OpenPortType, HAL!ArmPartner,
        HAL!WritePortType, HAL!Wake, HAL!TimeOut, HAL!CheckPartner, HAL!GiveUp,
        HAL!SwitchToDrp
  <2>3. CASE \/ HAL!EnableUsbData \/ HAL!ResetPort \/ HAL!Acknowledge
             \/ HAL!Query("binder")
    BY <2>3
    DEF UsbSpends, HAL!EnableUsbData, HAL!ReadUdc, HAL!WriteUdc,
        HAL!WriteDataPath, HAL!ResetPort, HAL!Acknowledge, HAL!Query,
        HAL!ReadPort, HAL!ReportPort
  <2> QED BY <1>1, <2>1, <2>2, <2>3 DEF HAL!Binder
<1>2. CASE HAL!Work
  BY <1>2
  DEF UsbSpends, HAL!Work, HAL!OpenSocket, HAL!CheckDestroy, HAL!EnterWait,
      HAL!ReceiveUevent, HAL!UeventEvent, HAL!PartnerAdded, HAL!Query,
      HAL!ReadPort, HAL!ReportPort, HAL!TryRoleSwitchLock, HAL!LookForPartner,
      HAL!WorkerSwitchToDrp
<1>3. CASE HAL!Environment
  BY <1>3
  DEF UsbSpends, HAL!Environment, HAL!Call, HAL!Attach, HAL!Detach,
      HAL!OtherUevent, HAL!GadgetHal, HAL!Crash, HAL!EpollFails
<1>4. CASE HAL!SigHandler \/ HAL!Quiescent
  BY <1>4 DEF UsbSpends, HAL!SigHandler, HAL!Quiescent, HAL!vars
<1> QED BY <1>1, <1>2, <1>3, <1>4 DEF HAL!Next

LEMMA UsbTypesStep ==
  UsbTypes /\ [StackNext]_stackVars => UsbTypes'
<1> SUFFICES ASSUME UsbTypes, [StackNext]_stackVars PROVE UsbTypes'
  OBVIOUS
<1>1. CASE UNCHANGED usbHal
  BY <1>1 DEF UsbTypes, usbHal
<1>2. CASE HAL!Next
  <2>1. usbLeft' \in [HAL!Kinds -> Nat]
    BY <1>2, UsbSpendSteps DEF UsbTypes, UsbSpends, HAL!Spend
  <2>2. CASE Elsewhere
    BY <2>1, <2>2 DEF UsbTypes, Elsewhere
  <2>3. CASE ~Elsewhere
    <3>1. \/ \E c \in Calls : HAL!Call(c)
          \/ HAL!ReadUdc \/ HAL!WriteUdc \/ HAL!ResetPort
          \/ HAL!GadgetHal \/ HAL!Crash
      BY <1>2, <2>3, UsbSteps
    <3>2. DOMAIN usbPc' = HAL!Threads
      BY <3>1, UsbThreads, UsbGoto
      DEF UsbTypes, HAL!Call, HAL!ReadUdc, HAL!WriteUdc, HAL!ResetPort,
          HAL!GadgetHal, HAL!Crash
    <3> QED BY <2>1, <3>2 DEF UsbTypes
  <2> QED BY <2>2, <2>3
<1> QED BY <1>1, <1>2 DEF StackNext, GadgetStep, UsbStep, stackVars, usbHal

LEMMA UsbLeftStep ==
  ASSUME UsbTypes, [StackNext]_stackVars
  PROVE  \A k \in HAL!Kinds : usbLeft'[k] <= usbLeft[k]
<1>1. CASE UNCHANGED usbLeft
  BY <1>1 DEF UsbTypes
<1>2. CASE \E k \in HAL!Kinds : HAL!Spend(k)
  BY <1>2 DEF UsbTypes, HAL!Spend
<1> QED
  BY <1>1, <1>2, UsbSpendSteps
  DEF StackNext, GadgetStep, UsbStep, stackVars, usbHal, UsbSpends

\* The budgets for the process that takes part itself stay empty.
LEMMA AloneStep ==
  TypeOK /\ UsbTypes /\ AloneInv /\ [StackNext]_stackVars => AloneInv'
<1> SUFFICES ASSUME TypeOK, UsbTypes, AloneInv, [StackNext]_stackVars
             PROVE  AloneInv'
  OBVIOUS
<1>1. /\ "gadget" \in HAL!Kinds /\ "usbHal" \in Kinds
      /\ UsbBudget \in [HAL!Kinds -> Nat]
      /\ left \in [Kinds -> Nat]
  BY UsbKindNames, KindNames, UsbAssumption
  DEF TypeOK, OutsideTypeOK, HAL!BudgetAssumption
<1>2. /\ usbLeft \in [HAL!Kinds -> Nat] /\ usbLeft' \in [HAL!Kinds -> Nat]
      /\ \A k \in HAL!Kinds : usbLeft'[k] <= usbLeft[k]
  BY UsbTypesStep, UsbLeftStep DEF UsbTypes
<1>3. usbLeft'["gadget"] = 0
  BY <1>1, <1>2 DEF AloneInv
<1>4. ASSUME NEW k \in HAL!Kinds PROVE usbLeft'[k] <= UsbBudget[k]
  <2>1. usbLeft'[k] <= usbLeft[k] /\ usbLeft[k] <= UsbBudget[k]
    BY <1>2 DEF AloneInv
  <2>2. usbLeft'[k] \in Nat /\ usbLeft[k] \in Nat /\ UsbBudget[k] \in Nat
    BY <1>1, <1>2
  <2> QED BY <2>1, <2>2
<1>5. left'["usbHal"] = 0
  <2>1. CASE UNCHANGED left
    BY <2>1 DEF AloneInv
  <2>2. CASE Next
    <3>1. left' \in [Kinds -> Nat] /\ left'["usbHal"] <= left["usbHal"]
      BY <1>1, <2>2, TypeStep, NeverMore DEF TypeOK, OutsideTypeOK
    <3>2. left'["usbHal"] \in Nat /\ left["usbHal"] = 0
      BY <1>1, <3>1 DEF AloneInv
    <3> QED BY <3>1, <3>2
  <2> QED
    BY <2>1, <2>2
    DEF StackNext, GadgetStep, UsbStep, gadgetHal, stackVars, vars
<1> QED BY <1>3, <1>4, <1>5 DEF AloneInv

\* What a step of the USB HAL does to the UDC attribute.
UdcStep ==
  \/ UNCHANGED udc
  \/ udc' = FALSE
  \/ udc' = TRUE /\ ~udc /\ Bindable /\ HAL!WriteUdc

LEMMA UsbUdc ==
  ASSUME TypeOK, UsbTypes, AloneInv, HAL!Next PROVE UdcStep
<1> USE DEF UdcStep
<1>1. udc \in BOOLEAN
  BY DEF TypeOK, KernelTypeOK
<1>2. CASE Elsewhere
  BY <1>2 DEF Elsewhere
<1>3. CASE \E c \in Calls : HAL!Call(c)
  BY <1>3 DEF HAL!Call, HAL!data
<1>4. CASE HAL!ReadUdc
  BY <1>4 DEF HAL!ReadUdc, HAL!data
<1>5. CASE HAL!WriteUdc
  <2>1. UNCHANGED udc \/ (HAL!Accepted /\ udc' = HAL!Wanted)
    BY <1>5 DEF HAL!WriteUdc
  <2>2. CASE HAL!Wanted
    BY <1>1, <1>5, <2>1, <2>2 DEF HAL!Accepted, HAL!Wanted
  <2>3. CASE ~HAL!Wanted
    BY <2>1, <2>3 DEF HAL!Wanted
  <2> QED BY <2>2, <2>3
<1>6. CASE HAL!ResetPort
  BY <1>6 DEF HAL!ResetPort
<1>7. ~HAL!GadgetHal
  BY UsbKindNames DEF HAL!GadgetHal, HAL!Spend, AloneInv
<1>8. CASE HAL!Crash
  BY <1>8 DEF HAL!Crash, HAL!data
<1> QED BY <1>2, <1>3, <1>4, <1>5, <1>6, <1>7, <1>8, UsbSteps

----------------------------------------------------------------------------
(* The invariants of the gadget HAL. *)

LEMMA GadgetSteps ==
  ASSUME GadgetInv, [Next]_vars PROVE GadgetInv'
<1>1. IInv'
  BY TypeStep, LockStep, MonitorStep, BoundStep, StageStep, AnswerStep, MonForStep,
     WokenStep
  DEF GadgetInv, IInv
<1>2. (AskedInv /\ PartsInv /\ LeftInv)'
  BY AskedStep, PartsStep, LeftStep DEF GadgetInv, IInv
<1> QED BY <1>1, <1>2 DEF GadgetInv

\* The USB HAL only changes the UDC attribute.
LEMMA GadgetKept ==
  ASSUME GadgetInv, UsbTypes, AloneInv, UsbStep PROVE GadgetInv'
<1> USE DEF gadgetHal, hal, call, monitor, inotify, outside
<1>1. UNCHANGED gadgetHal /\ HAL!Next
  BY DEF UsbStep
<1>2. udc' \in BOOLEAN /\ (udc' => udc \/ Bindable)
  <2>1. TypeOK
    BY DEF GadgetInv, IInv
  <2>2. udc \in BOOLEAN
    BY <2>1 DEF TypeOK, KernelTypeOK
  <2>3. UdcStep
    BY <1>1, <2>1, UsbUdc
  <2>4. CASE UNCHANGED udc
    BY <2>2, <2>4
  <2>5. CASE udc' = FALSE
    BY <2>5
  <2>6. CASE udc' = TRUE /\ ~udc /\ Bindable /\ HAL!WriteUdc
    BY <2>6
  <2> QED BY <2>3, <2>4, <2>5, <2>6 DEF UdcStep
<1>3. TypeOK'
  BY <1>1, <1>2
  DEF GadgetInv, IInv, TypeOK, HalTypeOK, CallTypeOK, MonitorTypeOK,
      KernelTypeOK, OutsideTypeOK
<1>4. (LockInv /\ MonitorInv)'
  BY <1>1 DEF GadgetInv, IInv, LockInv, Busy, MonitorInv
<1>5. BoundInv'
  BY <1>1, <1>2 DEF GadgetInv, IInv, BoundInv, Bindable
<1>6. (StageInv /\ AnswerInv /\ MonForInv /\ WaitIsWoken)'
  BY <1>1 DEF GadgetInv, IInv, StageInv, AnswerInv, MonForInv, WaitIsWoken
<1>7. (AskedInv /\ PartsInv /\ LeftInv)'
  BY <1>1
  DEF GadgetInv, AskedInv, PartsInv, LeftInv, Unspent, Whole, IdsOf, Selected
<1> QED BY <1>3, <1>4, <1>5, <1>6, <1>7 DEF GadgetInv, IInv

LEMMA GadgetInvStep ==
  GadgetInv /\ UsbTypes /\ AloneInv /\ [StackNext]_stackVars => GadgetInv'
BY GadgetSteps, GadgetKept DEF StackNext, GadgetStep, stackVars

LEMMA ResetStep ==
  UsbTypes /\ AloneInv /\ ResetInv /\ [StackNext]_stackVars => ResetInv'
<1> SUFFICES ASSUME UsbTypes, AloneInv, ResetInv, [StackNext]_stackVars
             PROVE  ResetInv'
  OBVIOUS
<1>1. CASE UNCHANGED <<usbPc, usbCall>>
  BY <1>1 DEF ResetInv
<1>2. CASE HAL!Next
  <2>1. CASE Elsewhere
    BY <2>1 DEF ResetInv, Elsewhere
  <2>2. ASSUME NEW c \in Calls, HAL!Call(c) PROVE ResetInv'
    <3>1. usbPc'["binder"] = HAL!FirstPc(c.kind) /\ usbCall' = c
      BY <2>2, UsbThreads, UsbGoto DEF UsbTypes, HAL!Call
    <3>2. c \in HAL!AnyCall
      BY UsbAssumption DEF HAL!CallsAssumption
    <3>3. c.kind \in {"setCallback", "mode", "role", "data", "reset", "query",
                      "unsupported"}
      BY <3>2 DEF HAL!AnyCall
    <3> QED BY <3>1, <3>3 DEF ResetInv, HAL!FirstPc
  <2>3. CASE HAL!ReadUdc \/ HAL!WriteUdc \/ HAL!ResetPort
    BY <2>3, UsbThreads, UsbGoto
    DEF UsbTypes, ResetInv, HAL!ReadUdc, HAL!WriteUdc, HAL!ResetPort
  <2>4. ~HAL!GadgetHal
    BY UsbKindNames DEF HAL!GadgetHal, HAL!Spend, AloneInv
  <2>5. CASE HAL!Crash
    BY <2>5, UsbThreads DEF ResetInv, HAL!Crash
  <2> QED BY <1>2, <2>1, <2>2, <2>3, <2>4, <2>5, UsbSteps
<1> QED BY <1>1, <1>2 DEF StackNext, GadgetStep, UsbStep, stackVars, usbHal

----------------------------------------------------------------------------
(* The steps of the gadget HAL, as far as a call that is under way is       *)
(* concerned.                                                               *)

\* A step that leaves the links, the locals of calls and the monitor alone.
Aside ==
  UNCHANGED <<links, status, todo, mEndpointList, watched, monitor, gadgetPullup,
              mMonitorCreated, mEventFd>>

\* While a call holds mLockSetCurrentFunction no other call makes a step.
LEMMA OthersWait ==
  ASSUME LockInv, NEW c \in Callers, Busy(c), NEW d \in Callers, Caller(d)
  PROVE  d = c
<1>1. Busy(d) \/ Lock(d)
  BY DEF Caller, TearDown, Setup, Busy, ClearApplied, PullDown, ClearDescriptors,
         UnlinkFunctions, StopMonitor, JoinMonitor, Disconnected, Validate,
         SetupFunctions, LinkFunction, LinksMade, PullUp, StartMonitor,
         WaitReturns, Answer
<1>2. mLockSetCurrentFunction = c
  BY DEF LockInv
<1>3. CASE Busy(d)
  BY <1>2, <1>3 DEF LockInv
<1>4. CASE Lock(d)
  BY <1>2, <1>4, CallersAssumption DEF Lock
<1> QED BY <1>1, <1>3, <1>4

\* What is left of Next is clients and daemons.
LEMMA AsideSteps ==
  ASSUME Next, ~Crash, ~MonitorFfs, \A d \in Callers : ~Caller(d)
  PROVE  Aside
<1>1. CASE \E d \in Callers : Client(d)
  BY <1>1 DEF Aside, Client, Call, Reset, hal, call, inotify, configfs
<1>2. CASE Environment
  BY <1>2
  DEF Aside, Environment, FfsOpen, FfsDescriptors, FfsClose, FfsActivity,
      UsbHalPullUp, UsbHalPullDown, SetVendorConfig, hal, call, inotify, configfs
<1>3. CASE Quiescent
  BY <1>3 DEF Aside, Quiescent, vars, hal, call, inotify, configfs
<1> QED BY <1>1, <1>2, <1>3 DEF Next

LEMMA Rest ==
  ASSUME TypeOK, LockInv, Next, NEW c \in Callers, Busy(c), ~Caller(c), ~Crash
  PROVE  /\ pc'[c] = pc[c] /\ req'[c] = req[c]
         /\ UNCHANGED <<links, status, todo>>
         /\ MonitorFfs \/ Aside
<1>1. pc \in [Callers -> CallerPcs] /\ DOMAIN req = Callers
  BY DEF TypeOK, CallTypeOK
<1>2. ASSUME NEW d \in Callers, Caller(d) PROVE FALSE
  BY <1>2, OthersWait
<1>3. CASE MonitorFfs
  BY <1>3
  DEF MonitorFfs, MonitorScan, MonitorWrite, MonitorPublish, MonitorEvent,
      MonitorEpoll, call, configfs
<1>4. CASE \E d \in Callers : Client(d)
  <2>1. PICK d \in Callers : Client(d)
    BY <1>4
  <2>2. d # c \/ UNCHANGED <<pc, req>>
    BY <2>1 DEF Client, Call, Reset, call, Busy
  <2>3. pc'[c] = pc[c] /\ req'[c] = req[c]
    BY <1>1, <2>1, <2>2 DEF Client, Call, Reset, call, Goto
  <2>4. Aside
    BY <2>1 DEF Aside, Client, Call, Reset, hal, call, inotify, configfs
  <2> QED BY <2>3, <2>4 DEF Aside
<1>5. CASE Environment
  BY <1>5
  DEF Aside, Environment, FfsOpen, FfsDescriptors, FfsClose, FfsActivity,
      UsbHalPullUp, UsbHalPullDown, SetVendorConfig, hal, call, inotify, configfs
<1>6. CASE Quiescent
  BY <1>6 DEF Aside, Quiescent, vars, hal, call, inotify, configfs
<1> QED BY <1>2, <1>3, <1>4, <1>5, <1>6 DEF Next

\* A call is told SUCCESS with a callback after its pull-up, or after its wait.
LEMMA LastSteps ==
  ASSUME TypeOK, NEW c \in Callers, Caller(c)
  PROVE  /\ pc[c] # "wait" /\ pc'[c] = "wait" =>
              gadgetPullup' = FALSE /\ monPc' = "scan"
         /\ pc[c] # "answer" /\ pc'[c] = "answer" /\ status' = "SUCCESS" =>
              \/ PullUp(c) /\ CanBind /\ udc' = TRUE
              \/ WaitReturns(c) /\ gadgetPullup
              \/ req'[c].functions = NONE \/ ~req'[c].callback
         /\ pc[c] = "wait" => WaitReturns(c)
         /\ pc[c] = "answer" => Answer(c)
<1>1. pc \in [Callers -> CallerPcs]
  BY DEF TypeOK, CallTypeOK
<1>2. CASE \/ Lock(c) \/ ClearApplied(c) \/ PullDown(c) \/ ClearDescriptors(c)
           \/ UnlinkFunctions(c) \/ StopMonitor(c) \/ JoinMonitor(c)
  BY <1>1, <1>2
  DEF Lock, ClearApplied, PullDown, ClearDescriptors, UnlinkFunctions,
      StopMonitor, JoinMonitor, Goto, Fail
<1>3. CASE Disconnected(c) \/ Validate(c) \/ SetupFunctions(c)
  BY <1>1, <1>3
  DEF Disconnected, Validate, SetupFunctions, Goto, Fail
<1>4. CASE LinkFunction(c) \/ LinksMade(c)
  BY <1>1, <1>4
  DEF LinkFunction, LinksMade, Goto, Fail
<1>5. CASE PullUp(c)
  BY <1>1, <1>5 DEF PullUp, Goto
<1>6. CASE StartMonitor(c)
  BY <1>1, <1>6 DEF StartMonitor, Goto, Fail
<1>7. CASE WaitReturns(c)
  BY <1>1, <1>7 DEF WaitReturns, Goto
<1>8. CASE Answer(c)
  BY <1>1, <1>8 DEF Answer, Goto
<1> QED
  BY <1>2, <1>3, <1>4, <1>5, <1>6, <1>7, <1>8 DEF Caller, TearDown, Setup

\* A call only gets past its lock by a step of its own.
LEMMA Stays ==
  ASSUME TypeOK, Next, NEW c \in Callers, ~Caller(c)
  PROVE  pc'[c] = pc[c] \/ ~Busy(c)'
<1>1. pc \in [Callers -> CallerPcs]
  BY DEF TypeOK, CallTypeOK
<1>2. CASE \E d \in Callers : Caller(d)
  <2>1. PICK d \in Callers : Caller(d) /\ d # c
    BY <1>2
  <2>2. CASE \/ Lock(d) \/ ClearApplied(d) \/ PullDown(d) \/ ClearDescriptors(d)
             \/ UnlinkFunctions(d) \/ StopMonitor(d) \/ JoinMonitor(d)
    BY <1>1, <2>1, <2>2
    DEF Lock, ClearApplied, PullDown, ClearDescriptors, UnlinkFunctions,
        StopMonitor, JoinMonitor, Goto, Fail
  <2>3. CASE \/ Disconnected(d) \/ Validate(d) \/ SetupFunctions(d)
             \/ LinkFunction(d) \/ LinksMade(d) \/ PullUp(d)
    BY <1>1, <2>1, <2>3
    DEF Disconnected, Validate, SetupFunctions, LinkFunction, LinksMade, PullUp,
        Goto, Fail
  <2>4. CASE StartMonitor(d) \/ WaitReturns(d) \/ Answer(d)
    BY <1>1, <2>1, <2>4 DEF StartMonitor, WaitReturns, Answer, Goto, Fail
  <2> QED BY <2>1, <2>2, <2>3, <2>4 DEF Caller, TearDown, Setup
<1>3. CASE \E d \in Callers : Client(d)
  BY <1>1, <1>3 DEF Client, Call, Reset, Goto, call, Busy
<1>4. CASE MonitorFfs
  BY <1>4
  DEF MonitorFfs, MonitorScan, MonitorWrite, MonitorPublish, MonitorEvent,
      MonitorEpoll, call
<1>5. CASE Environment
  BY <1>5
  DEF Environment, Crash, FfsOpen, FfsDescriptors, FfsClose, FfsActivity,
      UsbHalPullUp, UsbHalPullDown, SetVendorConfig, call, Busy
<1>6. CASE Quiescent
  BY <1>6 DEF Quiescent, vars, call
<1> QED BY <1>2, <1>3, <1>4, <1>5, <1>6 DEF Next

----------------------------------------------------------------------------
(* What a call that waits or answers may rely on. *)

\* The gadget goes on with the functions it is bound with, or is bound with those
\* that are linked, or is not bound.
LEMMA BoundSteps ==
  ASSUME bound' = BoundAfter
  PROVE  bound' \in {{}, bound, links} /\ (~udc' => bound' = {})
BY DEF BoundAfter

LEMMA SuccessStep ==
  GadgetInv /\ SuccessInv /\ SuccessIsWhole /\ [StackNext]_stackVars
    => SuccessInv' /\ SuccessIsWhole'
<1> SUFFICES ASSUME GadgetInv, SuccessInv, SuccessIsWhole, [StackNext]_stackVars
             PROVE  SuccessInv' /\ SuccessIsWhole'
  OBVIOUS
<1>1. CASE UNCHANGED stackVars
  BY <1>1
  DEF stackVars, vars, hal, call, monitor, configfs, SuccessInv, SuccessIsWhole
<1>2. CASE StackNext /\ UsbStep
  <2>1. /\ bound' \in {{}, bound, links} /\ (~udc' => bound' = {})
        /\ UNCHANGED <<pc, req, status, links, gadgetPullup, monPc>>
    BY <1>2, BoundSteps DEF StackNext, UsbStep, gadgetHal, hal, call, monitor
  <2> QED BY <2>1 DEF SuccessInv, SuccessIsWhole
<1>3. CASE StackNext /\ GadgetStep
  <2>1. /\ bound' \in {{}, bound, links} /\ (~udc' => bound' = {})
        /\ Next /\ bound' = BoundAfter
    BY <1>3, BoundSteps DEF StackNext, GadgetStep
  <2>2. /\ TypeOK /\ LockInv /\ pc \in [Callers -> CallerPcs]
    BY DEF GadgetInv, IInv, TypeOK, CallTypeOK
  <2>3. ASSUME ~udc, udc' = TRUE PROVE bound' = links
    BY <2>1, <2>3 DEF BoundAfter
  <2>4. CASE Crash
    <3>1. \A c \in Callers : pc'[c] = "idle"
      BY <2>4 DEF Crash
    <3> QED BY <2>1, <3>1 DEF SuccessInv, SuccessIsWhole
  <2>5. ASSUME ~Crash, NEW c \in Callers, pc'[c] = "wait",
               gadgetPullup' \/ monPc' = "publish"
        PROVE  bound' \in {{}, links'}
    <3>1. pc[c] = "wait"
      BY <2>1, <2>2, <2>5, LastSteps, Stays DEF Busy
    <3>2. ~Caller(c)
      BY <2>2, <2>5, <3>1, LastSteps DEF WaitReturns, Goto
    <3>3. UNCHANGED links /\ (MonitorFfs \/ Aside)
      BY <2>1, <2>2, <2>5, <3>1, <3>2, Rest DEF Busy
    <3>4. CASE gadgetPullup \/ monPc = "publish"
      BY <2>1, <3>1, <3>3, <3>4 DEF SuccessInv
    <3>5. CASE ~gadgetPullup /\ monPc # "publish"
      <4>1. MonitorWrite /\ CanBind /\ udc' = TRUE
        BY <2>5, <3>3, <3>5
        DEF Aside, monitor, MonitorFfs, MonitorScan, MonitorWrite, MonitorPublish,
            MonitorEvent, MonitorEpoll, hal
      <4> QED BY <2>3, <3>3, <4>1 DEF CanBind
    <3> QED BY <3>4, <3>5
  <2>6. ASSUME ~Crash, NEW c \in Callers, pc'[c] = "answer", status' = "SUCCESS",
               req'[c].callback, req'[c].functions # NONE
        PROVE  bound' \in {{}, links'}
    <3>1. CASE pc[c] = "answer"
      <4>1. ~Caller(c)
        BY <2>2, <2>6, <3>1, LastSteps DEF Answer, Goto
      <4>2. UNCHANGED <<links, status>> /\ req'[c] = req[c]
        BY <2>1, <2>2, <2>6, <3>1, <4>1, Rest DEF Busy
      <4> QED BY <2>1, <2>6, <3>1, <4>2 DEF SuccessIsWhole
    <3>2. CASE PullUp(c) /\ CanBind /\ udc' = TRUE
      BY <2>3, <3>2 DEF PullUp, CanBind
    <3>3. CASE WaitReturns(c) /\ gadgetPullup
      BY <2>1, <3>3 DEF WaitReturns, configfs, SuccessInv
    <3> QED BY <2>1, <2>2, <2>6, <3>1, <3>2, <3>3, LastSteps, Stays DEF Busy
  <2> QED BY <2>1, <2>4, <2>5, <2>6 DEF SuccessInv, SuccessIsWhole
<1> QED BY <1>1, <1>2, <1>3 DEF StackNext

----------------------------------------------------------------------------
(* Functionfs functions and the monitor's stop. *)

LEMMA FfsStep ==
  GadgetInv /\ FfsInv /\ [StackNext]_stackVars => FfsInv'
<1> SUFFICES ASSUME GadgetInv, FfsInv, [StackNext]_stackVars, NEW c \in Callers,
                    pc'[c] \in {"link", "pullUp"}
             PROVE  /\ pc'[c] = "link" =>
                         (links \cup Range(todo))' \cap Ffs \subseteq req'[c].functions
                    /\ pc'[c] = "pullUp" => links' \cap Ffs = {}
  BY DEF FfsInv
<1>1. /\ TypeOK /\ LockInv /\ pc \in [Callers -> CallerPcs]
      /\ todo \in Seq(LinkName)
  BY DEF GadgetInv, IInv, TypeOK, CallTypeOK
<1>2. ASSUME pc'[c] = pc[c], req'[c] = req[c], UNCHANGED <<links, todo>>
      PROVE  /\ pc'[c] = "link" =>
                  (links \cup Range(todo))' \cap Ffs \subseteq req'[c].functions
             /\ pc'[c] = "pullUp" => links' \cap Ffs = {}
  <2>1. Range(todo)' = Range(todo)
    BY <1>2
  <2> QED BY <1>2, <2>1 DEF FfsInv
<1>3. CASE UNCHANGED gadgetHal
  BY <1>2, <1>3 DEF gadgetHal, call
<1>4. CASE UNCHANGED vars
  BY <1>2, <1>4 DEF vars, call, configfs
<1>5. CASE Next /\ ~Caller(c)
  <2>1. pc'[c] = pc[c] /\ Busy(c) /\ ~Crash
    BY <1>1, <1>5, Stays DEF Busy, Crash
  <2> QED BY <1>1, <1>2, <1>5, <2>1, Rest
<1>6. CASE Caller(c)
  <2>1. SetupFunctions(c) \/ LinkFunction(c) \/ LinksMade(c)
    BY <1>1, <1>6
    DEF Caller, TearDown, Setup, Lock, ClearApplied, PullDown, ClearDescriptors,
        UnlinkFunctions, StopMonitor, JoinMonitor, Disconnected, Validate,
        SetupFunctions, LinkFunction, LinksMade, PullUp, StartMonitor,
        WaitReturns, Answer, Goto, Fail
  <2>2. CASE SetupFunctions(c)
    <3>1. /\ pc'[c] = "link" /\ links' = {} /\ req'[c] = req[c]
          /\ todo' = LinkList(req[c].functions, Selected)
      BY <1>1, <2>2
      DEF SetupFunctions, Goto, configfs, GadgetInv, IInv, StageInv, Selected
    <3>2. req[c].functions \in SUBSET GadgetFunction /\ Selected \in VendorStrings
      BY VendorFunctionsType
      DEF GadgetInv, IInv, TypeOK, CallTypeOK, OutsideTypeOK, Selected
    <3>3. Range(todo') \subseteq
            req[c].functions \cup Range(VendorLinks[Selected])
      BY <3>1, <3>2, LinkListRange
    <3>4. Range(VendorLinks[Selected]) \cap Ffs = {}
      BY <3>2, VendorLinksRange DEF Ffs, GadgetFunction
    <3> QED BY <3>1, <3>3, <3>4
  <2>3. CASE LinkFunction(c)
    <3>1. /\ pc[c] = "link" /\ pc'[c] = "link" /\ todo # <<>>
          /\ links' = links \cup {Head(todo)} /\ todo' = Tail(todo)
          /\ req'[c] = req[c]
      BY <1>1, <2>3 DEF LinkFunction, Goto, Fail
    <3>2. {Head(todo)} \cup Range(Tail(todo)) = Range(todo)
      BY <1>1, <3>1, HeadAndTail
    <3> QED BY <3>1, <3>2 DEF FfsInv
  <2>4. CASE LinksMade(c)
    <3>1. /\ pc[c] = "link" /\ pc'[c] = "pullUp" /\ links' = links
          /\ req[c].functions \cap Ffs = {}
      BY <1>1, <2>4 DEF LinksMade, Goto, configfs
    <3> QED BY <3>1 DEF FfsInv
  <2> QED BY <2>1, <2>2, <2>3, <2>4
<1> QED
  BY <1>3, <1>4, <1>5, <1>6 DEF StackNext, GadgetStep, UsbStep, stackVars

LEMMA StopStep ==
  GadgetInv /\ StopInv /\ [StackNext]_stackVars => StopInv'
<1> DEFINE Stopping == mEventFd \/ (mMonitorCreated /\ (stopSeen \/ monPc = "exited"))
<1> SUFFICES ASSUME GadgetInv, StopInv, [StackNext]_stackVars
             PROVE  scan' >= 1 /\ (Stopping' => \E c \in Callers : pc'[c] = "join")
  BY DEF StopInv
<1>1. /\ TypeOK /\ LockInv /\ pc \in [Callers -> CallerPcs]
      /\ scan \in Nat /\ scan >= 1
      /\ Stopping => \E c \in Callers : pc[c] = "join"
  BY DEF GadgetInv, IInv, TypeOK, CallTypeOK, MonitorTypeOK, StopInv
<1>2. CASE UNCHANGED <<pc, monitor, mEventFd, mMonitorCreated>>
  BY <1>1, <1>2 DEF monitor
<1>3. CASE Crash
  BY <1>1, <1>3 DEF Crash, Release
<1>4. CASE MonitorFfs
  BY <1>1, <1>4
  DEF MonitorFfs, MonitorScan, MonitorWrite, MonitorPublish, MonitorEvent,
      MonitorEpoll, call, hal
<1>5. CASE Next /\ ~Crash /\ ~MonitorFfs /\ \A d \in Callers : ~Caller(d)
  <2>1. Aside
    BY <1>5, AsideSteps
  <2>2. ASSUME NEW c \in Callers, pc[c] = "join" PROVE pc'[c] = "join"
    BY <1>1, <1>5, <2>2, Rest DEF Busy
  <2> QED BY <1>1, <2>1, <2>2 DEF Aside, monitor
<1>6. ASSUME NEW d \in Callers, Caller(d)
      PROVE  scan' >= 1 /\ (Stopping' => \E c \in Callers : pc'[c] = "join")
  <2>1. \A c \in Callers : pc[c] = "join" => c = d
    BY <1>1, <1>6, OthersWait DEF Busy
  <2>2. CASE StopMonitor(d)
    <3>1. CASE mMonitorCreated
      BY <1>1, <2>2, <3>1 DEF StopMonitor, Goto, monitor
    <3>2. CASE ~mMonitorCreated
      BY <1>1, <2>2, <3>2 DEF StopMonitor, Release, monitor
    <3> QED BY <3>1, <3>2
  <2>3. CASE JoinMonitor(d)
    BY <1>1, <2>3 DEF JoinMonitor, Release
  <2>4. CASE StartMonitor(d)
    <3>1. ~mEventFd
      BY <1>1, <2>1, <2>4 DEF StartMonitor
    <3>2. \/ scan' = 1 /\ stopSeen' = FALSE /\ monPc' = "scan"
          \/ UNCHANGED <<monitor, mMonitorCreated>>
      BY <2>4 DEF StartMonitor
    <3>3. UNCHANGED mEventFd /\ (Stopping => FALSE)
      BY <1>1, <2>1, <2>4 DEF StartMonitor
    <3> QED BY <1>1, <3>1, <3>2, <3>3 DEF monitor
  <2>5. CASE ~StopMonitor(d) /\ ~JoinMonitor(d) /\ ~StartMonitor(d)
    <3>1. /\ UNCHANGED <<monitor, mEventFd, mMonitorCreated>> /\ pc[d] # "join"
      BY <1>6, <2>5
      DEF Caller, TearDown, Setup, Lock, ClearApplied, PullDown, ClearDescriptors,
          UnlinkFunctions, Disconnected, Validate, SetupFunctions, LinkFunction,
          LinksMade, PullUp, WaitReturns, Answer, hal
    <3> QED BY <1>1, <2>1, <3>1 DEF monitor
  <2> QED BY <2>2, <2>3, <2>4, <2>5
<1> QED
  BY <1>2, <1>3, <1>4, <1>5, <1>6
  DEF StackNext, GadgetStep, UsbStep, stackVars, gadgetHal, vars, hal, call

----------------------------------------------------------------------------
(* Without accidents. *)

Accidents == {"writeFaults", "unlinkFaults", "closes", "crashes", "resets"}

\* What has not happened afterwards had not happened before, nor does it now.
LEMMA NoAccidentBefore ==
  ASSUME GadgetInv, UsbTypes, AloneInv, [StackNext]_stackVars, NoAccident'
  PROVE  /\ NoAccident
         /\ \A k \in Accidents : ~Spend(k)
         /\ ~HAL!Spend("crashes") /\ ~HAL!Spend("faults")
<1>1. ASSUME NEW k \in Accidents PROVE left[k] = Budget[k] /\ ~Spend(k)
  <2>1. k \in Kinds /\ left'[k] = Budget[k]
    BY KindNames DEF Accidents, NoAccident
  <2>2. left \in [Kinds -> Nat] /\ Budget \in [Kinds -> Nat]
    BY BudgetAssumption DEF GadgetInv, IInv, TypeOK, OutsideTypeOK
  <2>3. left'[k] <= left[k]
    BY <2>1, <2>2, NeverMore
    DEF StackNext, GadgetStep, UsbStep, gadgetHal, stackVars, vars
  <2>4. left[k] <= Budget[k] /\ left[k] \in Nat /\ Budget[k] \in Nat
    BY <2>1, <2>2 DEF GadgetInv, LeftInv
  <2>5. left[k] = Budget[k]
    BY <2>1, <2>3, <2>4
  <2>6. Spend(k) => left'[k] = left[k] - 1
    BY <2>1, <2>2, SpendLess
  <2> QED BY <2>1, <2>4, <2>5, <2>6
<1>2. ASSUME NEW k \in {"crashes", "faults"}
      PROVE  usbLeft[k] = UsbBudget[k] /\ ~HAL!Spend(k)
  <2>1. k \in HAL!Kinds /\ usbLeft'[k] = UsbBudget[k]
    BY UsbKindNames DEF NoAccident
  <2>2. usbLeft \in [HAL!Kinds -> Nat] /\ UsbBudget \in [HAL!Kinds -> Nat]
    BY UsbAssumption DEF UsbTypes, HAL!BudgetAssumption
  <2>3. usbLeft'[k] <= usbLeft[k] /\ usbLeft[k] <= UsbBudget[k]
    BY <2>1, UsbLeftStep DEF AloneInv
  <2>4. usbLeft[k] \in Nat /\ UsbBudget[k] \in Nat
    BY <2>1, <2>2
  <2>5. usbLeft[k] = UsbBudget[k]
    BY <2>1, <2>3, <2>4
  <2>6. HAL!Spend(k) => usbLeft'[k] = usbLeft[k] - 1
    BY <2>1, <2>2 DEF HAL!Spend
  <2> QED BY <2>1, <2>4, <2>5, <2>6
<1> QED BY <1>1, <1>2 DEF NoAccident, Accidents

\* The steps of a call that stops replacing the functions, and of one that had.
LEMMA EndOfBuilding ==
  ASSUME TypeOK, LockInv, NEW c \in Callers, Caller(c), ~Building',
         \A k \in Accidents : ~Spend(k)
  PROVE  \/ Disconnected(c)
         \/ Validate(c)
         \/ PullUp(c)
         \/ StartMonitor(c) /\ monPc' = "scan"
         \/ WaitReturns(c) /\ ~Building
         \/ Answer(c) /\ ~Building
<1>1. pc \in [Callers -> CallerPcs] /\ pc'[c] \in {"idle", "locking", "wait", "answer"}
  BY DEF TypeOK, CallTypeOK, Building
<1>2. ASSUME WaitReturns(c) \/ Answer(c) PROVE ~Building
  <2>1. pc[c] \in {"wait", "answer"}
    BY <1>2 DEF WaitReturns, Answer
  <2>2. \A d \in Callers : Busy(d) => d = c
    BY <2>1 DEF LockInv, Busy
  <2> QED BY <2>1, <2>2 DEF Building, Busy
<1>3. ASSUME \/ Lock(c) \/ ClearApplied(c) \/ PullDown(c) \/ StopMonitor(c)
             \/ JoinMonitor(c) \/ SetupFunctions(c) \/ LinksMade(c)
      PROVE  FALSE
  BY <1>1, <1>3
  DEF Lock, ClearApplied, PullDown, StopMonitor, JoinMonitor, SetupFunctions,
      LinksMade, Goto
<1>4. ASSUME ClearDescriptors(c) \/ UnlinkFunctions(c) \/ LinkFunction(c)
      PROVE  FALSE
  BY <1>1, <1>4
  DEF ClearDescriptors, UnlinkFunctions, LinkFunction, Goto, Accidents
<1>5. StartMonitor(c) => monPc' = "scan"
  BY DEF StartMonitor, Accidents
<1> QED
  BY <1>2, <1>3, <1>4, <1>5 DEF Caller, TearDown, Setup

LEMMA StillBuilding ==
  ASSUME TypeOK, LockInv, Next, ~Crash, \A c \in Callers : ~Caller(c), ~Building'
  PROVE  ~Building
<1>1. ASSUME NEW c \in Callers, pc[c] \notin {"idle", "locking", "wait", "answer"}
      PROVE  FALSE
  BY <1>1, Rest DEF Building, Busy
<1> QED BY <1>1 DEF Building

\* Daemons that neither die nor open a linked function's ep0 leave the gadget as
\* bindable as it was, or make it more so.
LEMMA DaemonSteps ==
  ASSUME TypeOK, NEW f \in Daemons,
         FfsOpen(f) \/ FfsDescriptors(f) \/ FfsActivity(f)
  PROVE  /\ Bindable => Bindable'
         /\ Bindable' /\ ~Bindable => FfsDescriptors(f) /\ f \in links
         /\ Bindable' => UNCHANGED udc
<1>1. f \in Ffs /\ ffs \in [Ffs -> FfsState] /\ udc \in BOOLEAN
  BY DaemonsAssumption DEF TypeOK, OutsideTypeOK, KernelTypeOK
<1>2. CASE FfsOpen(f)
  <2>1. /\ links' = links /\ ffs[f] # "active" /\ ffs'[f] # "active"
        /\ \A g \in Ffs \ {f} : ffs'[g] = ffs[g]
        /\ f \notin links => UNCHANGED udc
    BY <1>1, <1>2 DEF FfsOpen
  <2> QED BY <1>1, <2>1, <1>2 DEF Bindable, FfsOpen, FfsDescriptors
<1>3. CASE FfsDescriptors(f)
  <2>1. /\ UNCHANGED <<links, udc>> /\ ffs'[f] = "active"
        /\ \A g \in Ffs \ {f} : ffs'[g] = ffs[g]
    BY <1>1, <1>3 DEF FfsDescriptors, configfs
  <2> QED BY <1>1, <2>1, <1>3 DEF Bindable
<1>4. CASE FfsActivity(f)
  BY <1>4 DEF FfsActivity, configfs, outside, Bindable
<1> QED BY <1>2, <1>3, <1>4

\* A call that ends has left a gadget without functionfs functions and without a
\* monitor, or one with a monitor that watches them.
LEMMA WatchStep ==
  GadgetInv /\ UsbTypes /\ AloneInv /\ FfsInv /\ WatchInv /\ [StackNext]_stackVars
    => WatchInv'
<1> DEFINE Watch ==
             /\ ~mMonitorCreated => links \cap Ffs = {}
             /\ mMonitorCreated => watched = links \cap Ffs
                                   /\ Range(mEndpointList) = links \cap Ffs
             /\ mMonitorCreated /\ (~writeUdc \/ monPc = "publish") => Bindable
<1> SUFFICES ASSUME GadgetInv, UsbTypes, AloneInv, FfsInv, WatchInv,
                    [StackNext]_stackVars, NoAccident', ~Building'
             PROVE  Watch'
  BY DEF WatchInv
<1>1. /\ NoAccident /\ \A k \in Accidents : ~Spend(k)
      /\ {"writeFaults", "unlinkFaults", "closes", "crashes", "resets"} = Accidents
  BY NoAccidentBefore DEF Accidents
<1>2. /\ TypeOK /\ LockInv /\ MonitorInv /\ StageInv
      /\ pc \in [Callers -> CallerPcs]
  BY DEF GadgetInv, IInv, TypeOK, CallTypeOK
<1>3. ~Building => Watch
  BY <1>1 DEF WatchInv
<1>4. CASE UNCHANGED <<pc, links, mMonitorCreated, watched, mEndpointList, writeUdc,
                       monPc, ffs>>
  BY <1>3, <1>4 DEF Building, Bindable
<1>5. ~Crash
  BY <1>1 DEF Crash
<1>6. CASE MonitorFfs
  <2>1. /\ ~Building /\ Watch /\ mMonitorCreated
        /\ UNCHANGED <<links, mMonitorCreated, watched, mEndpointList, ffs>>
    <3>1. /\ UNCHANGED <<pc, links, mMonitorCreated, watched, mEndpointList, ffs>>
          /\ monPc # "off"
      BY <1>6
      DEF MonitorFfs, MonitorScan, MonitorWrite, MonitorPublish, MonitorEvent,
          MonitorEpoll, call, hal, configfs, outside, inotify
    <3> QED BY <1>2, <1>3, <3>1 DEF Building, MonitorInv
  <2>2. Bindable' = Bindable
    BY <2>1 DEF Bindable
  <2>3. CASE MonitorScan \/ MonitorEvent \/ MonitorEpoll
    <3>1. (~writeUdc' \/ monPc' = "publish") => ~writeUdc
      BY <2>3 DEF MonitorScan, MonitorEvent, MonitorEpoll
    <3> QED BY <2>1, <2>2, <3>1
  <2>4. CASE MonitorWrite
    <3>1. (~writeUdc' \/ monPc' = "publish") => ~writeUdc \/ Bindable
      BY <2>4 DEF MonitorWrite, CanBind
    <3> QED BY <2>1, <2>2, <3>1
  <2>5. CASE MonitorPublish
    <3>1. monPc = "publish"
      BY <2>5 DEF MonitorPublish
    <3> QED BY <2>1, <2>2, <3>1
  <2> QED BY <1>6, <2>3, <2>4, <2>5 DEF MonitorFfs
<1>7. ASSUME Next, ~MonitorFfs, \A c \in Callers : ~Caller(c) PROVE Watch'
  <2>1. Aside /\ ~Building
    BY <1>2, <1>5, <1>7, AsideSteps, StillBuilding
  <2>2. Watch /\ UNCHANGED <<links, mMonitorCreated, watched, mEndpointList,
                             writeUdc, monPc>>
    BY <1>3, <2>1 DEF Aside, monitor
  <2>3. Bindable => Bindable'
    <3>1. CASE UNCHANGED ffs
      BY <2>2, <3>1 DEF Bindable
    <3>2. CASE \E f \in Daemons : FfsOpen(f) \/ FfsDescriptors(f) \/ FfsActivity(f)
      BY <1>2, <3>2, DaemonSteps
    <3>3. CASE \E f \in Daemons : FfsClose(f)
      BY <1>1, <3>3 DEF FfsClose
    <3>4. \/ UNCHANGED ffs
          \/ \E f \in Daemons : \/ FfsOpen(f) \/ FfsDescriptors(f)
                                \/ FfsActivity(f) \/ FfsClose(f)
      BY <1>5, <1>7
      DEF Next, Client, Call, Reset, Environment, UsbHalPullUp, UsbHalPullDown,
          SetVendorConfig, Quiescent, vars, outside
    <3> QED BY <3>1, <3>2, <3>3, <3>4
  <2> QED BY <2>2, <2>3
<1>8. ASSUME NEW c \in Callers, Caller(c) PROVE Watch'
  <2>1. \/ Disconnected(c) \/ Validate(c) \/ PullUp(c)
        \/ StartMonitor(c) /\ monPc' = "scan"
        \/ WaitReturns(c) /\ ~Building
        \/ Answer(c) /\ ~Building
    BY <1>1, <1>2, <1>8, EndOfBuilding
  <2>2. CASE Disconnected(c) \/ Validate(c)
    <3>1. UNCHANGED <<links, mMonitorCreated>> /\ pc[c] \in {"disconnect", "validate"}
      BY <2>2 DEF Disconnected, Validate, hal, configfs
    <3> QED BY <1>2, <3>1 DEF StageInv
  <2>3. CASE PullUp(c)
    <3>1. UNCHANGED <<links, mMonitorCreated>> /\ pc[c] = "pullUp"
      BY <2>3 DEF PullUp
    <3> QED BY <1>2, <3>1 DEF StageInv, FfsInv
  <2>4. CASE StartMonitor(c) /\ monPc' = "scan"
    <3>1. /\ pc[c] = "start" /\ UNCHANGED <<links, watched, mEndpointList>>
          /\ mMonitorCreated' = TRUE /\ writeUdc' = TRUE
      BY <1>1, <2>4 DEF StartMonitor, configfs, inotify
    <3>2. watched = links \cap Ffs /\ Range(mEndpointList) = links \cap Ffs
      BY <1>2, <3>1 DEF StageInv
    <3> QED BY <2>4, <3>1, <3>2
  <2>5. CASE (WaitReturns(c) \/ Answer(c)) /\ ~Building
    <3>1. UNCHANGED <<links, mMonitorCreated, watched, mEndpointList, writeUdc,
                      monPc, ffs>>
      BY <2>5 DEF WaitReturns, Answer, monitor, inotify, configfs, outside
    <3> QED BY <1>3, <2>5, <3>1 DEF Bindable
  <2> QED BY <2>1, <2>2, <2>3, <2>4, <2>5
<1> QED
  BY <1>4, <1>6, <1>7, <1>8
  DEF StackNext, GadgetStep, UsbStep, stackVars, vars, gadgetHal, hal, call,
      monitor, inotify, configfs, outside

----------------------------------------------------------------------------
(* Data turned on last leaves the gadget bound. *)

\* The steps of the USB HAL.
LEMMA OnUsbStep ==
  /\ GadgetInv /\ UsbTypes /\ AloneInv /\ ResetInv /\ OnInv
  /\ UsbStep /\ [StackNext]_stackVars
  => OnInv'
<1> SUFFICES ASSUME GadgetInv, UsbTypes, AloneInv, ResetInv, OnInv, UsbStep,
                    [StackNext]_stackVars,
                    NoAccident', ~Building', Bindable', DataOn', ~MonitorComes',
                    usbPc'["binder"] \notin {"udcRead", "udcWrite"}
             PROVE  udc'
  BY DEF OnInv
<1>1. NoAccident /\ ~HAL!Spend("crashes") /\ ~HAL!Spend("faults")
  BY NoAccidentBefore
<1>2. ~Building /\ Bindable /\ ~MonitorComes /\ HAL!Next
  BY DEF UsbStep, gadgetHal, call, monitor, inotify, outside, Building, Bindable,
         MonitorComes
<1>3. DataOn /\ usbPc["binder"] \notin {"udcRead", "udcWrite"} => udc
  BY <1>1, <1>2 DEF OnInv
<1>4. udc \in BOOLEAN
  BY DEF GadgetInv, IInv, TypeOK, KernelTypeOK
<1>5. CASE Elsewhere
  BY <1>3, <1>5 DEF Elsewhere, DataOn
<1>6. ASSUME NEW c \in Calls, HAL!Call(c) PROVE FALSE
  <2>1. usbPc'["binder"] = HAL!FirstPc(c.kind) /\ usbCall' = c
    BY <1>6, UsbThreads, UsbGoto DEF UsbTypes, HAL!Call
  <2>2. c.kind = "data"
    BY <2>1 DEF DataOn
  <2> QED BY <2>1, <2>2 DEF HAL!FirstPc
<1>7. CASE HAL!ReadUdc
  <2>1. /\ usbPc'["binder"] = IF udc = HAL!Wanted THEN "dataPath" ELSE "udcWrite"
        /\ UNCHANGED <<udc, usbCall>>
    BY <1>1, <1>7, UsbThreads, UsbGoto DEF UsbTypes, HAL!ReadUdc, HAL!data, HAL!locals
  <2>2. HAL!Wanted = TRUE
    BY <2>1 DEF DataOn, HAL!Wanted
  <2> QED BY <1>4, <2>1, <2>2
<1>8. CASE HAL!WriteUdc
  <2>1. UNCHANGED usbCall
    BY <1>8 DEF HAL!WriteUdc
  <2>2. HAL!Wanted = TRUE
    BY <2>1 DEF DataOn, HAL!Wanted
  <2>3. \/ HAL!Accepted /\ udc' = HAL!Wanted
        \/ ~HAL!Accepted /\ UNCHANGED udc
    BY <1>1, <1>8 DEF HAL!WriteUdc
  <2>4. HAL!Accepted <=> udc # TRUE
    BY <1>2, <2>2 DEF HAL!Accepted
  <2> QED BY <1>4, <2>2, <2>3, <2>4
<1>9. ASSUME HAL!ResetPort PROVE FALSE
  BY <1>9 DEF HAL!ResetPort, ResetInv, DataOn
<1>10. ~HAL!GadgetHal
  BY UsbKindNames DEF HAL!GadgetHal, HAL!Spend, AloneInv
<1>11. ~HAL!Crash
  BY <1>1 DEF HAL!Crash
<1> QED BY <1>2, <1>5, <1>6, <1>7, <1>8, <1>9, <1>10, <1>11, UsbSteps

\* The steps of the gadget HAL.
LEMMA OnGadgetStep ==
  /\ GadgetInv /\ UsbTypes /\ AloneInv /\ FfsInv /\ StopInv /\ WatchInv /\ OnInv
  /\ GadgetStep /\ [StackNext]_stackVars
  => OnInv'
<1> SUFFICES ASSUME GadgetInv, UsbTypes, AloneInv, FfsInv, StopInv, WatchInv,
                    OnInv, GadgetStep, [StackNext]_stackVars,
                    NoAccident', ~Building', Bindable', DataOn', ~MonitorComes',
                    usbPc'["binder"] \notin {"udcRead", "udcWrite"}
             PROVE  udc'
  BY DEF OnInv
<1>1. /\ NoAccident /\ \A k \in Accidents : ~Spend(k)
      /\ {"writeFaults", "unlinkFaults", "closes", "crashes", "resets"} = Accidents
  BY NoAccidentBefore DEF Accidents
<1>2. Next /\ DataOn /\ usbPc["binder"] \notin {"udcRead", "udcWrite"}
  BY DEF GadgetStep, usbHal, DataOn
<1>3. /\ TypeOK /\ LockInv /\ MonitorInv /\ StageInv
      /\ pc \in [Callers -> CallerPcs] /\ udc \in BOOLEAN
  BY DEF GadgetInv, IInv, TypeOK, CallTypeOK, KernelTypeOK
<1>4. ~Building /\ Bindable /\ ~MonitorComes => udc
  BY <1>1, <1>2 DEF OnInv
<1>5. ~Building => ~mEventFd /\ (mMonitorCreated => ~stopSeen /\ monPc # "exited")
  BY DEF StopInv, Building
<1>6. ~Crash
  BY <1>1 DEF Crash
<1>7. CASE MonitorFfs
  <2>1. /\ ~Building /\ Bindable /\ mMonitorCreated
        /\ UNCHANGED <<links, mEndpointList>>
    <3>1. /\ UNCHANGED <<pc, links, mEndpointList, ffs>>
          /\ monPc # "off"
      BY <1>7
      DEF MonitorFfs, MonitorScan, MonitorWrite, MonitorPublish, MonitorEvent,
          MonitorEpoll, call, hal, configfs, outside
    <3> QED BY <1>3, <3>1 DEF Building, MonitorInv, Bindable
  <2>2. /\ Range(mEndpointList) = links \cap Ffs /\ ~mEventFd /\ ~stopSeen
        /\ mEndpointList \in Seq(Ffs) /\ scan \in Nat /\ scan >= 1
        /\ batch \in Nat /\ inotifyQ \in Nat /\ writeUdc \in BOOLEAN
    BY <1>1, <1>5, <2>1
    DEF WatchInv, StopInv, GadgetInv, IInv, TypeOK, HalTypeOK, MonitorTypeOK,
        KernelTypeOK
  <2>3. CASE MonitorScan
    <3>1. monPc = "scan" /\ UNCHANGED <<udc, batch, inotifyQ>>
      BY <2>3 DEF MonitorScan, configfs, inotify
    <3>2. CASE scan > Len(mEndpointList)
      <4>1. /\ monPc' = IF writeUdc THEN "write" ELSE "event"
            /\ UNCHANGED writeUdc
        BY <2>3, <3>2 DEF MonitorScan
      <4>2. ~writeUdc
        BY <4>1 DEF MonitorComes
      <4> QED BY <1>4, <2>1, <3>1, <4>2 DEF MonitorComes
    <3>3. CASE ~(scan > Len(mEndpointList))
      <4>1. mEndpointList[scan] \in links \cap Ffs
        <5>1. scan \in DOMAIN mEndpointList
          BY <2>2, <3>3
        <5> QED BY <2>2, <5>1 DEF Range
      <4>2. ffs[mEndpointList[scan]] = "active"
        BY <2>1, <4>1 DEF Bindable
      <4>3. UNCHANGED <<monPc, writeUdc>>
        BY <2>3, <3>3, <4>2 DEF MonitorScan
      <4> QED BY <1>4, <2>1, <3>1, <4>3 DEF MonitorComes
    <3> QED BY <3>2, <3>3
  <2>4. CASE MonitorWrite
    BY <1>1, <1>3, <2>1, <2>4 DEF MonitorWrite, CanBind
  <2>5. CASE MonitorPublish
    BY <1>4, <2>1, <2>5 DEF MonitorPublish, MonitorComes, configfs
  <2>6. CASE MonitorEvent
    BY <1>4, <2>1, <2>2, <2>6 DEF MonitorEvent, MonitorComes, configfs, inotify
  <2>7. CASE MonitorEpoll
    BY <1>4, <2>1, <2>2, <2>7 DEF MonitorEpoll, MonitorComes, configfs
  <2> QED BY <1>7, <2>3, <2>4, <2>5, <2>6, <2>7 DEF MonitorFfs
<1>8. ASSUME ~MonitorFfs, \A c \in Callers : ~Caller(c) PROVE udc'
  <2>1. Aside /\ ~Building
    BY <1>2, <1>3, <1>6, <1>8, AsideSteps, StillBuilding
  <2>2. UNCHANGED <<monPc, writeUdc, batch, links>>
    BY <2>1 DEF Aside, monitor
  <2>3. inotifyQ \in Nat /\ MaxEvents \in Nat \ {0}
    BY <1>3, MaxEventsAssumption DEF TypeOK, KernelTypeOK
  <2>4. CASE UNCHANGED <<udc, inotifyQ, ffs>>
    BY <1>4, <2>1, <2>2, <2>4 DEF Bindable, MonitorComes
  <2>5. ASSUME NEW f \in Daemons, FfsOpen(f) \/ FfsDescriptors(f) \/ FfsActivity(f)
        PROVE  udc'
    <3>1. Notify(f)
      BY <2>5 DEF FfsOpen, FfsDescriptors, FfsActivity
    <3>2. ~MonitorComes
      <4>1. inotifyQ > 0 => inotifyQ' > 0
        BY <2>3, <3>1 DEF Notify
      <4> QED BY <2>2, <4>1 DEF MonitorComes
    <3>3. CASE Bindable
      BY <1>3, <1>4, <2>1, <2>5, <3>2, <3>3, DaemonSteps
    <3>4. CASE ~Bindable
      <4>1. FfsDescriptors(f) /\ f \in links \cap Ffs
        BY <1>3, <2>5, <3>4, DaemonSteps, DaemonsAssumption
      <4>2. /\ mMonitorCreated /\ watched = links \cap Ffs
            /\ writeUdc /\ monPc # "publish"
        BY <1>1, <2>1, <3>4, <4>1 DEF WatchInv
      <4>3. inotifyQ' > 0
        BY <2>3, <3>1, <4>1, <4>2 DEF Notify
      <4>4. monPc \in {"scan", "write", "event", "epoll"}
        BY <1>3, <1>5, <2>1, <4>2
        DEF MonitorInv, TypeOK, MonitorTypeOK, MonitorPcs
      <4> QED BY <2>2, <4>2, <4>3, <4>4 DEF MonitorComes
    <3> QED BY <3>3, <3>4
  <2>6. \/ UNCHANGED <<udc, inotifyQ, ffs>>
        \/ \E f \in Daemons : FfsOpen(f) \/ FfsDescriptors(f) \/ FfsActivity(f)
    <3>1. ~UsbHalPullUp /\ ~UsbHalPullDown
      BY KindNames DEF UsbHalPullUp, UsbHalPullDown, Spend, AloneInv
    <3>2. \A f \in Daemons : ~FfsClose(f)
      BY <1>1 DEF FfsClose
    <3>3. \A c \in Callers : ~Reset(c)
      BY <1>1 DEF Reset
    <3>4. CASE \E c \in Callers : Client(c)
      BY <3>3, <3>4 DEF Client, Call, configfs, inotify, outside
    <3>5. CASE Environment
      BY <1>6, <3>1, <3>2, <3>5
      DEF Environment, SetVendorConfig, configfs, inotify
    <3>6. CASE Quiescent
      BY <3>6 DEF Quiescent, vars, configfs, inotify, outside
    <3> QED BY <1>2, <1>8, <3>4, <3>5, <3>6 DEF Next
  <2> QED BY <2>4, <2>5, <2>6
<1>9. ASSUME NEW c \in Callers, Caller(c) PROVE udc'
  <2>1. \/ Disconnected(c) \/ Validate(c) \/ PullUp(c)
        \/ StartMonitor(c) /\ monPc' = "scan"
        \/ WaitReturns(c) /\ ~Building
        \/ Answer(c) /\ ~Building
    BY <1>1, <1>3, <1>9, EndOfBuilding
  <2>2. ASSUME Disconnected(c) \/ Validate(c) PROVE FALSE
    <3>1. UNCHANGED links /\ pc[c] \in {"disconnect", "validate"}
      BY <2>2 DEF Disconnected, Validate, configfs
    <3> QED BY <1>3, <3>1 DEF StageInv, Bindable
  <2>3. CASE PullUp(c)
    <3>1. Bindable
      BY <2>3 DEF PullUp, outside, Bindable
    <3> QED BY <1>1, <1>3, <2>3, <3>1 DEF PullUp, CanBind
  <2>4. ASSUME StartMonitor(c), monPc' = "scan" PROVE FALSE
    BY <1>1, <2>4 DEF StartMonitor, MonitorComes
  <2>5. CASE (WaitReturns(c) \/ Answer(c)) /\ ~Building
    <3>1. UNCHANGED <<links, writeUdc, monPc, ffs, udc, batch, inotifyQ>>
      BY <2>5 DEF WaitReturns, Answer, monitor, inotify, configfs, outside
    <3> QED BY <1>4, <2>5, <3>1 DEF Bindable, MonitorComes
  <2> QED BY <2>1, <2>2, <2>3, <2>4, <2>5
<1> QED BY <1>7, <1>8, <1>9

----------------------------------------------------------------------------
(* What holds of the two processes together. *)

LEMMA InitStack == StackInit => StackInv
<1> SUFFICES ASSUME StackInit PROVE StackInv
  OBVIOUS
<1>1. Init /\ HAL!Init /\ bound = {}
  BY DEF StackInit
<1>2. IInv /\ AskedInv /\ PartsInv /\ LeftInv
  BY <1>1, InitInv, InitParts
<1>3. UsbTypes /\ AloneInv
  <2>1. usbLeft = UsbBudget /\ left = Budget /\ DOMAIN usbPc = HAL!Threads
    BY <1>1 DEF HAL!Init, Init
  <2>2. UsbBudget \in [HAL!Kinds -> Nat]
    BY UsbAssumption DEF HAL!BudgetAssumption
  <2>3. \A k \in HAL!Kinds : UsbBudget[k] <= UsbBudget[k]
    BY <2>2
  <2> QED BY <2>1, <2>2, <2>3, StackAssumption DEF UsbTypes, AloneInv
<1>4. ResetInv
  BY <1>1, UsbThreads DEF HAL!Init, ResetInv
<1>5. \A c \in Callers : pc[c] = "idle"
  BY <1>1 DEF Init
<1>6. SuccessInv /\ SuccessIsWhole /\ FfsInv
  BY <1>1, <1>5 DEF SuccessInv, SuccessIsWhole, FfsInv
<1>7. StopInv /\ WatchInv /\ OnInv
  <2>1. mEventFd = FALSE /\ mMonitorCreated = FALSE /\ links = {} /\ scan = 1
    BY <1>1 DEF Init
  <2>2. StopInv
    BY <2>1 DEF StopInv
  <2>3. WatchInv
    BY <2>1 DEF WatchInv
  <2>4. OnInv
    BY <2>1 DEF OnInv, Bindable
  <2> QED BY <2>2, <2>3, <2>4
<1> QED BY <1>2, <1>3, <1>4, <1>6, <1>7 DEF GadgetInv, StackInv

\* Every step of either process keeps the invariant.
LEMMA StackStep == StackInv /\ [StackNext]_stackVars => StackInv'
<1> SUFFICES ASSUME StackInv, [StackNext]_stackVars PROVE StackInv'
  OBVIOUS
<1> USE DEF StackInv
<1>1. TypeOK
  BY DEF GadgetInv, IInv
<1>2. (GadgetInv /\ UsbTypes /\ AloneInv /\ ResetInv)'
  BY <1>1, GadgetInvStep, UsbTypesStep, AloneStep, ResetStep
<1>3. (SuccessInv /\ SuccessIsWhole /\ FfsInv /\ StopInv /\ WatchInv)'
  BY SuccessStep, FfsStep, StopStep, WatchStep
<1>4. OnInv'
  <2>1. CASE UsbStep
    BY <2>1, OnUsbStep
  <2>2. CASE GadgetStep
    BY <2>2, OnGadgetStep
  <2>3. CASE UNCHANGED stackVars
    BY <2>3
    DEF stackVars, vars, usbHal, hal, call, monitor, inotify, configfs, outside,
        OnInv, NoAccident, Building, Bindable, DataOn, MonitorComes
  <2> QED BY <2>1, <2>2, <2>3 DEF StackNext
<1> QED BY <1>2, <1>3, <1>4

\* Whatever the USB HAL writes to the UDC attribute, and whenever, the invariants
\* of the gadget HAL stand, and those about the gadget being bound with them.
THEOREM StackInvariant == StackSpec => []StackInv
BY InitStack, StackStep, PTL DEF StackSpec

\* SuccessIsWhole, for any requests and calls of either HAL.
THEOREM SuccessWhole == StackSpec => []SuccessIsWhole
<1>1. StackInv => SuccessIsWhole
  BY DEF StackInv
<1> QED BY <1>1, StackInvariant, PTL

\* UpWhenDataOn, in whatever order the two processes read and wrote the attribute.
THEOREM DataOnMeansUp == StackSpec => []UpWhenDataOn
<1>1. StackInv => UpWhenDataOn
  <2> SUFFICES ASSUME StackInv, AtRest, NoAccident, Bindable, DataOn
               PROVE  udc
    BY DEF UpWhenDataOn, DataOn
  <2>1. ~Building /\ ~MonitorComes /\ usbPc["binder"] = "idle"
    BY DEF AtRest, Idle, Building, MonitorComes
  <2> QED BY <2>1 DEF StackInv, OnInv
<1> QED BY <1>1, StackInvariant, PTL

\* OnlyUsbHalBindsParts: but for enableUsbData nothing binds half a composition.
THEOREM OnlyUsbHal == StackSpec => OnlyUsbHalBindsParts
<1> DEFINE Binds == (/\ ~udc /\ udc'
                     /\ \A k \in {"vendor", "unlinkFaults"} : left[k] = Budget[k])
                       => WholeComposition \/ EnableUsbDataWrites
<1>1. StackInv /\ [StackNext]_stackVars => Binds
  <2> SUFFICES ASSUME StackInv, [StackNext]_stackVars, ~udc, udc',
                      Unspent({"vendor", "unlinkFaults"})
               PROVE  WholeComposition \/ EnableUsbDataWrites
    BY DEF Unspent
  <2>1. /\ TypeOK /\ MonitorInv /\ AskedInv /\ PartsInv /\ UsbTypes /\ AloneInv
    BY DEF StackInv, GadgetInv, IInv
  <2>2. ASSUME NEW f \in Requests, Whole(f) PROVE WholeComposition
    BY <2>1, <2>2, VendorFunctionsType
    DEF WholeComposition, Whole, IdsOf, Selected, TypeOK, OutsideTypeOK
  <2>3. CASE UsbStep
    <3>1. HAL!WriteUdc
      BY <2>1, <2>3, UsbUdc DEF UsbStep, UdcStep
    <3>2. usbPc["binder"] = "udcWrite" /\ usbPc'["binder"] = "dataPath"
      BY <2>1, <3>1, UsbThreads, UsbGoto DEF UsbTypes, HAL!WriteUdc
    <3> QED BY <3>2 DEF EnableUsbDataWrites
  <2>4. CASE Next
    <3>1. \/ \E c \in Callers : PullUp(c)
          \/ MonitorWrite
      <4>1. ~UsbHalPullUp
        BY <2>1, KindNames DEF UsbHalPullUp, Spend, AloneInv
      <4>2. ASSUME NEW c \in Callers, Client(c) \/ Caller(c) PROVE PullUp(c)
        BY <4>2
        DEF Client, Call, Reset, Caller, TearDown, Setup, Lock, ClearApplied,
            PullDown, ClearDescriptors, UnlinkFunctions, StopMonitor,
            JoinMonitor, Disconnected, Validate, SetupFunctions, LinkFunction,
            LinksMade, StartMonitor, WaitReturns, Answer, configfs
      <4>3. MonitorFfs => MonitorWrite
        BY DEF MonitorFfs, MonitorScan, MonitorPublish, MonitorEvent, MonitorEpoll,
               configfs
      <4>4. ~Environment
        BY <4>1
        DEF Environment, Crash, FfsOpen, FfsDescriptors, FfsClose, FfsActivity,
            UsbHalPullDown, SetVendorConfig, configfs
      <4>5. ~Quiescent
        BY DEF Quiescent, vars, configfs
      <4> QED BY <2>4, <4>2, <4>3, <4>4, <4>5 DEF Next
    <3>2. ASSUME NEW c \in Callers, PullUp(c) PROVE WholeComposition
      <4>1. pc[c] = "pullUp"
        BY <3>2 DEF PullUp
      <4>2. req[c].functions \in Requests /\ Whole(req[c].functions)
        BY <2>1, <4>1 DEF AskedInv, PartsInv
      <4> QED BY <2>2, <4>2
    <3>3. CASE MonitorWrite
      <4>1. monPc = "write" /\ links # {}
        BY <3>3 DEF MonitorWrite, CanBind, Bindable
      <4>2. mMonitorCreated
        BY <2>1, <4>1 DEF MonitorInv
      <4>3. \E f \in Requests : Whole(f)
        BY <2>1, <4>1, <4>2 DEF PartsInv
      <4> QED BY <2>2, <4>3
    <3> QED BY <3>1, <3>2, <3>3
  <2> QED BY <2>3, <2>4 DEF StackNext, GadgetStep, stackVars, vars, configfs
<1> QED BY <1>1, StackInvariant, PTL DEF StackSpec, OnlyUsbHalBindsParts

\* The promises of the gadget HAL that rest on its own invariant alone do not mind
\* the USB HAL: one request at a time, the gadget down and unbindable for the whole
\* disconnect wait, one monitor, its endpoints, and SUCCESS for applied functions.
THEOREM StackKeepsPromises ==
  StackSpec => [](/\ OneRequestAtATime /\ DownWhileDisconnecting
                  /\ MonitorStoppedBeforeSetup /\ EndpointsOfTheLinks
                  /\ SuccessIsApplied)
<1> DEFINE Promises == /\ OneRequestAtATime /\ DownWhileDisconnecting
                       /\ MonitorStoppedBeforeSetup /\ EndpointsOfTheLinks
                       /\ SuccessIsApplied
<1>1. ASSUME IInv PROVE Promises
  <2>1. OneRequestAtATime
    BY <1>1 DEF IInv, LockInv, Busy, OneRequestAtATime
  <2>2. DownWhileDisconnecting
    BY <1>1
    DEF IInv, StageInv, BoundInv, CanBind, Bindable, DownWhileDisconnecting
  <2>3. MonitorStoppedBeforeSetup /\ EndpointsOfTheLinks
    BY <1>1
    DEF IInv, StageInv, MonitorInv, MonitorStoppedBeforeSetup,
        EndpointsOfTheLinks
  <2>4. SuccessIsApplied
    BY <1>1 DEF IInv, AnswerInv, SuccessIsApplied
  <2> QED BY <2>1, <2>2, <2>3, <2>4
<1>2. StackInv => Promises
  BY <1>1 DEF StackInv, GadgetInv
<1> QED BY <1>2, StackInvariant, PTL

\* The two processes together implement what clients of the gadget HAL are
\* promised: no write of the USB HAL shows in the answers.
THEOREM StackRefinement == StackSpec => ImplementsService
<1>1. StackInit => Service!Init
  BY ServiceInit DEF StackInit
<1>2. StackInv /\ [StackNext]_stackVars => [Service!Next]_(Service!vars)
  <2> SUFFICES ASSUME StackInv, [StackNext]_stackVars
               PROVE  [Service!Next]_(Service!vars)
    OBVIOUS
  <2>1. CASE UsbStep
    BY <2>1, OthersUnseen DEF UsbStep, gadgetHal, hal, call, monitor
  <2>2. CASE [Next]_vars
    BY <2>2, ServiceStep DEF StackInv, GadgetInv
  <2> QED BY <2>1, <2>2 DEF StackNext, GadgetStep, stackVars
<1> QED BY <1>1, <1>2, StackInvariant, PTL DEF StackSpec, ImplementsService, Service!Spec


================================================================================
