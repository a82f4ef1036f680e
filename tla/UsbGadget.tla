------------------------------- MODULE UsbGadget -------------------------------
(***************************************************************************)
(* The USB gadget HAL, usb/gadget/UsbGadget.cpp: binder threads running    *)
(* setCurrentUsbFunctions and reset, the monitorFfs thread one of them     *)
(* starts, and what both act on: the configfs gadget (links, VID/PID and   *)
(* the UDC attribute) and the functionfs endpoints its daemons create.     *)
(*                                                                         *)
(* Every step is one write to shared state, or a run of writes no other    *)
(* thread can tell apart.  The kernel, the functionfs daemons, the USB HAL *)
(* process (usb/usb/Usb.cpp, which writes the same UDC attribute) and the  *)
(* writers of vendor.usb.config are the environment.                       *)
(***************************************************************************)
EXTENDS GadgetComposition, Naturals

CONSTANTS
  Callers,        \* the binder threads (configureRpcThreadpool(2, true))
  NoThread,       \* "nobody holds the lock"
  Requests,       \* the function sets clients ask for
  Daemons,        \* the functionfs daemons that run
  VendorConfigs,  \* values other processes may give vendor.usb.config
  MaxEvents,      \* bound: inotify events the queue tells apart
  Budget          \* bound: how often each kind of outside event may happen

Kinds == {"calls", "resets", "crashes",  \* what clients and init do
          "writeFaults", "unlinkFaults", \* file operations that fail
          "closes",                      \* functionfs daemons that die
          "usbHal", "vendor"}            \* what other processes write

ASSUME CallersAssumption == NoThread \notin Callers
ASSUME RequestsAssumption == Requests \subseteq SUBSET GadgetFunction
ASSUME DaemonsAssumption == Daemons \subseteq Ffs
ASSUME VendorAssumption ==
  VendorConfigs \subseteq VendorStrings /\ PersistConfig \in VendorStrings
ASSUME MaxEventsAssumption == MaxEvents \in Nat \ {0}
ASSUME BudgetAssumption == Budget \in [Kinds -> Nat]

VARIABLES
  \* Members of UsbGadget and the global gadgetPullup.
  mCurrentUsbFunctions, mCurrentUsbFunctionsApplied, mMonitorCreated,
  mEndpointList, gadgetPullup, mLock, mLockSetCurrentFunction,
  \* Locals of the calls: where each binder thread is and what it was asked;
  \* the links still to make and the status of the call that holds
  \* mLockSetCurrentFunction; whether its wait_for has been notified.
  pc, req, todo, status, notified,
  \* Locals of monitorFfs.
  monPc, writeUdc, scan, batch, stopSeen,
  \* Kernel objects: eventfd, inotify watches and queued events, configfs.
  mEventFd, watched, inotifyQ, udc, links, ids,
  \* Outside the process: functionfs instances, vendor.usb.config.
  ffs, vendorConfig,
  \* What is left of the budget.  Two history variables: the functions the
  \* running monitor was started for and those last published as applied.
  left, monFor, appliedFor

hal == <<mCurrentUsbFunctions, mCurrentUsbFunctionsApplied, mMonitorCreated,
         mEndpointList, gadgetPullup, mLock, mLockSetCurrentFunction>>
call == <<pc, req, todo, status, notified>>
monitor == <<monPc, writeUdc, scan, batch, stopSeen, monFor>>
inotify == <<watched, inotifyQ>>
configfs == <<udc, links, ids>>
outside == <<ffs, vendorConfig>>
vars == <<hal, call, monitor, mEventFd, inotify, configfs, outside, left,
          appliedFor>>

Status == {"SUCCESS", "ERROR", "CONFIGURATION_NOT_SUPPORTED"}
FfsState == {"closed", "opened", "active", "deactivated"}

\* tearDownGadget's steps, then those of the rest of setCurrentUsbFunctions.
TearDownPcs == {"pullDown", "clearDesc", "unlink", "stop", "join"}
SetupPcs == {"setup", "link", "pullUp", "start", "wait", "answer"}
CallerPcs == {"idle", "locking", "clear", "disconnect", "validate"}
               \cup TearDownPcs \cup SetupPcs
MonitorPcs == {"off", "scan", "write", "publish", "event", "epoll", "exited"}

Spend(kind) == left[kind] > 0 /\ left' = [left EXCEPT ![kind] = @ - 1]

\* Writing GADGET_NAME to the UDC attribute: the kernel refuses when the
\* gadget is bound, has no function, or has a function whose daemon is not up.
Bindable == links # {} /\ \A f \in links \cap Ffs : ffs[f] = "active"
CanBind == ~udc /\ Bindable

\* Something happened in a functionfs directory.  Events queued behind one
\* that is still unread are not told apart beyond MaxEvents.
Notify(f) ==
  inotifyQ' = IF f \in watched /\ inotifyQ < MaxEvents THEN inotifyQ + 1
              ELSE inotifyQ

\* The inotify descriptor is closed: by tearDownGadget, or on the way out of a
\* setupFunctions that fails before handing it to mInotifyFd.
CloseInotify == watched' = {} /\ inotifyQ' = 0

Goto(c, label) == pc' = [pc EXCEPT ![c] = label]

Init ==
  \* The constructor leaves mCurrentUsbFunctions uninitialised.
  /\ mCurrentUsbFunctions \in Requests \cup {NONE}
  /\ mCurrentUsbFunctionsApplied = FALSE
  /\ mMonitorCreated = FALSE
  /\ mEndpointList = <<>>
  /\ gadgetPullup = FALSE
  /\ mLock = NoThread
  /\ mLockSetCurrentFunction = NoThread
  /\ pc = [c \in Callers |-> "idle"]
  /\ req = [c \in Callers |-> [functions |-> NONE, callback |-> FALSE]]
  /\ todo = <<>> /\ status = "SUCCESS" /\ notified = FALSE
  /\ monPc = "off" /\ writeUdc = TRUE /\ scan = 1 /\ batch = 0
  /\ stopSeen = FALSE /\ monFor = NONE
  /\ mEventFd = FALSE
  /\ watched = {} /\ inotifyQ = 0
  /\ udc = FALSE /\ links = {} /\ ids = <<"18d1", "">>
  /\ \E up \in SUBSET Daemons :
       ffs = [f \in Ffs |-> IF f \in up THEN "active" ELSE "closed"]
  /\ vendorConfig \in VendorConfigs \cup {""}
  /\ left = Budget
  /\ appliedFor = NONE

----------------------------------------------------------------------------
(* setCurrentUsbFunctions, up to the end of tearDownGadget. *)

\* A client calls; the thread then queues for mLockSetCurrentFunction.
Call(c, functions, callback) ==
  /\ pc[c] = "idle"
  /\ Spend("calls")
  /\ req' = [req EXCEPT ![c] = [functions |-> functions, callback |-> callback]]
  /\ Goto(c, "locking")
  /\ UNCHANGED <<hal, todo, status, notified, monitor, mEventFd, inotify,
                 configfs, outside, appliedFor>>

LockFree == mLockSetCurrentFunction = NoThread

\* The lock is taken and mCurrentUsbFunctions assigned; mCurrentUsbFunctions
\* and mCurrentUsbFunctionsApplied are read by getCurrentUsbFunctions without
\* the lock, so the next assignment is a step of its own.
Lock(c) ==
  /\ pc[c] = "locking"
  /\ LockFree
  /\ mLockSetCurrentFunction' = c
  /\ mCurrentUsbFunctions' = req[c].functions
  /\ status' = "SUCCESS"
  /\ Goto(c, "clear")
  /\ UNCHANGED <<mCurrentUsbFunctionsApplied, mMonitorCreated, mEndpointList,
                 gadgetPullup, mLock, req, todo, notified, monitor,
                 mEventFd, inotify, configfs, outside, left, appliedFor>>

ClearApplied(c) ==
  /\ pc[c] = "clear"
  /\ mCurrentUsbFunctionsApplied' = FALSE
  /\ Goto(c, "pullDown")
  /\ UNCHANGED <<mCurrentUsbFunctions, mMonitorCreated, mEndpointList,
                 gadgetPullup, mLock, mLockSetCurrentFunction, req, todo,
                 status, notified, monitor, mEventFd, inotify, configfs,
                 outside, left, appliedFor>>

\* "none" to the UDC attribute: it fails when the gadget is not bound, and a
\* failure is only logged.
PullDown(c) ==
  /\ pc[c] = "pullDown"
  /\ \/ udc' = FALSE /\ UNCHANGED left
     \/ Spend("writeFaults") /\ UNCHANGED udc
  /\ Goto(c, "clearDesc")
  /\ UNCHANGED <<hal, req, todo, status, notified, monitor, mEventFd, inotify,
                 links, ids, outside, appliedFor>>

\* goto error: the call ends with this status.
Fail(c, s) == status' = s /\ Goto(c, "answer")

\* The four writes of "0" to the device class, subclass, protocol and os_desc
\* attributes; each failure returns ERROR before anything is unlinked and
\* before the monitor is stopped.
ClearDescriptors(c) ==
  /\ pc[c] = "clearDesc"
  /\ \/ Goto(c, "unlink") /\ UNCHANGED <<status, left>>
     \/ Spend("writeFaults") /\ Fail(c, "ERROR")
  /\ UNCHANGED <<hal, req, todo, notified, monitor, mEventFd, inotify,
                 configfs, outside, appliedFor>>

\* As a mutant: the loop's name filter misses the links of one function.
LinksAfterPartialLoop == links \cap {"adb"}

\* Every entry of the configuration whose name contains "function" is removed.
LinksAfterLoop == {}

\* unlinkFunctions stops at the first link it cannot remove.  The kernel
\* unbinds a bound gadget before it lets a function go.
UnlinkFunctions(c) ==
  /\ pc[c] = "unlink"
  /\ \/ /\ links' = LinksAfterLoop
        /\ Goto(c, "stop")
        /\ UNCHANGED <<status, left>>
     \/ /\ Spend("unlinkFaults")
        /\ links' \in SUBSET links \ {{}}
        /\ Fail(c, "ERROR")
  /\ udc' = (udc /\ links' = links)
  /\ UNCHANGED <<hal, req, todo, notified, monitor, mEventFd, inotify, ids,
                 outside, appliedFor>>

\* As a mutant: tearDownGadget forgets mEndpointList.clear().
StaleEndpoints == mEndpointList

NoEndpoints == <<>>

\* Closing the three descriptors and forgetting the endpoints, the end of
\* tearDownGadget.
Release ==
  /\ mEventFd' = FALSE
  /\ CloseInotify
  /\ mEndpointList' = NoEndpoints

\* As a mutant: the flag is not looked at and the thread left running.
MonitorForgotten == FALSE

MonitorToStop == mMonitorCreated

\* With a monitor, 100 goes to the eventfd and the thread is joined; without
\* one there is nothing to wait for.
StopMonitor(c) ==
  /\ pc[c] = "stop"
  /\ IF MonitorToStop
     THEN /\ mEventFd' = TRUE
          /\ Goto(c, "join")
          /\ UNCHANGED <<mEndpointList, inotify>>
     ELSE Release /\ Goto(c, "disconnect")
  /\ UNCHANGED <<mCurrentUsbFunctions, mCurrentUsbFunctionsApplied,
                 mMonitorCreated, gadgetPullup, mLock, mLockSetCurrentFunction,
                 req, todo, status, notified, monitor, configfs, outside, left,
                 appliedFor>>

JoinMonitor(c) ==
  /\ pc[c] = "join"
  /\ monPc = "exited"
  /\ monPc' = "off"
  /\ mMonitorCreated' = FALSE
  /\ Release
  /\ Goto(c, "disconnect")
  /\ UNCHANGED <<mCurrentUsbFunctions, mCurrentUsbFunctionsApplied,
                 gadgetPullup, mLock, mLockSetCurrentFunction, req, todo,
                 status, notified, writeUdc, scan, batch, stopSeen, monFor,
                 configfs,
                 outside, left, appliedFor>>

\* DISCONNECT_WAIT_US has passed with the gadget down.
Disconnected(c) ==
  /\ pc[c] = "disconnect"
  /\ IF req[c].functions = NONE
     THEN Fail(c, "SUCCESS")
     ELSE Goto(c, "validate") /\ UNCHANGED status
  /\ UNCHANGED <<hal, req, todo, notified, monitor, mEventFd, inotify,
                 configfs, outside, left, appliedFor>>

----------------------------------------------------------------------------
(* validateAndSetVidPid and setupFunctions. *)

\* getVendorFunctions is read, then idVendor and idProduct are written; the
\* second write may fail with the first one done.
Validate(c) ==
  LET chosen == VidPid(req[c].functions, GetVendorFunctions(vendorConfig)) IN
  /\ pc[c] = "validate"
  /\ vendorConfig' = VendorConfigAfter(vendorConfig)
  /\ \/ /\ chosen = NotSupported
        /\ Fail(c, "CONFIGURATION_NOT_SUPPORTED")
        /\ UNCHANGED <<ids, left>>
     \/ /\ chosen # NotSupported
        /\ ids' = chosen
        /\ Goto(c, "setup")
        /\ UNCHANGED <<status, left>>
     \/ /\ chosen # NotSupported
        /\ Spend("writeFaults")
        /\ ids' \in {ids, <<chosen[1], ids[2]>>}
        /\ Fail(c, "ERROR")
  /\ UNCHANGED <<hal, req, todo, notified, monitor, mEventFd, inotify, udc,
                 links, ffs, appliedFor>>

\* setupFunctions takes mLock and, on its way through the functions, reads the
\* vendor functions a second time.
SetupFunctions(c) ==
  /\ pc[c] = "setup"
  /\ mLock = NoThread
  /\ mLock' = c
  /\ todo' = LinkList(req[c].functions, GetVendorFunctions(vendorConfig))
  /\ vendorConfig' = VendorConfigAfter(vendorConfig)
  /\ Goto(c, "link")
  /\ UNCHANGED <<mCurrentUsbFunctions, mCurrentUsbFunctionsApplied,
                 mMonitorCreated, mEndpointList, gadgetPullup,
                 mLockSetCurrentFunction, req, status, notified, monitor,
                 mEventFd, inotify, configfs, ffs, left, appliedFor>>

\* One function: for a functionfs one the os_desc flag and the inotify watch,
\* then the link, then its endpoints.  Every failure leaves the links and the
\* endpoints made so far in place.
LinkFunction(c) ==
  /\ pc[c] = "link"
  /\ todo # <<>>
  /\ \/ /\ links' = links \cup {Head(todo)}
        /\ todo' = Tail(todo)
        /\ IF Head(todo) \in Ffs
           THEN /\ watched' = watched \cup {Head(todo)}
                /\ mEndpointList' = Append(mEndpointList, Head(todo))
           ELSE UNCHANGED <<watched, mEndpointList>>
        /\ UNCHANGED <<pc, status, left, inotifyQ>>
     \/ /\ Spend("writeFaults")
        /\ Fail(c, "ERROR")
        /\ CloseInotify
        /\ UNCHANGED <<links, todo, mEndpointList>>
  /\ UNCHANGED <<mCurrentUsbFunctions, mCurrentUsbFunctionsApplied,
                 mMonitorCreated, gadgetPullup, mLock, mLockSetCurrentFunction,
                 req, notified, monitor, mEventFd, udc, ids, outside,
                 appliedFor>>

\* ffsEnabled decides between pulling up at once and leaving it to a monitor.
LinksMade(c) ==
  /\ pc[c] = "link"
  /\ todo = <<>>
  /\ Goto(c, IF req[c].functions \cap Ffs = {} THEN "pullUp" ELSE "start")
  /\ UNCHANGED <<hal, req, todo, status, notified, monitor, mEventFd, inotify,
                 configfs, outside, left, appliedFor>>

\* Without a functionfs function the gadget is pulled up right away.
PullUp(c) ==
  /\ pc[c] = "pullUp"
  /\ \/ /\ CanBind
        /\ udc' = TRUE
        /\ mCurrentUsbFunctionsApplied' = TRUE
        /\ appliedFor' = req[c].functions
        /\ status' = "SUCCESS"
        /\ UNCHANGED left
     \/ /\ IF CanBind THEN Spend("writeFaults") ELSE UNCHANGED left
        /\ status' = "ERROR"
        /\ UNCHANGED <<udc, mCurrentUsbFunctionsApplied, appliedFor>>
  /\ Goto(c, "answer")
  /\ UNCHANGED <<mCurrentUsbFunctions, mMonitorCreated, mEndpointList,
                 gadgetPullup, mLock, mLockSetCurrentFunction, req, todo,
                 notified, monitor, mEventFd, inotify, links, ids, outside>>

\* As mutants: gadgetPullup keeps the value of the last pull-up; the thread
\* goes to epoll_wait without looking whether the endpoints are there.
StalePullup == gadgetPullup
WaitFirst == "epoll"

PullupAtStart == FALSE
FirstMonitorPc == "scan"

\* The descriptors are created and become members, gadgetPullup is reset and
\* the monitor started.  A caller with a callback waits, which releases mLock.
StartMonitor(c) ==
  /\ pc[c] = "start"
  /\ \/ /\ gadgetPullup' = PullupAtStart
        /\ monPc' = FirstMonitorPc /\ writeUdc' = TRUE /\ scan' = 1 /\ batch' = 0
        /\ stopSeen' = FALSE /\ monFor' = req[c].functions
        /\ mMonitorCreated' = TRUE
        /\ notified' = FALSE
        /\ status' = "SUCCESS"
        /\ IF req[c].callback
           THEN Goto(c, "wait") /\ mLock' = NoThread
           ELSE Goto(c, "answer") /\ UNCHANGED mLock
        /\ UNCHANGED <<left, inotify>>
     \/ /\ Spend("writeFaults")
        /\ Fail(c, "ERROR")
        /\ CloseInotify
        /\ UNCHANGED <<gadgetPullup, monitor, mMonitorCreated, notified, mLock>>
  /\ UNCHANGED <<mCurrentUsbFunctions, mCurrentUsbFunctionsApplied,
                 mEndpointList, mLockSetCurrentFunction, req, todo, mEventFd,
                 configfs, outside, appliedFor>>

\* wait_for returns with mLock held: notified with the predicate true, or
\* because PULL_UP_TIMEOUT is over, which no other thread's step precedes for
\* sure.  The status follows gadgetPullup either way.
WaitReturns(c) ==
  /\ pc[c] = "wait"
  /\ mLock = NoThread
  /\ mLock' = c
  /\ status' = IF gadgetPullup THEN "SUCCESS" ELSE "ERROR"
  /\ Goto(c, "answer")
  /\ UNCHANGED <<mCurrentUsbFunctions, mCurrentUsbFunctionsApplied,
                 mMonitorCreated, mEndpointList, gadgetPullup,
                 mLockSetCurrentFunction, req, todo, notified, monitor,
                 mEventFd, inotify, configfs, outside, left, appliedFor>>

\* The callback, if there is one, gets the status; the locks are released.
Answer(c) ==
  /\ pc[c] = "answer"
  /\ mLock' = IF mLock = c THEN NoThread ELSE mLock
  /\ mLockSetCurrentFunction' = NoThread
  /\ Goto(c, "idle")
  /\ UNCHANGED <<mCurrentUsbFunctions, mCurrentUsbFunctionsApplied,
                 mMonitorCreated, mEndpointList, gadgetPullup, req, todo,
                 status, notified, monitor, mEventFd, inotify, configfs,
                 outside, left, appliedFor>>

\* reset() takes no lock and touches nothing but the UDC attribute.
Reset(c) ==
  /\ pc[c] = "idle"
  /\ Spend("resets")
  /\ udc' = FALSE
  /\ UNCHANGED <<hal, call, monitor, mEventFd, inotify, links, ids, outside,
                 appliedFor>>

----------------------------------------------------------------------------
(* monitorFfs.  The check before the loop and the one made for each inotify *)
(* event are the same: scan the endpoint list, and pull up when every       *)
(* endpoint is there and the UDC is still to be written.                    *)

MonitorScan ==
  /\ monPc = "scan"
  /\ IF scan > Len(mEndpointList)
     THEN /\ monPc' = IF writeUdc THEN "write" ELSE "event"
          /\ UNCHANGED <<scan, writeUdc>>
     ELSE IF ffs[mEndpointList[scan]] = "active"
     THEN scan' = scan + 1 /\ UNCHANGED <<monPc, writeUdc>>
     ELSE writeUdc' = TRUE /\ monPc' = "event" /\ UNCHANGED scan
  /\ UNCHANGED <<hal, call, batch, stopSeen, monFor, mEventFd, inotify,
                 configfs, outside, left, appliedFor>>

\* After PULL_UP_DELAY.  A failed write leaves writeUdc set; nothing retries
\* it before the next inotify event.
MonitorWrite ==
  /\ monPc = "write"
  /\ \/ CanBind /\ udc' = TRUE /\ monPc' = "publish" /\ UNCHANGED left
     \/ /\ IF CanBind THEN Spend("writeFaults") ELSE UNCHANGED left
        /\ monPc' = "event" /\ UNCHANGED udc
  /\ UNCHANGED <<hal, call, writeUdc, scan, batch, stopSeen, monFor, mEventFd,
                 inotify, links, ids, outside, appliedFor>>

\* notify_all reaches the threads that wait, nobody else.
NotifyAll == \E c \in Callers : pc[c] = "wait"

\* Under mLock.  The functions this pull-up was for are those the endpoints
\* were linked for, whatever mCurrentUsbFunctions says by now.
MonitorPublish ==
  /\ monPc = "publish"
  /\ mLock = NoThread
  /\ mCurrentUsbFunctionsApplied' = TRUE
  /\ gadgetPullup' = TRUE
  /\ writeUdc' = FALSE
  /\ notified' = NotifyAll
  /\ appliedFor' = monFor
  /\ monPc' = "event"
  /\ UNCHANGED <<mCurrentUsbFunctions, mMonitorCreated, mEndpointList, mLock,
                 mLockSetCurrentFunction, pc, req, todo, status, scan, batch,
                 stopSeen, monFor, mEventFd, inotify, configfs, outside, left>>

\* The next inotify event of the buffer, the eventfd if this round of
\* epoll_wait returned it too, or back to epoll_wait.
MonitorEvent ==
  /\ monPc = "event"
  /\ IF batch > 0
     THEN batch' = batch - 1 /\ scan' = 1 /\ monPc' = "scan"
     ELSE /\ monPc' = IF stopSeen THEN "exited" ELSE "epoll"
          /\ UNCHANGED <<batch, scan>>
  /\ UNCHANGED <<hal, call, writeUdc, stopSeen, monFor, mEventFd, inotify,
                 configfs, outside, left, appliedFor>>

\* As a mutant: the eventfd was never added to the epoll set.
NotPolled == FALSE

StopSignalled == mEventFd

\* epoll_wait: the inotify descriptor first, with the eventfd behind it when
\* that is readable as well, or the eventfd first, which ends the thread.
MonitorEpoll ==
  /\ monPc = "epoll"
  /\ \/ \E n \in 1..inotifyQ :
          /\ batch' = n /\ inotifyQ' = inotifyQ - n
          /\ stopSeen' = StopSignalled
          /\ monPc' = "event"
     \/ StopSignalled /\ monPc' = "exited" /\ UNCHANGED <<batch, inotifyQ, stopSeen>>
  /\ UNCHANGED <<hal, call, writeUdc, scan, monFor, mEventFd, watched, configfs,
                 outside, left, appliedFor>>

----------------------------------------------------------------------------
(* The environment. *)

\* init restarts the service: the process state is gone, configfs stays.
Crash ==
  /\ Spend("crashes")
  /\ mCurrentUsbFunctions' \in Requests \cup {NONE}
  /\ mCurrentUsbFunctionsApplied' = FALSE
  /\ mMonitorCreated' = FALSE
  /\ Release
  /\ gadgetPullup' = FALSE
  /\ mLock' = NoThread /\ mLockSetCurrentFunction' = NoThread
  /\ pc' = [c \in Callers |-> "idle"]
  /\ notified' = FALSE
  /\ monPc' = "off"
  /\ UNCHANGED <<req, todo, status, writeUdc, scan, batch, stopSeen, monFor,
                 configfs, outside, appliedFor>>

\* A functionfs daemon opens ep0.  functionfs is mounted with no_disconnect=1:
\* the gadget stays bound when a daemon goes, and is unbound when the next one
\* opens ep0.
FfsOpen(f) ==
  /\ ffs[f] \in {"closed", "deactivated"}
  /\ ffs' = [ffs EXCEPT ![f] = "opened"]
  /\ udc' = (udc /\ ~(ffs[f] = "deactivated" /\ f \in links))
  /\ Notify(f)
  /\ UNCHANGED <<hal, call, monitor, mEventFd, watched, links, ids,
                 vendorConfig, left, appliedFor>>

\* The daemon writes its descriptors: its endpoints appear and it opens them.
FfsDescriptors(f) ==
  /\ ffs[f] = "opened"
  /\ ffs' = [ffs EXCEPT ![f] = "active"]
  /\ Notify(f)
  /\ UNCHANGED <<hal, call, monitor, mEventFd, watched, configfs, vendorConfig,
                 left, appliedFor>>

\* The daemon dies: its endpoints disappear.
FfsClose(f) ==
  /\ ffs[f] = "active"
  /\ Spend("closes")
  /\ ffs' = [ffs EXCEPT ![f] = "deactivated"]
  /\ Notify(f)
  /\ UNCHANGED <<hal, call, monitor, mEventFd, watched, configfs, vendorConfig,
                 appliedFor>>

\* An access that changes nothing (the watch is for IN_ALL_EVENTS).
FfsActivity(f) ==
  /\ ffs[f] = "active" /\ f \in watched /\ inotifyQ = 0
  /\ Notify(f)
  /\ UNCHANGED <<hal, call, monitor, mEventFd, watched, configfs, outside, left,
                 appliedFor>>

\* Usb::enableUsbData(true) in the USB HAL process pulls up whatever is linked.
UsbHalPullUp ==
  /\ CanBind
  /\ Spend("usbHal")
  /\ udc' = TRUE
  /\ UNCHANGED <<hal, call, monitor, mEventFd, inotify, links, ids, outside,
                 appliedFor>>

\* Usb::enableUsbData(false) and Usb::resetUsbPort pull it down.
UsbHalPullDown ==
  /\ udc
  /\ Spend("usbHal")
  /\ udc' = FALSE
  /\ UNCHANGED <<hal, call, monitor, mEventFd, inotify, links, ids, outside,
                 appliedFor>>

\* Another process sets vendor.usb.config.
SetVendorConfig(v) ==
  /\ v # vendorConfig
  /\ Spend("vendor")
  /\ vendorConfig' = v
  /\ UNCHANGED <<hal, call, monitor, mEventFd, inotify, configfs, ffs,
                 appliedFor>>

\* Nobody has anything left to do: no call is under way, the budget is spent,
\* the monitor, if there is one, waits for events.
Quiescent ==
  /\ \A c \in Callers : pc[c] = "idle"
  /\ monPc = "off" \/ (monPc = "epoll" /\ inotifyQ = 0 /\ ~mEventFd)
  /\ left["calls"] = 0
  /\ UNCHANGED vars

----------------------------------------------------------------------------

TearDown(c) ==
  \/ PullDown(c) \/ ClearDescriptors(c) \/ UnlinkFunctions(c)
  \/ StopMonitor(c) \/ JoinMonitor(c)

Setup(c) ==
  \/ SetupFunctions(c) \/ LinkFunction(c) \/ LinksMade(c) \/ PullUp(c)
  \/ StartMonitor(c) \/ WaitReturns(c)

\* What a binder thread does by itself once a call is in.
Caller(c) ==
  \/ Lock(c) \/ ClearApplied(c) \/ TearDown(c) \/ Disconnected(c)
  \/ Validate(c) \/ Setup(c) \/ Answer(c)

MonitorFfs ==
  MonitorScan \/ MonitorWrite \/ MonitorPublish \/ MonitorEvent \/ MonitorEpoll

Client(c) ==
  \/ \E functions \in Requests \cup {NONE}, callback \in BOOLEAN :
       Call(c, functions, callback)
  \/ Reset(c)

Environment ==
  \/ Crash
  \/ \E f \in Daemons :
       FfsOpen(f) \/ FfsDescriptors(f) \/ FfsClose(f) \/ FfsActivity(f)
  \/ UsbHalPullUp \/ UsbHalPullDown
  \/ \E v \in VendorConfigs : SetVendorConfig(v)

Next ==
  \/ \E c \in Callers : Client(c) \/ Caller(c)
  \/ MonitorFfs
  \/ Environment
  \/ Quiescent

\* The kernel runs every thread that can run; nothing is promised about
\* clients, daemons or the other processes.
Fairness ==
  /\ \A c \in Callers : WF_vars(Caller(c))
  /\ WF_vars(MonitorFfs)

Spec == Init /\ [][Next]_vars /\ Fairness

----------------------------------------------------------------------------
(* Properties. *)

HalTypeOK ==
  /\ mCurrentUsbFunctions \in SUBSET GadgetFunction
  /\ mCurrentUsbFunctionsApplied \in BOOLEAN
  /\ mMonitorCreated \in BOOLEAN
  /\ mEndpointList \in Seq(Ffs)
  /\ gadgetPullup \in BOOLEAN
  /\ mLock \in Callers \cup {NoThread}
  /\ mLockSetCurrentFunction \in Callers \cup {NoThread}

CallTypeOK ==
  /\ pc \in [Callers -> CallerPcs]
  /\ req \in [Callers -> [functions : SUBSET GadgetFunction,
                          callback : BOOLEAN]]
  /\ todo \in Seq(LinkName)
  /\ status \in Status
  /\ notified \in BOOLEAN

MonitorTypeOK ==
  /\ monPc \in MonitorPcs
  /\ writeUdc \in BOOLEAN
  /\ scan \in Nat
  /\ batch \in Nat
  /\ stopSeen \in BOOLEAN
  /\ monFor \in SUBSET GadgetFunction

KernelTypeOK ==
  /\ mEventFd \in BOOLEAN
  /\ watched \in SUBSET Ffs
  /\ inotifyQ \in Nat
  /\ udc \in BOOLEAN
  /\ links \in SUBSET LinkName
  /\ DOMAIN ids = 1..2

OutsideTypeOK ==
  /\ ffs \in [Ffs -> FfsState]
  /\ vendorConfig \in VendorStrings
  /\ left \in [Kinds -> Nat]
  /\ appliedFor \in SUBSET GadgetFunction

TypeOK == HalTypeOK /\ CallTypeOK /\ MonitorTypeOK /\ KernelTypeOK /\ OutsideTypeOK

\* "Makes sure that only one request is processed at a time" (UsbGadget.h:80):
\* no two binder threads are past taking mLockSetCurrentFunction, whichever
\* way the calls before them ended.
OneRequestAtATime ==
  \A c, d \in Callers :
    pc[c] \notin {"idle", "locking"} /\ pc[d] \notin {"idle", "locking"} => c = d

\* "Leave the gadget pulled down to give time for the host to sense disconnect"
\* (UsbGadget.cpp:685): during the wait the gadget is down and nothing can pull
\* it up, neither a monitor that was overtaken by the teardown nor the USB HAL.
DownWhileDisconnecting ==
  \A c \in Callers : pc[c] = "disconnect" => ~udc /\ ~CanBind

\* The next monitor is only started, and the functions only linked, when the
\* previous thread has been joined: assigning mMonitor while it is joinable
\* would end the process, and a live one could bind half a composition.
MonitorStoppedBeforeSetup ==
  \A c \in Callers :
    pc[c] \in {"disconnect", "validate", "setup", "link", "pullUp", "start"}
      => monPc = "off" /\ ~mMonitorCreated

\* When a monitor is started, the endpoints it looks for and the directories it
\* watches are those of the functions linked now: a leftover endpoint of an
\* earlier or half-failed request would keep the gadget down for good.
EndpointsOfTheLinks ==
  \A c \in Callers :
    pc[c] = "start" => /\ Range(mEndpointList) = links \cap Ffs
                       /\ watched = links \cap Ffs

\* A client that asked for functions with a callback is told SUCCESS only when
\* they have been pulled up and published since it asked, not on the strength
\* of what an earlier request left in gadgetPullup.
SuccessIsApplied ==
  \A c \in Callers :
    (/\ pc[c] = "answer" /\ status = "SUCCESS"
     /\ req[c].callback /\ req[c].functions # NONE)
      => mCurrentUsbFunctionsApplied /\ appliedFor = req[c].functions

\* What getCurrentUsbFunctions would say: the functions it names were applied.
Truthful == mCurrentUsbFunctionsApplied => appliedFor = mCurrentUsbFunctions

\* The answer of getCurrentUsbFunctions goes wrong in three ways only: between
\* the two assignments of a new request; when the monitor of the previous one
\* publishes while the teardown that will join it is under way; and after a
\* request that failed with the old monitor still running.  A set-up, a wait or
\* an idle HAL never makes it wrong.
UntruthfulOnlyByOvertakenMonitor ==
  [][Truthful /\ ~Truthful' =>
       \/ \E c \in Callers : pc'[c] = "clear" \/ pc[c] \in {"clear"} \cup TearDownPcs
       \/ status = "ERROR"]_vars

\* The composition the host would see is one a request selects, with the VID
\* and PID of that request.
WholeComposition ==
  \E f \in Requests, v \in VendorStrings :
    links = Range(LinkList(f, v)) /\ ids = VidPid(f, v)

\* Two requests that are accepted with the same ids link the same functions.
SameIdsSameLinks ==
  LET requests == (SUBSET GadgetFunction) \X VendorStrings
      idsOf == [r \in requests |-> VidPid(r[1], GetVendorFunctions(r[2]))]
      accepted == {r \in requests : /\ idsOf[r] # NotSupported
                                    /\ idsOf[r][2] \notin Range(AccessoryPid)}
  IN  \A r, s \in accepted :
        idsOf[r] = idsOf[s] => Range(LinkList(r[1], GetVendorFunctions(r[2])))
                                 = Range(LinkList(s[1], GetVendorFunctions(s[2])))

\* A host caches drivers per VID/PID: whenever the gadget is bound as the whole
\* of a request, no other request it may see next has the same VID/PID and other
\* functions.  The accessory ids accept any vendor functions and are left out.
IdsNameTheComposition == udc /\ WholeComposition => SameIdsSameLinks

\* "vendor.usb.config will reflect the current configured functions"
\* (UsbGadget.cpp:359): but on user builds, which have none, the property names
\* the vendor functions that are linked, also when it was unset and they came
\* from the default.  Three things make it wrong: another process that sets it; a
\* loop of unlinkFunctions that stops half-way with the monitor alive, which then
\* binds what is left; and the USB HAL.
VendorConfigReflectsLinks ==
  (/\ udc /\ BuildType # "user"
   /\ \A k \in {"vendor", "unlinkFaults", "usbHal"} : left[k] = Budget[k])
    => Range(VendorLinks[vendorConfig]) = links \ GadgetFunction

\* Every call ends: no lock, join or wait is for ever, also after failures that
\* leave a monitor running.
EveryCallReturns == \A c \in Callers : pc[c] # "idle" ~> pc[c] = "idle"

DaemonsUp == \A f \in Daemons : ffs[f] = "active"

\* A call that waits has been notified once the gadget is pulled up, so it is
\* not left to its timeout: the pull-up is never published between the start of
\* the monitor and the wait.
WaitIsWoken == \A c \in Callers : pc[c] = "wait" /\ gadgetPullup => notified

Idle == \A c \in Callers : pc[c] = "idle"

\* "continue monitoring as the descriptors might be written at a later point"
\* and "pulling up the gadget again if the userspace process dies and restarts"
\* (UsbGadget.cpp:644-658): with a monitor running and the daemons up for good,
\* the gadget is up for good.
MonitorPullsUp ==
  <>[](Idle /\ mMonitorCreated /\ DaemonsUp) => <>[]udc

\* Early or late: when no write has failed and no daemon has died since the
\* start, the monitor pulls the gadget up whenever the descriptors come.
Undisturbed ==
  \A k \in {"writeFaults", "unlinkFaults", "closes"} : left[k] = Budget[k]

MonitorPullsUpUndisturbed ==
  <>[](Idle /\ mMonitorCreated /\ DaemonsUp /\ Undisturbed) => <>[]udc

----------------------------------------------------------------------------
(* What clients are promised. *)

\* The phase of a request at each label of a call.
PhaseOf(label) ==
  CASE label = "idle" -> "idle"
    [] label = "locking" -> "queued"
    [] label = "clear" -> "accepted"
    [] label \in TearDownPcs -> "clearing"
    [] label = "answer" -> "answering"
    [] OTHER -> "building"

\* The monitor is the task that applies functions later; gadgetPullup says
\* whether it has.
Phase == [c \in Callers |-> PhaseOf(pc[c])]
Published == IF mCurrentUsbFunctionsApplied THEN {appliedFor} ELSE {}
Task == IF mMonitorCreated
        THEN {[functions |-> monFor, done |-> gadgetPullup]} ELSE {}
Outcome == IF \E c \in Callers : pc[c] = "answer" THEN status ELSE "none"

Service == INSTANCE GadgetService WITH
  Functions <- Requests \cup {NONE}, phase <- Phase, asked <- req,
  current <- mCurrentUsbFunctions, published <- Published, task <- Task,
  outcome <- Outcome

\* setCurrentUsbFunctions, its monitor and reset() do what clients are promised
\* (GadgetService), whatever fails and whenever: no step of theirs has any other
\* effect a client can see.
ImplementsService == Service!Spec

----------------------------------------------------------------------------
(* The inductive invariant behind the safety properties above. *)

Busy(c) == pc[c] \notin {"idle", "locking"}

\* A call past its lock holds it, and mCurrentUsbFunctions is what it asked for.
LockInv ==
  \A c \in Callers :
    /\ Busy(c) <=> mLockSetCurrentFunction = c
    /\ Busy(c) => mCurrentUsbFunctions = req[c].functions

\* mMonitorCreated says whether there is a thread to join; the kernel never
\* has a gadget bound without functions.
MonitorInv == mMonitorCreated <=> monPc # "off"
BoundInv == udc => links # {}

\* What each stage of a call has torn down and built up again.
StageInv ==
  \A c \in Callers :
    /\ pc[c] \in {"stop", "join", "disconnect", "validate", "setup"} => links = {}
    /\ pc[c] \in {"disconnect", "validate", "setup", "link", "pullUp", "start"}
         => ~mMonitorCreated
    /\ pc[c] \in {"disconnect", "validate", "setup"}
         => mEndpointList = <<>> /\ watched = {}
    /\ pc[c] \in {"link", "pullUp", "start"}
         => Range(mEndpointList) = links \cap Ffs /\ watched = links \cap Ffs

\* What a call that waits, or has its answer, may rely on.
AnswerInv ==
  \A c \in Callers :
    /\ pc[c] = "wait" =>
         /\ mMonitorCreated /\ monFor = req[c].functions
         /\ gadgetPullup => /\ mCurrentUsbFunctionsApplied
                            /\ appliedFor = req[c].functions
    /\ (/\ pc[c] = "answer" /\ status = "SUCCESS"
        /\ req[c].callback /\ req[c].functions # NONE) =>
         /\ mCurrentUsbFunctionsApplied
         /\ appliedFor = req[c].functions
         /\ mMonitorCreated => monFor = req[c].functions

\* Outside a teardown, and unless the last call failed, a live monitor is the
\* one of the current functions.
MonForInv ==
  (/\ mMonitorCreated /\ status # "ERROR"
   /\ \A c \in Callers : pc[c] \notin {"clear"} \cup TearDownPcs)
    => monFor = mCurrentUsbFunctions

IInv ==
  /\ TypeOK /\ LockInv /\ MonitorInv /\ BoundInv /\ StageInv /\ AnswerInv
  /\ MonForInv /\ WaitIsWoken

================================================================================
