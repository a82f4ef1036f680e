-------------------------------- MODULE UsbHal --------------------------------
(***************************************************************************)
(* The USB HAL, usb/usb/Usb.cpp: one binder thread (service.cpp sets the   *)
(* pool's maximum to 0 and joins it), the uevent thread setCallback        *)
(* creates and destroys, and what both act on: the three mutexes, the      *)
(* type-c port and the UDC and usb_data_enabled attributes.                *)
(*                                                                         *)
(* A critical section with one access in it is one step.  There is one     *)
(* type-c port, as on this board.  The kernel and the gadget HAL are the   *)
(* environment.                                                            *)
(***************************************************************************)
EXTENDS Naturals, Sequences

CONSTANTS
  Calls,       \* what clients ask for, a subset of AnyCall
  MaxUevents,  \* bound: messages queued on the uevent socket
  Budget       \* bound: how often each kind of outside event may happen

Threads == {"binder", "worker"}
Nobody == "nobody"

AnyCall ==
  [kind : {"setCallback"}, arg : {"callback", "null"}]
    \cup [kind : {"mode"}, arg : {"source", "sink"}]   \* switchRole
    \cup [kind : {"role"}, arg : {"data", "power"}]    \* switchRole
    \cup [kind : {"data"}, arg : {"on", "off"}]        \* enableUsbData
    \cup [kind : {"reset", "query", "unsupported"}, arg : {"none"}]

Kinds == {"calls", "crashes", "faults", "spurious", "attach", "detach",
          "other", "gadget"}

ASSUME CallsAssumption == Calls \subseteq AnyCall /\ Calls # {}
ASSUME MaxUeventsAssumption == MaxUevents \in Nat \ {0}
ASSUME BudgetAssumption == Budget \in [Kinds -> Nat]

VARIABLES
  \* Members of Usb, and the global destroyThread.
  mCallback, mLock, mRoleSwitchLock, mPartnerLock, mPartnerUp, mUsbDataEnabled,
  destroyThread,
  \* Where the two threads are, and the port state a status query of theirs
  \* read; the binder thread's call, the result it will report, whether its
  \* condition wait was signalled; SIGUSR1 on its way to the worker.
  pc, connected, call, result, signalled, sigPending,
  \* The kernel: the port's type and partner, the uevent socket, usb_data_enabled,
  \* the UDC attribute and whether the gadget has functions that can be bound.
  portType, partner, uevents, usbData, udc, bindable,
  \* What is left of the budget.
  left,
  \* History: what the registered callback was last told of the port; whether
  \* the partner was added since port_type was last written, or the message of
  \* an earlier addition was still on its way then; whether a port without a
  \* partner may have been left as it is, since port_type was last written or
  \* mRoleSwitchLock last tried; whether the partner changed, with nobody
  \* listening, since the port was last read.
  lastStatus, addedSince, missed, unheard

locks == <<mLock, mRoleSwitchLock, mPartnerLock>>
members == <<mCallback, mPartnerUp, mUsbDataEnabled, destroyThread>>
locals == <<connected, call, result, signalled, sigPending>>
port == <<portType, partner>>
data == <<usbData, udc, bindable>>
history == <<lastStatus, addedSince, missed, unheard>>
vars == <<locks, members, pc, locals, port, uevents, data, left, history>>

SwitchPcs == {"open", "arm", "write", "wait", "woken", "timedout", "drp", "role",
              "notify"}
BinderPcs == {"idle", "setCallback", "join", "roleLock", "udcRead", "udcWrite",
              "dataPath", "reset", "ack", "query", "report"} \cup SwitchPcs
WorkerPcs == {"off", "start", "check", "enter", "epoll", "partner", "query",
              "report", "trylock", "look", "drp", "exited"}

Spend(kind) == left[kind] > 0 /\ left' = [left EXCEPT ![kind] = @ - 1]
Goto(t, label) == pc' = [pc EXCEPT ![t] = label]

WorkerRuns == pc["worker"] \notin {"off", "exited"}

\* The worker's socket is open: the kernel queues uevents on it.
Listening == pc["worker"] \notin {"off", "start", "exited"}
Emit(message) ==
  uevents' = IF Listening THEN Append(uevents, message) ELSE uevents

\* What notifyPortStatusChange can have told the callback; none of it yet.
Statuses == [told : {"nothing", "status", "error"}, connected : BOOLEAN,
             enabled : BOOLEAN]
NothingTold == [told |-> "nothing", connected |-> FALSE, enabled |-> FALSE]

Init ==
  /\ mCallback = FALSE /\ mPartnerUp = FALSE /\ mUsbDataEnabled = TRUE
  /\ destroyThread = FALSE
  /\ mLock = Nobody /\ mRoleSwitchLock = Nobody /\ mPartnerLock = Nobody
  /\ pc = [t \in Threads |-> IF t = "binder" THEN "idle" ELSE "off"]
  /\ connected = [t \in Threads |-> FALSE]
  /\ call \in Calls
  /\ result = FALSE /\ signalled = FALSE /\ sigPending = FALSE
  /\ portType = "dual" /\ partner \in BOOLEAN
  /\ uevents = <<>>
  /\ usbData = TRUE /\ udc \in BOOLEAN /\ bindable \in BOOLEAN
  /\ left = Budget
  /\ lastStatus = NothingTold /\ addedSince = FALSE /\ missed = FALSE
  /\ unheard = FALSE

----------------------------------------------------------------------------
(* The binder thread: a call comes in, and setCallback. *)

FirstPc(kind) ==
  CASE kind = "setCallback" -> "setCallback"
    [] kind \in {"mode", "role"} -> "roleLock"
    [] kind = "data" -> "udcRead"
    [] kind = "reset" -> "reset"
    [] kind = "query" -> "query"
    [] kind = "unsupported" -> "ack"

Call(c) ==
  /\ pc["binder"] = "idle"
  /\ Spend("calls")
  /\ call' = c
  /\ Goto("binder", FirstPc(c.kind))
  /\ result' = TRUE
  /\ UNCHANGED <<locks, members, connected, signalled, sigPending, port, uevents,
                 data, history>>

\* A callback replaced by another one, or null by null: no thread is involved.
ReplaceCallback ==
  /\ pc["binder"] = "setCallback" /\ mLock = Nobody
  /\ mCallback <=> call.arg = "callback"
  /\ Goto("binder", "idle")
  /\ lastStatus' = NothingTold
  /\ UNCHANGED <<locks, members, locals, port, uevents, data, left, addedSince,
                 missed, unheard>>

\* The callback is cleared and the thread told to go; mLock stays taken.  When
\* the thread is already gone pthread_kill fails, and nothing is joined.
ClearCallback ==
  /\ pc["binder"] = "setCallback" /\ mLock = Nobody
  /\ mCallback /\ call.arg = "null"
  /\ mCallback' = FALSE
  /\ IF WorkerRuns
     THEN /\ sigPending' = TRUE /\ mLock' = "binder"
          /\ Goto("binder", "join")
     ELSE /\ pc' = [pc EXCEPT !["binder"] = "idle", !["worker"] = "off"]
          /\ UNCHANGED <<sigPending, mLock>>
  /\ lastStatus' = NothingTold
  /\ UNCHANGED <<mRoleSwitchLock, mPartnerLock, mPartnerUp, mUsbDataEnabled,
                 destroyThread, connected, call, result, signalled, port,
                 uevents, data, left, addedSince, missed, unheard>>

\* As a mutant: pthread_join is left out.
NotJoined == TRUE

WorkerExited == pc["worker"] = "exited"

JoinWorker ==
  /\ pc["binder"] = "join"
  /\ WorkerExited
  /\ pc' = [pc EXCEPT !["binder"] = "idle",
                      !["worker"] = IF @ = "exited" THEN "off" ELSE @]
  /\ mLock' = Nobody
  /\ sigPending' = FALSE
  /\ UNCHANGED <<mRoleSwitchLock, mPartnerLock, members, connected, call, result,
                 signalled, port, uevents, data, left, history>>

\* The first callback: the thread is created, or the callback dropped again.
RegisterCallback ==
  /\ pc["binder"] = "setCallback" /\ mLock = Nobody
  /\ ~mCallback /\ call.arg = "callback"
  /\ destroyThread' = FALSE
  /\ \/ /\ mCallback' = TRUE
        /\ pc' = [pc EXCEPT !["binder"] = "idle", !["worker"] = "start"]
        /\ UNCHANGED left
     \/ /\ Spend("faults")
        /\ Goto("binder", "idle")
        /\ UNCHANGED mCallback
  /\ lastStatus' = NothingTold
  /\ UNCHANGED <<locks, mPartnerUp, mUsbDataEnabled, locals, port, uevents, data,
                 addedSince, missed, unheard>>

----------------------------------------------------------------------------
(* The binder thread: switchRole and switchMode. *)

TakeRoleSwitchLock ==
  /\ pc["binder"] = "roleLock" /\ mRoleSwitchLock = Nobody
  /\ mRoleSwitchLock' = "binder"
  /\ Goto("binder", IF call.kind = "mode" THEN "open" ELSE "role")
  /\ UNCHANGED <<mLock, mPartnerLock, members, locals, port, uevents, data, left,
                 history>>

\* data_role or power_role is written and read back.
WriteRole ==
  /\ pc["binder"] = "role"
  /\ result' \in BOOLEAN
  /\ Goto("binder", "notify")
  /\ UNCHANGED <<locks, members, connected, call, signalled, sigPending, port,
                 uevents, data, left, history>>

OpenPortType ==
  /\ pc["binder"] = "open"
  /\ \/ Goto("binder", "arm") /\ UNCHANGED <<result, left>>
     \/ Spend("faults") /\ result' = FALSE /\ Goto("binder", "drp")
  /\ UNCHANGED <<locks, members, connected, call, signalled, sigPending, port,
                 uevents, data, history>>

\* As a mutant: mPartnerLock is only taken for the wait itself.
LockLater == Nobody

LockWhileWriting == "binder"

\* As a mutant: mPartnerUp keeps what an earlier switch has left in it.
PartnerKept == mPartnerUp

PartnerAway == FALSE

\* mPartnerUp is reset with mPartnerLock held, and the lock kept until the
\* condition wait gives it up: a partner added once the file is written finds
\* the thread waiting.
ArmPartner ==
  /\ pc["binder"] = "arm" /\ mPartnerLock = Nobody
  /\ mPartnerLock' = LockWhileWriting
  /\ mPartnerUp' = PartnerAway
  /\ Goto("binder", "write")
  /\ UNCHANGED <<mLock, mRoleSwitchLock, mCallback, mUsbDataEnabled,
                 destroyThread, locals, port, uevents, data, left, history>>

\* The uevent thread has still to handle a partner added before.
AddOnItsWay ==
  pc["worker"] = "partner" \/ \E i \in DOMAIN uevents : uevents[i] = "add"

\* fputs only fills the stdio buffer: when the write fclose makes fails, nobody
\* notices and the thread waits all the same.
WritePortType ==
  /\ pc["binder"] = "write"
  /\ mPartnerLock' = Nobody
  /\ addedSince' = AddOnItsWay /\ missed' = FALSE
  /\ signalled' = FALSE
  /\ \/ /\ portType' = call.arg
        /\ Goto("binder", "wait")
        /\ UNCHANGED <<result, left>>
     \/ /\ Spend("faults")
        /\ UNCHANGED portType
        /\ \/ Goto("binder", "wait") /\ UNCHANGED result
           \/ Goto("binder", "drp") /\ result' = FALSE
  /\ UNCHANGED <<mLock, mRoleSwitchLock, members, connected, call, sigPending,
                 partner, uevents, data, lastStatus, unheard>>

\* pthread_cond_timedwait is signalled, or wakes up for nothing.
Wake ==
  /\ pc["binder"] = "wait"
  /\ (signalled /\ UNCHANGED left) \/ Spend("spurious")
  /\ Goto("binder", "woken")
  /\ UNCHANGED <<locks, members, locals, port, uevents, data, history>>

\* PORT_TYPE_TIMEOUT seconds have passed; the thread still has to get
\* mPartnerLock back.
TimeOut ==
  /\ pc["binder"] = "wait"
  /\ Goto("binder", "timedout")
  /\ UNCHANGED <<locks, members, locals, port, uevents, data, left, history>>

\* Back from the wait: the switch is done, or the thread waits again.
CheckPartner ==
  /\ pc["binder"] = "woken" /\ mPartnerLock = Nobody
  /\ Goto("binder", IF mPartnerUp THEN "notify" ELSE "wait")
  /\ signalled' = FALSE
  /\ UNCHANGED <<locks, members, connected, call, result, sigPending, port,
                 uevents, data, left, history>>

\* As a mutant: a timeout is a reason to wait again.
WaitAgain == "wait"

AfterTimeout == "drp"

\* ETIMEDOUT: mPartnerUp is not looked at.
GiveUp ==
  /\ pc["binder"] = "timedout" /\ mPartnerLock = Nobody
  /\ result' = FALSE
  /\ Goto("binder", AfterTimeout)
  /\ UNCHANGED <<locks, members, connected, call, signalled, sigPending, port,
                 uevents, data, left, history>>

\* As mutants: a word port_type does not know; a switch that fails leaves port_type as it is.
UnknownRole == "drp"
StayInRole == portType

DualRole == "dual"

\* switchToDrp after a switch that failed; a failure of its own is only logged.
SwitchToDrp ==
  /\ pc["binder"] = "drp"
  /\ \/ portType' = DualRole /\ UNCHANGED <<left, missed>>
     \/ Spend("faults") /\ missed' = TRUE /\ UNCHANGED portType
  /\ Goto("binder", "notify")
  /\ UNCHANGED <<locks, members, locals, partner, uevents, data, lastStatus,
                 addedSince, unheard>>

\* notifyRoleSwitchStatus, with both locks; then both are released.
NotifyRoleSwitch ==
  /\ pc["binder"] = "notify" /\ mLock = Nobody
  /\ mRoleSwitchLock' = Nobody
  /\ Goto("binder", "idle")
  /\ UNCHANGED <<mLock, mPartnerLock, members, locals, port, uevents, data, left,
                 history>>

----------------------------------------------------------------------------
(* The binder thread: enableUsbData, resetUsbPort and the other calls. *)

Wanted == call.arg = "on"

\* The UDC attribute is read, and only written when it differs; one that cannot
\* be read is left as it is, which is no failure of the call.
ReadUdc ==
  /\ pc["binder"] = "udcRead"
  /\ \/ Goto("binder", IF udc = Wanted THEN "dataPath" ELSE "udcWrite")
        /\ UNCHANGED left
     \/ Goto("binder", "dataPath") /\ Spend("faults")
  /\ UNCHANGED <<locks, members, locals, port, uevents, data, history>>

\* The kernel refuses to bind a gadget that is bound or has nothing to bind,
\* and to unbind an unbound one.
Accepted == udc # Wanted /\ (Wanted => bindable)

WriteUdc ==
  /\ pc["binder"] = "udcWrite"
  /\ \/ Accepted /\ udc' = Wanted /\ UNCHANGED <<result, left>>
     \/ /\ IF Accepted THEN Spend("faults") ELSE UNCHANGED left
        /\ result' = FALSE
        /\ UNCHANGED udc
  /\ Goto("binder", "dataPath")
  /\ UNCHANGED <<locks, members, connected, call, signalled, sigPending, port,
                 uevents, usbData, bindable, history>>

\* As a mutant: the member is only updated where data is turned on.
EnabledIfTurnedOn == IF Wanted /\ result THEN TRUE ELSE mUsbDataEnabled

EnabledIfDone == IF result THEN Wanted ELSE mUsbDataEnabled

\* usb_data_enabled is written whatever became of the UDC attribute;
\* mUsbDataEnabled follows only when both went well.
WriteDataPath ==
  /\ pc["binder"] = "dataPath"
  /\ \/ /\ usbData' = Wanted
        /\ mUsbDataEnabled' = EnabledIfDone
        /\ UNCHANGED <<result, left>>
     \/ /\ Spend("faults")
        /\ result' = FALSE
        /\ UNCHANGED <<usbData, mUsbDataEnabled>>
  /\ Goto("binder", "ack")
  /\ UNCHANGED <<locks, mCallback, mPartnerUp, destroyThread, connected, call,
                 signalled, sigPending, port, uevents, udc, bindable, history>>

ResetPort ==
  /\ pc["binder"] = "reset"
  /\ udc' = FALSE
  /\ result' = udc
  /\ Goto("binder", "ack")
  /\ UNCHANGED <<locks, members, connected, call, signalled, sigPending, port,
                 uevents, usbData, bindable, left, history>>

\* The call's own notify...Status, under mLock; a status query follows it, but
\* for resetUsbPort, which makes none, and queryPortStatus, which made it first.
Acknowledge ==
  /\ pc["binder"] = "ack" /\ mLock = Nobody
  /\ Goto("binder", IF call.kind \in {"reset", "query"} THEN "idle" ELSE "query")
  /\ UNCHANGED <<locks, members, locals, port, uevents, data, left, history>>

----------------------------------------------------------------------------
(* queryVersionHelper, run by both threads. *)

\* As a mutant: the port is looked at before mLock is taken.
NoLockForReading(t) == Nobody

LockForReading(t) == t

\* mLock, then the directory that tells whether the port has a partner.
ReadPort(t) ==
  /\ pc[t] = "query" /\ mLock = Nobody
  /\ mLock' = LockForReading(t)
  /\ connected' = [connected EXCEPT ![t] = partner]
  /\ unheard' = FALSE
  /\ Goto(t, "report")
  /\ UNCHANGED <<mRoleSwitchLock, mPartnerLock, members, call, result, signalled,
                 sigPending, port, uevents, data, left, lastStatus, addedSince,
                 missed>>

\* The rest of the status is read and the callback told, in one critical
\* section.  A partner that has gone since makes its files unreadable: ERROR.
ReportPort(t) ==
  /\ pc[t] = "report"
  /\ lastStatus' =
       IF mCallback
       THEN [told |-> IF connected[t] /\ ~partner THEN "error" ELSE "status",
             connected |-> connected[t], enabled |-> mUsbDataEnabled]
       ELSE lastStatus
  /\ mLock' = Nobody
  /\ Goto(t, CASE t = "worker" -> "trylock"
               [] t = "binder" /\ call.kind = "query" -> "ack"
               [] OTHER -> "idle")
  /\ UNCHANGED <<mRoleSwitchLock, mPartnerLock, members, locals, port, uevents,
                 data, left, addedSince, missed, unheard>>

----------------------------------------------------------------------------
(* The worker: work and uevent_event. *)

\* Without a socket the thread ends at once.
OpenSocket ==
  /\ pc["worker"] = "start"
  /\ \/ Goto("worker", "check") /\ UNCHANGED left
     \/ Spend("faults") /\ Goto("worker", "exited")
  /\ UNCHANGED <<locks, members, locals, port, uevents, data, history>>

\* The thread ends; the socket is closed, with the messages still in it.
Leave ==
  /\ Goto("worker", "exited")
  /\ uevents' = <<>>
  /\ missed' = (missed \/ uevents # <<>>)

\* while (!destroyThread).
CheckDestroy ==
  /\ pc["worker"] = "check"
  /\ IF destroyThread
     THEN Leave
     ELSE Goto("worker", "enter") /\ UNCHANGED <<uevents, missed>>
  /\ UNCHANGED <<locks, members, locals, port, data, left, lastStatus, addedSince,
                 unheard>>

\* The thread has looked at destroyThread and goes into epoll_wait.
EnterWait ==
  /\ pc["worker"] = "enter"
  /\ Goto("worker", "epoll")
  /\ UNCHANGED <<locks, members, locals, port, uevents, data, left, history>>

\* epoll_wait returns and one message is read: a partner that was added, another
\* type-c event, or a message of some other subsystem.
ReceiveUevent ==
  /\ pc["worker"] = "epoll"
  /\ uevents # <<>>
  /\ uevents' = Tail(uevents)
  /\ Goto("worker", CASE Head(uevents) = "add" -> "partner"
                      [] Head(uevents) = "typec" -> "query"
                      [] OTHER -> "check")
  /\ UNCHANGED <<locks, members, locals, port, data, left, history>>

\* epoll_wait fails for another reason than a signal: the thread ends.
EpollFails ==
  /\ pc["worker"] = "epoll"
  /\ Spend("faults")
  /\ Leave
  /\ UNCHANGED <<locks, members, locals, port, data, lastStatus, addedSince,
                 unheard>>

\* "add@...-partner": mPartnerUp is set and the condition signalled, under
\* mPartnerLock.  The message also has DEVTYPE=typec_partner.
PartnerAdded ==
  /\ pc["worker"] = "partner" /\ mPartnerLock = Nobody
  /\ mPartnerUp' = TRUE
  /\ signalled' = (signalled \/ pc["binder"] = "wait")
  /\ Goto("worker", "query")
  /\ UNCHANGED <<locks, mCallback, mUsbDataEnabled, destroyThread, connected, call,
                 result, sigPending, port, uevents, data, left, history>>

\* As a mutant: the lock is not looked at.
TryAlways == TRUE

RoleSwitchIdle == mRoleSwitchLock = Nobody

\* pthread_mutex_trylock: the ports are left alone while a role is switched.
TryRoleSwitchLock ==
  /\ pc["worker"] = "trylock"
  /\ missed' = ~RoleSwitchIdle
  /\ IF RoleSwitchIdle
     THEN mRoleSwitchLock' = "worker" /\ Goto("worker", "look")
     ELSE Goto("worker", "check") /\ UNCHANGED mRoleSwitchLock
  /\ UNCHANGED <<mLock, mPartnerLock, members, locals, port, uevents, data, left,
                 lastStatus, addedSince, unheard>>

\* opendir of the partner's directory.
LookForPartner ==
  /\ pc["worker"] = "look"
  /\ IF partner
     THEN mRoleSwitchLock' = Nobody /\ Goto("worker", "check")
     ELSE Goto("worker", "drp") /\ UNCHANGED mRoleSwitchLock
  /\ UNCHANGED <<mLock, mPartnerLock, members, locals, port, uevents, data, left,
                 history>>

\* switchToDrp on the port that had no partner.
WorkerSwitchToDrp ==
  /\ pc["worker"] = "drp"
  /\ \/ portType' = "dual" /\ UNCHANGED <<left, missed>>
     \/ Spend("faults") /\ missed' = TRUE /\ UNCHANGED portType
  /\ mRoleSwitchLock' = Nobody
  /\ Goto("worker", "check")
  /\ UNCHANGED <<mLock, mPartnerLock, members, locals, partner, uevents, data,
                 lastStatus, addedSince, unheard>>

\* SIGUSR1 runs sighandler on the worker, wherever it is; only a thread that is
\* in epoll_wait already is brought back to its loop by it.
SigHandler ==
  /\ sigPending
  /\ pc["worker"] # "exited"
  /\ sigPending' = FALSE
  /\ destroyThread' = TRUE
  /\ IF pc["worker"] = "epoll" THEN Goto("worker", "check") ELSE UNCHANGED pc
  /\ UNCHANGED <<locks, mCallback, mPartnerUp, mUsbDataEnabled, connected, call,
                 result, signalled, port, uevents, data, left, history>>

----------------------------------------------------------------------------
(* The environment. *)

RoomForUevent == Len(uevents) < MaxUevents

Attach ==
  /\ ~partner /\ RoomForUevent
  /\ Spend("attach")
  /\ partner' = TRUE
  /\ addedSince' = TRUE
  /\ unheard' = (unheard \/ ~Listening)
  /\ Emit("add")
  /\ UNCHANGED <<locks, members, pc, locals, portType, data, lastStatus, missed>>

Detach ==
  /\ partner /\ RoomForUevent
  /\ Spend("detach")
  /\ partner' = FALSE
  /\ unheard' = (unheard \/ ~Listening)
  /\ missed' = (missed \/ ~Listening)
  /\ Emit("typec")
  /\ UNCHANGED <<locks, members, pc, locals, portType, data, lastStatus,
                 addedSince>>

\* A uevent of another subsystem: the socket is not filtered.
OtherUevent ==
  /\ RoomForUevent
  /\ Spend("other")
  /\ Emit("other")
  /\ UNCHANGED <<locks, members, pc, locals, port, data, history>>

\* The gadget HAL binds or unbinds the gadget, or it gets or loses functions.
GadgetHal ==
  /\ Spend("gadget")
  /\ \/ udc' = ~udc /\ UNCHANGED bindable
     \/ bindable' = ~bindable /\ UNCHANGED udc
  /\ UNCHANGED <<locks, members, pc, locals, port, uevents, usbData, history>>

\* init restarts the service; the kernel's attributes stay.
Crash ==
  /\ Spend("crashes")
  /\ mCallback' = FALSE /\ mPartnerUp' = FALSE /\ mUsbDataEnabled' = TRUE
  /\ destroyThread' = FALSE
  /\ mLock' = Nobody /\ mRoleSwitchLock' = Nobody /\ mPartnerLock' = Nobody
  /\ pc' = [t \in Threads |-> IF t = "binder" THEN "idle" ELSE "off"]
  /\ signalled' = FALSE /\ sigPending' = FALSE
  /\ uevents' = <<>>
  /\ lastStatus' = NothingTold /\ missed' = TRUE
  /\ UNCHANGED <<connected, call, result, port, data, addedSince, unheard>>

\* The calls are used up, no thread has anything to do.
Quiet ==
  /\ pc["binder"] = "idle"
  /\ pc["worker"] = "epoll" /\ uevents = <<>>

Quiescent ==
  /\ pc["binder"] = "idle" /\ left["calls"] = 0
  /\ ~WorkerRuns \/ Quiet
  /\ UNCHANGED vars

----------------------------------------------------------------------------

SetCallback == ReplaceCallback \/ ClearCallback \/ JoinWorker \/ RegisterCallback

SwitchMode ==
  \/ OpenPortType \/ ArmPartner \/ WritePortType \/ Wake \/ TimeOut
  \/ CheckPartner \/ GiveUp \/ SwitchToDrp

SwitchRole == TakeRoleSwitchLock \/ WriteRole \/ SwitchMode \/ NotifyRoleSwitch

EnableUsbData == ReadUdc \/ WriteUdc \/ WriteDataPath

Query(t) == ReadPort(t) \/ ReportPort(t)

Binder ==
  \/ SetCallback \/ SwitchRole \/ EnableUsbData \/ ResetPort \/ Acknowledge
  \/ Query("binder")

UeventEvent ==
  \/ PartnerAdded \/ Query("worker") \/ TryRoleSwitchLock \/ LookForPartner
  \/ WorkerSwitchToDrp

Work == OpenSocket \/ CheckDestroy \/ EnterWait \/ ReceiveUevent \/ UeventEvent

Environment ==
  \/ \E c \in Calls : Call(c)
  \/ Attach \/ Detach \/ OtherUevent \/ GadgetHal \/ Crash \/ EpollFails

Next == Binder \/ Work \/ SigHandler \/ Environment \/ Quiescent

\* The kernel runs threads that can run and delivers signals; nothing is
\* promised about clients, partners or the gadget HAL.
Fairness == WF_vars(Binder) /\ WF_vars(Work) /\ WF_vars(SigHandler)

Spec == Init /\ [][Next]_vars /\ Fairness

----------------------------------------------------------------------------
(* Properties. *)

TypeOK ==
  /\ mCallback \in BOOLEAN /\ mPartnerUp \in BOOLEAN
  /\ mUsbDataEnabled \in BOOLEAN /\ destroyThread \in BOOLEAN
  /\ mLock \in Threads \cup {Nobody}
  /\ mRoleSwitchLock \in Threads \cup {Nobody}
  /\ mPartnerLock \in {"binder", Nobody}
  /\ pc \in [Threads -> BinderPcs \cup WorkerPcs]
  /\ pc["binder"] \in BinderPcs /\ pc["worker"] \in WorkerPcs
  /\ connected \in [Threads -> BOOLEAN]
  /\ call \in Calls
  /\ result \in BOOLEAN /\ signalled \in BOOLEAN /\ sigPending \in BOOLEAN
  /\ portType \in {"dual", "source", "sink"} /\ partner \in BOOLEAN
  /\ uevents \in Seq({"add", "typec", "other"})
  /\ usbData \in BOOLEAN /\ udc \in BOOLEAN /\ bindable \in BOOLEAN
  /\ left \in [Kinds -> Nat]
  /\ lastStatus \in Statuses
  /\ addedSince \in BOOLEAN /\ missed \in BOOLEAN
  /\ unheard \in BOOLEAN

\* "Hold the lock here to prevent loosing connected signals" (Usb.cpp:282): a
\* thread that waits for the partner has been signalled whenever mPartnerUp is
\* set, however early the partner came.
ConnectedSignalNotLost == pc["binder"] = "wait" /\ mPartnerUp => signalled

\* "Role switch is not in progress and port is in disconnected state"
\* (Usb.cpp:674): the uevent thread never takes a port away from a switchRole.
RoleSwitchUndisturbed ==
  [][pc["worker"] = "drp" /\ pc'["worker"] = "check"
       => pc["binder"] \notin SwitchPcs]_vars

\* A port left without a partner goes back to dual role, after a switch that
\* failed and after a partner that left.  Five things leave it behind, and nobody
\* looks again: a partner that leaves while a role switch holds mRoleSwitchLock
\* or while no thread listens, a thread that ends with messages unread, a write
\* of "dual" that fails (it is only logged), and a restart in the middle.
PortFreedUnlessMissed == Quiet /\ ~partner => portType = "dual" \/ missed

\* setCallback starts a worker only when the one before is gone: two would share
\* mPoll and destroyThread, and resetting the flag would keep the old one.
OneWorker ==
  [][pc["worker"] # "start" /\ pc'["worker"] = "start" => ~WorkerRuns]_vars

\* What the client was last told of the port is what the port is, once the
\* threads have nothing left to do: reports of the two threads are not told out
\* of order, and an ERROR of a partner that was leaving is followed by another
\* report.  Only a change before the worker has opened its socket goes unheard:
\* setCallback does not wait for it.
ClientSeesLatest ==
  Quiet /\ mCallback /\ lastStatus # NothingTold /\ ~unheard =>
    lastStatus = [told |-> "status", connected |-> partner,
                  enabled |-> mUsbDataEnabled]

\* Every call ends: a switch that waits for a partner that never comes gives up,
\* and no two locks are waited for in opposite orders.  The one call that may
\* wait for ever is the one that joins the uevent thread (ThreadDestroyed).
EveryCallReturns == pc["binder"] # "idle" ~> pc["binder"] \in {"idle", "join"}

\* "Variable to signal partner coming back online after type switch"
\* (Usb.h:76): while the switch waits, mPartnerUp is only set by a partner that
\* was added since port_type was written, or whose message the uevent thread had
\* still not handled then: the code cannot tell the two apart.
PartnerUpMeansBack == pc["binder"] = "wait" /\ mPartnerUp => addedSince

\* "Usb Data status" (Usb.h:78), what every port status tells of usb_data_enabled:
\* the member and the attribute part only in a call that answers ERROR, because
\* the UDC or the attribute itself could not be written, or in a restart, which
\* takes the data for enabled.
StatusPartsOnlyWithError ==
  [][mUsbDataEnabled = usbData /\ mUsbDataEnabled' # usbData' =>
       ~result' \/ left'["crashes"] # left["crashes"]]_vars

\* "Set by the signal handler to destroy the thread" (Usb.cpp:48): a thread told
\* to go goes.
ThreadDestroyed == destroyThread ~> ~WorkerRuns

=============================================================================
