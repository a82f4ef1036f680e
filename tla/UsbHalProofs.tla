---------------------------- MODULE UsbHalProofs ----------------------------
(***************************************************************************)
(* Proofs about UsbHal: for any set of calls, any length of the uevent     *)
(* socket's queue and any budget of faults, restarts and partners.         *)
(***************************************************************************)
EXTENDS UsbHal, SequenceTheorems, TLAPS

USE DEF LockWhileWriting, PartnerAway, AfterTimeout, DualRole, EnabledIfDone,
        LockForReading, WorkerExited, RoleSwitchIdle, Nobody

----------------------------------------------------------------------------
(* The inductive invariant. *)

\* The steps of switchMode, which only a call of that kind takes; the steps of
\* enableUsbData before it answers.
ModePcs == {"open", "arm", "write", "wait", "woken", "timedout", "drp"}
DataPcs == {"udcRead", "udcWrite", "dataPath"}

CallInv ==
  /\ pc["binder"] \in ModePcs => call.kind = "mode"
  /\ pc["binder"] \in DataPcs => call.kind = "data"

\* Who holds each of the three mutexes, and where.
LockInv ==
  /\ mLock = "binder" <=> pc["binder"] \in {"join", "report"}
  /\ mLock = "worker" <=> pc["worker"] = "report"
  /\ mRoleSwitchLock = "binder" <=> pc["binder"] \in SwitchPcs
  /\ mRoleSwitchLock = "worker" <=> pc["worker"] \in {"look", "drp"}
  /\ mPartnerLock = "binder" <=> pc["binder"] = "write"

\* There is a worker only while there is a callback, or while it is joined.
WorkerInv == mCallback \/ pc["binder"] = "join" \/ pc["worker"] = "off"

\* What mPartnerUp says to the thread that waits for the partner.
SignalInv ==
  /\ pc["binder"] = "wait" /\ mPartnerUp => signalled
  /\ pc["binder"] = "write" => ~mPartnerUp

AddInv ==
  pc["binder"] \in {"wait", "woken"} /\ (mPartnerUp \/ AddOnItsWay)
    => addedSince

\* A type-c message is in the socket, or the worker has it and has not read the
\* port yet; the worker has still to try to look after the port.
TypecQueued == \E i \in DOMAIN uevents : uevents[i] \in {"add", "typec"}
ReadPending == TypecQueued \/ pc["worker"] \in {"partner", "query"}
LookPending ==
  ReadPending \/ pc["worker"] \in {"report", "trylock", "look", "drp"}

\* A port without a partner that is not in dual role: the worker will look, or
\* the switch will give up.
FreeInv ==
  ~partner /\ portType # "dual" /\ ~missed =>
    \/ LookPending
    \/ pc["binder"] \in {"timedout", "drp"}
    \/ pc["binder"] \in {"wait", "woken"} /\ ~mPartnerUp

\* What a thread has read of the port and not yet told is still so, or the
\* worker will read the port again.
ReadInv ==
  \A t \in Threads :
    pc[t] = "report" /\ ~unheard /\ WorkerRuns =>
      connected[t] = partner \/ ReadPending

\* What the callback was told last is still so, or a report is to come.
ToldInv ==
  mCallback /\ lastStatus # NothingTold /\ ~unheard /\ WorkerRuns =>
    \/ lastStatus.told = "status" /\ lastStatus.connected = partner
    \/ ReadPending
    \/ \E t \in Threads : pc[t] = "report"

EnabledInv ==
  mCallback /\ lastStatus # NothingTold =>
    \/ lastStatus.enabled = mUsbDataEnabled
    \/ pc["binder"] \in {"ack", "query", "report"} /\ call.kind = "data"

IInv ==
  /\ TypeOK /\ CallInv /\ LockInv /\ WorkerInv /\ SignalInv /\ AddInv
  /\ FreeInv /\ ReadInv /\ ToldInv /\ EnabledInv

----------------------------------------------------------------------------
(* Labels, budgets and queues. *)

\* The labels of the binder thread, and the names of the threads.
LEMMA PcNames ==
  /\ {"idle", "setCallback", "join", "roleLock", "udcRead", "udcWrite",
      "dataPath", "reset", "ack", "query", "report", "open", "arm", "write",
      "wait", "woken", "timedout", "drp", "role", "notify"} = BinderPcs
  /\ "binder" \in Threads /\ "worker" \in Threads
BY DEF BinderPcs, SwitchPcs, Threads

\* The kinds of outside event there is a budget for.
LEMMA KindNames ==
  {"calls", "crashes", "faults", "spurious", "attach", "detach", "other",
   "gadget"} = Kinds
BY DEF Kinds

\* A budget that is spent stays a budget.
LEMMA SpendType ==
  ASSUME NEW k \in Kinds, left \in [Kinds -> Nat], Spend(k)
  PROVE  left' \in [Kinds -> Nat]
BY DEF Spend

\* What a queue holds after a message was put in or taken out.
LEMMA AppendHolds ==
  ASSUME NEW T, NEW s \in Seq(T), NEW x \in T, NEW S
  PROVE  (\E i \in DOMAIN Append(s, x) : Append(s, x)[i] \in S)
           <=> (\E i \in DOMAIN s : s[i] \in S) \/ x \in S
<1>1. /\ DOMAIN s = 1..Len(s) /\ DOMAIN Append(s, x) = 1..(Len(s) + 1)
      /\ Len(s) \in Nat
  OBVIOUS
<1>2. /\ \A i \in 1..Len(s) : Append(s, x)[i] = s[i]
      /\ Append(s, x)[Len(s) + 1] = x
  OBVIOUS
<1>. QED  BY <1>1, <1>2

\* Nor does a queue lose anything but the message taken out.
LEMMA TailHolds ==
  ASSUME NEW T, NEW s \in Seq(T), s # <<>>, NEW S
  PROVE  (\E i \in DOMAIN s : s[i] \in S)
           <=> Head(s) \in S \/ \E i \in DOMAIN Tail(s) : Tail(s)[i] \in S
<1>1. /\ DOMAIN s = 1..Len(s) /\ DOMAIN Tail(s) = 1..(Len(s) - 1)
      /\ Len(s) \in Nat \ {0}
  OBVIOUS
<1>2. /\ \A i \in 1..(Len(s) - 1) : Tail(s)[i] = s[i + 1]
      /\ Head(s) = s[1]
  OBVIOUS
<1>3. ASSUME NEW i \in DOMAIN s, s[i] \in S
      PROVE  Head(s) \in S \/ \E j \in DOMAIN Tail(s) : Tail(s)[j] \in S
  <2>1. CASE i = 1
    BY <1>2, <1>3, <2>1
  <2>2. CASE i # 1
    <3>1. i - 1 \in 1..(Len(s) - 1)
      BY <2>2, <1>1
    <3>2. Tail(s)[i - 1] = s[i]
      BY <1>2, <3>1
    <3>. QED  BY <1>1, <1>3, <3>1, <3>2
  <2>. QED  BY <2>1, <2>2
<1>4. ASSUME NEW j \in DOMAIN Tail(s), Tail(s)[j] \in S
      PROVE  \E i \in DOMAIN s : s[i] \in S
  BY <1>1, <1>2, <1>4
<1>5. Head(s) \in S => \E i \in DOMAIN s : s[i] \in S
  BY <1>1, <1>2
<1>. QED  BY <1>3, <1>4, <1>5

\* What the socket holds after each step: a message is appended, or the first one
\* is taken out, or nothing changes.
AddQueued == \E i \in DOMAIN uevents : uevents[i] \in {"add"}

LEMMA EmitHolds ==
  ASSUME uevents \in Seq({"add", "typec", "other"}),
         NEW m \in {"add", "typec", "other"}, Emit(m), NEW S
  PROVE  (\E i \in DOMAIN uevents' : uevents'[i] \in S)
           <=> \/ \E i \in DOMAIN uevents : uevents[i] \in S
               \/ Listening /\ m \in S
<1>1. CASE Listening
  BY <1>1, AppendHolds DEF Emit
<1>2. CASE ~Listening
  BY <1>2 DEF Emit
<1>. QED  BY <1>1, <1>2

\* Nothing is queued or taken.
LEMMA QueueKept ==
  ASSUME UNCHANGED uevents
  PROVE  (TypecQueued' <=> TypecQueued) /\ (AddQueued' <=> AddQueued)
BY DEF TypecQueued, AddQueued

\* The kernel queues a message.
LEMMA QueueEmitted ==
  ASSUME TypeOK, NEW m \in {"add", "typec", "other"}, Emit(m)
  PROVE  /\ TypecQueued' <=> TypecQueued \/ (Listening /\ m # "other")
         /\ AddQueued' <=> AddQueued \/ (Listening /\ m = "add")
BY EmitHolds DEF TypeOK, TypecQueued, AddQueued

\* The worker takes the first message.
LEMMA QueueReceived ==
  ASSUME TypeOK, ReceiveUevent
  PROVE  /\ TypecQueued <=> TypecQueued' \/ Head(uevents) \in {"add", "typec"}
         /\ AddQueued <=> AddQueued' \/ Head(uevents) = "add"
<1>1. uevents # <<>> /\ uevents' = Tail(uevents)
  BY DEF ReceiveUevent
<1>2. uevents \in Seq({"add", "typec", "other"})
  BY DEF TypeOK
<1>3. TypecQueued <=> TypecQueued' \/ Head(uevents) \in {"add", "typec"}
  BY <1>1, <1>2, TailHolds, Zenon DEF TypecQueued
<1>4. AddQueued <=> AddQueued' \/ Head(uevents) \in {"add"}
  BY <1>1, <1>2, TailHolds, Zenon DEF AddQueued
<1>. QED  BY <1>3, <1>4

\* The socket is closed.
LEMMA QueueClosed ==
  ASSUME uevents' = <<>>
  PROVE  /\ ~TypecQueued' /\ ~AddQueued'
         /\ uevents = <<>> => ~TypecQueued /\ ~AddQueued
BY DEF TypecQueued, AddQueued

\* A partner's message is on its way while queued or being handled.
LEMMA AddQueuedOrHandled ==
  /\ AddOnItsWay <=> pc["worker"] = "partner" \/ AddQueued
  /\ AddOnItsWay' <=> pc'["worker"] = "partner" \/ AddQueued'
BY DEF AddOnItsWay, AddQueued

----------------------------------------------------------------------------
(* Type correctness. *)

\* The initial states are typed.
LEMMA InitType == Init => TypeOK
<1>. SUFFICES ASSUME Init PROVE TypeOK
  OBVIOUS
<1>1. pc \in [Threads -> BinderPcs \cup WorkerPcs]
  BY DEF Init, BinderPcs, WorkerPcs
<1>2. pc["binder"] \in BinderPcs /\ pc["worker"] \in WorkerPcs
  BY DEF Init, BinderPcs, WorkerPcs, Threads
<1>3. left \in [Kinds -> Nat] /\ lastStatus \in Statuses
  BY BudgetAssumption DEF Init, Statuses, NothingTold
<1>4. /\ connected \in [Threads -> BOOLEAN]
      /\ uevents \in Seq({"add", "typec", "other"})
  BY DEF Init
<1>5. /\ call \in Calls /\ partner \in BOOLEAN /\ udc \in BOOLEAN
      /\ bindable \in BOOLEAN
  BY DEF Init
<1>. QED  BY <1>1, <1>2, <1>3, <1>4, <1>5, Zenon DEF Init, TypeOK

\* Each thread has a label.
LEMMA PcFunction == TypeOK => pc \in [Threads -> BinderPcs \cup WorkerPcs]
BY DEF TypeOK

\* The actions, in the groups in which the proofs below take them.
LEMMA StepCases ==
  [Next]_vars =>
    \/ ReplaceCallback \/ RegisterCallback
    \/ ClearCallback \/ JoinWorker
    \/ TakeRoleSwitchLock \/ WriteRole \/ NotifyRoleSwitch
    \/ OpenPortType \/ ArmPartner \/ WritePortType
    \/ Wake \/ TimeOut \/ CheckPartner \/ GiveUp \/ SwitchToDrp
    \/ EnableUsbData \/ ResetPort \/ Acknowledge
    \/ (\E t \in Threads : Query(t))
    \/ OpenSocket \/ EnterWait
    \/ ReceiveUevent
    \/ CheckDestroy \/ EpollFails
    \/ PartnerAdded \/ TryRoleSwitchLock \/ LookForPartner \/ WorkerSwitchToDrp
    \/ SigHandler
    \/ (\E c \in Calls : Call(c))
    \/ Attach \/ Detach \/ OtherUevent \/ GadgetHal
    \/ Crash
    \/ UNCHANGED vars
BY DEF Next, Binder, SetCallback, SwitchRole, SwitchMode, Work, UeventEvent,
       Environment, Quiescent, Threads

\* The kernel queues messages.
LEMMA EmitType ==
  ASSUME uevents \in Seq({"add", "typec", "other"}),
         NEW m \in {"add", "typec", "other"}, Emit(m)
  PROVE  uevents' \in Seq({"add", "typec", "other"})
BY DEF Emit

\* To have told nothing yet is a status.
LEMMA NothingToldType == NothingTold \in Statuses
BY DEF NothingTold, Statuses

\* Every step takes a thread to a label of its own.
LEMMA PcTypeStep ==
  ASSUME TypeOK, CallInv, [Next]_vars
  PROVE  /\ pc' \in [Threads -> BinderPcs \cup WorkerPcs]
         /\ pc'["binder"] \in BinderPcs /\ pc'["worker"] \in WorkerPcs
<1>. USE DEF TypeOK, Goto, locks, members, locals, port, data, history,
         Threads, BinderPcs, SwitchPcs, WorkerPcs
<1>1. CASE ReplaceCallback \/ RegisterCallback
  BY <1>1 DEF ReplaceCallback, RegisterCallback
<1>2. CASE ClearCallback \/ JoinWorker
  BY <1>2 DEF ClearCallback, JoinWorker
<1>3. CASE TakeRoleSwitchLock \/ WriteRole \/ NotifyRoleSwitch
  BY <1>3 DEF TakeRoleSwitchLock, WriteRole, NotifyRoleSwitch
<1>4. CASE OpenPortType \/ ArmPartner \/ WritePortType
  BY <1>4 DEF OpenPortType, ArmPartner, WritePortType
<1>5. CASE Wake \/ TimeOut \/ CheckPartner \/ GiveUp \/ SwitchToDrp
  BY <1>5 DEF Wake, TimeOut, CheckPartner, GiveUp, SwitchToDrp
<1>6. CASE EnableUsbData \/ ResetPort \/ Acknowledge
  BY <1>6 DEF EnableUsbData, ReadUdc, WriteUdc, WriteDataPath, ResetPort,
       Acknowledge
<1>7. CASE \E t \in Threads : Query(t)
  BY <1>7 DEF Query, ReadPort, ReportPort
<1>8. CASE OpenSocket \/ EnterWait
  BY <1>8 DEF OpenSocket, EnterWait
<1>9. CASE ReceiveUevent
  BY <1>9 DEF ReceiveUevent
<1>10. CASE CheckDestroy \/ EpollFails
  BY <1>10 DEF CheckDestroy, EpollFails, Leave
<1>11. CASE \/ PartnerAdded \/ TryRoleSwitchLock
            \/ LookForPartner \/ WorkerSwitchToDrp
  BY <1>11 DEF PartnerAdded, TryRoleSwitchLock, LookForPartner,
       WorkerSwitchToDrp
<1>12. CASE SigHandler
  BY <1>12 DEF SigHandler
<1>13. CASE \E c \in Calls : Call(c)
  BY <1>13, CallsAssumption DEF Call, FirstPc, AnyCall
<1>14. CASE Attach \/ Detach \/ OtherUevent \/ GadgetHal
  BY <1>14 DEF Attach, Detach, OtherUevent, GadgetHal
<1>15. CASE Crash
  BY <1>15 DEF Crash
<1>16. CASE UNCHANGED vars
  BY <1>16 DEF vars
<1>. QED  BY <1>1, <1>2, <1>3, <1>4, <1>5, <1>6, <1>7, <1>8, <1>9, <1>10, <1>11,
       <1>12, <1>13, <1>14, <1>15, <1>16, StepCases

\* Every step keeps the members and the locks typed.
LEMMA MemberTypeStep ==
  ASSUME TypeOK, CallInv, [Next]_vars
  PROVE  /\ mCallback' \in BOOLEAN /\ mPartnerUp' \in BOOLEAN
         /\ mUsbDataEnabled' \in BOOLEAN /\ destroyThread' \in BOOLEAN
         /\ mLock' \in Threads \cup {Nobody}
         /\ mRoleSwitchLock' \in Threads \cup {Nobody}
         /\ mPartnerLock' \in {"binder", Nobody}
<1>. USE DEF TypeOK, Goto, locks, members, locals, port, data, history,
         Threads, Wanted
<1>1. CASE ReplaceCallback \/ RegisterCallback
  BY <1>1 DEF ReplaceCallback, RegisterCallback
<1>2. CASE ClearCallback \/ JoinWorker
  BY <1>2 DEF ClearCallback, JoinWorker
<1>3. CASE TakeRoleSwitchLock \/ WriteRole \/ NotifyRoleSwitch
  BY <1>3 DEF TakeRoleSwitchLock, WriteRole, NotifyRoleSwitch
<1>4. CASE OpenPortType \/ ArmPartner \/ WritePortType
  BY <1>4 DEF OpenPortType, ArmPartner, WritePortType
<1>5. CASE Wake \/ TimeOut \/ CheckPartner \/ GiveUp \/ SwitchToDrp
  BY <1>5 DEF Wake, TimeOut, CheckPartner, GiveUp, SwitchToDrp
<1>6. CASE EnableUsbData \/ ResetPort \/ Acknowledge
  BY <1>6 DEF EnableUsbData, ReadUdc, WriteUdc, WriteDataPath, ResetPort,
       Acknowledge
<1>7. CASE \E t \in Threads : Query(t)
  BY <1>7 DEF Query, ReadPort, ReportPort
<1>8. CASE OpenSocket \/ EnterWait
  BY <1>8 DEF OpenSocket, EnterWait
<1>9. CASE ReceiveUevent
  BY <1>9 DEF ReceiveUevent
<1>10. CASE CheckDestroy \/ EpollFails
  BY <1>10 DEF CheckDestroy, EpollFails, Leave
<1>11. CASE \/ PartnerAdded \/ TryRoleSwitchLock
            \/ LookForPartner \/ WorkerSwitchToDrp
  BY <1>11 DEF PartnerAdded, TryRoleSwitchLock, LookForPartner,
       WorkerSwitchToDrp
<1>12. CASE SigHandler
  BY <1>12 DEF SigHandler
<1>13. CASE \E c \in Calls : Call(c)
  BY <1>13, CallsAssumption DEF Call, FirstPc, AnyCall
<1>14. CASE Attach \/ Detach \/ OtherUevent \/ GadgetHal
  BY <1>14 DEF Attach, Detach, OtherUevent, GadgetHal
<1>15. CASE Crash
  BY <1>15 DEF Crash
<1>16. CASE UNCHANGED vars
  BY <1>16 DEF vars
<1>. QED  BY <1>1, <1>2, <1>3, <1>4, <1>5, <1>6, <1>7, <1>8, <1>9, <1>10, <1>11,
       <1>12, <1>13, <1>14, <1>15, <1>16, StepCases

\* Every step keeps what the threads remember typed.
LEMMA LocalTypeStep ==
  ASSUME TypeOK, CallInv, [Next]_vars
  PROVE  /\ connected' \in [Threads -> BOOLEAN] /\ call' \in Calls
         /\ result' \in BOOLEAN /\ signalled' \in BOOLEAN
         /\ sigPending' \in BOOLEAN
<1>. USE DEF TypeOK, Goto, locks, members, locals, port, data, history
<1>1. CASE ReplaceCallback \/ RegisterCallback
  BY <1>1 DEF ReplaceCallback, RegisterCallback
<1>2. CASE ClearCallback \/ JoinWorker
  BY <1>2 DEF ClearCallback, JoinWorker
<1>3. CASE TakeRoleSwitchLock \/ WriteRole \/ NotifyRoleSwitch
  BY <1>3 DEF TakeRoleSwitchLock, WriteRole, NotifyRoleSwitch
<1>4. CASE OpenPortType \/ ArmPartner \/ WritePortType
  BY <1>4 DEF OpenPortType, ArmPartner, WritePortType
<1>5. CASE Wake \/ TimeOut \/ CheckPartner \/ GiveUp \/ SwitchToDrp
  BY <1>5 DEF Wake, TimeOut, CheckPartner, GiveUp, SwitchToDrp
<1>6. CASE EnableUsbData \/ ResetPort \/ Acknowledge
  BY <1>6 DEF EnableUsbData, ReadUdc, WriteUdc, WriteDataPath, ResetPort,
       Acknowledge
<1>7. CASE \E t \in Threads : Query(t)
  BY <1>7 DEF Query, ReadPort, ReportPort
<1>8. CASE OpenSocket \/ EnterWait
  BY <1>8 DEF OpenSocket, EnterWait
<1>9. CASE ReceiveUevent
  BY <1>9 DEF ReceiveUevent
<1>10. CASE CheckDestroy \/ EpollFails
  BY <1>10 DEF CheckDestroy, EpollFails, Leave
<1>11. CASE \/ PartnerAdded \/ TryRoleSwitchLock
            \/ LookForPartner \/ WorkerSwitchToDrp
  BY <1>11 DEF PartnerAdded, TryRoleSwitchLock, LookForPartner,
       WorkerSwitchToDrp
<1>12. CASE SigHandler
  BY <1>12 DEF SigHandler
<1>13. CASE \E c \in Calls : Call(c)
  BY <1>13, CallsAssumption DEF Call, FirstPc, AnyCall
<1>14. CASE Attach \/ Detach \/ OtherUevent \/ GadgetHal
  BY <1>14 DEF Attach, Detach, OtherUevent, GadgetHal
<1>15. CASE Crash
  BY <1>15 DEF Crash
<1>16. CASE UNCHANGED vars
  BY <1>16 DEF vars
<1>. QED  BY <1>1, <1>2, <1>3, <1>4, <1>5, <1>6, <1>7, <1>8, <1>9, <1>10, <1>11,
       <1>12, <1>13, <1>14, <1>15, <1>16, StepCases

\* Every step keeps the kernel's state typed; only a mode switch writes port_type.
LEMMA KernelTypeStep ==
  ASSUME TypeOK, CallInv, [Next]_vars
  PROVE  /\ portType' \in {"dual", "source", "sink"} /\ partner' \in BOOLEAN
         /\ uevents' \in Seq({"add", "typec", "other"})
         /\ usbData' \in BOOLEAN /\ udc' \in BOOLEAN /\ bindable' \in BOOLEAN
<1>. USE DEF TypeOK, Goto, locks, members, locals, port, data, history, Wanted
<1>1. CASE ReplaceCallback \/ RegisterCallback
  BY <1>1 DEF ReplaceCallback, RegisterCallback
<1>2. CASE ClearCallback \/ JoinWorker
  BY <1>2 DEF ClearCallback, JoinWorker
<1>3. CASE TakeRoleSwitchLock \/ WriteRole \/ NotifyRoleSwitch
  BY <1>3 DEF TakeRoleSwitchLock, WriteRole, NotifyRoleSwitch
<1>4. CASE OpenPortType \/ ArmPartner \/ WritePortType
  <2>1. pc["binder"] = "write" => call.arg \in {"source", "sink"}
    BY CallsAssumption DEF CallInv, ModePcs, AnyCall
  <2>2. portType' \in {"dual", "source", "sink"}
    BY <1>4, <2>1 DEF OpenPortType, ArmPartner, WritePortType
  <2>. QED  BY <1>4, <2>2 DEF OpenPortType, ArmPartner, WritePortType
<1>5. CASE Wake \/ TimeOut \/ CheckPartner \/ GiveUp \/ SwitchToDrp
  BY <1>5 DEF Wake, TimeOut, CheckPartner, GiveUp, SwitchToDrp
<1>6. CASE EnableUsbData \/ ResetPort \/ Acknowledge
  BY <1>6 DEF EnableUsbData, ReadUdc, WriteUdc, WriteDataPath, ResetPort,
       Acknowledge
<1>7. CASE \E t \in Threads : Query(t)
  BY <1>7 DEF Query, ReadPort, ReportPort
<1>8. CASE OpenSocket \/ EnterWait
  BY <1>8 DEF OpenSocket, EnterWait
<1>9. CASE ReceiveUevent
  BY <1>9 DEF ReceiveUevent
<1>10. CASE CheckDestroy \/ EpollFails
  <2>1. uevents' \in Seq({"add", "typec", "other"})
    <3>1. <<>> \in Seq({"add", "typec", "other"})
      OBVIOUS
    <3>2. uevents' = <<>> \/ uevents' = uevents
      BY <1>10 DEF CheckDestroy, EpollFails, Leave
    <3>. QED  BY <3>1, <3>2
  <2>. QED  BY <1>10, <2>1 DEF CheckDestroy, EpollFails
<1>11. CASE \/ PartnerAdded \/ TryRoleSwitchLock
            \/ LookForPartner \/ WorkerSwitchToDrp
  BY <1>11 DEF PartnerAdded, TryRoleSwitchLock, LookForPartner,
       WorkerSwitchToDrp
<1>12. CASE SigHandler
  BY <1>12 DEF SigHandler
<1>13. CASE \E c \in Calls : Call(c)
  BY <1>13, CallsAssumption DEF Call, FirstPc, AnyCall
<1>14. CASE Attach \/ Detach \/ OtherUevent \/ GadgetHal
  <2>1. uevents' \in Seq({"add", "typec", "other"})
    BY <1>14, EmitType DEF Attach, Detach, OtherUevent, GadgetHal
  <2>. QED  BY <1>14, <2>1 DEF Attach, Detach, OtherUevent, GadgetHal
<1>15. CASE Crash
  BY <1>15 DEF Crash
<1>16. CASE UNCHANGED vars
  BY <1>16 DEF vars
<1>. QED  BY <1>1, <1>2, <1>3, <1>4, <1>5, <1>6, <1>7, <1>8, <1>9, <1>10, <1>11,
       <1>12, <1>13, <1>14, <1>15, <1>16, StepCases

\* Every step keeps the budget one.
LEMMA LeftTypeStep ==
  ASSUME TypeOK, CallInv, [Next]_vars
  PROVE  left' \in [Kinds -> Nat]
<1>. USE DEF TypeOK, Goto, locks, members, locals, port, data, history
<1>1. CASE ReplaceCallback \/ RegisterCallback
  BY <1>1, SpendType, KindNames DEF ReplaceCallback, RegisterCallback
<1>2. CASE ClearCallback \/ JoinWorker
  BY <1>2, SpendType, KindNames DEF ClearCallback, JoinWorker
<1>3. CASE TakeRoleSwitchLock \/ WriteRole \/ NotifyRoleSwitch
  BY <1>3, SpendType, KindNames DEF TakeRoleSwitchLock, WriteRole,
       NotifyRoleSwitch
<1>4. CASE OpenPortType \/ ArmPartner \/ WritePortType
  BY <1>4, SpendType, KindNames DEF OpenPortType, ArmPartner, WritePortType
<1>5. CASE Wake \/ TimeOut \/ CheckPartner \/ GiveUp \/ SwitchToDrp
  BY <1>5, SpendType, KindNames DEF Wake, TimeOut, CheckPartner, GiveUp,
       SwitchToDrp
<1>6. CASE EnableUsbData \/ ResetPort \/ Acknowledge
  BY <1>6, SpendType, KindNames DEF EnableUsbData, ReadUdc, WriteUdc,
       WriteDataPath, ResetPort, Acknowledge
<1>7. CASE \E t \in Threads : Query(t)
  BY <1>7, SpendType, KindNames DEF Query, ReadPort, ReportPort
<1>8. CASE OpenSocket \/ EnterWait
  BY <1>8, SpendType, KindNames DEF OpenSocket, EnterWait
<1>9. CASE ReceiveUevent
  BY <1>9, SpendType, KindNames DEF ReceiveUevent
<1>10. CASE CheckDestroy \/ EpollFails
  BY <1>10, SpendType, KindNames DEF CheckDestroy, EpollFails, Leave
<1>11. CASE \/ PartnerAdded \/ TryRoleSwitchLock
            \/ LookForPartner \/ WorkerSwitchToDrp
  BY <1>11, SpendType, KindNames DEF PartnerAdded, TryRoleSwitchLock,
       LookForPartner, WorkerSwitchToDrp
<1>12. CASE SigHandler
  BY <1>12, SpendType, KindNames DEF SigHandler
<1>13. CASE \E c \in Calls : Call(c)
  BY <1>13, CallsAssumption, SpendType, KindNames DEF Call, FirstPc, AnyCall
<1>14. CASE Attach \/ Detach \/ OtherUevent \/ GadgetHal
  BY <1>14, SpendType, KindNames DEF Attach, Detach, OtherUevent, GadgetHal
<1>15. CASE Crash
  BY <1>15, SpendType, KindNames DEF Crash
<1>16. CASE UNCHANGED vars
  BY <1>16, SpendType, KindNames DEF vars
<1>. QED  BY <1>1, <1>2, <1>3, <1>4, <1>5, <1>6, <1>7, <1>8, <1>9, <1>10, <1>11,
       <1>12, <1>13, <1>14, <1>15, <1>16, StepCases

\* Every step keeps the history typed.
LEMMA HistoryTypeStep ==
  ASSUME TypeOK, CallInv, [Next]_vars
  PROVE  /\ lastStatus' \in Statuses /\ addedSince' \in BOOLEAN
         /\ missed' \in BOOLEAN /\ unheard' \in BOOLEAN
<1>. USE DEF TypeOK, Goto, locks, members, locals, port, data, history
<1>1. CASE ReplaceCallback \/ RegisterCallback
  BY <1>1, NothingToldType DEF ReplaceCallback, RegisterCallback
<1>2. CASE ClearCallback \/ JoinWorker
  BY <1>2, NothingToldType DEF ClearCallback, JoinWorker
<1>3. CASE TakeRoleSwitchLock \/ WriteRole \/ NotifyRoleSwitch
  BY <1>3, NothingToldType DEF TakeRoleSwitchLock, WriteRole, NotifyRoleSwitch
<1>4. CASE OpenPortType \/ ArmPartner \/ WritePortType
  BY <1>4 DEF OpenPortType, ArmPartner, WritePortType, AddOnItsWay
<1>5. CASE Wake \/ TimeOut \/ CheckPartner \/ GiveUp \/ SwitchToDrp
  BY <1>5, NothingToldType DEF Wake, TimeOut, CheckPartner, GiveUp, SwitchToDrp
<1>6. CASE EnableUsbData \/ ResetPort \/ Acknowledge
  BY <1>6, NothingToldType DEF EnableUsbData, ReadUdc, WriteUdc, WriteDataPath,
       ResetPort, Acknowledge
<1>7. CASE \E t \in Threads : Query(t)
  <2>1. ASSUME NEW t \in Threads, ReportPort(t) PROVE lastStatus' \in Statuses
    BY <2>1 DEF ReportPort, Statuses
  <2>2. lastStatus' \in Statuses
    BY <1>7, <2>1 DEF Query, ReadPort
  <2>. QED  BY <1>7, <2>2 DEF Query, ReadPort, ReportPort
<1>8. CASE OpenSocket \/ EnterWait
  BY <1>8, NothingToldType DEF OpenSocket, EnterWait
<1>9. CASE ReceiveUevent
  BY <1>9, NothingToldType DEF ReceiveUevent
<1>10. CASE CheckDestroy \/ EpollFails
  BY <1>10, NothingToldType DEF CheckDestroy, EpollFails, Leave
<1>11. CASE \/ PartnerAdded \/ TryRoleSwitchLock
            \/ LookForPartner \/ WorkerSwitchToDrp
  BY <1>11, NothingToldType DEF PartnerAdded, TryRoleSwitchLock, LookForPartner,
       WorkerSwitchToDrp
<1>12. CASE SigHandler
  BY <1>12, NothingToldType DEF SigHandler
<1>13. CASE \E c \in Calls : Call(c)
  BY <1>13, CallsAssumption, NothingToldType DEF Call, FirstPc, AnyCall
<1>14. CASE Attach \/ Detach \/ OtherUevent \/ GadgetHal
  BY <1>14, NothingToldType DEF Attach, Detach, OtherUevent, GadgetHal
<1>15. CASE Crash
  BY <1>15, NothingToldType DEF Crash
<1>16. CASE UNCHANGED vars
  BY <1>16, NothingToldType DEF vars
<1>. QED  BY <1>1, <1>2, <1>3, <1>4, <1>5, <1>6, <1>7, <1>8, <1>9, <1>10, <1>11,
       <1>12, <1>13, <1>14, <1>15, <1>16, StepCases

\* Every step keeps the types.
LEMMA TypeStep == TypeOK /\ CallInv /\ [Next]_vars => TypeOK'
BY PcTypeStep, MemberTypeStep, LocalTypeStep, KernelTypeStep, LeftTypeStep,
   HistoryTypeStep, Zenon DEF TypeOK

----------------------------------------------------------------------------
(* Every step keeps the parts of the invariant. *)

\* A worker is started with a callback and joined without one.
LEMMA WorkerInvStep == TypeOK /\ WorkerInv /\ [Next]_vars => WorkerInv'
<1>. SUFFICES ASSUME TypeOK, WorkerInv, [Next]_vars PROVE WorkerInv'
  OBVIOUS
<1>. USE PcFunction DEF Goto, locks, members, locals, port, data, history,
         Threads, WorkerInv, WorkerRuns
<1>1. CASE ReplaceCallback \/ RegisterCallback
  BY <1>1 DEF ReplaceCallback, RegisterCallback
<1>2. CASE ClearCallback \/ JoinWorker
  BY <1>2 DEF ClearCallback, JoinWorker
<1>3. CASE TakeRoleSwitchLock \/ WriteRole \/ NotifyRoleSwitch
  BY <1>3 DEF TakeRoleSwitchLock, WriteRole, NotifyRoleSwitch
<1>4. CASE OpenPortType \/ ArmPartner \/ WritePortType
  BY <1>4 DEF OpenPortType, ArmPartner, WritePortType
<1>5. CASE Wake \/ TimeOut \/ CheckPartner \/ GiveUp \/ SwitchToDrp
  BY <1>5 DEF Wake, TimeOut, CheckPartner, GiveUp, SwitchToDrp
<1>6. CASE EnableUsbData \/ ResetPort \/ Acknowledge
  BY <1>6 DEF EnableUsbData, ReadUdc, WriteUdc, WriteDataPath, ResetPort,
       Acknowledge
<1>7. CASE \E t \in Threads : Query(t)
  BY <1>7 DEF Query, ReadPort, ReportPort
<1>8. CASE OpenSocket \/ EnterWait
  BY <1>8 DEF OpenSocket, EnterWait
<1>9. CASE ReceiveUevent
  BY <1>9 DEF ReceiveUevent
<1>10. CASE CheckDestroy \/ EpollFails
  BY <1>10 DEF CheckDestroy, EpollFails, Leave
<1>11. CASE \/ PartnerAdded \/ TryRoleSwitchLock
            \/ LookForPartner \/ WorkerSwitchToDrp
  BY <1>11 DEF PartnerAdded, TryRoleSwitchLock, LookForPartner,
       WorkerSwitchToDrp
<1>12. CASE SigHandler
  BY <1>12 DEF SigHandler
<1>13. CASE \E c \in Calls : Call(c)
  BY <1>13, CallsAssumption DEF Call, FirstPc, AnyCall
<1>14. CASE Attach \/ Detach \/ OtherUevent \/ GadgetHal
  BY <1>14 DEF Attach, Detach, OtherUevent, GadgetHal
<1>15. CASE Crash
  BY <1>15 DEF Crash
<1>16. CASE UNCHANGED vars
  BY <1>16 DEF vars
<1>. QED  BY <1>1, <1>2, <1>3, <1>4, <1>5, <1>6, <1>7, <1>8, <1>9, <1>10, <1>11,
       <1>12, <1>13, <1>14, <1>15, <1>16, StepCases

\* Every step takes and releases the mutexes where LockInv says.
LEMMA LockInvStep == TypeOK /\ WorkerInv /\ LockInv /\ [Next]_vars => LockInv'
<1>. SUFFICES ASSUME TypeOK, WorkerInv, LockInv, [Next]_vars PROVE LockInv'
  OBVIOUS
<1>. USE PcFunction DEF Goto, locks, members, locals, port, data, history,
         Threads, LockInv, SwitchPcs, WorkerInv, WorkerRuns
<1>1. CASE ReplaceCallback \/ RegisterCallback
  BY <1>1 DEF ReplaceCallback, RegisterCallback
<1>2. CASE ClearCallback \/ JoinWorker
  BY <1>2 DEF ClearCallback, JoinWorker
<1>3. CASE TakeRoleSwitchLock \/ WriteRole \/ NotifyRoleSwitch
  BY <1>3 DEF TakeRoleSwitchLock, WriteRole, NotifyRoleSwitch
<1>4. CASE OpenPortType \/ ArmPartner \/ WritePortType
  BY <1>4 DEF OpenPortType, ArmPartner, WritePortType
<1>5. CASE Wake \/ TimeOut \/ CheckPartner \/ GiveUp \/ SwitchToDrp
  BY <1>5 DEF Wake, TimeOut, CheckPartner, GiveUp, SwitchToDrp
<1>6. CASE EnableUsbData \/ ResetPort \/ Acknowledge
  BY <1>6 DEF EnableUsbData, ReadUdc, WriteUdc, WriteDataPath, ResetPort,
       Acknowledge
<1>7. CASE \E t \in Threads : Query(t)
  BY <1>7 DEF Query, ReadPort, ReportPort
<1>8. CASE OpenSocket \/ EnterWait
  BY <1>8 DEF OpenSocket, EnterWait
<1>9. CASE ReceiveUevent
  BY <1>9 DEF ReceiveUevent
<1>10. CASE CheckDestroy \/ EpollFails
  BY <1>10 DEF CheckDestroy, EpollFails, Leave
<1>11. CASE \/ PartnerAdded \/ TryRoleSwitchLock
            \/ LookForPartner \/ WorkerSwitchToDrp
  BY <1>11 DEF PartnerAdded, TryRoleSwitchLock, LookForPartner,
       WorkerSwitchToDrp
<1>12. CASE SigHandler
  BY <1>12 DEF SigHandler
<1>13. CASE \E c \in Calls : Call(c)
  BY <1>13, CallsAssumption DEF Call, FirstPc, AnyCall
<1>14. CASE Attach \/ Detach \/ OtherUevent \/ GadgetHal
  BY <1>14 DEF Attach, Detach, OtherUevent, GadgetHal
<1>15. CASE Crash
  BY <1>15 DEF Crash
<1>16. CASE UNCHANGED vars
  BY <1>16 DEF vars
<1>. QED  BY <1>1, <1>2, <1>3, <1>4, <1>5, <1>6, <1>7, <1>8, <1>9, <1>10, <1>11,
       <1>12, <1>13, <1>14, <1>15, <1>16, StepCases

\* A call keeps to the labels of its kind.
LEMMA CallInvStep == TypeOK /\ CallInv /\ [Next]_vars => CallInv'
<1>. SUFFICES ASSUME TypeOK, CallInv, [Next]_vars PROVE CallInv'
  OBVIOUS
<1>. USE PcFunction DEF Goto, locks, members, locals, port, data, history,
         Threads, CallInv, ModePcs, DataPcs
<1>1. CASE ReplaceCallback \/ RegisterCallback
  BY <1>1 DEF ReplaceCallback, RegisterCallback
<1>2. CASE ClearCallback \/ JoinWorker
  BY <1>2 DEF ClearCallback, JoinWorker
<1>3. CASE TakeRoleSwitchLock \/ WriteRole \/ NotifyRoleSwitch
  BY <1>3 DEF TakeRoleSwitchLock, WriteRole, NotifyRoleSwitch
<1>4. CASE OpenPortType \/ ArmPartner \/ WritePortType
  BY <1>4 DEF OpenPortType, ArmPartner, WritePortType
<1>5. CASE Wake \/ TimeOut \/ CheckPartner \/ GiveUp \/ SwitchToDrp
  BY <1>5 DEF Wake, TimeOut, CheckPartner, GiveUp, SwitchToDrp
<1>6. CASE EnableUsbData \/ ResetPort \/ Acknowledge
  BY <1>6 DEF EnableUsbData, ReadUdc, WriteUdc, WriteDataPath, ResetPort,
       Acknowledge
<1>7. CASE \E t \in Threads : Query(t)
  BY <1>7 DEF Query, ReadPort, ReportPort
<1>8. CASE OpenSocket \/ EnterWait
  BY <1>8 DEF OpenSocket, EnterWait
<1>9. CASE ReceiveUevent
  BY <1>9 DEF ReceiveUevent
<1>10. CASE CheckDestroy \/ EpollFails
  BY <1>10 DEF CheckDestroy, EpollFails, Leave
<1>11. CASE \/ PartnerAdded \/ TryRoleSwitchLock
            \/ LookForPartner \/ WorkerSwitchToDrp
  BY <1>11 DEF PartnerAdded, TryRoleSwitchLock, LookForPartner,
       WorkerSwitchToDrp
<1>12. CASE SigHandler
  BY <1>12 DEF SigHandler
<1>13. CASE \E c \in Calls : Call(c)
  BY <1>13, CallsAssumption DEF Call, FirstPc, AnyCall
<1>14. CASE Attach \/ Detach \/ OtherUevent \/ GadgetHal
  BY <1>14 DEF Attach, Detach, OtherUevent, GadgetHal
<1>15. CASE Crash
  BY <1>15 DEF Crash
<1>16. CASE UNCHANGED vars
  BY <1>16 DEF vars
<1>. QED  BY <1>1, <1>2, <1>3, <1>4, <1>5, <1>6, <1>7, <1>8, <1>9, <1>10, <1>11,
       <1>12, <1>13, <1>14, <1>15, <1>16, StepCases

\* No step sets mPartnerUp behind the back of the thread that waits.
LEMMA SignalInvStep ==
  TypeOK /\ LockInv /\ SignalInv /\ [Next]_vars => SignalInv'
<1>. SUFFICES ASSUME TypeOK, LockInv, SignalInv, [Next]_vars PROVE SignalInv'
  OBVIOUS
<1>. USE PcFunction DEF Goto, locks, members, locals, port, data, history,
         Threads, SignalInv
<1>1. CASE ReplaceCallback \/ RegisterCallback
  BY <1>1 DEF ReplaceCallback, RegisterCallback
<1>2. CASE ClearCallback \/ JoinWorker
  BY <1>2 DEF ClearCallback, JoinWorker
<1>3. CASE TakeRoleSwitchLock \/ WriteRole \/ NotifyRoleSwitch
  BY <1>3 DEF TakeRoleSwitchLock, WriteRole, NotifyRoleSwitch
<1>4. CASE OpenPortType \/ ArmPartner \/ WritePortType
  BY <1>4 DEF OpenPortType, ArmPartner, WritePortType
<1>5. CASE Wake \/ TimeOut \/ CheckPartner \/ GiveUp \/ SwitchToDrp
  BY <1>5 DEF Wake, TimeOut, CheckPartner, GiveUp, SwitchToDrp
<1>6. CASE EnableUsbData \/ ResetPort \/ Acknowledge
  BY <1>6 DEF EnableUsbData, ReadUdc, WriteUdc, WriteDataPath, ResetPort,
       Acknowledge
<1>7. CASE \E t \in Threads : Query(t)
  BY <1>7 DEF Query, ReadPort, ReportPort
<1>8. CASE OpenSocket \/ EnterWait
  BY <1>8 DEF OpenSocket, EnterWait
<1>9. CASE ReceiveUevent
  BY <1>9 DEF ReceiveUevent
<1>10. CASE CheckDestroy \/ EpollFails
  BY <1>10 DEF CheckDestroy, EpollFails, Leave
<1>11. CASE \/ PartnerAdded \/ TryRoleSwitchLock
            \/ LookForPartner \/ WorkerSwitchToDrp
  <2>1. CASE PartnerAdded
    BY <2>1 DEF PartnerAdded, LockInv
  <2>2. CASE TryRoleSwitchLock \/ LookForPartner \/ WorkerSwitchToDrp
    BY <2>2 DEF TryRoleSwitchLock, LookForPartner, WorkerSwitchToDrp
  <2>. QED  BY <1>11, <2>1, <2>2
<1>12. CASE SigHandler
  BY <1>12 DEF SigHandler
<1>13. CASE \E c \in Calls : Call(c)
  BY <1>13, CallsAssumption DEF Call, FirstPc, AnyCall
<1>14. CASE Attach \/ Detach \/ OtherUevent \/ GadgetHal
  BY <1>14 DEF Attach, Detach, OtherUevent, GadgetHal
<1>15. CASE Crash
  BY <1>15 DEF Crash
<1>16. CASE UNCHANGED vars
  BY <1>16 DEF vars
<1>. QED  BY <1>1, <1>2, <1>3, <1>4, <1>5, <1>6, <1>7, <1>8, <1>9, <1>10, <1>11,
       <1>12, <1>13, <1>14, <1>15, <1>16, StepCases

\* No step makes an old addition pass for a new one.
LEMMA AddInvStep == TypeOK /\ SignalInv /\ AddInv /\ [Next]_vars => AddInv'
<1>. SUFFICES ASSUME TypeOK, SignalInv, AddInv, [Next]_vars PROVE AddInv'
  OBVIOUS
<1>. USE PcFunction DEF Goto, locks, members, locals, port, data, history,
         Threads, SignalInv, AddInv
<1>1. CASE ReplaceCallback \/ RegisterCallback
  BY <1>1, QueueKept, AddQueuedOrHandled DEF ReplaceCallback, RegisterCallback
<1>2. CASE ClearCallback \/ JoinWorker
  BY <1>2, QueueKept, AddQueuedOrHandled DEF ClearCallback, JoinWorker
<1>3. CASE TakeRoleSwitchLock \/ WriteRole \/ NotifyRoleSwitch
  BY <1>3, QueueKept, AddQueuedOrHandled DEF TakeRoleSwitchLock, WriteRole,
       NotifyRoleSwitch
<1>4. CASE OpenPortType \/ ArmPartner \/ WritePortType
  BY <1>4, QueueKept, AddQueuedOrHandled DEF OpenPortType, ArmPartner,
       WritePortType
<1>5. CASE Wake \/ TimeOut \/ CheckPartner \/ GiveUp \/ SwitchToDrp
  BY <1>5, QueueKept, AddQueuedOrHandled DEF Wake, TimeOut, CheckPartner,
       GiveUp, SwitchToDrp
<1>6. CASE EnableUsbData \/ ResetPort \/ Acknowledge
  BY <1>6, QueueKept, AddQueuedOrHandled DEF EnableUsbData, ReadUdc, WriteUdc,
       WriteDataPath, ResetPort, Acknowledge
<1>7. CASE \E t \in Threads : Query(t)
  BY <1>7, QueueKept, AddQueuedOrHandled DEF Query, ReadPort, ReportPort
<1>8. CASE OpenSocket \/ EnterWait
  BY <1>8, QueueKept, AddQueuedOrHandled DEF OpenSocket, EnterWait
<1>9. CASE ReceiveUevent
  BY <1>9, QueueReceived, AddQueuedOrHandled DEF ReceiveUevent
<1>10. CASE CheckDestroy \/ EpollFails
  <2>1. CASE CheckDestroy /\ ~destroyThread
    BY <2>1, QueueKept, AddQueuedOrHandled DEF CheckDestroy
  <2>2. CASE (CheckDestroy /\ destroyThread) \/ EpollFails
    <3>1. uevents' = <<>> /\ missed' = (missed \/ uevents # <<>>)
      BY <2>2 DEF CheckDestroy, EpollFails, Leave
    <3>2. uevents = <<>> => ~TypecQueued /\ ~AddQueued
      BY DEF TypecQueued, AddQueued
    <3>. QED  BY <2>2, <3>1, <3>2, QueueClosed, AddQueuedOrHandled DEF
             CheckDestroy, EpollFails, Leave
  <2>. QED  BY <1>10, <2>1, <2>2
<1>11. CASE \/ PartnerAdded \/ TryRoleSwitchLock
            \/ LookForPartner \/ WorkerSwitchToDrp
  BY <1>11, QueueKept, AddQueuedOrHandled DEF PartnerAdded, TryRoleSwitchLock,
       LookForPartner, WorkerSwitchToDrp
<1>12. CASE SigHandler
  BY <1>12, QueueKept, AddQueuedOrHandled DEF SigHandler
<1>13. CASE \E c \in Calls : Call(c)
  BY <1>13, QueueKept, CallsAssumption, AddQueuedOrHandled DEF Call, FirstPc,
       AnyCall
<1>14. CASE Attach \/ Detach \/ OtherUevent \/ GadgetHal
  <2>1. CASE Attach
    <3>1. Emit("add")
      BY <2>1 DEF Attach
    <3>. QED  BY <2>1, <3>1, QueueEmitted, AddQueuedOrHandled DEF Attach
  <2>2. CASE Detach
    <3>1. Emit("typec")
      BY <2>2 DEF Detach
    <3>. QED  BY <2>2, <3>1, QueueEmitted, AddQueuedOrHandled DEF Detach
  <2>3. CASE OtherUevent
    <3>1. Emit("other")
      BY <2>3 DEF OtherUevent
    <3>. QED  BY <2>3, <3>1, QueueEmitted, AddQueuedOrHandled DEF OtherUevent
  <2>4. CASE GadgetHal
    BY <2>4, QueueKept, AddQueuedOrHandled DEF GadgetHal
  <2>. QED  BY <1>14, <2>1, <2>2, <2>3, <2>4
<1>15. CASE Crash
  BY <1>15, QueueClosed, AddQueuedOrHandled DEF Crash
<1>16. CASE UNCHANGED vars
  BY <1>16, QueueKept, AddQueuedOrHandled DEF vars
<1>. QED  BY <1>1, <1>2, <1>3, <1>4, <1>5, <1>6, <1>7, <1>8, <1>9, <1>10, <1>11,
       <1>12, <1>13, <1>14, <1>15, <1>16, StepCases

\* No step leaves a port without a partner that nobody will look at.
LEMMA FreeInvStep ==
  TypeOK /\ WorkerInv /\ SignalInv /\ FreeInv /\ [Next]_vars => FreeInv'
<1>. SUFFICES ASSUME TypeOK, WorkerInv, SignalInv, FreeInv, [Next]_vars PROVE FreeInv'
  OBVIOUS
<1>. USE PcFunction DEF Goto, locks, members, locals, port, data, history,
         Threads, SignalInv, FreeInv, LookPending, ReadPending, WorkerInv,
         WorkerRuns
<1>1. CASE ReplaceCallback \/ RegisterCallback
  BY <1>1, QueueKept DEF ReplaceCallback, RegisterCallback
<1>2. CASE ClearCallback \/ JoinWorker
  BY <1>2, QueueKept DEF ClearCallback, JoinWorker
<1>3. CASE TakeRoleSwitchLock \/ WriteRole \/ NotifyRoleSwitch
  BY <1>3, QueueKept DEF TakeRoleSwitchLock, WriteRole, NotifyRoleSwitch
<1>4. CASE OpenPortType \/ ArmPartner \/ WritePortType
  BY <1>4, QueueKept DEF OpenPortType, ArmPartner, WritePortType
<1>5. CASE Wake \/ TimeOut \/ CheckPartner \/ GiveUp \/ SwitchToDrp
  BY <1>5, QueueKept DEF Wake, TimeOut, CheckPartner, GiveUp, SwitchToDrp
<1>6. CASE EnableUsbData \/ ResetPort \/ Acknowledge
  BY <1>6, QueueKept DEF EnableUsbData, ReadUdc, WriteUdc, WriteDataPath,
       ResetPort, Acknowledge
<1>7. CASE \E t \in Threads : Query(t)
  BY <1>7, QueueKept DEF Query, ReadPort, ReportPort
<1>8. CASE OpenSocket \/ EnterWait
  BY <1>8, QueueKept DEF OpenSocket, EnterWait
<1>9. CASE ReceiveUevent
  BY <1>9, QueueReceived DEF ReceiveUevent
<1>10. CASE CheckDestroy \/ EpollFails
  <2>1. CASE CheckDestroy /\ ~destroyThread
    BY <2>1, QueueKept DEF CheckDestroy
  <2>2. CASE (CheckDestroy /\ destroyThread) \/ EpollFails
    <3>1. uevents' = <<>> /\ missed' = (missed \/ uevents # <<>>)
      BY <2>2 DEF CheckDestroy, EpollFails, Leave
    <3>2. uevents = <<>> => ~TypecQueued /\ ~AddQueued
      BY DEF TypecQueued, AddQueued
    <3>. QED  BY <2>2, <3>1, <3>2, QueueClosed DEF CheckDestroy, EpollFails,
             Leave
  <2>. QED  BY <1>10, <2>1, <2>2
<1>11. CASE \/ PartnerAdded \/ TryRoleSwitchLock
            \/ LookForPartner \/ WorkerSwitchToDrp
  BY <1>11, QueueKept DEF PartnerAdded, TryRoleSwitchLock, LookForPartner,
       WorkerSwitchToDrp
<1>12. CASE SigHandler
  BY <1>12, QueueKept DEF SigHandler
<1>13. CASE \E c \in Calls : Call(c)
  BY <1>13, QueueKept, CallsAssumption DEF Call, FirstPc, AnyCall
<1>14. CASE Attach \/ Detach \/ OtherUevent \/ GadgetHal
  <2>1. CASE Attach
    <3>1. Emit("add")
      BY <2>1 DEF Attach
    <3>. QED  BY <2>1, <3>1, QueueEmitted DEF Attach
  <2>2. CASE Detach
    <3>1. Emit("typec")
      BY <2>2 DEF Detach
    <3>. QED  BY <2>2, <3>1, QueueEmitted DEF Detach
  <2>3. CASE OtherUevent
    <3>1. Emit("other")
      BY <2>3 DEF OtherUevent
    <3>. QED  BY <2>3, <3>1, QueueEmitted DEF OtherUevent
  <2>4. CASE GadgetHal
    BY <2>4, QueueKept DEF GadgetHal
  <2>. QED  BY <1>14, <2>1, <2>2, <2>3, <2>4
<1>15. CASE Crash
  BY <1>15, QueueClosed DEF Crash
<1>16. CASE UNCHANGED vars
  BY <1>16, QueueKept DEF vars
<1>. QED  BY <1>1, <1>2, <1>3, <1>4, <1>5, <1>6, <1>7, <1>8, <1>9, <1>10, <1>11,
       <1>12, <1>13, <1>14, <1>15, <1>16, StepCases

\* What was read of the port stays so, or will be read again.
LEMMA ReadInvStep == TypeOK /\ LockInv /\ ReadInv /\ [Next]_vars => ReadInv'
<1>. SUFFICES ASSUME TypeOK, LockInv, ReadInv, [Next]_vars PROVE ReadInv'
  OBVIOUS
<1>. USE PcFunction DEF Goto, locks, members, locals, port, data, history,
         Threads, LockInv, ReadInv, ReadPending, WorkerRuns, Listening
<1>1. CASE ReplaceCallback \/ RegisterCallback
  BY <1>1, QueueKept DEF ReplaceCallback, RegisterCallback
<1>2. CASE ClearCallback \/ JoinWorker
  BY <1>2, QueueKept DEF ClearCallback, JoinWorker
<1>3. CASE TakeRoleSwitchLock \/ WriteRole \/ NotifyRoleSwitch
  BY <1>3, QueueKept DEF TakeRoleSwitchLock, WriteRole, NotifyRoleSwitch
<1>4. CASE OpenPortType \/ ArmPartner \/ WritePortType
  BY <1>4, QueueKept DEF OpenPortType, ArmPartner, WritePortType
<1>5. CASE Wake \/ TimeOut \/ CheckPartner \/ GiveUp \/ SwitchToDrp
  BY <1>5, QueueKept DEF Wake, TimeOut, CheckPartner, GiveUp, SwitchToDrp
<1>6. CASE EnableUsbData \/ ResetPort \/ Acknowledge
  BY <1>6, QueueKept DEF EnableUsbData, ReadUdc, WriteUdc, WriteDataPath,
       ResetPort, Acknowledge
<1>7. CASE \E t \in Threads : Query(t)
  <2>1. ASSUME NEW t \in Threads, ReadPort(t) PROVE ReadInv'
    <3>1. connected \in [Threads -> BOOLEAN]
      BY DEF TypeOK
    <3>. QED  BY <2>1, <3>1, QueueKept DEF ReadPort
  <2>2. ASSUME NEW t \in Threads, ReportPort(t) PROVE ReadInv'
    BY <2>2, QueueKept DEF ReportPort
  <2>. QED  BY <1>7, <2>1, <2>2 DEF Query
<1>8. CASE OpenSocket \/ EnterWait
  BY <1>8, QueueKept DEF OpenSocket, EnterWait
<1>9. CASE ReceiveUevent
  BY <1>9, QueueReceived DEF ReceiveUevent
<1>10. CASE CheckDestroy \/ EpollFails
  <2>1. CASE CheckDestroy /\ ~destroyThread
    BY <2>1, QueueKept DEF CheckDestroy
  <2>2. CASE (CheckDestroy /\ destroyThread) \/ EpollFails
    <3>1. uevents' = <<>> /\ missed' = (missed \/ uevents # <<>>)
      BY <2>2 DEF CheckDestroy, EpollFails, Leave
    <3>2. uevents = <<>> => ~TypecQueued /\ ~AddQueued
      BY DEF TypecQueued, AddQueued
    <3>. QED  BY <2>2, <3>1, <3>2, QueueClosed DEF CheckDestroy, EpollFails,
             Leave
  <2>. QED  BY <1>10, <2>1, <2>2
<1>11. CASE \/ PartnerAdded \/ TryRoleSwitchLock
            \/ LookForPartner \/ WorkerSwitchToDrp
  BY <1>11, QueueKept DEF PartnerAdded, TryRoleSwitchLock, LookForPartner,
       WorkerSwitchToDrp
<1>12. CASE SigHandler
  BY <1>12, QueueKept DEF SigHandler
<1>13. CASE \E c \in Calls : Call(c)
  BY <1>13, QueueKept, CallsAssumption DEF Call, FirstPc, AnyCall
<1>14. CASE Attach \/ Detach \/ OtherUevent \/ GadgetHal
  <2>1. CASE Attach
    <3>1. Emit("add")
      BY <2>1 DEF Attach
    <3>. QED  BY <2>1, <3>1, QueueEmitted DEF Attach
  <2>2. CASE Detach
    <3>1. Emit("typec")
      BY <2>2 DEF Detach
    <3>. QED  BY <2>2, <3>1, QueueEmitted DEF Detach
  <2>3. CASE OtherUevent
    <3>1. Emit("other")
      BY <2>3 DEF OtherUevent
    <3>. QED  BY <2>3, <3>1, QueueEmitted DEF OtherUevent
  <2>4. CASE GadgetHal
    BY <2>4, QueueKept DEF GadgetHal
  <2>. QED  BY <1>14, <2>1, <2>2, <2>3, <2>4
<1>15. CASE Crash
  BY <1>15, QueueClosed DEF Crash
<1>16. CASE UNCHANGED vars
  BY <1>16, QueueKept DEF vars
<1>. QED  BY <1>1, <1>2, <1>3, <1>4, <1>5, <1>6, <1>7, <1>8, <1>9, <1>10, <1>11,
       <1>12, <1>13, <1>14, <1>15, <1>16, StepCases

\* What was told of the port stays so, or will be told again.
LEMMA ToldInvStep ==
  TypeOK /\ LockInv /\ ReadInv /\ ToldInv /\ [Next]_vars => ToldInv'
<1>. SUFFICES ASSUME TypeOK, LockInv, ReadInv, ToldInv, [Next]_vars PROVE ToldInv'
  OBVIOUS
<1>. USE PcFunction DEF Goto, locks, members, locals, port, data, history,
         Threads, LockInv, ToldInv, ReadInv, ReadPending, WorkerRuns, Listening,
         NothingTold
<1>1. CASE ReplaceCallback \/ RegisterCallback
  BY <1>1, QueueKept DEF ReplaceCallback, RegisterCallback
<1>2. CASE ClearCallback \/ JoinWorker
  BY <1>2, QueueKept DEF ClearCallback, JoinWorker
<1>3. CASE TakeRoleSwitchLock \/ WriteRole \/ NotifyRoleSwitch
  BY <1>3, QueueKept DEF TakeRoleSwitchLock, WriteRole, NotifyRoleSwitch
<1>4. CASE OpenPortType \/ ArmPartner \/ WritePortType
  BY <1>4, QueueKept DEF OpenPortType, ArmPartner, WritePortType
<1>5. CASE Wake \/ TimeOut \/ CheckPartner \/ GiveUp \/ SwitchToDrp
  BY <1>5, QueueKept DEF Wake, TimeOut, CheckPartner, GiveUp, SwitchToDrp
<1>6. CASE EnableUsbData \/ ResetPort \/ Acknowledge
  BY <1>6, QueueKept DEF EnableUsbData, ReadUdc, WriteUdc, WriteDataPath,
       ResetPort, Acknowledge
<1>7. CASE \E t \in Threads : Query(t)
  <2>1. ASSUME NEW t \in Threads, ReadPort(t) PROVE ToldInv'
    BY <2>1, QueueKept DEF ReadPort
  <2>2. ASSUME NEW t \in Threads, ReportPort(t) PROVE ToldInv'
    BY <2>2, QueueKept DEF ReportPort
  <2>. QED  BY <1>7, <2>1, <2>2 DEF Query
<1>8. CASE OpenSocket \/ EnterWait
  BY <1>8, QueueKept DEF OpenSocket, EnterWait
<1>9. CASE ReceiveUevent
  BY <1>9, QueueReceived DEF ReceiveUevent
<1>10. CASE CheckDestroy \/ EpollFails
  <2>1. CASE CheckDestroy /\ ~destroyThread
    BY <2>1, QueueKept DEF CheckDestroy
  <2>2. CASE (CheckDestroy /\ destroyThread) \/ EpollFails
    <3>1. uevents' = <<>> /\ missed' = (missed \/ uevents # <<>>)
      BY <2>2 DEF CheckDestroy, EpollFails, Leave
    <3>2. uevents = <<>> => ~TypecQueued /\ ~AddQueued
      BY DEF TypecQueued, AddQueued
    <3>. QED  BY <2>2, <3>1, <3>2, QueueClosed DEF CheckDestroy, EpollFails,
             Leave
  <2>. QED  BY <1>10, <2>1, <2>2
<1>11. CASE \/ PartnerAdded \/ TryRoleSwitchLock
            \/ LookForPartner \/ WorkerSwitchToDrp
  BY <1>11, QueueKept DEF PartnerAdded, TryRoleSwitchLock, LookForPartner,
       WorkerSwitchToDrp
<1>12. CASE SigHandler
  BY <1>12, QueueKept DEF SigHandler
<1>13. CASE \E c \in Calls : Call(c)
  BY <1>13, QueueKept, CallsAssumption DEF Call, FirstPc, AnyCall
<1>14. CASE Attach \/ Detach \/ OtherUevent \/ GadgetHal
  <2>1. CASE Attach
    <3>1. Emit("add")
      BY <2>1 DEF Attach
    <3>. QED  BY <2>1, <3>1, QueueEmitted DEF Attach
  <2>2. CASE Detach
    <3>1. Emit("typec")
      BY <2>2 DEF Detach
    <3>. QED  BY <2>2, <3>1, QueueEmitted DEF Detach
  <2>3. CASE OtherUevent
    <3>1. Emit("other")
      BY <2>3 DEF OtherUevent
    <3>. QED  BY <2>3, <3>1, QueueEmitted DEF OtherUevent
  <2>4. CASE GadgetHal
    BY <2>4, QueueKept DEF GadgetHal
  <2>. QED  BY <1>14, <2>1, <2>2, <2>3, <2>4
<1>15. CASE Crash
  BY <1>15, QueueClosed DEF Crash
<1>16. CASE UNCHANGED vars
  BY <1>16, QueueKept DEF vars
<1>. QED  BY <1>1, <1>2, <1>3, <1>4, <1>5, <1>6, <1>7, <1>8, <1>9, <1>10, <1>11,
       <1>12, <1>13, <1>14, <1>15, <1>16, StepCases

\* What was told of usb_data_enabled stays so, or will be told again.
LEMMA EnabledInvStep ==
  TypeOK /\ CallInv /\ EnabledInv /\ [Next]_vars => EnabledInv'
<1>. SUFFICES ASSUME TypeOK, CallInv, EnabledInv, [Next]_vars PROVE EnabledInv'
  OBVIOUS
<1>. USE PcFunction DEF Goto, locks, members, locals, port, data, history,
         Threads, EnabledInv, CallInv, DataPcs, NothingTold
<1>1. CASE ReplaceCallback \/ RegisterCallback
  BY <1>1 DEF ReplaceCallback, RegisterCallback
<1>2. CASE ClearCallback \/ JoinWorker
  BY <1>2 DEF ClearCallback, JoinWorker
<1>3. CASE TakeRoleSwitchLock \/ WriteRole \/ NotifyRoleSwitch
  BY <1>3 DEF TakeRoleSwitchLock, WriteRole, NotifyRoleSwitch
<1>4. CASE OpenPortType \/ ArmPartner \/ WritePortType
  BY <1>4 DEF OpenPortType, ArmPartner, WritePortType
<1>5. CASE Wake \/ TimeOut \/ CheckPartner \/ GiveUp \/ SwitchToDrp
  BY <1>5 DEF Wake, TimeOut, CheckPartner, GiveUp, SwitchToDrp
<1>6. CASE EnableUsbData \/ ResetPort \/ Acknowledge
  BY <1>6 DEF EnableUsbData, ReadUdc, WriteUdc, WriteDataPath, ResetPort,
       Acknowledge
<1>7. CASE \E t \in Threads : Query(t)
  <2>1. ASSUME NEW t \in Threads, ReadPort(t) PROVE EnabledInv'
    BY <2>1 DEF ReadPort
  <2>2. ASSUME NEW t \in Threads, ReportPort(t) PROVE EnabledInv'
    BY <2>2 DEF ReportPort
  <2>. QED  BY <1>7, <2>1, <2>2 DEF Query
<1>8. CASE OpenSocket \/ EnterWait
  BY <1>8 DEF OpenSocket, EnterWait
<1>9. CASE ReceiveUevent
  BY <1>9 DEF ReceiveUevent
<1>10. CASE CheckDestroy \/ EpollFails
  BY <1>10 DEF CheckDestroy, EpollFails, Leave
<1>11. CASE \/ PartnerAdded \/ TryRoleSwitchLock
            \/ LookForPartner \/ WorkerSwitchToDrp
  BY <1>11 DEF PartnerAdded, TryRoleSwitchLock, LookForPartner,
       WorkerSwitchToDrp
<1>12. CASE SigHandler
  BY <1>12 DEF SigHandler
<1>13. CASE \E c \in Calls : Call(c)
  BY <1>13, CallsAssumption DEF Call, FirstPc, AnyCall
<1>14. CASE Attach \/ Detach \/ OtherUevent \/ GadgetHal
  BY <1>14 DEF Attach, Detach, OtherUevent, GadgetHal
<1>15. CASE Crash
  BY <1>15 DEF Crash
<1>16. CASE UNCHANGED vars
  BY <1>16 DEF vars
<1>. QED  BY <1>1, <1>2, <1>3, <1>4, <1>5, <1>6, <1>7, <1>8, <1>9, <1>10, <1>11,
       <1>12, <1>13, <1>14, <1>15, <1>16, StepCases

\* Only setCallback starts a worker.
LEMMA StartedBy ==
  ASSUME TypeOK, [Next]_vars
  PROVE  pc["worker"] # "start" /\ pc'["worker"] = "start" => RegisterCallback
<1>. USE PcFunction DEF Goto, locks, members, locals, port, data, history,
         Threads
<1>1. CASE ReplaceCallback \/ RegisterCallback
  BY <1>1 DEF ReplaceCallback
<1>2. CASE ClearCallback \/ JoinWorker
  BY <1>2 DEF ClearCallback, JoinWorker
<1>3. CASE TakeRoleSwitchLock \/ WriteRole \/ NotifyRoleSwitch
  BY <1>3 DEF TakeRoleSwitchLock, WriteRole, NotifyRoleSwitch
<1>4. CASE OpenPortType \/ ArmPartner \/ WritePortType
  BY <1>4 DEF OpenPortType, ArmPartner, WritePortType
<1>5. CASE Wake \/ TimeOut \/ CheckPartner \/ GiveUp \/ SwitchToDrp
  BY <1>5 DEF Wake, TimeOut, CheckPartner, GiveUp, SwitchToDrp
<1>6. CASE EnableUsbData \/ ResetPort \/ Acknowledge
  BY <1>6 DEF EnableUsbData, ReadUdc, WriteUdc, WriteDataPath, ResetPort,
       Acknowledge
<1>7. CASE \E t \in Threads : Query(t)
  BY <1>7 DEF Query, ReadPort, ReportPort
<1>8. CASE OpenSocket \/ EnterWait
  BY <1>8 DEF OpenSocket, EnterWait
<1>9. CASE ReceiveUevent
  BY <1>9 DEF ReceiveUevent
<1>10. CASE CheckDestroy \/ EpollFails
  BY <1>10 DEF CheckDestroy, EpollFails, Leave
<1>11. CASE \/ PartnerAdded \/ TryRoleSwitchLock
            \/ LookForPartner \/ WorkerSwitchToDrp
  BY <1>11 DEF PartnerAdded, TryRoleSwitchLock, LookForPartner,
       WorkerSwitchToDrp
<1>12. CASE SigHandler
  BY <1>12 DEF SigHandler
<1>13. CASE \E c \in Calls : Call(c)
  BY <1>13, CallsAssumption DEF Call, FirstPc, AnyCall
<1>14. CASE Attach \/ Detach \/ OtherUevent \/ GadgetHal
  BY <1>14 DEF Attach, Detach, OtherUevent, GadgetHal
<1>15. CASE Crash
  BY <1>15 DEF Crash
<1>16. CASE UNCHANGED vars
  BY <1>16 DEF vars
<1>. QED  BY <1>1, <1>2, <1>3, <1>4, <1>5, <1>6, <1>7, <1>8, <1>9, <1>10, <1>11,
       <1>12, <1>13, <1>14, <1>15, <1>16, StepCases

\* Only enableUsbData and a restart touch what is known of usb_data_enabled.
LEMMA DataChangedBy ==
  ASSUME [Next]_vars
  PROVE  UNCHANGED <<mUsbDataEnabled, usbData>> \/ WriteDataPath \/ Crash
<1>. USE PcFunction DEF Goto, locks, members, locals, port, data, history
<1>1. CASE ReplaceCallback \/ RegisterCallback
  BY <1>1 DEF ReplaceCallback, RegisterCallback
<1>2. CASE ClearCallback \/ JoinWorker
  BY <1>2 DEF ClearCallback, JoinWorker
<1>3. CASE TakeRoleSwitchLock \/ WriteRole \/ NotifyRoleSwitch
  BY <1>3 DEF TakeRoleSwitchLock, WriteRole, NotifyRoleSwitch
<1>4. CASE OpenPortType \/ ArmPartner \/ WritePortType
  BY <1>4 DEF OpenPortType, ArmPartner, WritePortType
<1>5. CASE Wake \/ TimeOut \/ CheckPartner \/ GiveUp \/ SwitchToDrp
  BY <1>5 DEF Wake, TimeOut, CheckPartner, GiveUp, SwitchToDrp
<1>6. CASE EnableUsbData \/ ResetPort \/ Acknowledge
  BY <1>6 DEF EnableUsbData, ReadUdc, WriteUdc, ResetPort, Acknowledge
<1>7. CASE \E t \in Threads : Query(t)
  BY <1>7 DEF Query, ReadPort, ReportPort
<1>8. CASE OpenSocket \/ EnterWait
  BY <1>8 DEF OpenSocket, EnterWait
<1>9. CASE ReceiveUevent
  BY <1>9 DEF ReceiveUevent
<1>10. CASE CheckDestroy \/ EpollFails
  BY <1>10 DEF CheckDestroy, EpollFails, Leave
<1>11. CASE \/ PartnerAdded \/ TryRoleSwitchLock
            \/ LookForPartner \/ WorkerSwitchToDrp
  BY <1>11 DEF PartnerAdded, TryRoleSwitchLock, LookForPartner,
       WorkerSwitchToDrp
<1>12. CASE SigHandler
  BY <1>12 DEF SigHandler
<1>13. CASE \E c \in Calls : Call(c)
  BY <1>13, CallsAssumption DEF Call, FirstPc, AnyCall
<1>14. CASE Attach \/ Detach \/ OtherUevent \/ GadgetHal
  BY <1>14 DEF Attach, Detach, OtherUevent, GadgetHal
<1>15. CASE Crash
  BY <1>15
<1>16. CASE UNCHANGED vars
  BY <1>16 DEF vars
<1>. QED  BY <1>1, <1>2, <1>3, <1>4, <1>5, <1>6, <1>7, <1>8, <1>9, <1>10, <1>11,
       <1>12, <1>13, <1>14, <1>15, <1>16, StepCases

----------------------------------------------------------------------------
(* The inductive invariant, and what follows from it. *)

\* IInv holds initially.
LEMMA IInvInit == Init => IInv
<1>. SUFFICES ASSUME Init PROVE IInv
  OBVIOUS
<1>1. pc["binder"] = "idle" /\ pc["worker"] = "off"
  BY DEF Init, Threads
<1>2. \A t \in Threads : pc[t] # "report"
  BY <1>1 DEF Threads
<1>3. CallInv /\ WorkerInv /\ SignalInv /\ AddInv
  BY <1>1 DEF CallInv, ModePcs, DataPcs, WorkerInv, SignalInv, AddInv
<1>4. LockInv
  BY <1>1 DEF Init, LockInv, SwitchPcs
<1>5. FreeInv /\ ReadInv /\ ToldInv /\ EnabledInv
  BY <1>2 DEF Init, FreeInv, ReadInv, ToldInv, EnabledInv
<1>. QED  BY <1>3, <1>4, <1>5, InitType DEF IInv

\* Every part of IInv is kept by the steps with the help of the parts before it.
LEMMA IInvStep == IInv /\ [Next]_vars => IInv'
BY TypeStep, CallInvStep, WorkerInvStep, LockInvStep, SignalInvStep, AddInvStep,
   FreeInvStep, ReadInvStep, ToldInvStep, EnabledInvStep, Zenon DEF IInv

\* The two threads and what they share stay in step, whatever calls come in,
\* whatever fails and however often the service is restarted.
THEOREM UsbHalInvariant == Spec => []IInv
<1>1. Init => IInv
  BY IInvInit
<1>2. IInv /\ [Next]_vars => IInv'
  BY IInvStep
<1>. QED  BY <1>1, <1>2, PTL DEF Spec

\* Every variable of the USB HAL's threads, of the port and of the history keeps
\* to its type.
THEOREM TypeCorrect == Spec => []TypeOK
<1>1. IInv => TypeOK
  BY DEF IInv
<1>. QED  BY <1>1, UsbHalInvariant, PTL

\* switchMode never sleeps on a partner that is back already: whenever mPartnerUp
\* is set while it waits, the condition has been signalled.
THEOREM SignalKept == Spec => []ConnectedSignalNotLost
<1>1. IInv => ConnectedSignalNotLost
  BY DEF IInv, SignalInv, ConnectedSignalNotLost
<1>. QED  BY <1>1, UsbHalInvariant, PTL

\* A switch that waits is not taken for done by a partner of before: mPartnerUp
\* is only set by an addition since port_type was written, or by one whose message
\* was still unhandled then.
THEOREM PartnerBack == Spec => []PartnerUpMeansBack
<1>1. IInv => PartnerUpMeansBack
  BY DEF IInv, AddInv, PartnerUpMeansBack
<1>. QED  BY <1>1, UsbHalInvariant, PTL

\* A port whose partner has gone is back in dual role once the threads are quiet,
\* but for the five ways PortFreedUnlessMissed names.
THEOREM PortFreed == Spec => []PortFreedUnlessMissed
<1>1. IInv => PortFreedUnlessMissed
  <2>. SUFFICES ASSUME IInv, Quiet, ~partner, portType # "dual", ~missed
                PROVE  FALSE
    BY DEF PortFreedUnlessMissed
  <2>1. ~TypecQueued
    BY DEF Quiet, TypecQueued
  <2>. QED  BY <2>1 DEF IInv, FreeInv, LookPending, ReadPending, Quiet
<1>. QED  BY <1>1, UsbHalInvariant, PTL

\* What the callback was told last of the port and of usb_data_enabled is so,
\* once the threads are quiet: no report of one thread overtakes another's.
THEOREM ClientUpToDate == Spec => []ClientSeesLatest
<1>1. IInv => ClientSeesLatest
  <2>. SUFFICES ASSUME IInv, Quiet, mCallback, lastStatus # NothingTold, ~unheard
                PROVE  lastStatus = [told |-> "status", connected |-> partner,
                                     enabled |-> mUsbDataEnabled]
    BY DEF ClientSeesLatest
  <2>1. ~TypecQueued
    BY DEF Quiet, TypecQueued
  <2>2. lastStatus.told = "status" /\ lastStatus.connected = partner
    BY <2>1 DEF IInv, ToldInv, ReadPending, Quiet, Threads, WorkerRuns
  <2>3. lastStatus.enabled = mUsbDataEnabled
    BY DEF IInv, EnabledInv, Quiet
  <2>4. lastStatus \in Statuses
    BY DEF IInv, TypeOK
  <2>. QED  BY <2>2, <2>3, <2>4 DEF Statuses
<1>. QED  BY <1>1, UsbHalInvariant, PTL

\* The uevent thread never writes port_type while a switchRole is under way.
THEOREM SwitchLeftAlone == Spec => RoleSwitchUndisturbed
<1>1. IInv => (pc["worker"] = "drp" => pc["binder"] \notin SwitchPcs)
  BY DEF IInv, LockInv
<1>2. IInv /\ [Next]_vars =>
        [pc["worker"] = "drp" /\ pc'["worker"] = "check"
           => pc["binder"] \notin SwitchPcs]_vars
  BY <1>1
<1>. QED  BY <1>2, UsbHalInvariant, PTL DEF Spec, RoleSwitchUndisturbed

\* At any time there is at most one uevent thread: setCallback creates one only
\* when the one before has gone.
THEOREM WorkerAlone == Spec => OneWorker
<1>1. ASSUME IInv, [Next]_vars, pc["worker"] # "start", pc'["worker"] = "start"
      PROVE  ~WorkerRuns
  <2>1. RegisterCallback
    BY <1>1, StartedBy DEF IInv
  <2>. QED  BY <1>1, <2>1 DEF RegisterCallback, IInv, WorkerInv, WorkerRuns
<1>2. IInv /\ [Next]_vars =>
        [pc["worker"] # "start" /\ pc'["worker"] = "start" => ~WorkerRuns]_vars
  BY <1>1
<1>. QED  BY <1>2, UsbHalInvariant, PTL DEF Spec, OneWorker

\* mUsbDataEnabled and usb_data_enabled part only in a call that answers ERROR or
\* in a restart.
THEOREM StatusTold == Spec => StatusPartsOnlyWithError
<1>1. ASSUME IInv, [Next]_vars, mUsbDataEnabled = usbData,
             mUsbDataEnabled' # usbData'
      PROVE  ~result' \/ left'["crashes"] # left["crashes"]
  <2>1. WriteDataPath \/ Crash
    BY <1>1, DataChangedBy
  <2>2. CASE WriteDataPath
    BY <1>1, <2>2 DEF WriteDataPath, IInv, TypeOK
  <2>3. CASE Crash
    BY <1>1, <2>3, KindNames DEF Crash, Spend, IInv, TypeOK
  <2>. QED  BY <2>1, <2>2, <2>3
<1>2. IInv /\ [Next]_vars =>
        [mUsbDataEnabled = usbData /\ mUsbDataEnabled' # usbData' =>
           ~result' \/ left'["crashes"] # left["crashes"]]_vars
  BY <1>1
<1>. QED  BY <1>2, UsbHalInvariant, PTL DEF Spec, StatusPartsOnlyWithError

=============================================================================
