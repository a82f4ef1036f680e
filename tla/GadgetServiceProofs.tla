-------------------------- MODULE GadgetServiceProofs --------------------------
(***************************************************************************)
(* The gadget HAL does what its clients are promised: UsbGadget implements *)
(* GadgetService under the mapping Phase, Published, Task, Outcome, for    *)
(* any number of binder threads, any requests and any faults.  The steps   *)
(* rest on the inductive invariant of UsbGadgetProofs.                     *)
(***************************************************************************)
EXTENDS UsbGadgetProofs

USE DEF LockFree, MonitorToStop, PullupAtStart

\* What the mapping makes of the labels.
LEMMA Phases ==
  /\ PhaseOf("idle") = "idle" /\ PhaseOf("locking") = "queued"
  /\ PhaseOf("clear") = "accepted" /\ PhaseOf("answer") = "answering"
  /\ PhaseOf("pullDown") = "clearing" /\ PhaseOf("clearDesc") = "clearing"
  /\ PhaseOf("unlink") = "clearing" /\ PhaseOf("stop") = "clearing"
  /\ PhaseOf("join") = "clearing"
  /\ PhaseOf("disconnect") = "building" /\ PhaseOf("validate") = "building"
  /\ PhaseOf("setup") = "building" /\ PhaseOf("link") = "building"
  /\ PhaseOf("pullUp") = "building" /\ PhaseOf("start") = "building"
  /\ PhaseOf("wait") = "building"
BY DEF PhaseOf, TearDownPcs

\* A thread that is at a label is in the phase of the label.
LEMMA PhaseHere == \A c \in Callers : Phase[c] = PhaseOf(pc[c])
BY DEF Phase

\* Going to a label moves the one request and nothing else.
LEMMA PhaseMoves ==
  ASSUME NEW c \in Callers, NEW label, pc \in [Callers -> CallerPcs],
         Goto(c, label)
  PROVE  Phase' = [Phase EXCEPT ![c] = PhaseOf(label)]
BY DEF Phase, Goto

\* Within a phase the clients see no move.
LEMMA PhaseStays ==
  ASSUME NEW c \in Callers, NEW label, pc \in [Callers -> CallerPcs],
         Goto(c, label), PhaseOf(label) = PhaseOf(pc[c])
  PROVE  Phase' = Phase
BY DEF Phase, Goto

\* Nobody else has an answer while a call is busy.
LEMMA OutcomeNone ==
  ASSUME LockInv, NEW c \in Callers, Busy(c), pc[c] # "answer"
  PROVE  Outcome = "none"
BY DEF LockInv, Busy, Outcome

\* The answer is out once the call is at its end, not before.
LEMMA OutcomeNext ==
  ASSUME LockInv, NEW c \in Callers, NEW label, pc \in [Callers -> CallerPcs],
         Busy(c), Goto(c, label)
  PROVE  Outcome' = IF label = "answer" THEN status' ELSE "none"
<1>1. \A d \in Callers : d # c => pc[d] # "answer" /\ pc'[d] = pc[d]
  BY DEF LockInv, Busy, Goto
<1>2. pc'[c] = label
  BY DEF Goto
<1>. QED  BY <1>1, <1>2 DEF Outcome

\* A call that has started belongs to the queue of nobody else.
LEMMA AloneWhenBusy ==
  ASSUME LockInv, NEW c \in Callers, mLockSetCurrentFunction = NoThread
  PROVE  \A d \in Callers : pc[d] \in {"idle", "locking"}
BY CallersAssumption DEF LockInv, Busy

\* The initial states are initial states of the service.
LEMMA ServiceInit == Init => Service!Init
<1>. SUFFICES ASSUME Init PROVE Service!Init
  OBVIOUS
<1>1. Phase = [c \in Callers |-> "idle"]
  BY Phases DEF Init, Phase
<1>2. Published = {} /\ Task = {}
  BY DEF Init, Published, Task
<1>3. Outcome = "none"
  BY DEF Init, Outcome
<1>4. req \in [Callers -> Service!Asked]
  BY DEF Init, Service!Asked
<1>5. mCurrentUsbFunctions \in Requests \cup {NONE}
  BY DEF Init
<1>. QED  BY <1>1, <1>2, <1>3, <1>4, <1>5 DEF Service!Init

\* A step that changes neither what is asked nor what is published, nor moves a
\* request to another phase, is one no client sees.
LEMMA Unseen ==
  ASSUME Phase' = Phase, Outcome' = Outcome,
         UNCHANGED <<req, mCurrentUsbFunctions, mCurrentUsbFunctionsApplied,
                     appliedFor, mMonitorCreated, monFor, gadgetPullup>>
  PROVE  UNCHANGED Service!vars
BY DEF Service!vars, Published, Task

\* A busy call that fails is refused: before its end it has published nothing
\* and, once the old monitor is joined, started none.
LEMMA FailRefuses ==
  ASSUME LockInv, MonitorInv, StageInv, pc \in [Callers -> CallerPcs],
         NEW c \in Callers, NEW s \in {"ERROR", "CONFIGURATION_NOT_SUPPORTED"},
         Fail(c, s),
         \/ pc[c] \in {"clearDesc", "unlink", "link", "start"} /\ s = "ERROR"
         \/ pc[c] = "validate",
         UNCHANGED <<req, mCurrentUsbFunctions, mCurrentUsbFunctionsApplied,
                     appliedFor, mMonitorCreated, monFor, gadgetPullup>>
  PROVE  Service!Refuse(c)
<1>1. Busy(c) /\ Goto(c, "answer") /\ status' = s
  BY DEF Busy, Fail
<1>2. Phase' = [Phase EXCEPT ![c] = "answering"]
  BY <1>1, PhaseMoves, Phases
<1>3. Outcome' = s
  BY <1>1, OutcomeNext
<1>4. Published' = Published /\ Task' = Task
  BY DEF Published, Task
<1>5. \/ Phase[c] = "clearing" /\ s = "ERROR"
      \/ Phase[c] = "building" /\ s = "ERROR"
      \/ Phase[c] = "building" /\ pc[c] = "validate"
  BY Phases, PhaseHere
<1>6. pc[c] = "validate" => Task = {}
  BY DEF StageInv, Task
<1>. QED
  BY <1>2, <1>3, <1>4, <1>5, <1>6 DEF Service!Refuse, Service!Answer, Service!Goto

\* A busy call that stays in its phase shows nothing.
LEMMA BusyUnseen ==
  ASSUME LockInv, pc \in [Callers -> CallerPcs],
         NEW c \in Callers, NEW label, Busy(c), pc[c] # "answer",
         label # "answer", Goto(c, label), PhaseOf(label) = PhaseOf(pc[c]),
         UNCHANGED <<req, mCurrentUsbFunctions, mCurrentUsbFunctionsApplied,
                     appliedFor, mMonitorCreated, monFor, gadgetPullup>>
  PROVE  UNCHANGED Service!vars
<1>1. Phase' = Phase
  BY PhaseStays
<1>2. Outcome = "none" /\ Outcome' = "none"
  BY OutcomeNone, OutcomeNext
<1>. QED  BY <1>1, <1>2, Unseen

\* A step of the monitor, the daemons or another process that leaves the
\* threads, what they were asked and what is published alone.
LEMMA OthersUnseen ==
  ASSUME UNCHANGED <<pc, status, req, mCurrentUsbFunctions,
                     mCurrentUsbFunctionsApplied, appliedFor, mMonitorCreated,
                     monFor, gadgetPullup>>
  PROVE  UNCHANGED Service!vars
<1>1. Phase' = Phase /\ Outcome' = Outcome
  BY DEF Phase, Outcome
<1>. QED  BY <1>1, Unseen

\* Every step of the HAL is a step of the service, or one no client sees.
LEMMA ServiceStep == IInv /\ [Next]_vars => [Service!Next]_(Service!vars)
<1>. SUFFICES ASSUME IInv, [Next]_vars PROVE Service!Next \/ UNCHANGED Service!vars
  OBVIOUS
<1>1. /\ LockInv /\ MonitorInv /\ StageInv /\ AnswerInv
      /\ pc \in [Callers -> CallerPcs]
      /\ req \in [Callers -> [functions : SUBSET GadgetFunction, callback : BOOLEAN]]
      /\ mCurrentUsbFunctionsApplied \in BOOLEAN /\ mMonitorCreated \in BOOLEAN
      /\ gadgetPullup \in BOOLEAN
  BY DEF IInv, TypeOK, CallTypeOK, HalTypeOK
<1>. USE <1>1
<1>. DEFINE Goal == Service!Next \/ UNCHANGED Service!vars
<1>2. ASSUME NEW c \in Callers, NEW functions \in Requests \cup {NONE},
             NEW callback \in BOOLEAN, Call(c, functions, callback)
      PROVE  Service!Ask(c)
  <2>1. Phase[c] = "idle" /\ Phase' = [Phase EXCEPT ![c] = "queued"]
    BY <1>2, Phases, PhaseHere, PhaseMoves DEF Call
  <2>2. /\ [functions |-> functions, callback |-> callback] \in Service!Asked
        /\ req' = [req EXCEPT ![c] = [functions |-> functions, callback |-> callback]]
    BY <1>2 DEF Call, Service!Asked
  <2>3. Published' = Published /\ Task' = Task /\ mCurrentUsbFunctions' = mCurrentUsbFunctions
    BY <1>2 DEF Call, hal, monitor, Published, Task
  <2>4. Outcome' = Outcome
    BY <1>2 DEF Call, Outcome, Goto
  <2>. QED
    BY <2>1, <2>2, <2>3, <2>4 DEF Service!Ask, Service!Goto
<1>3. ASSUME NEW c \in Callers, Lock(c) PROVE Service!Accept(c)
  <2>1. Phase[c] = "queued" /\ Phase' = [Phase EXCEPT ![c] = "accepted"]
    BY <1>3, Phases, PhaseHere, PhaseMoves DEF Lock
  <2>2. \A d \in Callers : pc[d] \in {"idle", "locking"}
    BY <1>3, AloneWhenBusy DEF Lock
  <2>3. \A d \in Callers : Phase[d] \in {"idle", "queued"}
    BY <2>2, Phases, PhaseHere
  <2>4. Outcome = "none" /\ Outcome' = "none"
    BY <1>3, <2>2 DEF Lock, Goto, Outcome
  <2>5. Published' = Published /\ Task' = Task /\ mCurrentUsbFunctions' = req[c].functions
    BY <1>3 DEF Lock, monitor, Published, Task
  <2>6. req' = req
    BY <1>3 DEF Lock
  <2>. QED
    BY <2>1, <2>3, <2>4, <2>5, <2>6 DEF Service!Accept, Service!Goto
<1>4. ASSUME NEW c \in Callers, ClearApplied(c) PROVE Service!Withdraw(c)
  <2>1. Phase[c] = "accepted" /\ Phase' = [Phase EXCEPT ![c] = "clearing"]
    BY <1>4, Phases, PhaseHere, PhaseMoves DEF ClearApplied
  <2>2. Outcome = "none" /\ Outcome' = "none"
    BY <1>4, OutcomeNone, OutcomeNext DEF ClearApplied, Busy
  <2>3. Published' = {} /\ Task' = Task
    BY <1>4 DEF ClearApplied, monitor, Published, Task
  <2>4. UNCHANGED <<req, mCurrentUsbFunctions>>
    BY <1>4 DEF ClearApplied
  <2>. QED
    BY <2>1, <2>2, <2>3, <2>4 DEF Service!Withdraw, Service!Goto
<1>5. ASSUME NEW c \in Callers, PullDown(c) PROVE UNCHANGED Service!vars
  BY <1>5, BusyUnseen, Phases DEF PullDown, Busy, hal, monitor
<1>6. ASSUME NEW c \in Callers, ClearDescriptors(c) PROVE Goal
  <2>1. CASE Goto(c, "unlink")
    BY <1>6, <2>1, BusyUnseen, Phases DEF ClearDescriptors, Busy, hal, monitor
  <2>2. CASE Fail(c, "ERROR")
    <3>1. Service!Refuse(c)
      BY <1>6, <2>2, FailRefuses DEF ClearDescriptors, hal, monitor
    <3>. QED  BY <3>1 DEF Service!Next
  <2>. QED  BY <1>6, <2>1, <2>2 DEF ClearDescriptors
<1>7. ASSUME NEW c \in Callers, UnlinkFunctions(c) PROVE Goal
  <2>1. CASE Goto(c, "stop")
    BY <1>7, <2>1, BusyUnseen, Phases DEF UnlinkFunctions, Busy, hal, monitor
  <2>2. CASE Fail(c, "ERROR")
    <3>1. Service!Refuse(c)
      BY <1>7, <2>2, FailRefuses DEF UnlinkFunctions, hal, monitor
    <3>. QED  BY <3>1 DEF Service!Next
  <2>. QED  BY <1>7, <2>1, <2>2 DEF UnlinkFunctions
<1>8. ASSUME NEW c \in Callers, StopMonitor(c) PROVE Goal
  <2>1. CASE mMonitorCreated
    BY <1>8, <2>1, BusyUnseen, Phases DEF StopMonitor, Busy, monitor
  <2>2. CASE ~mMonitorCreated
    <3>1. Phase[c] = "clearing" /\ Phase' = [Phase EXCEPT ![c] = "building"]
      BY <1>8, <2>2, Phases, PhaseHere, PhaseMoves DEF StopMonitor
    <3>2. Outcome = "none" /\ Outcome' = "none"
      BY <1>8, <2>2, OutcomeNone, OutcomeNext DEF StopMonitor, Busy
    <3>3. Task' = {} /\ Published' = Published
      BY <1>8, <2>2 DEF StopMonitor, Task, Published
    <3>4. UNCHANGED <<req, mCurrentUsbFunctions>>
      BY <1>8 DEF StopMonitor
    <3>. QED
      BY <3>1, <3>2, <3>3, <3>4 DEF Service!CallOff, Service!Goto, Service!Next
  <2>. QED  BY <2>1, <2>2
<1>9. ASSUME NEW c \in Callers, JoinMonitor(c) PROVE Service!CallOff(c)
  <2>1. Phase[c] = "clearing" /\ Phase' = [Phase EXCEPT ![c] = "building"]
    BY <1>9, Phases, PhaseHere, PhaseMoves DEF JoinMonitor
  <2>2. Outcome = "none" /\ Outcome' = "none"
    BY <1>9, OutcomeNone, OutcomeNext DEF JoinMonitor, Busy
  <2>3. Task' = {} /\ Published' = Published
    BY <1>9 DEF JoinMonitor, Task, Published
  <2>4. UNCHANGED <<req, mCurrentUsbFunctions>>
    BY <1>9 DEF JoinMonitor
  <2>. QED
    BY <2>1, <2>2, <2>3, <2>4 DEF Service!CallOff, Service!Goto
<1>10. ASSUME NEW c \in Callers, Disconnected(c) PROVE Goal
  <2>1. CASE req[c].functions = NONE
    <3>1. Goto(c, "answer") /\ status' = "SUCCESS"
      BY <1>10, <2>1 DEF Disconnected, Fail
    <3>2. Phase[c] = "building" /\ Phase' = [Phase EXCEPT ![c] = "answering"]
      BY <1>10, <3>1, Phases, PhaseHere, PhaseMoves DEF Disconnected
    <3>3. Outcome' = "SUCCESS"
      BY <1>10, <3>1, OutcomeNext DEF Disconnected, Busy
    <3>4. Task = {} /\ Task' = Task /\ Published' = Published
      BY <1>10 DEF Disconnected, StageInv, hal, monitor, Task, Published
    <3>5. UNCHANGED <<req, mCurrentUsbFunctions>>
      BY <1>10 DEF Disconnected, hal
    <3>. QED
      BY <2>1, <3>2, <3>3, <3>4, <3>5
      DEF Service!Done, Service!Answer, Service!Goto, Service!Next
  <2>2. CASE req[c].functions # NONE
    BY <1>10, <2>2, BusyUnseen, Phases DEF Disconnected, Busy, hal, monitor
  <2>. QED  BY <2>1, <2>2
<1>11. ASSUME NEW c \in Callers, Validate(c) PROVE Goal
  <2>1. CASE Goto(c, "setup")
    BY <1>11, <2>1, BusyUnseen, Phases DEF Validate, Busy, hal, monitor
  <2>2. CASE Fail(c, "ERROR") \/ Fail(c, "CONFIGURATION_NOT_SUPPORTED")
    <3>1. Service!Refuse(c)
      BY <1>11, <2>2, FailRefuses DEF Validate, hal, monitor
    <3>. QED  BY <3>1 DEF Service!Next
  <2>. QED  BY <1>11, <2>1, <2>2 DEF Validate
<1>12. ASSUME NEW c \in Callers, SetupFunctions(c) PROVE UNCHANGED Service!vars
  BY <1>12, BusyUnseen, Phases DEF SetupFunctions, Busy, monitor
<1>13. ASSUME NEW c \in Callers, LinkFunction(c) PROVE Goal
  <2>1. CASE UNCHANGED <<pc, status>>
    BY <1>13, <2>1, OthersUnseen DEF LinkFunction, monitor
  <2>2. CASE Fail(c, "ERROR")
    <3>1. Service!Refuse(c)
      BY <1>13, <2>2, FailRefuses DEF LinkFunction, monitor
    <3>. QED  BY <3>1 DEF Service!Next
  <2>. QED  BY <1>13, <2>1, <2>2 DEF LinkFunction
<1>14. ASSUME NEW c \in Callers, LinksMade(c) PROVE UNCHANGED Service!vars
  <2>1. \/ Goto(c, "pullUp")
        \/ Goto(c, "start")
    BY <1>14 DEF LinksMade
  <2>. QED
    BY <1>14, <2>1, BusyUnseen, Phases DEF LinksMade, Busy, hal, monitor
<1>15. ASSUME NEW c \in Callers, PullUp(c) PROVE Goal
  <2>1. Phase[c] = "building" /\ Phase' = [Phase EXCEPT ![c] = "answering"]
    BY <1>15, Phases, PhaseHere, PhaseMoves DEF PullUp
  <2>2. Outcome' = status'
    BY <1>15, OutcomeNext DEF PullUp, Busy
  <2>3. Task = {} /\ Task' = Task
    BY <1>15 DEF PullUp, StageInv, monitor, Task
  <2>4. UNCHANGED <<req, mCurrentUsbFunctions>>
    BY <1>15 DEF PullUp
  <2>5. CASE status' = "SUCCESS"
    <3>1. Published' = {req[c].functions}
      BY <1>15, <2>5 DEF PullUp, Published
    <3>. QED
      BY <2>1, <2>2, <2>3, <2>4, <2>5, <3>1
      DEF Service!ApplyNow, Service!Answer, Service!Goto, Service!Next
  <2>6. CASE status' = "ERROR"
    <3>1. Published' = Published
      BY <1>15, <2>6 DEF PullUp, Published
    <3>. QED
      BY <2>1, <2>2, <2>3, <2>4, <2>6, <3>1
      DEF Service!Refuse, Service!Answer, Service!Goto, Service!Next
  <2>. QED  BY <1>15, <2>5, <2>6 DEF PullUp
<1>16. ASSUME NEW c \in Callers, StartMonitor(c) PROVE Goal
  <2>1. CASE Fail(c, "ERROR") /\ UNCHANGED <<gadgetPullup, monitor, mMonitorCreated>>
    <3>1. Service!Refuse(c)
      BY <1>16, <2>1, FailRefuses DEF StartMonitor, monitor
    <3>. QED  BY <3>1 DEF Service!Next
  <2>2. CASE /\ gadgetPullup' = FALSE /\ mMonitorCreated' = TRUE
             /\ monFor' = req[c].functions /\ status' = "SUCCESS"
    <3>1. Phase[c] = "building" /\ Task = {}
      BY <1>16, Phases, PhaseHere DEF StartMonitor, StageInv, Task
    <3>2. /\ Task' = {[functions |-> req[c].functions, done |-> FALSE]}
          /\ Published' = Published
      BY <1>16, <2>2 DEF StartMonitor, Task, Published
    <3>3. UNCHANGED <<req, mCurrentUsbFunctions>>
      BY <1>16 DEF StartMonitor
    <3>4. Outcome = "none"
      BY <1>16, OutcomeNone DEF StartMonitor, Busy
    <3>5. CASE req[c].callback /\ Goto(c, "wait")
      <4>1. Phase' = Phase /\ Outcome' = "none"
        BY <1>16, <3>5, PhaseStays, Phases, OutcomeNext DEF StartMonitor, Busy
      <4>. QED
        BY <3>1, <3>2, <3>3, <3>4, <3>5, <4>1 DEF Service!Defer, Service!Next
    <3>6. CASE ~req[c].callback /\ Goto(c, "answer")
      <4>1. Phase' = [Phase EXCEPT ![c] = "answering"] /\ Outcome' = "SUCCESS"
        BY <1>16, <2>2, <3>6, PhaseMoves, Phases, OutcomeNext
        DEF StartMonitor, Busy
      <4>. QED
        BY <3>1, <3>2, <3>3, <3>6, <4>1
        DEF Service!Defer, Service!Answer, Service!Goto, Service!Next
    <3>7. \/ req[c].callback /\ Goto(c, "wait")
          \/ ~req[c].callback /\ Goto(c, "answer")
      <4>1. \/ req[c].callback /\ Goto(c, "wait")
            \/ ~req[c].callback /\ Goto(c, "answer")
            \/ Fail(c, "ERROR")
        BY <1>16 DEF StartMonitor
      <4>2. ~Fail(c, "ERROR")
        BY <2>2 DEF Fail
      <4>. QED  BY <4>1, <4>2
    <3>. QED  BY <3>5, <3>6, <3>7
  <2>. QED  BY <1>16, <2>1, <2>2 DEF StartMonitor
<1>17. ASSUME NEW c \in Callers, WaitReturns(c) PROVE Goal
  <2>1. Phase[c] = "building" /\ Phase' = [Phase EXCEPT ![c] = "answering"]
    BY <1>17, Phases, PhaseHere, PhaseMoves DEF WaitReturns
  <2>2. Outcome' = status'
    BY <1>17, OutcomeNext DEF WaitReturns, Busy
  <2>3. Task' = Task /\ Published' = Published
    BY <1>17 DEF WaitReturns, monitor, Task, Published
  <2>4. UNCHANGED <<req, mCurrentUsbFunctions>>
    BY <1>17 DEF WaitReturns
  <2>5. CASE gadgetPullup
    <3>1. mMonitorCreated /\ monFor = req[c].functions
      BY <1>17, <2>5 DEF WaitReturns, AnswerInv
    <3>2. Task = {[functions |-> req[c].functions, done |-> TRUE]}
      BY <2>5, <3>1 DEF Task
    <3>3. status' = "SUCCESS"
      BY <1>17, <2>5 DEF WaitReturns
    <3>. QED
      BY <2>1, <2>2, <2>3, <2>4, <3>2, <3>3
      DEF Service!Done, Service!Answer, Service!Goto, Service!Next
  <2>6. CASE ~gadgetPullup
    <3>1. status' = "ERROR"
      BY <1>17, <2>6 DEF WaitReturns
    <3>. QED
      BY <2>1, <2>2, <2>3, <2>4, <3>1
      DEF Service!Refuse, Service!Answer, Service!Goto, Service!Next
  <2>. QED  BY <2>5, <2>6
<1>18. ASSUME NEW c \in Callers, Answer(c) PROVE Service!Reply(c)
  <2>1. Phase[c] = "answering" /\ Phase' = [Phase EXCEPT ![c] = "idle"]
    BY <1>18, Phases, PhaseHere, PhaseMoves DEF Answer
  <2>2. Outcome' = "none"
    BY <1>18, OutcomeNext DEF Answer, Busy
  <2>3. Task' = Task /\ Published' = Published
    BY <1>18 DEF Answer, monitor, Task, Published
  <2>4. UNCHANGED <<req, mCurrentUsbFunctions>>
    BY <1>18 DEF Answer
  <2>. QED
    BY <2>1, <2>2, <2>3, <2>4 DEF Service!Reply, Service!Goto
<1>19. ASSUME NEW c \in Callers, Reset(c) PROVE UNCHANGED Service!vars
  BY <1>19, OthersUnseen DEF Reset, hal, call, monitor
<1>20. CASE MonitorScan \/ MonitorWrite \/ MonitorEvent \/ MonitorEpoll
  BY <1>20, OthersUnseen
  DEF MonitorScan, MonitorWrite, MonitorEvent, MonitorEpoll, hal, call
<1>21. CASE MonitorPublish
  <2>1. mMonitorCreated
    BY <1>21 DEF MonitorPublish, MonitorInv
  <2>2. Task = {[functions |-> monFor, done |-> gadgetPullup]}
    BY <2>1 DEF Task
  <2>3. Published' = {monFor} /\ Task' = {[functions |-> monFor, done |-> TRUE]}
    BY <1>21, <2>1 DEF MonitorPublish, Published, Task
  <2>4. Phase' = Phase /\ Outcome' = Outcome
    BY <1>21 DEF MonitorPublish, Phase, Outcome
  <2>5. UNCHANGED <<req, mCurrentUsbFunctions>>
    BY <1>21 DEF MonitorPublish
  <2>. QED
    BY <2>2, <2>3, <2>4, <2>5 DEF Service!ApplyLater, Service!Next
<1>22. CASE Crash
  <2>1. Phase' = [c \in Callers |-> "idle"]
    BY <1>22, Phases DEF Crash, Phase
  <2>2. Published' = {} /\ Task' = {} /\ Outcome' = "none"
    BY <1>22 DEF Crash, Published, Task, Outcome
  <2>3. req' = req /\ mCurrentUsbFunctions' \in Requests \cup {NONE}
    BY <1>22 DEF Crash
  <2>. QED
    BY <2>1, <2>2, <2>3 DEF Service!Restart, Service!Next
<1>23. ASSUME NEW f \in Daemons,
              FfsOpen(f) \/ FfsDescriptors(f) \/ FfsClose(f) \/ FfsActivity(f)
       PROVE  UNCHANGED Service!vars
  BY <1>23, OthersUnseen
  DEF FfsOpen, FfsDescriptors, FfsClose, FfsActivity, hal, call, monitor
<1>24. CASE UsbHalPullUp \/ UsbHalPullDown
  BY <1>24, OthersUnseen DEF UsbHalPullUp, UsbHalPullDown, hal, call, monitor
<1>25. ASSUME NEW v \in VendorConfigs, SetVendorConfig(v)
       PROVE  UNCHANGED Service!vars
  BY <1>25, OthersUnseen DEF SetVendorConfig, hal, call, monitor
<1>26. CASE UNCHANGED vars
  BY <1>26, OthersUnseen DEF vars, hal, call, monitor
<1>27. ASSUME NEW c \in Callers,
              \/ Service!Ask(c) \/ Service!Accept(c) \/ Service!Withdraw(c)
              \/ Service!CallOff(c) \/ Service!Reply(c)
       PROVE  Goal
  BY <1>27 DEF Service!Next
<1>. HIDE DEF Goal
<1>28. ASSUME NEW c \in Callers, Client(c) PROVE Goal
  BY <1>2, <1>19, <1>27, <1>28 DEF Client, Goal
<1>29. ASSUME NEW c \in Callers, Caller(c) PROVE Goal
  BY <1>3, <1>4, <1>5, <1>6, <1>7, <1>8, <1>9, <1>10, <1>11, <1>12, <1>13,
     <1>14, <1>15, <1>16, <1>17, <1>18, <1>27, <1>29
  DEF Caller, TearDown, Setup, Goal
<1>30. CASE Environment
  BY <1>22, <1>23, <1>24, <1>25, <1>30 DEF Environment, Goal
<1>. QED
  BY <1>20, <1>21, <1>26, <1>28, <1>29, <1>30
  DEF Next, MonitorFfs, Quiescent, Goal

\* The gadget HAL implements the service its clients are promised.
THEOREM Refinement == Spec => ImplementsService
<1>1. IInv /\ [Next]_vars => [Service!Next]_(Service!vars)
  BY ServiceStep
<1>. QED  BY ServiceInit, <1>1, Invariant, PTL DEF Spec, ImplementsService, Service!Spec

================================================================================
