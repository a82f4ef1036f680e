---------------------------- MODULE DumpstateProofs ----------------------------
(***************************************************************************)
(* Proofs about Dumpstate for every budget: the types, CopiedAtRest,       *)
(* HandsOverThisDump and LoggerFollowsVerbose.                             *)
(***************************************************************************)
EXTENDS Dumpstate, TLAPS

\* All init still has to do is to stop the logger.
StopOnly == queue \in {<<>>, <<Changed("mdlog", FALSE)>>}

\* A dump that found init settled and stops the logger is the only one to switch
\* it, so that once it is down it stays down until the dump starts it again.
RestInv ==
  ~disturbed =>
    /\ pc = "stop" => Settled
    /\ pc \in {"wait", "copy", "restart"} /\ diagLogEnabled /\ diagLogStarted
         => StopOnly /\ (pc # "wait" => ~mdlogOn)

\* As long as every dump has removed its files, none of an earlier one is about.
FilesInv ==
  ~leftBehind =>
    /\ "stale" \notin dir \cup tar \cup sent
    /\ pc \in {"idle", "rmTar"} => dir = {}
    /\ pc = "idle" => tar = {}

IInv == TypeOK /\ RestInv /\ FilesInv

----------------------------------------------------------------------------

LEMMA BudgetType ==
  ASSUME TypeOK, NEW kind \in Kinds, Spend(kind) PROVE left' \in [Kinds -> Nat]
BY DEF TypeOK, Spend, Kinds

\* What the steps do with the queue.
LEMMA QueueTypes ==
  ASSUME TypeOK
  PROVE  /\ queue # <<>> => Tail(queue) \in Seq(Triggers) /\ Head(queue) \in Triggers
         /\ \A s \in Seq(Triggers), switch \in Switches, value \in BOOLEAN :
              Append(s, Changed(switch, value)) \in Seq(Triggers)
         /\ Append(<<>>, Changed("mdlog", FALSE)) = <<Changed("mdlog", FALSE)>>
         /\ Head(<<Changed("mdlog", FALSE)>>) = Changed("mdlog", FALSE)
         /\ Tail(<<Changed("mdlog", FALSE)>>) = <<>>
         /\ {"verbose", "persist", "mdlog"} \subseteq Switches
<1>1. \A switch \in Switches, value \in BOOLEAN : Changed(switch, value) \in Triggers
  BY DEF Changed, Triggers
<1>2. queue \in Seq(Triggers)
  BY DEF TypeOK
<1> QED BY <1>1, <1>2 DEF Switches

LEMMA InitIInv == Init => IInv
<1> SUFFICES ASSUME Init PROVE IInv
  OBVIOUS
<1>1. mdlog \in BOOLEAN /\ mdlogOn \in BOOLEAN
  BY DEF Init
<1>2. queue \in Seq(Triggers) /\ left \in [Kinds -> Nat]
  BY BudgetAssumption DEF Init
<1>3. TypeOK
  BY <1>1, <1>2 DEF Init, TypeOK, Pcs, Whose
<1>4. RestInv /\ FilesInv
  BY DEF Init, RestInv, FilesInv
<1> QED BY <1>3, <1>4 DEF IInv

LEMMA NextIInv == IInv /\ [Next]_vars => IInv'
<1> SUFFICES ASSUME IInv, [Next]_vars PROVE IInv'
  OBVIOUS
<1> USE DEF IInv
<1>1. CASE DumpstateBoard
  <2>1. TypeOK'
    BY <1>1, BudgetType
    DEF TypeOK, DumpstateBoard, Pcs, Whose, Kinds, properties, init, locals,
        files, history
  <2>2. RestInv'
    BY <1>1
    DEF TypeOK, RestInv, StopOnly, DumpstateBoard, Settled, properties, init,
        locals, files, history
  <2>3. FilesInv'
    BY <1>1
    DEF TypeOK, FilesInv, DumpstateBoard, properties, init, locals, files,
        history
  <2> QED BY <2>1, <2>2, <2>3
<1>2. CASE ReadEnabled
  <2>1. TypeOK'
    BY <1>2
    DEF TypeOK, ReadEnabled, Pcs, Whose, properties, init, locals, files,
        history
  <2>2. RestInv'
    BY <1>2
    DEF TypeOK, RestInv, StopOnly, ReadEnabled, Settled, properties, init,
        locals, files, history
  <2>3. FilesInv'
    BY <1>2
    DEF TypeOK, FilesInv, ReadEnabled, properties, init, locals, files,
        history
  <2> QED BY <2>1, <2>2, <2>3
<1>3. CASE ReadStarted
  <2>1. TypeOK'
    BY <1>3
    DEF TypeOK, ReadStarted, Pcs, Whose, Settled, properties, init, locals,
        files, history
  <2>2. RestInv'
    BY <1>3
    DEF TypeOK, RestInv, StopOnly, ReadStarted, Settled, properties, init,
        locals, files, history
  <2>3. FilesInv'
    BY <1>3
    DEF TypeOK, FilesInv, ReadStarted, properties, init, locals, files,
        history
  <2> QED BY <2>1, <2>2, <2>3
<1>4. CASE StopLogger
  <2>1. TypeOK'
    <3>1. queue' \in Seq(Triggers) /\ mdlog' \in BOOLEAN /\ pc' \in Pcs
      BY <1>4, QueueTypes DEF TypeOK, StopLogger, Pcs
    <3> QED BY <1>4, <3>1 DEF TypeOK, StopLogger, locals, files, history
  <2>2. RestInv'
    BY <1>4, QueueTypes
    DEF TypeOK, RestInv, StopOnly, StopLogger, Settled, Changed, properties,
        init, locals, files, history
  <2>3. FilesInv'
    BY <1>4
    DEF TypeOK, FilesInv, StopLogger, properties, init, locals, files, history
  <2> QED BY <2>1, <2>2, <2>3
<1>5. CASE WaitForLogger
  <2>1. TypeOK'
    <3>1. pc' \in Pcs /\ disturbed' \in BOOLEAN
      BY <1>5 DEF TypeOK, WaitForLogger, Pcs
    <3> QED BY <1>5, <3>1
            DEF TypeOK, WaitForLogger, properties, init, locals, files
  <2>2. RestInv'
    BY <1>5
    DEF TypeOK, RestInv, StopOnly, WaitForLogger, Settled, LoggerExited,
        properties, init, locals, files, history
  <2>3. FilesInv'
    BY <1>5
    DEF TypeOK, FilesInv, WaitForLogger, LoggerExited, properties, init,
        locals, files, history
  <2> QED BY <2>1, <2>2, <2>3
<1>6. CASE CopyDiagLogs
  <2>1. TypeOK'
    BY <1>6
    DEF TypeOK, CopyDiagLogs, Pcs, Whose, properties, init, locals, files,
        history
  <2>2. RestInv'
    BY <1>6
    DEF TypeOK, RestInv, StopOnly, CopyDiagLogs, Settled, properties, init,
        locals, files, history
  <2>3. FilesInv'
    BY <1>6
    DEF TypeOK, FilesInv, CopyDiagLogs, properties, init, locals, files,
        history
  <2> QED BY <2>1, <2>2, <2>3
<1>7. CASE RestartLogger
  <2>1. TypeOK'
    <3>1. queue' \in Seq(Triggers) /\ mdlog' \in BOOLEAN
      BY <1>7, QueueTypes DEF TypeOK, RestartLogger
    <3>2. dir' \in SUBSET Whose /\ pc' \in Pcs
      BY <1>7 DEF TypeOK, RestartLogger, Whose, Pcs
    <3> QED BY <1>7, <3>1, <3>2
            DEF TypeOK, RestartLogger, locals, history
  <2>2. RestInv'
    BY <1>7, QueueTypes
    DEF TypeOK, RestInv, StopOnly, RestartLogger, Settled, Changed, RanBefore,
        properties, init, locals, files, history
  <2>3. FilesInv'
    BY <1>7
    DEF TypeOK, FilesInv, RestartLogger, RanBefore, properties, init, locals,
        files, history
  <2> QED BY <2>1, <2>2, <2>3
<1>8. CASE StartEfsDump
  <2>1. TypeOK'
    BY <1>8
    DEF TypeOK, StartEfsDump, Pcs, Whose, properties, init, locals, files,
        history
  <2>2. RestInv'
    BY <1>8
    DEF TypeOK, RestInv, StopOnly, StartEfsDump, Settled, properties, init,
        locals, files, history
  <2>3. FilesInv'
    BY <1>8
    DEF TypeOK, FilesInv, StartEfsDump, properties, init, locals, files,
        history
  <2> QED BY <2>1, <2>2, <2>3
<1>9. CASE CopyOtherLogs
  <2>1. TypeOK'
    <3>1. pc' \in Pcs /\ dir' \in SUBSET Whose /\ efsdump' \in BOOLEAN
      BY <1>9 DEF TypeOK, CopyOtherLogs, Pcs, Whose
    <3> QED BY <1>9, <3>1 DEF TypeOK, CopyOtherLogs, init, locals, history
  <2>2. RestInv'
    BY <1>9
    DEF TypeOK, RestInv, StopOnly, CopyOtherLogs, Settled, properties, init,
        locals, files, history
  <2>3. FilesInv'
    BY <1>9
    DEF TypeOK, FilesInv, CopyOtherLogs, properties, init, locals, files,
        history
  <2> QED BY <2>1, <2>2, <2>3
<1>10. CASE CreateTarFile
  <2>1. TypeOK'
    BY <1>10
    DEF TypeOK, CreateTarFile, Pcs, Whose, properties, init, locals, files,
        history
  <2>2. RestInv'
    BY <1>10
    DEF TypeOK, RestInv, StopOnly, CreateTarFile, Settled, properties, init,
        locals, files, history
  <2>3. FilesInv'
    BY <1>10
    DEF TypeOK, FilesInv, CreateTarFile, properties, init, locals, files,
        history
  <2> QED BY <2>1, <2>2, <2>3
<1>11. CASE SendTarFile
  <2>1. TypeOK'
    BY <1>11
    DEF TypeOK, SendTarFile, Pcs, Whose, properties, init, locals, files,
        history
  <2>2. RestInv'
    BY <1>11
    DEF TypeOK, RestInv, StopOnly, SendTarFile, Settled, properties, init,
        locals, files, history
  <2>3. FilesInv'
    BY <1>11
    DEF TypeOK, FilesInv, SendTarFile, properties, init, locals, files,
        history
  <2> QED BY <2>1, <2>2, <2>3
<1>12. CASE RemoveDir
  <2>1. TypeOK'
    <3>1. left' \in [Kinds -> Nat]
      <4>1. CASE Spend("faults")
        BY <4>1, BudgetType DEF Kinds
      <4>2. CASE UNCHANGED left
        BY <4>2 DEF TypeOK
      <4> QED BY <1>12, <4>1, <4>2 DEF RemoveDir
    <3>2. /\ pc' \in Pcs
          /\ dir' \in SUBSET Whose /\ tar' \in SUBSET Whose
          /\ leftBehind' \in BOOLEAN
      BY <1>12 DEF TypeOK, RemoveDir, Pcs, Whose
    <3> QED
      BY <1>12, <3>1, <3>2
      DEF TypeOK, RemoveDir, properties, init, locals
  <2>2. RestInv'
    BY <1>12
    DEF TypeOK, RestInv, StopOnly, RemoveDir, Settled, properties, init,
        locals, files, history
  <2>3. FilesInv'
    BY <1>12
    DEF TypeOK, FilesInv, RemoveDir, properties, init, locals, files, history
  <2> QED BY <2>1, <2>2, <2>3
<1>13. CASE RemoveTar
  <2>1. TypeOK'
    <3>1. left' \in [Kinds -> Nat]
      <4>1. CASE Spend("faults")
        BY <4>1, BudgetType DEF Kinds
      <4>2. CASE UNCHANGED left
        BY <4>2 DEF TypeOK
      <4> QED BY <1>13, <4>1, <4>2 DEF RemoveTar
    <3>2. /\ pc' \in Pcs
          /\ dir' \in SUBSET Whose /\ tar' \in SUBSET Whose
          /\ leftBehind' \in BOOLEAN
      BY <1>13 DEF TypeOK, RemoveTar, Pcs, Whose, TarRemoved
    <3> QED
      BY <1>13, <3>1, <3>2
      DEF TypeOK, RemoveTar, properties, init, locals
  <2>2. RestInv'
    BY <1>13
    DEF TypeOK, RestInv, StopOnly, RemoveTar, Settled, TarRemoved, properties,
        init, locals, files, history
  <2>3. FilesInv'
    BY <1>13
    DEF TypeOK, FilesInv, RemoveTar, TarRemoved, properties, init, locals,
        files, history
  <2> QED BY <2>1, <2>2, <2>3
<1>14. CASE VerboseTrigger
  <2>1. TypeOK'
    <3>1. queue' \in Seq(Triggers) /\ persistMdlog' \in BOOLEAN
      BY <1>14, QueueTypes DEF TypeOK, VerboseTrigger
    <3>2. mdlogOn' \in BOOLEAN /\ startLost' \in BOOLEAN /\ pidFile' \in BOOLEAN
      BY <1>14 DEF TypeOK, VerboseTrigger, StartLogger
    <3> QED BY <1>14, <3>1, <3>2
            DEF TypeOK, VerboseTrigger, locals, files
  <2>2. RestInv'
    BY <1>14, QueueTypes
    DEF TypeOK, RestInv, StopOnly, VerboseTrigger, StartLogger, Settled, Changed,
        Followed, properties, init, locals, files, history
  <2>3. FilesInv'
    BY <1>14
    DEF TypeOK, FilesInv, VerboseTrigger, Followed, properties, init, locals,
        files, history
  <2> QED BY <2>1, <2>2, <2>3
<1>15. CASE PersistTrigger
  <2>1. TypeOK'
    <3>1. /\ queue' \in Seq(Triggers) /\ mdlog' \in BOOLEAN
          /\ pidFile' \in BOOLEAN /\ startLost' \in BOOLEAN
      BY <1>15, QueueTypes DEF TypeOK, PersistTrigger
    <3> QED BY <1>15, <3>1 DEF TypeOK, PersistTrigger, locals, files
  <2>2. RestInv'
    BY <1>15, QueueTypes
    DEF TypeOK, RestInv, StopOnly, PersistTrigger, Settled, Changed,
        properties, init, locals, files, history
  <2>3. FilesInv'
    BY <1>15
    DEF TypeOK, FilesInv, PersistTrigger, properties, init, locals, files,
        history
  <2> QED BY <2>1, <2>2, <2>3
<1>16. CASE StartTrigger
  <2>1. TypeOK'
    <3>1. queue' \in Seq(Triggers)
      BY <1>16, QueueTypes DEF TypeOK, StartTrigger
    <3>2. mdlogOn' \in BOOLEAN /\ startLost' \in BOOLEAN /\ pidFile' \in BOOLEAN
      BY <1>16 DEF TypeOK, StartTrigger, StartLogger, MayStart
    <3> QED BY <1>16, <3>1, <3>2 DEF TypeOK, StartTrigger, locals, files
  <2>2. RestInv'
    BY <1>16, QueueTypes
    DEF TypeOK, RestInv, StopOnly, StartTrigger, StartLogger, Settled, Changed,
        MayStart, properties, init, locals, files, history
  <2>3. FilesInv'
    BY <1>16
    DEF TypeOK, FilesInv, StartTrigger, StartLogger, MayStart, properties, init, locals,
        files, history
  <2> QED BY <2>1, <2>2, <2>3
<1>17. CASE StopTrigger
  <2>1. TypeOK'
    BY <1>17, QueueTypes
    DEF TypeOK, StopTrigger, Pcs, Whose, properties, init, locals, files,
        history
  <2>2. RestInv'
    BY <1>17, QueueTypes
    DEF TypeOK, RestInv, StopOnly, StopTrigger, Settled, Changed, properties,
        init, locals, files, history
  <2>3. FilesInv'
    BY <1>17
    DEF TypeOK, FilesInv, StopTrigger, properties, init, locals, files,
        history
  <2> QED BY <2>1, <2>2, <2>3
<1>18. CASE KillLogger
  <2>1. TypeOK'
    <3>1. /\ mdlogOn' \in BOOLEAN /\ stopper' \in BOOLEAN
          /\ pidFile' \in BOOLEAN /\ stopLost' \in BOOLEAN
      BY <1>18 DEF TypeOK, KillLogger
    <3> QED BY <1>18, <3>1
            DEF TypeOK, KillLogger, locals, files, history
  <2>2. RestInv'
    BY <1>18
    DEF TypeOK, RestInv, StopOnly, KillLogger, Settled, properties, init,
        locals, files, history
  <2>3. FilesInv'
    BY <1>18
    DEF TypeOK, FilesInv, KillLogger, properties, init, locals, files, history
  <2> QED BY <2>1, <2>2, <2>3
<1>19. CASE Crash
  <2>1. TypeOK'
    BY <1>19, BudgetType
    DEF TypeOK, Crash, Stopped, Pcs, Whose, Kinds, properties, init, locals, files,
        history
  <2>2. RestInv'
    BY <1>19
    DEF TypeOK, RestInv, StopOnly, Crash, Settled, properties, init, locals,
        files, history
  <2>3. FilesInv'
    BY <1>19
    DEF TypeOK, FilesInv, Crash, properties, init, locals, files, history
  <2> QED BY <2>1, <2>2, <2>3
<1>20. CASE Quiescent
  <2>1. TypeOK'
    BY <1>20
    DEF TypeOK, Quiescent, Pcs, Whose, properties, init, locals, files,
        history, vars
  <2>2. RestInv'
    BY <1>20
    DEF TypeOK, RestInv, StopOnly, Quiescent, Settled, properties, init,
        locals, files, history, vars
  <2>3. FilesInv'
    BY <1>20
    DEF TypeOK, FilesInv, Quiescent, properties, init, locals, files, history,
        vars
  <2> QED BY <2>1, <2>2, <2>3
<1>21. ASSUME NEW value \in BOOLEAN, SetVerboseLoggingEnabled(value)
      PROVE  IInv'
  <2>1. TypeOK'
    BY <1>21, QueueTypes, BudgetType
    DEF TypeOK, SetVerboseLoggingEnabled, Pcs, Whose, Kinds, properties, init,
        locals, files, history
  <2>2. RestInv'
    BY <1>21, QueueTypes
    DEF TypeOK, RestInv, StopOnly, SetVerboseLoggingEnabled, Settled, Changed,
        properties, init, locals, files, history
  <2>3. FilesInv'
    BY <1>21
    DEF TypeOK, FilesInv, SetVerboseLoggingEnabled, properties, init, locals,
        files, history
  <2> QED BY <2>1, <2>2, <2>3
<1>22. ASSUME NEW value \in BOOLEAN, OtherSets(value)
      PROVE  IInv'
  <2>1. TypeOK'
    BY <1>22, QueueTypes, BudgetType
    DEF TypeOK, OtherSets, Pcs, Whose, Kinds, properties, init, locals, files,
        history
  <2>2. RestInv'
    BY <1>22, QueueTypes
    DEF TypeOK, RestInv, StopOnly, OtherSets, Settled, Changed, properties,
        init, locals, files, history
  <2>3. FilesInv'
    BY <1>22
    DEF TypeOK, FilesInv, OtherSets, properties, init, locals, files, history
  <2> QED BY <2>1, <2>2, <2>3
<1>23. CASE UNCHANGED vars
  <2>1. TypeOK'
    BY <1>23 DEF TypeOK, vars, properties, init, locals, files, history
  <2>2. RestInv'
    BY <1>23
    DEF RestInv, StopOnly, Settled, vars, properties, init, locals, history
  <2>3. FilesInv'
    BY <1>23 DEF FilesInv, vars, files, history
  <2> QED BY <2>1, <2>2, <2>3
<1>24. CASE \E value \in BOOLEAN :
            SetVerboseLoggingEnabled(value) \/ OtherSets(value)
  BY <1>24, <1>21, <1>22
<1>25. CASE DumpModemThread
  BY <1>25, <1>2, <1>3, <1>4, <1>5, <1>6, <1>7, <1>8, <1>9, <1>10, <1>11, <1>12,
     <1>13
  DEF DumpModemThread
<1>26. CASE InitTriggers
  BY <1>26, <1>14, <1>15, <1>16, <1>17 DEF InitTriggers
<1> HIDE DEF IInv
<1>27. QED
  BY <1>1, <1>18, <1>19, <1>20, <1>23, <1>24, <1>25, <1>26 DEF Next

\* The inductive invariant, for every budget.
THEOREM Invariant == Spec => []IInv
<1>1. Init => IInv
  BY InitIInv
<1>2. IInv /\ [Next]_vars => IInv'
  BY NextIInv
<1> QED BY <1>1, <1>2, PTL DEF Spec

\* Every variable of the dump, its files and init keeps its type.
THEOREM TypeCorrect == Spec => []TypeOK
<1>1. IInv => TypeOK
  BY DEF IInv
<1> QED BY <1>1, Invariant, PTL

\* A logger that was running is down while its files are copied, or the dump was
\* disturbed (DumpstateDevice.cpp:265-295).
THEOREM AtRest == Spec => []CopiedAtRest
<1>1. IInv => CopiedAtRest
  BY DEF IInv, RestInv, CopiedAtRest
<1> QED BY <1>1, Invariant, PTL

\* A client is handed the logs of its own dump only, unless an earlier one has
\* left files behind (DumpstateDevice.cpp:344-368).
THEOREM OwnLogs == Spec => []HandsOverThisDump
<1>1. IInv => HandsOverThisDump
  BY DEF IInv, FilesInv, HandsOverThisDump
<1> QED BY <1>1, Invariant, PTL

----------------------------------------------------------------------------
(* The logger and verbose logging on a user build. *)

\* The queue holds a trigger of this switch; the last one of modem.diag.mdlog in
\* it, if there is one, has this value.
Holds(s, switch) == \E i \in DOMAIN s : s[i].switch = switch
LastSets(s, value) ==
  \A i \in DOMAIN s :
    /\ s[i].switch = "mdlog"
    /\ \A j \in DOMAIN s : j > i => s[j].switch # "mdlog"
    => s[i].value = value

\* A dump is only made with verbose logging, which cannot be changed meanwhile,
\* and only stops a logger that it will start again.
DumpInv ==
  /\ pc # "idle" => verbose
  /\ pc \in {"stop", "wait"} => diagLogEnabled /\ diagLogStarted

\* The logger is as modem.diag.mdlog says, or is being stopped or was missed.
LoggerObeys ==
  IF stopper THEN ~mdlog ELSE mdlogOn = mdlog \/ (mdlogOn /\ stopLost)

\* Each property follows the one before it, or a trigger that will see to it is
\* still queued, or the dump will; so does the logger.
FollowInv ==
  build = "user" =>
    /\ persistMdlog = verbose \/ Holds(queue, "verbose")
    /\ LastSets(queue, mdlog)
    /\ ~startLost =>
         /\ \/ mdlog = persistMdlog \/ Stopped
            \/ Holds(queue, "verbose") \/ Holds(queue, "persist")
         /\ Holds(queue, "mdlog") \/ LoggerObeys

\* A trigger that is queued.
LEMMA AppendHolds ==
  ASSUME NEW s \in Seq(Triggers), NEW x \in Triggers
  PROVE  /\ \A switch \in Switches :
              Holds(Append(s, x), switch) <=> Holds(s, switch) \/ x.switch = switch
         /\ \A value \in BOOLEAN :
              LastSets(Append(s, x), value)
                <=> IF x.switch = "mdlog" THEN x.value = value
                                          ELSE LastSets(s, value)
<1> DEFINE t == Append(s, x)
<1>1. /\ t \in Seq(Triggers) /\ DOMAIN t = 1..(Len(s) + 1) /\ Len(s) \in Nat
      /\ DOMAIN s = 1..Len(s)
      /\ \A i \in 1..Len(s) : t[i] = s[i]
      /\ t[Len(s) + 1] = x
  OBVIOUS
<1> HIDE DEF t
<1>2. ASSUME NEW switch \in Switches
      PROVE  Holds(t, switch) <=> Holds(s, switch) \/ x.switch = switch
  BY <1>1 DEF Holds
<1>3. ASSUME NEW value \in BOOLEAN
      PROVE  LastSets(t, value)
               <=> IF x.switch = "mdlog" THEN x.value = value
                                         ELSE LastSets(s, value)
  <2>1. CASE x.switch = "mdlog"
    <3>1. LastSets(t, value) => x.value = value
      BY <1>1, <2>1 DEF LastSets
    <3>2. x.value = value => LastSets(t, value)
      BY <1>1, <2>1 DEF LastSets
    <3> QED BY <2>1, <3>1, <3>2
  <2>2. CASE x.switch # "mdlog"
    <3>1. LastSets(t, value) => LastSets(s, value)
      BY <1>1, <2>2 DEF LastSets
    <3>2. LastSets(s, value) => LastSets(t, value)
      BY <1>1, <2>2 DEF LastSets
    <3> QED BY <2>2, <3>1, <3>2
  <2> QED BY <2>1, <2>2
<1> QED BY <1>2, <1>3 DEF t

LEMMA ChangedHolds ==
  ASSUME NEW s \in Seq(Triggers), NEW switch \in Switches, NEW value \in BOOLEAN
  PROVE  /\ \A other \in Switches :
              Holds(Append(s, Changed(switch, value)), other)
                <=> Holds(s, other) \/ other = switch
         /\ switch = "mdlog" =>
              LastSets(Append(s, Changed(switch, value)), value)
         /\ switch # "mdlog" =>
              \A last \in BOOLEAN :
                LastSets(Append(s, Changed(switch, value)), last)
                  <=> LastSets(s, last)
<1> DEFINE x == Changed(switch, value)
<1>1. x \in Triggers /\ x.switch = switch /\ x.value = value
  BY DEF Changed, Triggers
<1> HIDE DEF x
<1>2. \A other \in Switches :
        Holds(Append(s, x), other) <=> Holds(s, other) \/ other = switch
  BY <1>1, AppendHolds
<1>3. switch = "mdlog" => LastSets(Append(s, x), value)
  BY <1>1, AppendHolds
<1>4. switch # "mdlog" =>
        \A last \in BOOLEAN : LastSets(Append(s, x), last) <=> LastSets(s, last)
  BY <1>1, AppendHolds
<1> QED BY <1>2, <1>3, <1>4 DEF x

\* A trigger that runs.
LEMMA TailHolds ==
  ASSUME NEW s \in Seq(Triggers), s # <<>>
  PROVE  /\ \A switch \in Switches :
              Holds(s, switch)
                <=> Head(s).switch = switch \/ Holds(Tail(s), switch)
         /\ \A value \in BOOLEAN :
              LastSets(s, value) =>
                /\ LastSets(Tail(s), value)
                /\ Head(s).switch = "mdlog" /\ ~Holds(Tail(s), "mdlog")
                     => Head(s).value = value
<1> DEFINE t == Tail(s)
<1>1. /\ t \in Seq(Triggers) /\ DOMAIN t = 1..(Len(s) - 1) /\ Len(s) \in Nat
      /\ Len(s) > 0
      /\ DOMAIN s = 1..Len(s)
      /\ \A i \in 1..(Len(s) - 1) : t[i] = s[i + 1]
      /\ Head(s) = s[1]
  OBVIOUS
<1> HIDE DEF t
<1>2. ASSUME NEW switch \in Switches
      PROVE  Holds(s, switch) <=> Head(s).switch = switch \/ Holds(t, switch)
  <2>1. ASSUME Holds(s, switch) PROVE Head(s).switch = switch \/ Holds(t, switch)
    <3>1. PICK i \in 1..Len(s) : s[i].switch = switch
      BY <1>1, <2>1 DEF Holds
    <3>2. i = 1 \/ (i - 1 \in 1..(Len(s) - 1) /\ t[i - 1] = s[i])
      BY <1>1, <3>1
    <3> QED BY <1>1, <3>1, <3>2 DEF Holds
  <2>2. ASSUME Head(s).switch = switch \/ Holds(t, switch) PROVE Holds(s, switch)
    BY <1>1, <2>2 DEF Holds
  <2> QED BY <2>1, <2>2
<1>3. ASSUME NEW value \in BOOLEAN, LastSets(s, value)
      PROVE  /\ LastSets(t, value)
             /\ Head(s).switch = "mdlog" /\ ~Holds(t, "mdlog")
                  => Head(s).value = value
  <2>1. LastSets(t, value)
    <3>1. ASSUME NEW i \in 1..(Len(s) - 1), t[i].switch = "mdlog",
                 \A j \in 1..(Len(s) - 1) : j > i => t[j].switch # "mdlog"
          PROVE  t[i].value = value
      <4>1. \A j \in 1..Len(s) : j > i + 1 => s[j].switch # "mdlog"
        <5>1. SUFFICES ASSUME NEW j \in 1..Len(s), j > i + 1
                       PROVE  s[j].switch # "mdlog"
          OBVIOUS
        <5>2. j - 1 \in 1..(Len(s) - 1) /\ j - 1 > i /\ t[j - 1] = s[j]
          BY <1>1, <5>1
        <5> QED BY <3>1, <5>2
      <4>2. i + 1 \in 1..Len(s) /\ s[i + 1] = t[i]
        BY <1>1
      <4> QED BY <1>1, <1>3, <3>1, <4>1, <4>2 DEF LastSets
    <3> QED BY <1>1, <3>1 DEF LastSets
  <2>2. ASSUME Head(s).switch = "mdlog", ~Holds(t, "mdlog")
        PROVE  Head(s).value = value
    <3>1. \A j \in 1..Len(s) : j > 1 => s[j].switch # "mdlog"
      <4>1. SUFFICES ASSUME NEW j \in 1..Len(s), j > 1
                     PROVE  s[j].switch # "mdlog"
        OBVIOUS
      <4>2. j - 1 \in 1..(Len(s) - 1) /\ t[j - 1] = s[j]
        BY <1>1, <4>1
      <4> QED BY <1>1, <2>2, <4>2 DEF Holds
    <3> QED BY <1>1, <1>3, <2>2, <3>1 DEF LastSets
  <2> QED BY <2>1, <2>2
<1> QED BY <1>2, <1>3 DEF t

LEMMA InitFollow == Init => DumpInv /\ FollowInv
BY BudgetAssumption DEF Init, DumpInv, FollowInv, LoggerObeys, Holds, LastSets

LEMMA NextDumpInv == TypeOK /\ DumpInv /\ [Next]_vars => DumpInv'
BY DEF TypeOK, DumpInv, Next, DumpModemThread, InitTriggers, DumpstateBoard,
       ReadEnabled, ReadStarted, StopLogger, WaitForLogger, CopyDiagLogs,
       RestartLogger, StartEfsDump, CopyOtherLogs, CreateTarFile, SendTarFile,
       RemoveDir, RemoveTar, SetVerboseLoggingEnabled, VerboseTrigger,
       PersistTrigger, StartTrigger, StopTrigger, KillLogger, OtherSets, Crash,
       Quiescent, vars, properties, init, locals, files, history, RanBefore

LEMMA NextFollow == TypeOK /\ DumpInv /\ FollowInv /\ [Next]_vars => FollowInv'
<1> SUFFICES ASSUME TypeOK, DumpInv, FollowInv, [Next]_vars,
                    build' = "user"
             PROVE  FollowInv'
  BY DEF FollowInv
<1> USE DEF properties, init, locals, files, history, LoggerObeys
<1> DEFINE Types ==
      /\ verbose \in BOOLEAN /\ persistMdlog \in BOOLEAN /\ mdlog \in BOOLEAN
      /\ mdlogOn \in BOOLEAN /\ stopper \in BOOLEAN /\ startLost \in BOOLEAN
      /\ stopLost \in BOOLEAN
      /\ queue \in Seq(Triggers)
<1>1. Types
  BY DEF TypeOK
<1>2. /\ {"verbose", "persist", "mdlog"} \subseteq Switches
      /\ \A switch \in Switches, value \in BOOLEAN :
           /\ Changed(switch, value) \in Triggers
           /\ Changed(switch, value).switch = switch
           /\ Changed(switch, value).value = value
  BY DEF Switches, Changed, Triggers
\* The modem thread.
<1>3. CASE \/ DumpstateBoard \/ ReadEnabled \/ ReadStarted \/ WaitForLogger
           \/ CopyDiagLogs \/ StartEfsDump \/ CopyOtherLogs \/ CreateTarFile
           \/ SendTarFile \/ RemoveDir \/ RemoveTar
  BY <1>1, <1>3
  DEF FollowInv, DumpInv, Stopped, DumpstateBoard, ReadEnabled, ReadStarted,
      WaitForLogger, CopyDiagLogs, StartEfsDump, CopyOtherLogs, CreateTarFile,
      SendTarFile, RemoveDir, RemoveTar
<1>4. CASE StopLogger
  <2>1. queue' = Append(queue, Changed("mdlog", FALSE)) /\ mdlog' = FALSE
    BY <1>4 DEF StopLogger
  <2>2. /\ \A switch \in Switches :
             Holds(queue', switch) <=> Holds(queue, switch) \/ switch = "mdlog"
        /\ LastSets(queue', FALSE)
    BY <1>1, <1>2, <2>1, ChangedHolds
  <2>3. Stopped' /\ UNCHANGED <<build, verbose, persistMdlog, startLost>>
    BY <1>4 DEF DumpInv, Stopped, StopLogger
  <2> QED BY <1>1, <1>2, <2>1, <2>2, <2>3 DEF FollowInv
<1>5. CASE RestartLogger
  <2>1. CASE diagLogEnabled /\ diagLogStarted
    <3>1. queue' = Append(queue, Changed("mdlog", TRUE)) /\ mdlog'
      BY <1>5, <2>1 DEF RestartLogger, RanBefore
    <3>2. /\ \A switch \in Switches :
               Holds(queue', switch) <=> Holds(queue, switch) \/ switch = "mdlog"
          /\ LastSets(queue', TRUE)
      BY <1>1, <1>2, <3>1, ChangedHolds
    <3>3. verbose
      BY <1>5 DEF DumpInv, RestartLogger
    <3> QED BY <1>1, <1>2, <1>5, <3>1, <3>2, <3>3 DEF FollowInv, RestartLogger
  <2>2. CASE ~(diagLogEnabled /\ diagLogStarted)
    BY <1>1, <1>5, <2>2 DEF FollowInv, Stopped, RestartLogger, RanBefore
  <2> QED BY <2>1, <2>2
<1>6. ASSUME NEW value \in BOOLEAN, SetVerboseLoggingEnabled(value)
      PROVE  FollowInv'
  <2>1. queue' = Append(queue, Changed("verbose", value))
    BY <1>6 DEF SetVerboseLoggingEnabled
  <2>2. /\ \A switch \in Switches :
             Holds(queue', switch) <=> Holds(queue, switch) \/ switch = "verbose"
        /\ LastSets(queue', mdlog) <=> LastSets(queue, mdlog)
    BY <1>1, <1>2, <2>1, ChangedHolds
  <2> QED BY <1>1, <1>2, <1>6, <2>2
          DEF FollowInv, Stopped, SetVerboseLoggingEnabled
\* The triggers.
<1>7. ASSUME queue # <<>>
      PROVE  /\ Tail(queue) \in Seq(Triggers) /\ Head(queue) \in Triggers
             /\ \A switch \in Switches :
                  Holds(queue, switch)
                    <=> Head(queue).switch = switch \/ Holds(Tail(queue), switch)
             /\ \A value \in BOOLEAN :
                  LastSets(queue, value) =>
                    /\ LastSets(Tail(queue), value)
                    /\ Head(queue).switch = "mdlog" /\ ~Holds(Tail(queue), "mdlog")
                         => Head(queue).value = value
  BY <1>1, <1>7, TailHolds
<1>8. CASE VerboseTrigger
  <2>1. /\ queue # <<>> /\ Head(queue).switch = "verbose"
        /\ persistMdlog' = verbose
        /\ queue' = Append(Tail(queue), Changed("persist", verbose))
    BY <1>8 DEF VerboseTrigger, Followed
  <2>2. \A switch \in Switches :
          Holds(queue', switch) <=> Holds(Tail(queue), switch) \/ switch = "persist"
    BY <1>1, <1>2, <1>7, <2>1, ChangedHolds
  <2>3. LastSets(queue', mdlog) <=> LastSets(Tail(queue), mdlog)
    <3>1. PICK v \in BOOLEAN : v = verbose
      BY <1>1
    <3>2. Tail(queue) \in Seq(Triggers) /\ "persist" \in Switches
          /\ "persist" # "mdlog" /\ mdlog \in BOOLEAN
      BY <1>1, <1>2, <1>7, <2>1
    <3>3. PICK s \in Seq(Triggers) : s = Tail(queue)
      BY <3>2
    <3>4. LastSets(Append(s, Changed("persist", v)), mdlog) <=> LastSets(s, mdlog)
      BY <3>2, ChangedHolds
    <3> QED BY <2>1, <3>1, <3>3, <3>4
  <2> QED BY <1>1, <1>2, <1>7, <1>8, <2>1, <2>2, <2>3
          DEF FollowInv, Stopped, VerboseTrigger
<1>9. CASE PersistTrigger
  <2>1. /\ queue # <<>> /\ Head(queue).switch = "persist"
        /\ mdlog' = persistMdlog
        /\ queue' = Append(Tail(queue), Changed("mdlog", persistMdlog))
    BY <1>9 DEF PersistTrigger
  <2>2. /\ \A switch \in Switches :
             Holds(queue', switch) <=> Holds(Tail(queue), switch) \/ switch = "mdlog"
        /\ LastSets(queue', persistMdlog)
    <3>1. PICK v \in BOOLEAN : v = persistMdlog
      BY <1>1
    <3>2. Tail(queue) \in Seq(Triggers) /\ "mdlog" \in Switches
      BY <1>2, <1>7, <2>1
    <3>3. PICK s \in Seq(Triggers) : s = Tail(queue)
      BY <3>2
    <3>4. \A switch \in Switches :
            Holds(Append(s, Changed("mdlog", v)), switch)
              <=> Holds(s, switch) \/ switch = "mdlog"
      BY <3>2, ChangedHolds
    <3>5. LastSets(Append(s, Changed("mdlog", v)), v)
      BY <3>2, ChangedHolds
    <3> QED BY <2>1, <3>1, <3>3, <3>4, <3>5
  <2> QED BY <1>1, <1>2, <1>7, <1>9, <2>1, <2>2 DEF FollowInv, Stopped, PersistTrigger
<1>10. CASE StartTrigger
  <2>1. queue # <<>> /\ Head(queue).switch = "mdlog" /\ Head(queue).value
    BY <1>2, <1>10 DEF StartTrigger
  <2> QED BY <1>1, <1>2, <1>7, <1>10, <2>1
          DEF FollowInv, Stopped, StartTrigger, StartLogger, MayStart
<1>11. CASE StopTrigger
  <2>1. queue # <<>> /\ Head(queue).switch = "mdlog" /\ ~Head(queue).value
    BY <1>2, <1>11 DEF StopTrigger
  <2> QED BY <1>1, <1>2, <1>7, <1>11, <2>1 DEF FollowInv, Stopped, StopTrigger
\* The others.
<1>12. CASE KillLogger
  <2>1. UNCHANGED <<build, verbose, persistMdlog, mdlog, queue, startLost, pc,
                    diagLogEnabled, diagLogStarted>>
    BY <1>12 DEF KillLogger
  <2>2. ASSUME ~mdlog PROVE LoggerObeys'
    <3>1. mdlog = FALSE
      BY <1>1, <2>2
    <3>2. mdlog' = FALSE /\ stopper' = FALSE
      BY <1>12, <2>1, <3>1 DEF KillLogger
    <3>3. mdlogOn' = FALSE \/ (mdlogOn' /\ stopLost')
      BY <1>12 DEF KillLogger
    <3> QED BY <3>2, <3>3
  <2>3. stopper
    BY <1>12 DEF KillLogger
  <2> HIDE DEF LoggerObeys
  <2>4. LoggerObeys => ~mdlog
    BY <2>3 DEF LoggerObeys
  <2> QED BY <2>1, <2>2, <2>3, <2>4 DEF FollowInv, Stopped
<1>13. CASE Crash
  BY <1>1, <1>13 DEF FollowInv, DumpInv, Stopped, Crash
<1>15. ASSUME NEW value \in BOOLEAN, OtherSets(value)
       PROVE  FollowInv'
  <2>1. queue' = Append(queue, Changed("mdlog", value)) /\ mdlog' = value
    BY <1>15 DEF OtherSets
  <2>2. /\ \A switch \in Switches :
             Holds(queue', switch) <=> Holds(queue, switch) \/ switch = "mdlog"
        /\ LastSets(queue', value)
    BY <1>1, <1>2, <2>1, ChangedHolds
  <2> QED BY <1>1, <1>2, <1>15, <2>1, <2>2 DEF FollowInv, OtherSets
<1>14. CASE UNCHANGED vars
  BY <1>14 DEF FollowInv, Stopped, vars
<1> QED
  BY <1>3, <1>4, <1>5, <1>6, <1>8, <1>9, <1>10, <1>11, <1>12, <1>13, <1>14,
     <1>15
  DEF Next, DumpModemThread, InitTriggers, Quiescent

\* LoggerFollowsVerbose: with nothing queued and no dump under way, each property
\* equals the one it follows, and so does the logger.
THEOREM LoggerFollows == Spec => []LoggerFollowsVerbose
<1>1. TypeOK /\ FollowInv => LoggerFollowsVerbose
  BY DEF TypeOK, FollowInv, LoggerObeys, LoggerFollowsVerbose, Quiet, Settled,
         Stopped, Holds
<1>2. Init => TypeOK /\ DumpInv /\ FollowInv
  BY InitIInv, InitFollow DEF IInv
<1>3. IInv /\ DumpInv /\ FollowInv /\ [Next]_vars => (DumpInv /\ FollowInv)'
  BY NextDumpInv, NextFollow DEF IInv
<1> QED BY <1>1, <1>2, <1>3, InitIInv, NextIInv, PTL DEF Spec, IInv

================================================================================
