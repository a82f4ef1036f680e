------------------------------- MODULE Dumpstate -------------------------------
(***************************************************************************)
(* The modem part of a bug report: dumpstateBoard_1_1 and the thread it    *)
(* starts (dumpstate/DumpstateDevice.cpp), which stops the modem logger,   *)
(* copies its files, starts it again and hands a tar file to the client;   *)
(* and the property triggers of init (init.hardware.diag.rc.user and       *)
(* .userdebug) through which it does so.                                   *)
(*                                                                         *)
(* The HAL has one binder thread, and a dump joins its modem thread: one   *)
(* pc stands for both.  A property changes at once, its triggers run       *)
(* later, in order.  The logger, diag_mdlog, and the one that kills it,    *)
(* diag_mdlog -k, are external: a logger that is up says so in mdlog_on,   *)
(* and the other one finds it by its pid file, or may not without.         *)
(***************************************************************************)
EXTENDS Naturals, Sequences

CONSTANTS
  Builds,  \* build types: each has init files of its own
  Budget   \* bound: how often each kind of outside event may happen

Kinds == {"dumps", "switches", "crashes", "others", "faults"}

ASSUME BuildsAssumption == Builds \subseteq {"user", "userdebug"} /\ Builds # {}
ASSUME BudgetAssumption == Budget \in [Kinds -> Nat]

VARIABLES
  build,
  \* Properties: verbose_logging_enabled and modem.diag.mdlog, which persist,
  \* the switch modem.diag.mdlog, mdlog_on and efsdump.
  verbose, persistMdlog, mdlog, mdlogOn, efsdump,
  \* init: changes whose triggers have not run; whether diag_mdlog -k runs; the
  \* pid file of the logger that is up.
  queue, stopper, pidFile,
  \* The modem thread's place and locals.
  pc, diagLogEnabled, diagLogStarted,
  \* Whose logs are in the directory, in the tar file and with the client:
  \* those of this dump ("own") or of an earlier one ("stale").
  dir, tar, sent,
  \* What is left of the budget.  History: whether the current dump found init
  \* still busy, timed out, or was interfered with; whether, since init last
  \* passed verbose logging on, a start came while the logger was being killed, or
  \* was interfered with; whether the last diag_mdlog -k missed its logger; whether
  \* a dump left files.
  left, disturbed, startLost, stopLost, leftBehind

properties == <<verbose, persistMdlog, mdlog, mdlogOn, efsdump>>
init == <<queue, stopper, pidFile>>
locals == <<diagLogEnabled, diagLogStarted>>
files == <<dir, tar, sent>>
history == <<disturbed, startLost, stopLost, leftBehind>>
vars == <<build, properties, init, pc, locals, files, left, history>>

Switches == {"verbose", "persist", "mdlog"}
Pcs == {"idle", "enabled", "started", "stop", "wait", "copy", "restart", "more",
        "efs", "tar", "send", "rmDir", "rmTar"}
Whose == {"own", "stale"}

Spend(kind) == left[kind] > 0 /\ left' = [left EXCEPT ![kind] = @ - 1]

\* SetProperty and setprop: the value changes now, the trigger runs later.
Changed(switch, value) == [switch |-> switch, value |-> value]

Triggers == [switch : Switches, value : BOOLEAN]

\* At boot init has carried the switches through.
Init ==
  /\ build \in Builds
  /\ verbose \in BOOLEAN /\ persistMdlog \in BOOLEAN
  /\ build = "user" => persistMdlog = verbose
  /\ mdlog = persistMdlog
  /\ mdlogOn = (persistMdlog /\ verbose)
  /\ efsdump = FALSE
  /\ queue = <<>> /\ stopper = FALSE /\ pidFile = mdlogOn
  /\ pc = "idle" /\ diagLogEnabled = FALSE /\ diagLogStarted = FALSE
  /\ dir = {} /\ tar = {} /\ sent = {}
  /\ left = Budget
  /\ disturbed = FALSE /\ startLost = FALSE /\ stopLost = FALSE
  /\ leftBehind = FALSE

----------------------------------------------------------------------------
(* The HAL. *)

\* A modem thread is only started with verbose logging, a second descriptor and
\* enough resources.  Files an earlier dump has left are no longer this one's.
DumpstateBoard ==
  /\ pc = "idle"
  /\ Spend("dumps")
  /\ pc' \in IF verbose THEN {"enabled", "idle"} ELSE {"idle"}
  /\ dir' = IF dir = {} THEN {} ELSE {"stale"}
  /\ tar' = IF tar = {} THEN {} ELSE {"stale"}
  /\ sent' = {}
  /\ UNCHANGED <<build, properties, init, locals, history>>

ReadEnabled ==
  /\ pc = "enabled"
  /\ diagLogEnabled' = persistMdlog
  /\ pc' = "started"
  /\ UNCHANGED <<build, properties, init, diagLogStarted, files, left, history>>

\* Nothing init still has to do about earlier switches.
Settled == queue = <<>> /\ ~stopper

ReadStarted ==
  /\ pc = "started"
  /\ diagLogStarted' = mdlogOn
  /\ disturbed' = ~Settled
  /\ pc' = IF diagLogEnabled /\ mdlogOn THEN "stop" ELSE "copy"
  /\ UNCHANGED <<build, properties, init, diagLogEnabled, files, left, startLost,
                 stopLost, leftBehind>>

StopLogger ==
  /\ pc = "stop"
  /\ mdlog' = FALSE
  /\ queue' = Append(queue, Changed("mdlog", FALSE))
  /\ pc' = "wait"
  /\ UNCHANGED <<build, verbose, persistMdlog, mdlogOn, efsdump, stopper, pidFile,
                 locals, files, left, history>>

\* As a mutant: the logs are copied without waiting.
NoWait == TRUE

LoggerExited == ~mdlogOn

\* WaitForProperty returns when mdlog_on is false, or after ten seconds.
WaitForLogger ==
  /\ pc = "wait"
  /\ pc' = "copy"
  /\ (LoggerExited /\ UNCHANGED disturbed) \/ disturbed' = TRUE
  /\ UNCHANGED <<build, properties, init, locals, files, left, startLost, stopLost,
                 leftBehind>>

\* copyFile opens without O_TRUNC: a longer file of an earlier dump keeps its
\* tail, and its other files are there as well.
CopyDiagLogs ==
  /\ pc = "copy"
  /\ dir' = IF diagLogEnabled THEN dir \cup {"own"} ELSE dir
  /\ pc' = "restart"
  /\ UNCHANGED <<build, properties, init, locals, tar, sent, left, history>>

\* As a mutant: whether the logger ran is asked again after it was stopped.
RunsNow == mdlogOn

RanBefore == diagLogStarted

\* After it the power-on log is copied, if there is one.
RestartLogger ==
  /\ pc = "restart"
  /\ IF diagLogEnabled /\ RanBefore
     THEN mdlog' = TRUE /\ queue' = Append(queue, Changed("mdlog", TRUE))
     ELSE UNCHANGED <<mdlog, queue>>
  /\ dir' \in {dir, dir \cup {"own"}}
  /\ pc' = IF build = "user" THEN "tar" ELSE "more"
  /\ UNCHANGED <<build, verbose, persistMdlog, mdlogOn, efsdump, stopper, pidFile,
                 locals, tar, sent, left, history>>

\* Other builds also dump the modem's file system and the logs of the radio.
StartEfsDump ==
  /\ pc = "more"
  /\ efsdump' = TRUE
  /\ pc' = "efs"
  /\ UNCHANGED <<build, verbose, persistMdlog, mdlog, mdlogOn, init, locals,
                 files, left, history>>

CopyOtherLogs ==
  /\ pc = "efs"
  /\ dir' = dir \cup {"own"}
  /\ efsdump' = FALSE
  /\ pc' = "tar"
  /\ UNCHANGED <<build, verbose, persistMdlog, mdlog, mdlogOn, init, locals, tar,
                 sent, left, history>>

\* createTarFile does not truncate either.
CreateTarFile ==
  /\ pc = "tar"
  /\ tar' \in {dir, dir \cup tar}
  /\ pc' = "send"
  /\ UNCHANGED <<build, properties, init, locals, dir, sent, left, history>>

SendTarFile ==
  /\ pc = "send"
  /\ sent' = tar
  /\ pc' = "rmDir"
  /\ UNCHANGED <<build, properties, init, locals, dir, tar, left, history>>

\* As a mutant: the file is left where it is.
TarKept == tar

TarRemoved == {}

\* rm has two seconds.
RemoveDir ==
  /\ pc = "rmDir"
  /\ \/ dir' = {} /\ UNCHANGED <<left, leftBehind>>
     \/ Spend("faults") /\ leftBehind' = TRUE /\ UNCHANGED dir
  /\ pc' = "rmTar"
  /\ UNCHANGED <<build, properties, init, locals, tar, sent, disturbed, startLost,
                 stopLost>>

RemoveTar ==
  /\ pc = "rmTar"
  /\ \/ tar' = TarRemoved /\ UNCHANGED <<left, leftBehind>>
     \/ Spend("faults") /\ leftBehind' = TRUE /\ UNCHANGED tar
  /\ pc' = "idle"
  /\ UNCHANGED <<build, properties, init, locals, dir, sent, disturbed, startLost,
                 stopLost>>

\* Called when no dump is under way: there is no second thread.
SetVerboseLoggingEnabled(enable) ==
  /\ pc = "idle"
  /\ Spend("switches")
  /\ verbose' = enable
  /\ queue' = Append(queue, Changed("verbose", enable))
  /\ disturbed' = TRUE
  /\ UNCHANGED <<build, persistMdlog, mdlog, mdlogOn, efsdump, stopper, pidFile, pc,
                 locals, files, startLost, stopLost, leftBehind>>

----------------------------------------------------------------------------
(* init, and what it starts. *)

\* As a mutant: the user build only follows verbose logging being enabled.
OnlyEnabled(value) == value

Followed(value) == TRUE

\* Starting a service that runs does nothing, and a logger on its way out still
\* runs; one that comes up leaves its pid.
StartLogger(allowed) ==
  /\ mdlogOn' = (mdlogOn \/ allowed)
  /\ pidFile' = (IF mdlogOn THEN pidFile ELSE allowed)
  /\ startLost' = (startLost \/ stopper)

\* User builds pass verbose logging on to the modem logger, with the value the
\* property has by then.  The others do so at boot only; they start a logger that
\* is switched on.
VerboseTrigger ==
  /\ queue # <<>> /\ Head(queue).switch = "verbose"
  /\ IF build = "user" /\ Followed(Head(queue).value)
     THEN /\ persistMdlog' = verbose
          /\ queue' = Append(Tail(queue), Changed("persist", verbose))
     ELSE queue' = Tail(queue) /\ UNCHANGED persistMdlog
  /\ IF build # "user" /\ Head(queue).value /\ mdlog
     THEN StartLogger(TRUE)
     ELSE UNCHANGED <<mdlogOn, pidFile, startLost>>
  /\ UNCHANGED <<build, verbose, mdlog, efsdump, stopper, pc, locals, files, left,
                 disturbed, stopLost, leftBehind>>

\* The pid file is removed whatever the switch says.
PersistTrigger ==
  /\ queue # <<>> /\ Head(queue).switch = "persist"
  /\ mdlog' = persistMdlog
  /\ queue' = Append(Tail(queue), Changed("mdlog", persistMdlog))
  /\ pidFile' = FALSE
  /\ startLost' = FALSE
  /\ UNCHANGED <<build, verbose, persistMdlog, mdlogOn, efsdump, stopper, pc,
                 locals, files, left, disturbed, stopLost, leftBehind>>

MayStart == build = "user" \/ verbose

StartTrigger ==
  /\ queue # <<>> /\ Head(queue) = Changed("mdlog", TRUE)
  /\ StartLogger(MayStart)
  /\ queue' = Tail(queue)
  /\ UNCHANGED <<build, verbose, persistMdlog, mdlog, efsdump, stopper, pc, locals,
                 files, left, disturbed, stopLost, leftBehind>>

StopTrigger ==
  /\ queue # <<>> /\ Head(queue) = Changed("mdlog", FALSE)
  /\ stopper' = TRUE
  /\ queue' = Tail(queue)
  /\ UNCHANGED <<build, properties, pidFile, pc, locals, files, left, history>>

\* diag_mdlog -k: the logger is gone, and nobody started it again meanwhile.
\* Without a pid file it may have missed it.
KillLogger ==
  /\ stopper
  /\ stopper' = FALSE
  /\ \/ mdlogOn' = FALSE /\ pidFile' = FALSE /\ stopLost' = FALSE
     \/ mdlogOn /\ ~pidFile /\ stopLost' = TRUE /\ UNCHANGED <<mdlogOn, pidFile>>
  /\ UNCHANGED <<build, verbose, persistMdlog, mdlog, efsdump, queue, pc, locals,
                 files, left, disturbed, startLost, leftBehind>>

\* Another process turns the logger on or off.
OtherSets(value) ==
  /\ Spend("others")
  /\ mdlog' = value
  /\ queue' = Append(queue, Changed("mdlog", value))
  /\ disturbed' = TRUE /\ startLost' = TRUE
  /\ UNCHANGED <<build, verbose, persistMdlog, mdlogOn, efsdump, stopper, pidFile,
                 pc, locals, files, stopLost, leftBehind>>

\* The dump has stopped the logger and has not started it again.
Stopped ==
  pc \in {"wait", "copy", "restart"} /\ diagLogEnabled /\ diagLogStarted

\* The HAL dies in the middle of a dump, and init starts it again.
Crash ==
  /\ pc # "idle"
  /\ Spend("crashes")
  /\ pc' = "idle"
  /\ disturbed' = TRUE /\ leftBehind' = TRUE
  /\ startLost' = (startLost \/ Stopped)
  /\ UNCHANGED <<build, properties, init, locals, files, stopLost>>

Quiet == pc = "idle" /\ Settled

Quiescent == Quiet /\ left["dumps"] = 0 /\ UNCHANGED vars

----------------------------------------------------------------------------

DumpModemThread ==
  \/ ReadEnabled \/ ReadStarted \/ StopLogger \/ WaitForLogger \/ CopyDiagLogs
  \/ RestartLogger \/ StartEfsDump \/ CopyOtherLogs \/ CreateTarFile
  \/ SendTarFile \/ RemoveDir \/ RemoveTar

InitTriggers == VerboseTrigger \/ PersistTrigger \/ StartTrigger \/ StopTrigger

Next ==
  \/ DumpstateBoard \/ DumpModemThread
  \/ InitTriggers \/ KillLogger
  \/ \E value \in BOOLEAN : SetVerboseLoggingEnabled(value) \/ OtherSets(value)
  \/ Crash \/ Quiescent

\* The kernel runs the thread, init and what init has started.
Fairness ==
  WF_vars(DumpModemThread) /\ WF_vars(InitTriggers) /\ WF_vars(KillLogger)

Spec == Init /\ [][Next]_vars /\ Fairness

----------------------------------------------------------------------------
(* Properties. *)

TypeOK ==
  /\ build \in Builds
  /\ verbose \in BOOLEAN /\ persistMdlog \in BOOLEAN /\ mdlog \in BOOLEAN
  /\ mdlogOn \in BOOLEAN /\ efsdump \in BOOLEAN
  /\ queue \in Seq(Triggers) /\ stopper \in BOOLEAN /\ pidFile \in BOOLEAN
  /\ pc \in Pcs
  /\ diagLogEnabled \in BOOLEAN /\ diagLogStarted \in BOOLEAN
  /\ dir \in SUBSET Whose /\ tar \in SUBSET Whose /\ sent \in SUBSET Whose
  /\ left \in [Kinds -> Nat]
  /\ disturbed \in BOOLEAN /\ startLost \in BOOLEAN /\ stopLost \in BOOLEAN
  /\ leftBehind \in BOOLEAN

\* "Stopping diag_mdlog..." (DumpstateDevice.cpp:268): the logger's files are
\* copied while nobody writes them.  It is up only when the stop took more than
\* ten seconds, when another process interfered, or when the dump began before
\* init had carried out an earlier switch, whose start then comes in the middle.
CopiedAtRest ==
  pc \in {"copy", "restart"} /\ diagLogEnabled /\ diagLogStarted
    => ~mdlogOn \/ disturbed

\* "Restarting diag_mdlog..." (DumpstateDevice.cpp:294): a logger the dump has
\* stopped comes up again, however late init gets to it, or the dump was
\* disturbed in one of the ways above, or by a switch or a crash.
LoggerResumes ==
  (pc = "copy" /\ diagLogEnabled /\ diagLogStarted /\ ~mdlogOn)
    ~> (mdlogOn \/ disturbed)

\* On a user build the logger follows verbose logging, with any dumps and
\* switches before: once everything is quiet it is up exactly when verbose logging
\* is enabled.  What breaks it is a start that finds the logger still up, on its
\* way out, and does nothing; another process; and a HAL that dies between stopping
\* the logger and starting it again.  The next switch of verbose logging makes up
\* for each of these.  A logger that is up although verbose logging is disabled is
\* one that diag_mdlog -k has missed, its pid file having been removed.
LoggerFollowsVerbose ==
  Quiet /\ build = "user" =>
    mdlogOn = verbose \/ startLost \/ (mdlogOn /\ stopLost)

\* A client is handed the logs of its own dump only: no tail and no file of an
\* earlier one, unless a dump has failed to remove them or died before it could.
HandsOverThisDump == "stale" \in sent => leftBehind

================================================================================
