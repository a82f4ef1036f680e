----------------------------- MODULE Fingerprint -----------------------------
(***************************************************************************)
(* init.fingerprint.sh and the two triggers of init.hardware.rc that start *)
(* it: the script restarts fps_hal while it fails to come up, and declares *)
(* success when it has.  fps_hal itself and init's handling of property    *)
(* triggers are the environment.                                           *)
(***************************************************************************)
EXTENDS Naturals

CONSTANTS
  MaxTimes,  \* the script's argument, max_init_retry_times
  MaxExits   \* bound: how often fps_hal may end

ASSUME MaxTimesAssumption == MaxTimes \in Nat \ {0}
ASSUME MaxExitsAssumption == MaxExits \in Nat

VARIABLES
  scriptPc,   \* where the script is; "off": not running
  retries,    \* init_retry_count
  fpsHal,     \* init.svc.vendor.fps_hal
  succeed,    \* vendor.fps.init.succeed is "true"
  booted,     \* sys.boot_completed is "1"
  events,     \* property changes init has still to handle
  exits,      \* how often fps_hal may still end
  \* History: the script has given fps_hal up; a start of the script found it
  \* about to end, and had no effect.
  gaveUp, startLost

fpsVars ==
  <<scriptPc, retries, fpsHal, succeed, booted, events, exits, gaveUp, startLost>>

ScriptPcs == {"off", "look", "retry", "start", "declare", "ending"}
FpsStates == {"stopped", "running", "restarting"}
FpsEvents == {"boot_completed", "succeed", "stopped"}

FpsInit ==
  /\ scriptPc = "off" /\ retries = 0
  /\ fpsHal = "running"
  /\ succeed = FALSE /\ booted = FALSE
  /\ events = {}
  /\ exits = MaxExits
  /\ gaveUp = FALSE /\ startLost = FALSE

----------------------------------------------------------------------------
(* The script. *)

\* As mutants: a service in any other state ends the loop; a service that runs is
\* waited for until it has been restarted.
LoopLeft == "ending"
OnceRestarted == IF retries > 0 THEN "declare" ELSE "look"

MoreToTry == retries < MaxTimes
OtherState == "look"
WhenRunning == "declare"

\* sleep 5, getprop, and the decision that follows.
LookAtService ==
  /\ scriptPc = "look"
  /\ CASE fpsHal = "stopped" /\ MoreToTry ->
            scriptPc' = "retry" /\ retries' = retries + 1 /\ UNCHANGED gaveUp
       [] fpsHal = "stopped" /\ ~MoreToTry ->
            scriptPc' = "ending" /\ gaveUp' = TRUE /\ UNCHANGED retries
       [] fpsHal = "running" ->
            scriptPc' = WhenRunning /\ UNCHANGED <<retries, gaveUp>>
       [] fpsHal = "restarting" ->
            scriptPc' = OtherState /\ UNCHANGED <<retries, gaveUp>>
  /\ UNCHANGED <<fpsHal, succeed, booted, events, exits, startLost>>

Retry ==
  /\ scriptPc = "retry"
  /\ succeed' = FALSE
  /\ scriptPc' = "start"
  /\ UNCHANGED <<retries, fpsHal, booted, events, exits, gaveUp, startLost>>

\* start of a service that runs already does nothing.
StartService ==
  /\ scriptPc = "start"
  /\ fpsHal' = "running"
  /\ scriptPc' = "look"
  /\ UNCHANGED <<retries, succeed, booted, events, exits, gaveUp, startLost>>

DeclareSuccess ==
  /\ scriptPc = "declare"
  /\ succeed' = TRUE
  /\ events' = events \cup {"succeed"}
  /\ scriptPc' = "ending"
  /\ UNCHANGED <<retries, fpsHal, booted, exits, gaveUp, startLost>>

\* The process ends and init notices.
ScriptEnds ==
  /\ scriptPc = "ending"
  /\ scriptPc' = "off"
  /\ UNCHANGED <<retries, fpsHal, succeed, booted, events, exits, gaveUp,
                 startLost>>

----------------------------------------------------------------------------
(* init and fps_hal. *)

\* "start init-fingerprint-sh": a oneshot service that runs is left alone.
StartScript ==
  IF scriptPc = "off"
  THEN /\ scriptPc' = "look" /\ retries' = 0
       /\ gaveUp' = FALSE /\ startLost' = FALSE
  ELSE /\ startLost' = (scriptPc \in {"declare", "ending"})
       /\ UNCHANGED <<scriptPc, retries, gaveUp>>

\* The triggers: sys.boot_completed=1, and succeed=true with fps_hal stopped,
\* looked at whenever one of the two properties has changed.
Triggered(e) ==
  \/ e = "boot_completed"
  \/ e \in {"succeed", "stopped"} /\ succeed /\ (e = "stopped" \/ fpsHal = "stopped")

HandleEvent(e) ==
  /\ e \in events
  /\ events' = events \ {e}
  /\ IF Triggered(e) THEN StartScript
     ELSE UNCHANGED <<scriptPc, retries, gaveUp, startLost>>
  /\ UNCHANGED <<fpsHal, succeed, booted, exits>>

BootCompleted ==
  /\ ~booted
  /\ booted' = TRUE
  /\ events' = events \cup {"boot_completed"}
  /\ UNCHANGED <<scriptPc, retries, fpsHal, succeed, exits, gaveUp, startLost>>

\* fps_hal ends, for good or to be restarted by init.
ServiceEnds ==
  /\ fpsHal = "running" /\ exits > 0
  /\ exits' = exits - 1
  /\ \/ fpsHal' = "stopped" /\ events' = events \cup {"stopped"}
     \/ fpsHal' = "restarting" /\ UNCHANGED events
  /\ UNCHANGED <<scriptPc, retries, succeed, booted, gaveUp, startLost>>

ServiceRestarts ==
  /\ fpsHal = "restarting"
  /\ fpsHal' = "running"
  /\ UNCHANGED <<scriptPc, retries, succeed, booted, events, exits, gaveUp,
                 startLost>>

\* A reboot; the properties do not outlive it.
RebootFps ==
  /\ scriptPc' = "off" /\ retries' = 0
  /\ fpsHal' = "running"
  /\ succeed' = FALSE /\ booted' = FALSE
  /\ events' = {}
  /\ gaveUp' = FALSE /\ startLost' = FALSE
  /\ UNCHANGED exits

----------------------------------------------------------------------------

Script ==
  LookAtService \/ Retry \/ StartService \/ DeclareSuccess \/ ScriptEnds

InitDaemon == (\E e \in FpsEvents : HandleEvent(e)) \/ ServiceRestarts

FpsNext == Script \/ InitDaemon \/ BootCompleted \/ ServiceEnds

FpsFairness == WF_fpsVars(Script) /\ WF_fpsVars(InitDaemon)

FpsSpec == FpsInit /\ [][FpsNext]_fpsVars /\ FpsFairness

----------------------------------------------------------------------------
(* Properties. *)

FpsTypeOK ==
  /\ scriptPc \in ScriptPcs /\ retries \in 0..MaxTimes
  /\ fpsHal \in FpsStates /\ succeed \in BOOLEAN /\ booted \in BOOLEAN
  /\ events \subseteq FpsEvents
  /\ exits \in Nat
  /\ gaveUp \in BOOLEAN /\ startLost \in BOOLEAN

\* "It keeps running until max init retry or fps_hal running successfully"
\* (init.hardware.rc:752), and a service that stops after that starts it again:
\* fps_hal is stopped with nobody looking after it only when the script has
\* used up its retries, or when it stopped in the moment between the script's
\* last look and its end, in which init finds the script running.
SupervisedUnlessLost ==
  booted /\ fpsHal = "stopped" /\ scriptPc = "off" /\ events = {}
    => gaveUp \/ startLost

\* A service that was given up is not one that succeeded, whatever an earlier
\* run of the script had declared.
GivenUpIsNotSuccess == gaveUp => ~succeed

\* A service that stays up is declared to have succeeded, however often it
\* ended before.
SucceedsInTheEnd == <>[](booted /\ fpsHal = "running") => <>[]succeed

----------------------------------------------------------------------------
(* The inductive invariant behind the first two. *)

\* init will look at the second trigger again.
TriggerPending == events \cap {"succeed", "stopped"} # {}

FpsInv ==
  /\ FpsTypeOK
  /\ gaveUp => scriptPc \in {"ending", "off"} /\ ~succeed
  /\ scriptPc \in {"look", "start"} /\ retries > 0 => ~succeed
  /\ scriptPc = "ending" /\ ~gaveUp =>
       succeed /\ (fpsHal = "stopped" => startLost \/ TriggerPending)
  /\ (/\ scriptPc = "off" /\ booted /\ "boot_completed" \notin events
      /\ ~gaveUp /\ ~startLost)
       => succeed /\ (fpsHal = "stopped" => TriggerPending)

===============================================================================
