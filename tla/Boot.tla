--------------------------------- MODULE Boot ---------------------------------
(***************************************************************************)
(* The boot as init.hardware.rc stages it, with the scripts it starts:     *)
(* init.insmod.sh and init.qcom.devstart.sh in the background,             *)
(* wait_for_strongbox in its way, init.radio.sh (RadioConfig), and, once   *)
(* the system is up, init.fingerprint.sh (Fingerprint) and the receiver of *)
(* BOOT_COMPLETED (EuiccDisabler).  The device may reboot at any point.    *)
(***************************************************************************)
EXTENDS Fingerprint, RadioConfig, EuiccDisabler

CONSTANTS
  HasModuleList,  \* /vendor/etc/init.insmod.cfg is there
  MaxReboots,     \* bound: reboots
  MaxAccidents    \* bound: everything that goes wrong, together

ASSUME BootAssumption ==
  HasModuleList \in BOOLEAN /\ MaxReboots \in Nat /\ MaxAccidents \in Nat

VARIABLES
  stage,       \* the trigger init has got to
  keymasters,  \* the keymaster HALs that are registered
  background,  \* where insmod_sh and devstart_sh are
  daemons,     \* the daemons that were started
  properties,  \* the properties wait_for_prop waits for that are set
  reboots      \* how often the device may still reboot

initVars == <<stage, keymasters, background, daemons, properties, reboots>>
vars == <<initVars, fpsVars, radioVars, euiccVars>>

Keymasters == {"tee", "strongbox"}
BackgroundScripts == {"insmod", "devstart"}
Stages == <<"init", "lateFs", "strongbox", "postFsData", "zygoteStart", "earlyBoot",
            "boot", "completed">>

\* Who sets the other three properties that are waited for.
Announces ==
  [hwservicemanager |-> "hwservicemanager.ready",
   qseecomd         |-> "vendor.sys.listeners.registered",
   time_daemon      |-> "vendor.qcom.time.set"]
Daemons == DOMAIN Announces
Properties == {Announces[d] : d \in Daemons}
                \cup {"vendor.qcom.devup", "vendor.all.modules.ready"}

PowerOn ==
  [stage |-> "init", background |-> [s \in BackgroundScripts |-> "off"]]

BootInit ==
  /\ stage = PowerOn.stage
  /\ keymasters = {}
  /\ background = PowerOn.background
  /\ daemons = {}
  /\ properties = {}
  /\ reboots = MaxReboots
  /\ FpsInit /\ RadioInit /\ EuiccInit

----------------------------------------------------------------------------
(* init. *)

\* on init: qseecomd, the keymasters and insmod_sh are started, and
\* hwservicemanager by the platform's own init.rc.
InitStage ==
  /\ stage = "init"
  /\ stage' = "lateFs"
  /\ daemons' = {"hwservicemanager", "qseecomd"}
  /\ background' = [background EXCEPT !["insmod"] = "working"]
  /\ UNCHANGED <<keymasters, properties, reboots, fpsVars, radioVars, euiccVars>>

\* on late-fs: devstart_sh is started before init waits for anything.
StartDevstart ==
  /\ stage = "lateFs" /\ background["devstart"] = "off"
  /\ background' = [background EXCEPT !["devstart"] = "working"]
  /\ UNCHANGED <<stage, keymasters, daemons, properties, reboots, fpsVars, radioVars,
                 euiccVars>>

\* wait_for_prop hwservicemanager.ready.
WaitForManager ==
  /\ stage = "lateFs" /\ background["devstart"] # "off"
  /\ "hwservicemanager.ready" \in properties
  /\ stage' = "strongbox"
  /\ UNCHANGED <<keymasters, background, daemons, properties, reboots, fpsVars,
                 radioVars, euiccVars>>

\* exec_start wait_for_strongbox: it ends with the first look that finds both;
\* what an earlier look has found is forgotten.  Then the rest of late-fs:
\* mount_all, and time_daemon is started.
WaitForStrongbox ==
  /\ stage = "strongbox"
  /\ keymasters = Keymasters
  /\ stage' = "postFsData"
  /\ daemons' = daemons \cup {"time_daemon"}
  /\ UNCHANGED <<keymasters, background, properties, reboots, fpsVars, radioVars,
                 euiccVars>>

\* on post-fs-data: wait_for_prop for what time_daemon and qseecomd set.
PostFsData ==
  /\ stage = "postFsData"
  /\ {"vendor.qcom.time.set", "vendor.sys.listeners.registered"} \subseteq properties
  /\ stage' = "zygoteStart"
  /\ UNCHANGED <<keymasters, background, daemons, properties, reboots, fpsVars,
                 radioVars, euiccVars>>

ZygoteStart ==
  /\ stage = "zygoteStart"
  /\ stage' = "earlyBoot"
  /\ ResetRadioFlags
  /\ UNCHANGED <<keymasters, background, daemons, properties, reboots, fpsVars, euiccVars>>

\* on early-boot: the two wait_for_prop.
EarlyBoot ==
  /\ stage = "earlyBoot"
  /\ {"vendor.qcom.devup", "vendor.all.modules.ready"} \subseteq properties
  /\ stage' = "boot"
  /\ UNCHANGED <<keymasters, background, daemons, properties, reboots, fpsVars,
                 radioVars, euiccVars>>

\* class_start late_start.
LateStart ==
  /\ stage = "boot"
  /\ StartRadio
  /\ UNCHANGED <<initVars, fpsVars, euiccVars>>

\* The system sets sys.boot_completed and sends BOOT_COMPLETED.
Completed ==
  /\ stage = "boot" /\ radioPc # "flagsReset"
  /\ stage' = "completed"
  /\ BootCompleted
  /\ OnReceive
  /\ UNCHANGED <<keymasters, background, daemons, properties, reboots, radioVars>>

----------------------------------------------------------------------------
(* The background scripts. *)

\* As a mutant: the property is only set with a list to work through.
ReadyWithList == HasModuleList

ReadyAnyway == TRUE

\* init.insmod.sh: a module that cannot be loaded is passed over.
InsmodReady ==
  /\ background["insmod"] = "working"
  /\ background' = [background EXCEPT !["insmod"] = "ended"]
  /\ properties' = IF ReadyAnyway THEN properties \cup {"vendor.all.modules.ready"}
                   ELSE properties
  /\ UNCHANGED <<stage, keymasters, daemons, reboots, fpsVars, radioVars, euiccVars>>

\* init.qcom.devstart.sh: whatever becomes of init.edge_sense.sh.
DevUp ==
  /\ background["devstart"] = "working"
  /\ background' = [background EXCEPT !["devstart"] = "ended"]
  /\ properties' = properties \cup {"vendor.qcom.devup"}
  /\ UNCHANGED <<stage, keymasters, daemons, reboots, fpsVars, radioVars, euiccVars>>

----------------------------------------------------------------------------
(* The environment. *)

\* A daemon that was started gets as far as setting its property.
DaemonReady(d) ==
  /\ d \in daemons /\ Announces[d] \notin properties
  /\ properties' = properties \cup {Announces[d]}
  /\ UNCHANGED <<stage, keymasters, background, daemons, reboots, fpsVars, radioVars,
                 euiccVars>>

\* A keymaster HAL registers itself, or dies until init has restarted it, while
\* wait_for_strongbox looks for it.
KeymasterComesOrGoes ==
  /\ stage = "strongbox"
  /\ \E k \in Keymasters :
       keymasters' = IF k \in keymasters THEN keymasters \ {k}
                     ELSE keymasters \cup {k}
  /\ UNCHANGED <<stage, background, daemons, properties, reboots, fpsVars, radioVars,
                 euiccVars>>

Reboot ==
  /\ reboots > 0
  /\ reboots' = reboots - 1
  /\ stage' = PowerOn.stage
  /\ keymasters' = {}
  /\ background' = PowerOn.background
  /\ daemons' = {}
  /\ properties' = {}
  /\ RebootFps /\ RebootRadio /\ RebootEuicc

----------------------------------------------------------------------------

InitProcess ==
  \/ InitStage \/ StartDevstart \/ WaitForManager \/ WaitForStrongbox \/ PostFsData
  \/ ZygoteStart \/ EarlyBoot \/ LateStart

\* Reboots, ends of fps_hal, dependencies that change, failing file operations.
Accidents ==
  (MaxReboots - reboots) + (MaxExits - exits) + (MaxToggles - toggles)
    + (IF failed THEN 1 ELSE 0)

FpsStep == (Script \/ InitDaemon \/ ServiceEnds)
             /\ UNCHANGED <<initVars, radioVars, euiccVars>>
RadioStep == RadioScript /\ UNCHANGED <<initVars, fpsVars, euiccVars>>
EuiccStep == (Receiver \/ Toggle) /\ UNCHANGED <<initVars, fpsVars, radioVars>>

BootNext ==
  /\ \/ InitProcess \/ Completed \/ InsmodReady \/ DevUp
     \/ KeymasterComesOrGoes \/ (\E d \in Daemons : DaemonReady(d))
     \/ Reboot
     \/ FpsStep \/ RadioStep \/ EuiccStep
  /\ Accidents' <= MaxAccidents

\* init and the scripts run, and so does the system that completes the boot.
BootFairness ==
  /\ WF_vars(InitProcess) /\ WF_vars(Completed)
  /\ WF_vars(InsmodReady) /\ WF_vars(DevUp)
  /\ WF_vars(Script /\ UNCHANGED <<initVars, radioVars, euiccVars>>)
  /\ WF_vars(InitDaemon /\ UNCHANGED <<initVars, radioVars, euiccVars>>)

BootSpec == BootInit /\ [][BootNext]_vars /\ BootFairness

----------------------------------------------------------------------------
(* Properties. *)

BootTypeOK ==
  /\ \E i \in DOMAIN Stages : stage = Stages[i]
  /\ keymasters \subseteq Keymasters
  /\ background \in [BackgroundScripts -> {"off", "working", "ended"}]
  /\ daemons \subseteq Daemons
  /\ properties \subseteq Properties
  /\ reboots \in Nat
  /\ FpsTypeOK /\ RadioTypeOK /\ EuiccTypeOK

\* The processes init waits for do their part in the end: both keymasters stay,
\* and each daemon that was started has set its property.
OthersReady ==
  /\ keymasters = Keymasters
  /\ \A d \in daemons : Announces[d] \in properties

\* "set property even if there is no insmod config as property value "1" is
\* expected in early-boot trigger" (init.insmod.sh:22): init waits for five
\* properties and two keymasters, and gets past all of them.  None is waited for
\* before what sets it was started, and both scripts set theirs whatever they meet
\* with; of the daemons and the keymasters that is the premise.
BootCompletes == <>[]OthersReady => <>[](stage = "completed")

\* The inductive invariant: the components' own.
BootInv == BootTypeOK /\ FpsInv /\ RadioInv /\ EuiccInv

===============================================================================
