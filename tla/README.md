# Verification of the bonito device HALs

This directory holds TLA+ specifications of the programs in the device tree of the
Pixel 3a / 3a XL (LineageOS `android_device_google_bonito`), the TLC configurations that
model-check them and proofs checked by TLAPS. Paths are relative to the repository's root;
line numbers are those of the commit the specifications were read from. `PROJECT.json`
names the source lines each definition stands for (`map`), every run, every proved
theorem, the hazards of the code and, for each property, one plausible bug in the code
that the property notices (`mutants`).

Contents: [1 Inventory](#1-inventory) · [2 Modules](#2-modules) · [3 The USB gadget
HAL](#3-the-usb-gadget-hal) · [4 The USB HAL](#4-the-usb-hal) · [5 Both USB HALs over one
attribute](#5-both-usb-hals-over-one-attribute) · [6 The health HAL](#6-the-health-hal) ·
[7 The modem logger of a bug report](#7-the-modem-logger-of-a-bug-report) · [8 The
boot](#8-the-boot) · [9 The audio configuration
converter](#9-the-audio-configuration-converter) · [10 Runs](#10-runs) · [11
Proofs](#11-proofs) · [12 Where code and comments
disagree](#12-where-code-and-comments-disagree) · [13 Not modelled](#13-not-modelled) ·
[14 Plan](#14-plan)

## 1 Inventory

Most of the repository is data: kernel headers (`sdm710/`), SELinux policy, resource
overlays, XML and audio configuration, makefiles and the extraction scripts. The programs
with behaviour of their own are these.

| Component | State it keeps | Operations | Talks to |
|---|---|---|---|
| USB gadget HAL, `usb/gadget/UsbGadget.cpp` | the requested functions and whether they are applied, the endpoint list, the monitor thread, two mutexes, the condition variable's flag `gadgetPullup` | `setCurrentUsbFunctions`, `getCurrentUsbFunctions`, `reset`; `monitorFfs` on a thread | the configfs gadget and its `UDC` attribute, functionfs daemons (through inotify), `vendor.usb.config`, its client's callback |
| USB HAL, `usb/usb/Usb.cpp` | the callback, `mPartnerUp`, `mUsbDataEnabled`, `destroyThread`, three mutexes, the uevent thread | `setCallback`, `switchRole`, `enableUsbData`, `resetUsbPort`, `queryPortStatus`, unsupported calls that only answer; `work`/`uevent_event` on a thread; a signal handler | the type-c class in sysfs, uevents, the same `UDC` attribute, `usb_data_enabled`, its client's callback |
| Recharging control, `health/BatteryRechargingControl.cpp` | a five-state machine, the recharge target, the start time of a transition | `updateBatteryProperties` | the charger's status; called by `Health.cpp` with every battery update |
| Learned capacity, `health/LearnedCapacityBackupRestore.cpp` | three capacities | `Restore`, `Backup` | the gauge's `charge_full`, a file in the persist partition; called by `Health.cpp` |
| Health glue, `health/Health.cpp`, `BatteryInfoUpdate.cpp` | the two controls | runs them in order, with every update | healthd |
| Dumpstate HAL, `dumpstate/DumpstateDevice.cpp` | files it creates and removes, properties that stop and start the modem logger | `dumpstateBoard_1_1`, verbose logging switches, the modem log thread | init properties, the modem logger |
| Boot, `init.hardware.rc`, `init.*.sh`, `keymaster/wait_for_strongbox.cpp` | properties, files on `/data` | waiting for the keymasters, three daemons and two background scripts, retries of the fingerprint HAL, copies of the radio configuration | init, the keymasters, `hwservicemanager`, `qseecomd`, `time_daemon`, `fps_hal`, RIL |
| Power stats, `powerstats/service.cpp` | none of its own | registers data providers | an external library |
| eUICC disabler, `parts/` | which packages are enabled | enables or disables the eUICC packages after boot | the package manager |
| Audio converter, `audio/convert_config_string.py` | the configuration file | rewrites it for another sample depth and stores a new checksum | – |

What is hard in each of them, and what makes it correct:

* **USB gadget HAL.** Three kinds of thread act on one gadget without one lock that
  covers it: the binder threads (two, `service_gadget.cpp`) under
  `mLockSetCurrentFunction`, the monitor, which takes `mLock` only to publish, and
  `reset()`, which takes none; the USB HAL writes the same attribute from another process;
  daemons come, die and return at any moment. A failing write ends a request with the old
  monitor alive. Correct means: one request at a time; the gadget stays down while the host
  is to notice the disconnect; the old monitor is joined before anything is linked; a
  monitor looks for the endpoints of the functions that are linked; what is pulled up is a
  whole composition with its own VID/PID; SUCCESS is earned; every call returns; and the
  monitor pulls the gadget up when the daemons are ready.
* **USB HAL.** A binder thread and the uevent thread share three mutexes, a condition
  variable with a time limit and a flag set by a signal handler. Correct means: a partner
  that comes early is not missed; only a partner that came decides a role switch; the uevent
  thread does not touch a port that is being switched; a port without a partner ends as
  dual role; the client is told the latest state; one uevent thread at a time, and it ends
  when it is told to.
* **Recharging control.** A long sequence of legal inputs, with gaps, restarts and readings
  that fail. Correct means: the displayed level is not below the true one, not false for
  longer than the transition time, and never drops off a cliff.
* **Learned capacity.** Files, a gauge that loses its memory, and a process that may stop
  between two accesses. Correct means: a learned capacity is not lost to the design value,
  and no level is reported of a gauge that has yet to get it back.
* **Dumpstate.** A dump stops the modem logger by a property that init acts on when it gets
  to it, waits for it with a time limit, and starts it again the same way. Correct means: the
  files are copied while nobody writes them; the logger runs again afterwards; and no report
  hands out what an earlier one left behind.
* **Boot.** Scripts without error handling that a reboot may cut anywhere, firmware that
  changes under the files they leave, and a retry loop racing a service that comes and goes.
  Correct means: the boot gets past everything it waits for; a version is on record only with
  its whole configuration; a flag RIL waits for tells the truth; somebody looks after the
  fingerprint service; the eUICC packages follow their dependencies.
* **Audio converter.** Words are converted in place while their neighbours are read. Correct
  means: nothing is written converted by half, and one conversion undoes the other.

`PROJECT.json` lists the single hazards at their source lines and, for each, the properties
that would notice it, or why there is none.

## 2 Modules

| Module | What it is |
|---|---|
| `GadgetComposition` | the tables of `UsbGadget.cpp`: vendor functions, VID/PID, links; constant-level |
| `UsbGadget` | the gadget HAL and what it acts on; extends `GadgetComposition` |
| `GadgetService` | what the gadget HAL promises its clients; `UsbGadget` implements it |
| `MCUsbGadget` | constants of the gadget HAL's TLC runs |
| `UsbGadgetProofs`, `GadgetServiceProofs` | its theorems, the second with the refinement |
| `UsbHal`, `MCUsbHal`, `UsbHalProofs` | the USB HAL, the constants of its runs and its theorems |
| `UsbStack`, `MCUsbStack`, `UsbStackProofs` | both HALs; extends `UsbGadget`, instantiates `UsbHal` |
| `Recharging`, `MCRecharging` | the displayed battery level |
| `LearnedCapacity` | backup and restore of the learned capacity |
| `Health`, `MCHealth`, `HealthProofs` | the health HAL; extends the two above; the theorems of all three |
| `Dumpstate`, `MCDumpstate`, `DumpstateProofs` | the modem part of a bug report and init's triggers for the modem logger |
| `Fingerprint`, `RadioConfig`, `EuiccDisabler` | three programs the boot starts, each with its own variables |
| `Boot`, `MCBoot`, `BootProofs` | the boot; extends the three above |
| `ConfigConverter`, `MCConfigConverter`, `ConfigConverterProofs` | the audio configuration converter |

Conventions. A thread is a program counter (`pc[c]`, `monPc`, `pc["worker"]`) whose labels
name what comes next. One action is one access to shared state, or a run of accesses no
other thread can tell apart. What can fail has a disjunct that spends from `Budget`, a
function from kinds of outside event to the number of times each may happen; it is a bound
of the model and nothing else, and the theorems hold for every budget. A definition marked
"as a mutant" is not used by the specification: it is the form a plausible bug would give
the definition after it. Nothing uses recursion, so that every module can be proved about.

## 3 The USB gadget HAL

`UsbGadget.tla` follows `setCurrentUsbFunctions` (UsbGadget.cpp:670-720) label by label.

| Label of `pc[c]` | Action | Code |
|---|---|---|
| `idle`, `locking` | `Call`, `Lock` | the binder thread queues for `mLockSetCurrentFunction` and assigns `mCurrentUsbFunctions` |
| `clear` | `ClearApplied` | `mCurrentUsbFunctionsApplied = false`, seen by an unlocked `getCurrentUsbFunctions` |
| `pullDown`, `clearDesc`, `unlink`, `stop`, `join` | `PullDown`, `ClearDescriptors`, `UnlinkFunctions`, `StopMonitor`, `JoinMonitor` | `tearDownGadget`, with every early return |
| `disconnect` | `Disconnected` | the `usleep` that lets the host notice |
| `validate` | `Validate` | `validateAndSetVidPid` |
| `setup`, `link`, `pullUp`, `start`, `wait` | `SetupFunctions`, `LinkFunction`, `LinksMade`, `PullUp`, `StartMonitor`, `WaitReturns` | `setupFunctions` |
| `answer` | `Answer` | the callback and the release of the locks |

`Reset` is `reset()`, which may come in any state and leaves `mCurrentUsbFunctionsApplied` as it is; nothing in the
code says what a client may conclude from that, so no property does either. `MonitorScan`, `MonitorWrite`, `MonitorPublish`, `MonitorEvent` and
`MonitorEpoll` are the thread `monitorFfs`. `getCurrentUsbFunctions` changes nothing; what
it would answer is the state function `Truthful` and the action property about it.

The environment. configfs and functionfs are modelled from what the code and
`init.hardware.usb.rc` rely on: writing a name to `UDC` fails when the gadget is bound, has
no function or has a functionfs function whose daemon is not active; writing "none" fails
when it is not bound; unlinking a function of a bound gadget unbinds it; functionfs is
mounted with `no_disconnect=1` (init.hardware.usb.rc:45-49), so a gadget stays bound when a
daemon dies and is unbound when the next one opens `ep0`. Daemons open, write descriptors,
die (`closes`) and cause events that change nothing. The USB HAL process writes `UDC`
(`usbHal`); other processes set `vendor.usb.config` (`vendor`); init restarts the service
(`crashes`), and then configfs is as it was left and `mCurrentUsbFunctions`, which the
constructor does not initialise, may hold anything.

Abstractions. Strings and paths are names; the sleeps are steps (any time may pass at any
label); a `wait_for` may return at any time, because no other thread's step is bound to come
before `PULL_UP_TIMEOUT`; the inotify queue counts events up to `MaxEvents`, since the code
scans the whole endpoint list for every event and never looks at what the event says; a
client's callback returns at once.

Properties. Those that no run checks on its own are parts of `IInv`, or follow from it, and
are theorems (section 11).

| Property | Says |
|---|---|
| `ImplementsService` | no step has another effect on what clients see than `GadgetService` allows; see below |
| `OneRequestAtATime` (theorem) | "only one request is processed at a time" (UsbGadget.h:80), whichever way the ones before ended |
| `DownWhileDisconnecting` | during the disconnect wait the gadget is down and cannot be bound by anybody |
| `MonitorStoppedBeforeSetup` (theorem) | the next monitor starts only when the last one has been joined |
| `EndpointsOfTheLinks` | a monitor starts with the endpoints and watches of what is linked, whatever failed before |
| `SuccessIsApplied` (theorem) | SUCCESS means pulled up and published since the request |
| `UntruthfulOnlyByOvertakenMonitor` | `getCurrentUsbFunctions` becomes wrong in three windows only: between two assignments of a new request, by a monitor a teardown is about to join, and after a request that failed |
| `WaitIsWoken` (part of `IInv`) | a call that waits has been notified once the gadget is pulled up: no pull-up is published between the start of the monitor and the wait, and none without a notify. `EveryCallReturns` would not see this, because the wait ends by its time limit anyway |
| `IdsNameTheComposition` | no two requests are announced with the same VID/PID and different functions, the accessory ids aside |
| `VendorConfigReflectsLinks` | but on user builds, while the gadget is bound, `vendor.usb.config` names the vendor functions that are linked; another process that sets it, an unlink that failed and the USB HAL can make it wrong |
| `EveryCallReturns` | no lock, join or wait is for ever |
| `MonitorPullsUpUndisturbed` | with a monitor and the daemons up for good, the gadget is up for good, if no write failed and no daemon died since the start |
| `MonitorPullsUp` | the same without that condition: violated, section 12 |

What clients are promised. `GadgetService` knows no configfs, lock or thread. A client's
request is queued, accepted alone, withdraws what an earlier one published (`Withdraw`),
calls off the task an earlier one left (`CallOff`), and then applies its functions
(`ApplyNow`), leaves them to a task (`Defer`) that publishes them when it can
(`ApplyLater`), or fails (`Refuse`). SUCCESS is answered to a client that waits only when its
own functions have been published since it asked. It also says what is not promised: a
request that fails while it clears leaves the earlier task alive, and a task that is about
to be called off may still publish. The refinement mapping (`Phase`, `Published`, `Task`,
`Outcome` in `UsbGadget`) reads the phases off the labels of `pc`, what is published off
`mCurrentUsbFunctionsApplied`, and the task off `mMonitorCreated` and `gadgetPullup`.

## 4 The USB HAL

`UsbHal.tla` has two threads: `"binder"` (service.cpp sets the pool's maximum to 0 and joins
it, so calls come one after the other) and `"worker"`, the uevent thread. Each method is a
path of the binder's `pc`: `setCallback` → `join`; `roleLock` → `open` → `arm` → `write` →
`wait` → `woken` or `timedout` → `drp` → `notify` for `switchRole` with `switchMode`, or
`role` for the two other roles; `udcRead` → `udcWrite` → `dataPath` → `ack` for
`enableUsbData`, where a `UDC` that cannot be read is not written and the call still succeeds
(Usb.cpp:66 and 81); `query` → `report` for `queryVersionHelper`, which both threads run. The
worker goes `start` → `check` → `enter` → `epoll`, and for a message `partner`, `query`,
`report`, `trylock`, `look`, `drp`. `enter` stands between the test of `destroyThread` and
`epoll_wait`; `SigHandler` may run at every label and wakes the thread only in `epoll`.

The environment. A partner is attached and detached; each sends a message, "add" or another
type-c message, if the worker's socket is open. Messages of other subsystems reach the
socket too. The socket does not overflow: at most `MaxUevents` messages are on their way
(`RoomForUevent`). The gadget HAL toggles `UDC`. init restarts the service; the kernel's
attributes stay. There is one type-c port, as on this board, so the loops over ports are
gone.

Abstractions. Roles are "dual", "source" and "sink"; the result of writing a data or power
role is free; a port status is whether it is connected, whether data is enabled and whether
reading it failed. The variables `lastStatus`, `addedSince`, `missed` and `unheard` are
history and appear in no guard.

| Property | Says |
|---|---|
| `ConnectedSignalNotLost` | "prevent loosing connected signals" (Usb.cpp:282) |
| `PartnerUpMeansBack` | `mPartnerUp` during a switch comes from a partner added since `port_type` was written, or whose message was still on its way then: the code cannot tell these two apart, so a stale message can make a switch look successful |
| `RoleSwitchUndisturbed` | the uevent thread takes no port away from a `switchRole` |
| `PortFreedUnlessMissed` | when all is quiet a port without a partner is dual role again, also after a switch that timed out, but for five ways of missing it: a partner that leaves while a switch holds the lock or while no thread listens, a thread that ends with messages unread, a write of "dual" that fails, and a restart |
| `ClientSeesLatest` | when all is quiet the client was last told the truth; only a change before the worker has opened its socket goes unheard |
| `OneWorker` | no second uevent thread |
| `StatusPartsOnlyWithError` | `usb_data_enabled` and what `getPortStatus` reports of it part only by a call that fails; a restart and later calls may bring them together or leave them apart |
| `EveryCallReturns` | every call ends, or is the `setCallback` that joins |
| `ThreadDestroyed` | violated, section 12 |

## 5 Both USB HALs over one attribute

Each of the two modules has the other HAL as an environment that writes `UDC`. `UsbStack`
puts the real ones together: it extends `UsbGadget`, instantiates `UsbHal` with the gadget's
`udc` and with "what is linked could be bound" for the result of the write, and gives both
environments a budget of zero (`StackAssumption`). `bound` is the kernel's: what was linked
when the gadget was bound. A function that is linked later is not seen by the host.

| Property | Says |
|---|---|
| `OnlyUsbHalBindsParts` | the gadget HAL binds whole compositions with their own ids; a half-linked one is bound by `enableUsbData(true)` only (Usb.cpp:69), by a monitor that survived a failed unlink, or when `vendor.usb.config` is set between its two readings |
| `SuccessIsWhole` | a client that was told SUCCESS has all of its functions in front of the host or, when the USB HAL has pulled it down meanwhile, nothing: the write of `UDC` fails when the other HAL has bound a part, and the request with it |
| `UpWhenDataOn` | when both HALs are at rest, nothing has failed, the daemons of what is linked are up and data was turned on last, the gadget is up: a pull-up the kernel refused because functions were being replaced is made up for by the gadget HAL |

The last two hold although neither HAL knows of the other. What does not hold, and is
stated by no document either, is the converse for `enableUsbData(false)`: a monitor or
a request that comes later pulls the gadget up again.

## 6 The health HAL

### The recharging control

`Recharging.tla`: one action per branch of `updateBatteryProperties`
(BatteryRechargingControl.cpp:75-170), given a gauge level `s`, what the charger says `c` and
the seconds `dt` since the last call. `ReadFails` is the early return when the charger's
status cannot be read; `Restart` is a restart of the service. Discharging, Not charging and
Unknown are treated alike by the code and are one value, `"Stopped"`. Time is kept only up
to one second past the transition. `RemapSOC` is the interpolation in doubles: the nearest
integer, either one at an exact half. `level`, `soc`, `gap`, `withoutPower`, `keepFrom` and
`made` hold what the last call was given and returned and what the properties remember.

| Property | Says |
|---|---|
| `NeverUnderstates` | the displayed level is not below the gauge's, however late a call comes |
| `TruthInTime` | once the power has been gone for the transition time the level is the gauge's |
| `NoCliff` | between two calls the level falls by what the gauge fell, the share of the way down the time between them stands for, and one for rounding |
| `KeepsFull` | violated, section 12 |

A restart forgets that 100% was shown, and a status that cannot be read lets the gauge's
level through; `NoCliff` says nothing of these two steps.

### The learned capacity

`LearnedCapacity.tla`: `Restore` is the path `persist` → `nominal` → `capacity` → `update`,
`Backup` starts at `capacity`; `update` decides between nothing, `gauge` (write the gauge)
and `cut` → `storage` (truncate the file, write it). Each may fail; between any two the
gauge may learn a capacity or lose its power, and the service may stop. Files are numbers, a
missing or empty one is `Unreadable`. `clean`, `saved`, `lost` and `moved` (the gauge has learned or
lost a capacity since it was last read) are history.

| Property | Says |
|---|---|
| `LearnedIsKept` | a learned capacity in the file is never replaced by the design value, except after one of four accidents: file or design value unreadable at the start, a write that fails after the truncation, a stop there |
| `CopiesAgree` | an update that ends with no access failed since the start leaves file, service and gauge in agreement, but for what the gauge has learned or lost since it was read; and what is written to a gauge that was taken for reset overwrites nothing but the design value, unless the gauge has learned since it was read: there is no second look before the write (LearnedCapacityBackupRestore.cpp:107) |

### The order of the two

`Health.tla`: `BoardInit` runs `Restore` before the service is there; every update is
`UpdateLevel`, the recharging control, and then `UpdateCapacity`, which starts `Backup`
(Health.cpp:124-135). One thread does both, and a service that stops loses the members of
both. The controls of the pixelhealth library that run in between are left out, and so is
`BatteryInfoUpdate`, which renames a status the recharging control does not tell apart.

| Property | Says |
|---|---|
| `LevelOfLearnedGauge` | a level is never reported of a gauge at its design capacity while there is a learned one on file, unless the gauge has lost its power since the service was started or last read it, or an accident has happened |

## 7 The modem logger of a bug report

`Dumpstate.tla`: `DumpstateBoard` is the call, and `ReadEnabled` to `RemoveTar` are the steps of
`dumpModemThread` (DumpstateDevice.cpp:243-373). The HAL has one binder thread and joins the
modem thread before it returns, so one `pc` stands for both, and `SetVerboseLoggingEnabled`
never meets a dump; the output the call itself writes disturbs nothing and is left out. The
place of the modem log and its prefix are set by the device's makefile, so the two early
returns are never taken.

`SetProperty` changes a value at once; the trigger on it runs when init gets to it, so every
change also goes to `queue`. `VerboseTrigger`, `PersistTrigger`, `StartTrigger` and
`StopTrigger` are the triggers of `init.hardware.diag.rc.user` and `.userdebug`, which differ: on
a user build the logger follows `persist.vendor.verbose_logging_enabled`, on the others it is
started only with verbose logging on. `diag_mdlog` and `diag_mdlog -k` are not part of the
repository: they are modelled as a logger that is up (`mdlogOn`, its status property) and a
`stopper` that ends it. A logger that comes up leaves its pid in a file, which the trigger on
`persist.vendor.sys.modem.diag.mdlog` removes before anything else (line 40 of both files), whatever
the new value; `diag_mdlog -k` without that file may end the logger or miss it (`KillLogger`). Files are only whose they are: `"own"`, of this dump, or `"stale"`, of
an earlier one. `copyFile` and `createTarFile` open without `O_TRUNC`, so what was there may
stay. `disturbed`, `startLost`, `stopLost` and `leftBehind` are history and appear in no guard.

| Property | Says |
|---|---|
| `CopiedAtRest` | a logger that was running is not up while its files are copied, unless the stop took more than ten seconds, another process switched it, or the dump began before init had carried out an earlier switch |
| `LoggerResumes` | a logger that the dump has stopped comes up again, with the same exceptions and a crash |
| `LoggerFollowsVerbose` | on a user build, when all is quiet the logger is up exactly when verbose logging is on. Since the last switch of verbose logging it is lost only by a start that finds the old logger on its way out, another process, or a HAL that dies between stopping the logger and starting it again: nothing but the next switch makes up for that. A logger that is up with verbose logging off is one the last `diag_mdlog -k` has missed |
| `HandsOverThisDump` | what a client is handed is of its own dump, unless an earlier one could not remove its files |

## 8 The boot

`Boot.tla` has the triggers of `init.hardware.rc` as `stage`, cut where init waits:

| `stage` | Action | Code |
|---|---|---|
| `init` | `InitStage` | `on init`: starts `qseecomd`, the keymasters and `insmod_sh`; the platform's `init.rc` has started `hwservicemanager` |
| `lateFs` | `StartDevstart`, `WaitForManager` | `on late-fs`: starts `devstart_sh`, waits for `hwservicemanager.ready` (:210) |
| `strongbox` | `WaitForStrongbox` | waits for both keymasters at once (:213), then starts `time_daemon` (:222) |
| `postFsData` | `PostFsData` | `on post-fs-data`: waits for `vendor.qcom.time.set` (:263) and `vendor.sys.listeners.registered` (:266) |
| `zygoteStart` | `ZygoteStart` | resets the radio flags |
| `earlyBoot` | `EarlyBoot` | waits for `vendor.qcom.devup` (:367) and `vendor.all.modules.ready` (:370) |
| `boot` | `LateStart`, `Completed` | `class_start late_start` starts the radio script; the end of the boot starts the fingerprint script and the receiver of `BOOT_COMPLETED` |

The last two properties are set by the repository's own background scripts (`InsmodReady`,
`DevUp`), the first three by daemons that are not part of it: `Announces` says which sets which,
and a daemon that was started may set its property at any time or never (`DaemonReady`). A
keymaster comes and goes while it is waited for. `Reboot` may happen anywhere: properties and
processes are gone, files and package states stay, and the firmware may be that of the other
slot.

`Fingerprint.tla` is the loop of `init.fingerprint.sh` (29-48), one action per command that
changes something, with the two triggers of `init.hardware.rc` (762-766). Property changes go to
`events` and are looked at when init gets to them; a `start` of a oneshot service that still
runs has no effect. `fps_hal` ends for good or to be restarted.

`RadioConfig.tla` is `init.radio.sh`, one action per command, except that a `cp` of one file
is two, the file is created or emptied, then filled, and that `rm -rf` may be cut, or fail, with
some files gone (`RemoveSomeFiles`, `RemoveConfig`). The script goes on when a command
fails. A directory is its firmware's version and whether it is whole. A firmware has a version, a
`ver_info.txt` that is empty (`Empty`) or none (`NoVersion`): the script always copies without
one, but the empty text equals a record that is missing or empty (init.radio.sh:19-26). `unrecorded`
(nothing was recorded since the directory was last touched by a removal), `copyFailed` (the last
removal or copy of it has failed, until one succeeds), `dbCut` (the same of `qcril.db`, or a reboot
in the middle) and `failed`, the bound of one failure, are history.

`EuiccDisabler.tla` goes through the dependencies and the packages one by one, while a
dependency may be installed, enabled, disabled or removed; an exception ends it midway.

| Property | Says |
|---|---|
| `SupervisedUnlessLost` | `fps_hal` is stopped with nobody looking after it only when the retries are used up, or when it stopped between the script's last look and the script's end: the trigger then starts a script that still runs, which does nothing |
| `GivenUpIsNotSuccess` (theorem) | a service that was given up is not declared to have succeeded |
| `SucceedsInTheEnd` | a service that stays up is declared to have succeeded |
| `RecordedMeansWhole` | a version is on record with its whole configuration, and nothing else, next to it, but for the time between the first file that is removed and the new record, which a reboot may prolong, and after a removal or copy that failed, until one that succeeds |
| `ConfigOfThisFirmware` | once `copy_complete` is set the folder holds this firmware's configuration. It does not when its version is still on record from before a copy for other firmware that did not get as far as a record, that is, one that was cut short or any copy, a complete one too, for firmware without a version: nothing is copied then (init.radio.sh:26). The empty version counts as on record where there is none. Nor does it after a removal or copy that failed |
| `DbIsWhole` | once `db_check_done` is set `qcril.db` is whole, but for a copy that a reboot has cut, or a failure has left unfinished: no later boot makes that good (init.radio.sh:6); one that did not even create the file is made good |
| `PackagesFollowDependencies` | a receiver that got to its end leaves all packages as the dependencies ask |
| `BootCompletes` | if both keymasters stay and every daemon that was started sets its property in the end (`OthersReady`), the boot gets past all five properties and the keymasters: nothing is waited for before what sets it was started, and the two scripts set theirs whatever they meet with |

## 9 The audio configuration converter

`ConfigConverter.tla` converts one file again and again: `DetectDepth`, `ConvertHeader` (three
words), `ConvertWord` (the body), `StoreCrc`, `Write`, and `Refuse` for a header that is not
what the first word said. `Crc` is any function of the words; the ones the tool does not
look at are left out but for it. `main` calls the 24-to-16-bit conversion for `bin16` and
`txt16` and the other one for `bin24` and `txt24`; `usage()` says the opposite
(convert_config_string.py:308-333), and `bin` calls `binary2header` with too few arguments
(366-367). The model does what `main` does.

| Property | Says |
|---|---|
| `ConvertedWhole` | what is written is of one depth, with a right checksum if there was one before; what is refused is not written, however far the conversion had got |
| `RoundTrip` | from 16 bits to 24 and back gives the file word for word, unless a word of it read like an instruction of the other depth, or the last word before the checksum like one of either: its operand is then the old checksum, which the conversion replaces |

## 10 Runs

Each run is one question. Deadlock is checked everywhere except in the `UsbHal`
runs `usb_faults` and `usb_destroy`, where the code itself can stop for good (section 12), in
`boot`, where all scripts end, and in `converter`, where the tool is not run again. "Stops"
in the other models that are no deadlock are the actions `Quiescent`: the budget is spent and
no thread has anything to do.

| Run | Configuration | What it explores | What it shows |
|---|---|---|---|
| `requests` | `UsbGadget_requests.cfg` | two binder threads, three calls, `reset()`, a failing write and unlink, a daemon that dies, the USB HAL, a restart, usbradio mode | the inductive invariant of the proofs, the disconnect wait, and what `getCurrentUsbFunctions` says |
| `live` | `UsbGadget_live.cfg` | one thread, two daemons, two calls, failures, `vendor.usb.config` changing | the promises of `GadgetService`; every call returns, the monitor pulls up; the host sees ids of its own |
| `daemon_restart` | `UsbGadget_daemon_restart.cfg` | one call, one daemon that dies | a violation, section 12 |
| `stack` | `UsbStack_data.cfg` | two requests of the gadget HAL, two calls of `enableUsbData` or `resetUsbPort`, a failing unlink | two writers of one attribute |
| `usb_switch` | `UsbHal_switch.cfg` | switches, queries, a partner that comes and goes, a spurious wake-up | no signal lost, no port taken away, the client is told the truth |
| `usb_faults` | `UsbHal_faults.cfg` | every call, every failure, a restart | types, one worker, every call returns, what is reported of the data path |
| `usb_destroy` | `UsbHal_destroy.cfg` | a callback that comes and goes | a violation, section 12 |
| `health` | `Health_update.cfg` | every sequence of levels 8..10, charger states and gaps 0..2, gauge resets, stops, failing accesses | the displayed level and the learned capacity |
| `recharging_kept` | `Recharging_kept.cfg` | the recharging control alone, levels 96..100 | a violation, section 12 |
| `dump` | `Dumpstate_logger.cfg` | two dumps, two switches of verbose logging, user and userdebug, a crash, an outside switch, a failing removal | the logger rests while it is copied and comes back |
| `boot` | `Boot_boot.cfg` | boots with any two accidents: reboots, other firmware, a failing copy, a fingerprint service that ends, a dependency that changes | section 8 |
| `converter` | `ConfigConverter_depth.cfg` | three conversions of every file with a body of three words, of either depth, mixed or unknown, with a right or a wrong checksum | section 9 |

Bounds, and why they are enough.

* Two binder threads are the two the service has (`configureRpcThreadpool(2, true)`); they
  run the same code, so `requests` uses symmetry. `live` and `stack` have one thread, because
  a second call of the same thread meets everything a first one may leave behind, and the
  lock serialises two.
* `requests`: three calls are one that leaves a state behind, one that meets it and one that
  queues or follows. Every accident has a budget of one, and `AtMostFourEvents` keeps calls and
  accidents together to four: three calls meet one accident, two calls any two. A
  request ends at its first failure, so that two failures are two requests that fail.
* `MaxEvents` is 1: the monitor scans the whole endpoint list for every event, so
  that a second event in the queue only repeats a scan. `MaxUevents` is 1 or 2: one message
  in the worker's hands and one or two behind it.
* The requests of a run are one functionfs function and one that is not, or two of functionfs
  alone and together: the paths of `setupFunctions`.
* `stack`: a function the kernel serves alone and a composition of it and a functionfs one;
  one request to be interrupted, one to follow it, and one call that turns data on and one that
  turns it off, in either order. Failing writes are left to the runs of each HAL.
* `health`: the full level is 10 and the transition lasts 3 instead of 100 and 900 seconds; the
  code is uniform in both, `recharging_kept` and the theorems have other values, and the theorems
  hold for all. Two accidents of five kinds (`AtMostTwoEvents`): one that loses a copy of the
  capacity and one that disturbs its restoration.
* `dump`: the second dump meets what the first one left; two switches are the shortest way to
  turn verbose logging off and on again; every accident occurs once.
* `boot`: two accidents (`MaxAccidents`), because what the properties except are pairs: a
  reboot in the copy or a failure and one back to the recorded firmware, an end of the service and one
  in the script's last moment. `MaxTimes` is 1 instead of 10: each retry leaves the same
  state but for the count. Two firmware versions, an empty one and none. The radio script is
  through when the system is up (`RadioFirst`), since it shares no state with what the end of the boot
  starts. `LateAccidents`: a dependency changes while the receiver runs, since a change before or
  after it is another initial state, and `fps_hal` ends from stage `boot` on, since nothing looks at
  it before. The theorems do without these bounds. A keymaster comes and goes only while it is
  waited for, in the theorems too: nothing else in the model looks at it.
* `converter`: a body of three words has an instruction before a word, before another
  instruction and before the checksum; three runs are there, back and there again.

Fairness. `UsbGadget` assumes weak fairness of each binder thread's own steps (`Caller(c)`)
and of the monitor; `UsbHal` of the binder's steps, the worker's steps and the delivery of
the signal. That is: the kernel runs a thread that can run, and delivers a signal that was
sent to a thread. `pthread_cond_timedwait` and `wait_for` end by their time limit, which is a
step of the waiting thread. Nothing is assumed of clients, daemons, partners, other
processes or failures, and nothing of who gets a contended mutex. `MonitorPullsUp` and
`MonitorPullsUpUndisturbed` speak of daemons that are up for good; that is a hypothesis of
the property and not an assumption. `Dumpstate` assumes that the dump's
thread, init and what it starts take their steps. `Boot` assumes that init, the background
scripts, the fingerprint script and the system that completes the boot do; that the
keymasters stay, that the daemons get as far as setting their properties and that `fps_hal` stays are
hypotheses of the properties (`OthersReady` is that of `BootCompletes`). The other modules, `UsbStack`
among them, have safety properties only and no fairness.

## 11 Proofs

TLAPS checks the following for every value of the constants: any number of binder threads,
requests, daemons, vendor configurations and budgets; any full level, transition time,
gauge range and gap; any capacities. The assumptions are the named `ASSUME`s of the
modules, which only give the constants their types; TLC evaluates them in every run.

**The gadget HAL** (`UsbGadgetProofs`). The inductive invariant `IInv`, which the run
`requests` checks first, is

* `TypeOK`;
* `LockInv`: whoever is past `locking` holds `mLockSetCurrentFunction`, and
  `mCurrentUsbFunctions` is what it asked for. `OneRequestAtATime` is a consequence;
* `MonitorInv`: `mMonitorCreated` says whether there is a thread to join, and `BoundInv`:
  a bound gadget has functions;
* `StageInv`: what each stage has torn down and built. From `stop` to `setup` there are no
  links, which with `BoundInv` gives `DownWhileDisconnecting`: nobody, not even a monitor
  that still runs or the other HAL, can bind a gadget without functions. From `disconnect`
  to `start` there is no monitor (`MonitorStoppedBeforeSetup`), and from `link` on endpoints,
  watches and links agree (`EndpointsOfTheLinks`);
* `AnswerInv`: a call that waits has the monitor of its own functions, and if `gadgetPullup`
  is set these are applied. It is needed because `SuccessIsApplied` speaks of `answer` only:
  a monitor that publishes during the wait must be the caller's own;
* `MonForInv`: outside a teardown and unless the last call failed a live monitor is that of
  the current functions. It gives `UntruthfulOnlyByOvertakenMonitor` (theorem `Truth`);
* `WaitIsWoken`: the step that sets `gadgetPullup` notifies, and no step takes that back before
  the waiting call is awake (`WokenStep`).

Each part has one lemma with one step per action. The conjuncts depend on each other only
within `IInv`, so each lemma has the whole of it as its hypothesis.

What is bound is whole: `PartsInv` says that what a live monitor, or a call that is about to
pull up, may bind is the whole of a request with its own ids, given that no unlink failed and
nobody set `vendor.usb.config` in between; `UpInv` that with the USB HAL out of it nothing else
is ever bound. They need `AskedInv` (links are made only for requests that ask for some) and
`LeftInv` (a budget that is whole now was whole before), and give `VendorConfigReflectsLinks`
(theorem `VendorConfig`), because `VendorConfigAfter` has been written when the links are made.

The tables. `IdsDecideLinks` reads the tables of ids backwards (`QualcommReadBackwards`,
`GoogleReadBackwards`): an accepted pair of VID and PID determines the functions, and the vendor
functions up to those that link nothing. `LinkListRange` says what is linked for them. Together
they are `IdsNameTheComposition` (theorem `Ids`) for every build type and boot mode, without
enumerating the tables.

**What clients are promised** (`GadgetServiceProofs`, theorem `Refinement`). Every step of
`UsbGadget` is a step of `GadgetService` under the refinement mapping, or changes nothing a
client sees, for any number of clients and any accidents. `IInv` supplies what the mapping
hides: that only one request is being served, that what is joined is what was started, and
that the answer of a wait is the caller's own.

**The USB HAL** (`UsbHalProofs`). `IInv` says who holds each of the three mutexes and where
(`LockInv`), which gives `RoleSwitchUndisturbed`; that there is a worker only while there is
a callback or while it is joined (`WorkerInv`), which gives `OneWorker`; and that
`mPartnerUp` is clear while `port_type` is being written and is set only together with the
signal (`SignalInv`), or by an addition that came since (`AddInv`). `PortFreedUnlessMissed` and
`ClientSeesLatest` speak of a quiet HAL, so that the invariant must say who is still going to
act: `FreeInv` that a port without a partner that is not dual role has a message or the worker
on its way to it, or a switch that will give up; `ReadInv` that what a thread has read and not
yet told is still so, or the worker will read again; `ToldInv` and `EnabledInv` the same of what
the callback was told.

**Both HALs** (`UsbStackProofs`). The steps of the USB HAL leave everything of the gadget HAL
alone but the UDC attribute (`UsbSteps`, `UsbUdc`), and `IInv`, `PartsInv` and the refinement
mapping do not say when the gadget is bound, so that they survive (`GadgetKept`,
`StackKeepsPromises`, `StackRefinement`). `OnlyUsbHalBindsParts` then follows from `PartsInv`.
`SuccessIsWhole` needs `SuccessInv`: already while the call waits, as soon as the monitor has
pulled up, the gadget is bound with the present links or not at all. `UpWhenDataOn` is about a
state of rest; `OnInv` says for every state without accidents in which no call replaces
functions that the gadget is bound, or the monitor or `enableUsbData` is still going to bind it.
That the monitor is, rests on `WatchInv` (it watches the functionfs functions that are linked,
and their daemons are up once it has bound the gadget), on `FfsInv` (functionfs functions are
only linked where a monitor is started) and on `StopInv` (it ends only for a call that joins
it). All of these are parts of `StackInv`.

**The recharging control** (`HealthProofs`). `NeverUnderstates` is not inductive by
itself: in a transition the level is an interpolation, and `RemapBounds` shows that its
rounding never falls below the true level as long as the elapsed time is not over, which is
what `LeaveTransition` is for. `TruthInTime` needs `TransitionInv`: power that has been away
is only counted in a transition that started no later, or in a state with nothing left to
hide; and `InactiveInv`: outside a transition, before the battery is full, the level is the
gauge's. `NoCliff` compares the levels of two calls: `LevelInv` says where the first stands (at
the gauge's level, at 100%, or on the interpolation for some rounding), and lemmas on the
difference of two interpolations say how far it can fall.

**The learned capacity** (`HealthProofs`). `LearnedIsKept` speaks of the step that
writes the file; the decision was made three steps before. `KeptInv` carries it along: as
long as no accident has happened, the file holds the learned capacity, the service knows it
and the design value, and what is about to be written is not the design value. `AgreeInv` does
the same for `CopiesAgree`, and `SavesNumbers` says that what is about to be written is a
capacity. `GaugeInv` relates the gauge to what was read of it: they are equal until `moved`, and a
restore is only decided for a gauge that read as its design capacity.

**The health HAL** (`HealthProofs`). `RunsBothControls` shows that `Health` implements
`Recharging` and `LearnedCapacity` as they are, so that their theorems hold of it: each of its steps
is a step of the one or of the other, or of both when the service stops. `LevelOfLearnedGauge`
relates the two and needs an invariant of its own (`HealthInv`): what was read and not yet
written back is still in the gauge (`ReadInv`), and between two updates a gauge whose
learned capacity is on file has it (`IdleInv`).

**The modem logger** (`DumpstateProofs`). `CopiedAtRest` needs `RestInv`: a dump that found init
settled is alone in switching the logger, so that from `wait` to `restart` init has nothing left
to do but to stop it, and nobody brings it up again. `HandsOverThisDump` needs `FilesInv`: as
long as every dump has removed its files, directory and tar file are gone when the next one
starts. `LoggerFollowsVerbose` needs `FollowInv`: each property follows the one before it, or
the trigger that will see to it is still in init's queue, or a dump that stopped the logger will
start it again; `LoggerObeys` says the same of the logger and its switch, but for the starts in
`startLost` and the stops in `stopLost`; `LastSets` adds that the last queued change of a property is to its present
value.

**The boot** (`BootProofs`). Each of the three programs has an invariant in its own module
(`FpsInv`, `RadioInv`, `EuiccInv`); `BootInv` is their conjunction, and a step of `Boot` is a
step of one of them, or, at the end of the boot and in a reboot, of several at once. `FpsInv`
says that whenever the script is over without having given up, success is declared, and that a
stopped service then has an event on its way to the trigger, or `startLost`. `CopyInv` says how far
`modem_config` has got at each command of the radio script, given that no removal or copy of it has
failed, `DbInv` the same of `qcril.db`, and
`EuiccInv` what the packages passed so far have become.

**The converter** (`ConfigConverterProofs`). The invariant says what each position of `data` is,
in terms of `file`, at every index (`HeaderInv`, `BodyInv`), for files of any length and any
checksum function. `RoundTrip` combines two conversions: `NarrowInv` remembers that the file is
the image of `narrow`, and what is about to be written is the image of the file.

Only model-checked: liveness (`EveryCallReturns`, `MonitorPullsUpUndisturbed`, `LoggerResumes`,
`BootCompletes`, `SucceedsInTheEnd`), which is out of the prover's reach. Every other property of
the runs that pass is a theorem. That the theorems about the USB HAL also hold next to the real
gadget HAL is not proved: `UsbHalProofs` proves them of a gadget HAL that binds and unbinds at
any time, as often as its budget allows, for every budget; their invariant says nothing of the
attribute.

## 12 Where code and comments disagree

Three runs are expected to violate the property that states what a comment says.

* **A daemon that restarts quickly is missed** (`daemon_restart`, `MonitorPullsUp`,
  UsbGadget.cpp:171). `writeUdc` is set again only when the monitor sees an endpoint
  missing. A daemon that dies and has written its descriptors again before the monitor scans
  leaves `writeUdc` false, while the kernel has unbound the gadget: it stays down. The comment
  at :645-646 promises the opposite.
* **The uevent thread may not end** (`usb_destroy`, `ThreadDestroyed`, Usb.cpp:782). SIGUSR1
  between the test of `destroyThread` and `epoll_wait` is lost, and the thread waits for a
  uevent with `setCallback` in `pthread_join`, holding `mLock`. A type-c uevent does not help:
  to report it the thread needs `mLock`. The same happens when the signal finds the thread
  on its way to `mLock`. This is why `EveryCallReturns` makes an exception for `join`.
* **100% is not kept** (`recharging_kept`, `KeepsFull`, BatteryRechargingControl.cpp:161). A
  charger that is back while 100% is displayed makes `recharge_soc_` the displayed level;
  the next update takes the gauge's level, which is below it, for an overload and starts a
  transition.

Known and without a run of their own: a partner that is noticed just as `switchMode` times
out is ignored (Usb.cpp:301), because `pthread_cond_timedwait` takes the mutex back before it
returns ETIMEDOUT and `mPartnerUp` is not looked at then; `mUsbDataEnabled` is true after a
restart whatever the attribute says; `vendor.usb.config` is read twice for one request
(UsbGadget.cpp:581), so that a change in between mixes two compositions; a restart of the
health service forgets that 100% was shown, and the display jumps; `usage()` of the audio
converter names the two conversions the wrong way round. The windows that `SupervisedUnlessLost`,
`RecordedMeansWhole`, `ConfigOfThisFirmware` and `DbIsWhole` except are in the code too:
each is reachable in the run `boot`. Among them: on a fresh device firmware whose `ver_info.txt` is
empty is never copied, because the missing record reads as empty too. The trigger that passes
verbose logging on removes the logger's pid file also when it is about to stop the logger
(init.hardware.diag.rc.user:40).

## 13 Not modelled

* Most of the repository by lines is headers of the kernel (`sdm710/kernel-headers`,
  `sdm710/original-kernel-headers`): declarations that other projects compile against, with no
  behaviour. Policy, overlays, XML, makefiles and extraction scripts are data as well. Of
  the remaining programs, what is not modelled is the following.
* In `Health.cpp`: the storage and disk statistics, which only read files, and the controls
  of the pixelhealth library, which are not part of the repository.
* In the USB HAL: more than one port, the contaminant fields, the supported-roles parsing,
  and the version strings. In the gadget HAL: the text of log messages and the exact paths.
* Uevents lost to a full socket, and the handling of a `recv` that fails: the code treats
  both as nothing having happened.
* Of Dumpstate: the commands and files that a dump only copies to the client, which rotated
  files are chosen, and the format of the tar file.
* Of the boot: the scripts and triggers that only set permissions, owners, symlinks and kernel
  parameters (`init.edge_sense.sh`, `init.firstboot.sh`, `init.ramoops.sh`,
  `init.qcom.ipastart.sh`, `init.qcom.wlan.sh`), and the unconditional copies and owners in
  `init.radio.sh`; charger mode; and the `wait`s for a device node (init.hardware.rc:35, :72, :720),
  which end by their own time limit.
* What `diag_mdlog` does without its pid file is not in the repository: the model allows both.
* Of the audio converter: the text form and the command line.
* Power stats and the voice processing descriptors are tables for external libraries.

## 14 Plan

Done: every component of section 1 with a behaviour of its own, and a theorem for every safety
property the runs check. What is left:

1. The theorems about the USB HAL in `UsbStack`. A theorem of a module that is instantiated
   with other variables cannot be cited there, so `IInv` of `UsbHalProofs` would have to be
   stated about `HAL` and its ten step lemmas be proved again.
2. The safety halves of the liveness properties: that a call which is not at rest, and is not
   the `setCallback` that joins, always has a step to take or waits for a thread that has.
