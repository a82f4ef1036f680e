----------------------------- MODULE RadioConfig -----------------------------
(***************************************************************************)
(* init.radio.sh: on every boot qcril.db is copied to /data if it is not   *)
(* there, and the firmware's modem configuration when its version is not   *)
(* the one recorded.  The script has no "set -e": what fails is passed     *)
(* over.  The files on /data outlive a reboot, at any point of the script; *)
(* the firmware is the one of the slot that was booted.                    *)
(*                                                                         *)
(* The unconditional copy of qcril_prebuilt.db and the owners and modes of *)
(* the files are left out.                                                 *)
(***************************************************************************)

CONSTANTS
  Versions,   \* what a ver_info.txt that is not empty may say
  Empty,      \* the text of an empty one; a missing one is read as the same
  NoVersion,  \* firmware without a ver_info.txt
  VendorDb    \* /vendor has a qcril.db

ASSUME VersionsAssumption ==
  Empty \notin Versions /\ NoVersion \notin Versions \cup {Empty}
ASSUME VendorDbAssumption == VendorDb \in BOOLEAN

VARIABLES
  radioPc,       \* where the script is, or the boot before and after it
  firmware,      \* what the firmware's ver_info.txt says, or NoVersion
  qcrilDb,       \* /data/vendor/radio/qcril.db
  modemConfig,   \* /data/vendor/radio/modem_config
  verInfo,       \* /data/vendor/radio/ver_info.txt
  dbCheckDone, copyComplete,  \* the flags RIL waits for
  \* History: nothing was recorded since modem_config was last removed, all or
  \* some of it; the last removal or copy of it has failed; so has the last copy of
  \* qcril.db, or a reboot has cut it short; something has failed.
  unrecorded, copyFailed, dbCut, failed

radioVars ==
  <<radioPc, firmware, qcrilDb, modemConfig, verInfo, dbCheckDone, copyComplete,
    unrecorded, copyFailed, dbCut, failed>>

RadioPcs == {"down", "flagsReset", "ended",  \* the script does not run
             "db", "dbCopy", "dbDone", "compare", "remove", "make",
             "copy", "truncate", "record", "ota", "complete"}
Texts == Versions \cup {Empty}
Firmware == Texts \cup {NoVersion}

\* The directory with a firmware's files, all or some of them.  The copy of
\* mbn_ota.txt makes a plain file where there is no directory.
ConfigOf(version, whole) ==
  [kind |-> "directory", version |-> version, whole |-> whole]
NoConfig == [kind |-> "none", version |-> NoVersion, whole |-> FALSE]
PlainFile == [kind |-> "file", version |-> NoVersion, whole |-> FALSE]
Configs == {ConfigOf(v, w) : v \in Firmware, w \in BOOLEAN}
             \cup {NoConfig, PlainFile}

\* A fresh device, or one that has run its firmware before; an empty version is
\* taken for the one on record.
RadioInit ==
  /\ radioPc = "down"
  /\ firmware \in Firmware
  /\ \/ /\ qcrilDb = "none" /\ modemConfig = NoConfig /\ verInfo = Empty
        /\ dbCheckDone = FALSE /\ copyComplete = FALSE
     \/ /\ qcrilDb = (IF VendorDb THEN "whole" ELSE "none")
        /\ modemConfig = IF firmware = Empty THEN PlainFile ELSE ConfigOf(firmware, TRUE)
        /\ verInfo = IF firmware = NoVersion THEN Empty ELSE firmware
        /\ dbCheckDone = TRUE /\ copyComplete = TRUE
  /\ unrecorded = (verInfo = Empty)
  /\ copyFailed = FALSE /\ dbCut = FALSE /\ failed = FALSE

Step(from, to) == radioPc = from /\ radioPc' = to

\* Bound: one failure.
Fails == ~failed /\ failed' = TRUE

----------------------------------------------------------------------------
(* qcril.db. *)

DbNeeded == VendorDb /\ qcrilDb = "none"

\* cp creates the file, then fills it; a file that is there is left alone.
CreateDb ==
  /\ DbNeeded
  /\ \/ Step("db", "dbCopy") /\ qcrilDb' = "partial" /\ UNCHANGED <<dbCut, failed>>
     \/ Step("db", "dbDone") /\ Fails /\ dbCut' = TRUE /\ UNCHANGED qcrilDb
  /\ UNCHANGED <<firmware, modemConfig, verInfo, dbCheckDone, copyComplete,
                 unrecorded, copyFailed>>

KeepDb ==
  /\ ~DbNeeded
  /\ Step("db", "dbDone")
  /\ UNCHANGED <<firmware, qcrilDb, modemConfig, verInfo, dbCheckDone,
                 copyComplete, unrecorded, copyFailed, dbCut, failed>>

\* As a mutant: cp runs in the background.
StillFilling == qcrilDb

Filled == "whole"

FillDb ==
  /\ Step("dbCopy", "dbDone")
  /\ \/ qcrilDb' = Filled /\ dbCut' = FALSE /\ UNCHANGED failed
     \/ Fails /\ dbCut' = TRUE /\ UNCHANGED qcrilDb
  /\ UNCHANGED <<firmware, modemConfig, verInfo, dbCheckDone, copyComplete,
                 unrecorded, copyFailed>>

DbDone ==
  /\ Step("dbDone", "compare")
  /\ dbCheckDone' = TRUE
  /\ UNCHANGED <<firmware, qcrilDb, modemConfig, verInfo, copyComplete,
                 unrecorded, copyFailed, dbCut, failed>>

----------------------------------------------------------------------------
(* modem_config. *)

CopyNeeded == firmware = NoVersion \/ verInfo # firmware

Compare ==
  /\ \/ Step("compare", "remove") /\ CopyNeeded
     \/ Step("compare", "ota") /\ ~CopyNeeded
  /\ UNCHANGED <<firmware, qcrilDb, modemConfig, verInfo, dbCheckDone,
                 copyComplete, unrecorded, copyFailed, dbCut, failed>>

\* As a mutant: the old directory is not removed.
OldConfig == modemConfig

Removed == NoConfig

\* rm -rf removes a directory file by file, and may leave some of them.
RemoveSomeFiles ==
  /\ Step("remove", "remove")
  /\ modemConfig.kind = "directory" /\ modemConfig.whole
  /\ modemConfig' = ConfigOf(modemConfig.version, FALSE)
  /\ unrecorded' = TRUE
  /\ UNCHANGED <<firmware, qcrilDb, verInfo, dbCheckDone, copyComplete, copyFailed,
                 dbCut, failed>>

RemoveConfig ==
  /\ Step("remove", "make")
  /\ \/ modemConfig' = Removed /\ copyFailed' = FALSE /\ UNCHANGED failed
     \/ Fails /\ copyFailed' = TRUE /\ UNCHANGED modemConfig
  /\ unrecorded' = TRUE
  /\ UNCHANGED <<firmware, qcrilDb, verInfo, dbCheckDone, copyComplete, dbCut>>

MakeDirectory ==
  /\ Step("make", "copy")
  /\ IF modemConfig = NoConfig
     THEN \/ modemConfig' = ConfigOf(firmware, FALSE) /\ UNCHANGED <<copyFailed, failed>>
          \/ Fails /\ copyFailed' = TRUE /\ UNCHANGED modemConfig
     ELSE UNCHANGED <<modemConfig, copyFailed, failed>>
  /\ UNCHANGED <<firmware, qcrilDb, verInfo, dbCheckDone, copyComplete, unrecorded,
                 dbCut>>

\* cp -r, file by file; without a directory to copy to nothing arrives, and next to
\* another firmware's files it is not this one's configuration.
CopyConfig ==
  /\ Step("copy", "truncate")
  /\ \/ /\ modemConfig' = IF modemConfig.kind = "directory"
                          THEN ConfigOf(firmware, modemConfig.version = firmware)
                          ELSE modemConfig
        /\ UNCHANGED <<copyFailed, failed>>
     \/ Fails /\ copyFailed' = TRUE /\ UNCHANGED modemConfig
  /\ UNCHANGED <<firmware, qcrilDb, verInfo, dbCheckDone, copyComplete, unrecorded,
                 dbCut>>

\* cp empties ver_info.txt before it writes it; without one to copy it fails.
TruncateVersion ==
  /\ \/ /\ Step("truncate", "record")
        /\ firmware # NoVersion /\ verInfo' = Empty /\ UNCHANGED failed
     \/ /\ Step("truncate", "ota")
        /\ firmware = NoVersion /\ UNCHANGED <<verInfo, failed>>
     \/ Step("truncate", "ota") /\ Fails /\ UNCHANGED verInfo
  /\ UNCHANGED <<firmware, qcrilDb, modemConfig, dbCheckDone, copyComplete,
                 unrecorded, copyFailed, dbCut>>

RecordVersion ==
  /\ Step("record", "ota")
  /\ \/ verInfo' = firmware /\ unrecorded' = FALSE /\ UNCHANGED failed
     \/ Fails /\ UNCHANGED <<verInfo, unrecorded>>
  /\ UNCHANGED <<firmware, qcrilDb, modemConfig, dbCheckDone, copyComplete,
                 copyFailed, dbCut>>

CopyOta ==
  /\ Step("ota", "complete")
  /\ modemConfig' = IF modemConfig = NoConfig THEN PlainFile ELSE modemConfig
  /\ UNCHANGED <<firmware, qcrilDb, verInfo, dbCheckDone, copyComplete, unrecorded,
                 copyFailed, dbCut, failed>>

CopyComplete ==
  /\ Step("complete", "ended")
  /\ copyComplete' = TRUE
  /\ UNCHANGED <<firmware, qcrilDb, modemConfig, verInfo, dbCheckDone, unrecorded,
                 copyFailed, dbCut, failed>>

----------------------------------------------------------------------------
(* What init does with it. *)

\* As a mutant: init leaves copy_complete as the last boot has left it.
FlagKept == copyComplete

FlagCleared == FALSE

\* on zygote-start.
ResetRadioFlags ==
  /\ Step("down", "flagsReset")
  /\ copyComplete' = FlagCleared
  /\ dbCheckDone' = FALSE
  /\ UNCHANGED <<firmware, qcrilDb, modemConfig, verInfo, unrecorded,
                 copyFailed, dbCut, failed>>

\* class_start late_start.
StartRadio ==
  /\ Step("flagsReset", "db")
  /\ UNCHANGED <<firmware, qcrilDb, modemConfig, verInfo, dbCheckDone,
                 copyComplete, unrecorded, copyFailed, dbCut, failed>>

\* A reboot, perhaps into the other slot.
RebootRadio ==
  /\ radioPc' = "down"
  /\ firmware' \in Firmware
  /\ dbCut' = (dbCut \/ radioPc = "dbCopy")
  /\ UNCHANGED <<qcrilDb, modemConfig, verInfo, dbCheckDone, copyComplete,
                 unrecorded, copyFailed, failed>>

----------------------------------------------------------------------------

RadioScript ==
  \/ CreateDb \/ KeepDb \/ FillDb \/ DbDone \/ Compare \/ RemoveSomeFiles
  \/ RemoveConfig \/ MakeDirectory \/ CopyConfig \/ TruncateVersion
  \/ RecordVersion \/ CopyOta \/ CopyComplete

RadioNext == RadioScript \/ ResetRadioFlags \/ StartRadio \/ RebootRadio

RadioSpec == RadioInit /\ [][RadioNext]_radioVars

----------------------------------------------------------------------------
(* Properties. *)

RadioTypeOK ==
  /\ radioPc \in RadioPcs /\ firmware \in Firmware
  /\ qcrilDb \in {"none", "partial", "whole"}
  /\ modemConfig \in Configs
  /\ verInfo \in Texts
  /\ dbCheckDone \in BOOLEAN /\ copyComplete \in BOOLEAN
  /\ unrecorded \in BOOLEAN /\ copyFailed \in BOOLEAN
  /\ dbCut \in BOOLEAN /\ failed \in BOOLEAN

\* A version is only on record with the whole of its configuration, and nothing
\* else, next to it, wherever reboots have cut the script short.  Between the
\* first file that is removed and the new record the old version still stands, and
\* a removal or copy that failed is recorded like one that did not; the next copy
\* that succeeds makes up for it.
RecordedMeansWhole ==
  modemConfig = ConfigOf(verInfo, TRUE) \/ unrecorded \/ copyFailed

\* "Make modem config folder and copy firmware config to that folder for RIL"
\* (init.radio.sh:18): once copy_complete is set the folder holds the
\* configuration of this firmware.  It does not when its version is still on record
\* from before a copy for other firmware that did not get as far as a record: one
\* that was cut short, and any copy for firmware without a version.  The empty
\* version counts as on record where there is none.
ConfigOfThisFirmware ==
  radioPc # "down" /\ copyComplete =>
    \/ modemConfig = ConfigOf(firmware, TRUE)
    \/ unrecorded /\ verInfo = firmware
    \/ copyFailed

\* "Copy qcril.db if needed for RIL" (init.radio.sh:4): RIL finds the whole of
\* it.  A copy cut short by a reboot is not made good by any later boot, one that
\* never created the file is.
DbIsWhole ==
  radioPc # "down" /\ dbCheckDone /\ VendorDb => qcrilDb = "whole" \/ dbCut

----------------------------------------------------------------------------
(* The inductive invariant behind them. *)

\* What ConfigOfThisFirmware says, wherever the script is.
ConfigIsRight ==
  \/ modemConfig = ConfigOf(firmware, TRUE)
  \/ unrecorded /\ verInfo = firmware
  \/ copyFailed

\* How far modem_config has got at each step of its copy.
CopyInv ==
  /\ radioPc \in {"make", "copy", "truncate", "record"} => unrecorded
  /\ radioPc = "make" => modemConfig = NoConfig \/ copyFailed
  /\ radioPc = "copy" => modemConfig = ConfigOf(firmware, FALSE) \/ copyFailed
  /\ radioPc \in {"truncate", "record"} =>
       modemConfig = ConfigOf(firmware, TRUE) \/ copyFailed
  /\ radioPc = "record" => firmware # NoVersion
  /\ radioPc \in {"ota", "complete", "ended"} => ConfigIsRight
  /\ radioPc \notin {"down", "ended"} => ~copyComplete

DbInv ==
  /\ qcrilDb = "partial" => radioPc = "dbCopy" \/ dbCut
  /\ radioPc \in {"flagsReset", "db", "dbCopy", "dbDone"} => ~dbCheckDone
  /\ radioPc = "dbDone" /\ VendorDb => qcrilDb = "whole" \/ dbCut

RadioInv ==
  /\ RadioTypeOK /\ RecordedMeansWhole /\ CopyInv
  /\ DbInv /\ DbIsWhole

===============================================================================
