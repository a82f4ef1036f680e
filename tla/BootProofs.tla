------------------------------ MODULE BootProofs ------------------------------
(***************************************************************************)
(* The safety properties of Boot and of the scripts it starts, for every   *)
(* number of retries, set of firmware versions and list of packages.       *)
(*                                                                         *)
(* Each component keeps its own invariant, whatever the others do; the     *)
(* steps of Boot are steps of one component, or a reboot of all of them.   *)
(***************************************************************************)
EXTENDS Boot, TLAPS

----------------------------------------------------------------------------
(* Fingerprint. *)

LEMMA FpsInitInv == FpsInit => FpsInv
<1>1. 0 \in 0..MaxTimes
  BY MaxTimesAssumption
<1>2. {} \subseteq FpsEvents
  OBVIOUS
<1> QED
  BY <1>1, <1>2, MaxExitsAssumption, Zenon
  DEF FpsInit, FpsInv, FpsTypeOK, ScriptPcs, FpsStates

LEMMA FpsStepTypes ==
  ASSUME FpsTypeOK, FpsNext \/ RebootFps \/ UNCHANGED fpsVars
  PROVE  FpsTypeOK'
<1> USE MaxTimesAssumption, MaxExitsAssumption
    DEF FpsTypeOK, ScriptPcs, FpsStates, FpsEvents
<1>1. CASE LookAtService
  <2>1. CASE fpsHal = "stopped" /\ MoreToTry
    BY <1>1, <2>1 DEF LookAtService, MoreToTry
  <2>2. CASE fpsHal = "stopped" /\ ~MoreToTry
    BY <1>1, <2>2 DEF LookAtService
  <2>3. CASE fpsHal = "running"
    BY <1>1, <2>3 DEF LookAtService, WhenRunning
  <2>4. CASE fpsHal = "restarting"
    BY <1>1, <2>4 DEF LookAtService, OtherState
  <2> QED BY <2>1, <2>2, <2>3, <2>4
<1>2. CASE Retry
  BY <1>2 DEF Retry
<1>3. CASE StartService
  BY <1>3 DEF StartService
<1>4. CASE DeclareSuccess
  BY <1>4 DEF DeclareSuccess
<1>5. CASE ScriptEnds
  BY <1>5 DEF ScriptEnds
<1>6. ASSUME NEW e \in FpsEvents, HandleEvent(e)
      PROVE  FpsTypeOK'
  <2>1. events' \subseteq FpsEvents /\ UNCHANGED <<fpsHal, succeed, booted, exits>>
    BY <1>6 DEF HandleEvent
  <2>2. /\ scriptPc' \in ScriptPcs /\ retries' \in 0..MaxTimes
        /\ gaveUp' \in BOOLEAN /\ startLost' \in BOOLEAN
    <3>1. CASE Triggered(e) /\ scriptPc = "off"
      <4>1. /\ scriptPc' = "look" /\ retries' = 0
            /\ gaveUp' = FALSE /\ startLost' = FALSE
        BY <1>6, <3>1, Zenon DEF HandleEvent, StartScript
      <4>2. 0 \in 0..MaxTimes
        OBVIOUS
      <4> QED BY <4>1, <4>2, Zenon
    <3>2. CASE Triggered(e) /\ scriptPc # "off"
      <4>1. startLost' = (scriptPc \in {"declare", "ending"})
        BY <1>6, <3>2 DEF HandleEvent, StartScript
      <4>2. UNCHANGED <<scriptPc, retries, gaveUp>>
        BY <1>6, <3>2 DEF HandleEvent, StartScript
      <4>3. startLost' \in BOOLEAN
        BY <4>1
      <4> QED BY <4>2, <4>3
    <3>3. CASE ~Triggered(e)
      BY <1>6, <3>3 DEF HandleEvent
    <3> QED BY <3>1, <3>2, <3>3
  <2> QED BY <2>1, <2>2
<1>7. CASE ServiceRestarts
  BY <1>7 DEF ServiceRestarts
<1>8. CASE BootCompleted
  BY <1>8 DEF BootCompleted
<1>9. CASE ServiceEnds
  <2>1. exits' \in Nat
    BY <1>9 DEF ServiceEnds
  <2>2. /\ fpsHal' \in FpsStates /\ events' \subseteq FpsEvents
        /\ UNCHANGED <<scriptPc, retries, succeed, booted, gaveUp, startLost>>
    BY <1>9 DEF ServiceEnds
  <2> QED BY <2>1, <2>2
<1>10. CASE RebootFps
  <2>1. 0 \in 0..MaxTimes
    OBVIOUS
  <2> QED BY <1>10, <2>1, Zenon DEF RebootFps
<1>11. CASE UNCHANGED fpsVars
  BY <1>11 DEF fpsVars
<1> QED
  BY <1>1, <1>2, <1>3, <1>4, <1>5, <1>6, <1>7, <1>8, <1>9, <1>10, <1>11
  DEF FpsNext, Script, InitDaemon

LEMMA FpsStepInv ==
  ASSUME FpsInv, FpsNext \/ RebootFps \/ UNCHANGED fpsVars
  PROVE  FpsInv'
<1>0. FpsTypeOK'
  BY FpsStepTypes DEF FpsInv
<1> USE <1>0 DEF FpsInv
<1>1. CASE LookAtService
  <2>1. CASE fpsHal = "stopped" /\ MoreToTry
    BY <1>1, <2>1 DEF LookAtService
  <2>2. CASE fpsHal = "stopped" /\ ~MoreToTry
    <3>1. MaxTimes > 0 /\ retries \in Nat /\ ~(retries < MaxTimes)
      BY <2>2, MaxTimesAssumption DEF MoreToTry, FpsTypeOK
    <3>2. retries > 0
      BY <3>1, MaxTimesAssumption
    <3> QED BY <1>1, <2>2, <3>2 DEF LookAtService
  <2>3. CASE fpsHal = "running"
    BY <1>1, <2>3 DEF LookAtService, WhenRunning
  <2>4. CASE fpsHal = "restarting"
    BY <1>1, <2>4 DEF LookAtService, OtherState
  <2> QED BY <1>1, <2>1, <2>2, <2>3, <2>4 DEF FpsTypeOK, FpsStates
<1>2. CASE Retry
  BY <1>2 DEF Retry
<1>3. CASE StartService
  BY <1>3 DEF StartService
<1>4. CASE DeclareSuccess
  BY <1>4 DEF DeclareSuccess, TriggerPending
<1>5. CASE ScriptEnds
  BY <1>5 DEF ScriptEnds, TriggerPending
<1>6. ASSUME NEW e \in FpsEvents, HandleEvent(e)
      PROVE  FpsInv'
  <2> USE <1>6 DEF TriggerPending, FpsEvents
  <2>1. CASE Triggered(e) /\ scriptPc = "off"
    BY <2>1 DEF HandleEvent, StartScript
  <2>2. CASE Triggered(e) /\ scriptPc # "off"
    <3>1. /\ startLost' <=> scriptPc \in {"declare", "ending"}
          /\ UNCHANGED <<scriptPc, retries, gaveUp, fpsHal, succeed, booted>>
          /\ events' = events \ {e}
      BY <2>2, Zenon DEF HandleEvent, StartScript
    <3> QED BY <2>2, <3>1 DEF Triggered
  <2>3. CASE ~Triggered(e)
    <3>1. UNCHANGED <<scriptPc, retries, gaveUp, startLost, fpsHal, succeed, booted,
                      exits>> /\ events' = events \ {e}
      BY <2>3 DEF HandleEvent
    <3>2. e \in {"succeed", "stopped"} /\ (succeed => e = "succeed" /\ fpsHal # "stopped")
      BY <2>3 DEF Triggered
    <3> QED BY <3>1, <3>2
  <2> QED BY <2>1, <2>2, <2>3
<1>7. CASE ServiceRestarts
  BY <1>7 DEF ServiceRestarts
<1>8. CASE BootCompleted
  BY <1>8 DEF BootCompleted, TriggerPending
<1>9. CASE ServiceEnds
  BY <1>9 DEF ServiceEnds, TriggerPending
<1>10. CASE RebootFps
  BY <1>10 DEF RebootFps
<1>11. CASE UNCHANGED fpsVars
  BY <1>11 DEF fpsVars, TriggerPending
<1> QED
  BY <1>1, <1>2, <1>3, <1>4, <1>5, <1>6, <1>7, <1>8, <1>9, <1>10, <1>11
  DEF FpsNext, Script, InitDaemon

----------------------------------------------------------------------------
(* RadioConfig. *)

\* What the proofs need to know of the states of modem_config.
LEMMA ConfigFacts ==
  /\ NoConfig \in Configs /\ PlainFile \in Configs
  /\ \A v \in Firmware, w \in BOOLEAN : ConfigOf(v, w) \in Configs
  /\ \A v, w : /\ ConfigOf(v, w) # NoConfig
               /\ ConfigOf(v, w).kind = "directory" /\ ConfigOf(v, w).version = v
  /\ \A c \in Configs : c.kind = "directory" => ConfigOf(c.version, FALSE) \in Configs
<1>1. NoConfig \in Configs /\ PlainFile \in Configs
  BY DEF Configs
<1>2. \A v \in Firmware, w \in BOOLEAN : ConfigOf(v, w) \in Configs
  BY DEF Configs
<1>3. \A v, w : ConfigOf(v, w).kind = "directory" /\ ConfigOf(v, w).version = v
  BY DEF ConfigOf
<1>4. NoConfig.kind = "none" /\ PlainFile.kind = "file"
  BY DEF NoConfig, PlainFile
<1>5. \A v, w : ConfigOf(v, w) # NoConfig
  BY <1>3, <1>4
<1>6. ASSUME NEW c \in Configs, c.kind = "directory"
      PROVE  ConfigOf(c.version, FALSE) \in Configs
  <2>1. PICK v \in Firmware, w \in BOOLEAN : c = ConfigOf(v, w)
    BY <1>4, <1>6 DEF Configs
  <2>2. c.version = v
    BY <2>1, <1>3
  <2> QED BY <2>2, <1>2
<1> QED BY <1>1, <1>2, <1>3, <1>5, <1>6

LEMMA RadioInitInv == RadioInit => RadioInv
<1> SUFFICES ASSUME RadioInit PROVE RadioInv
  OBVIOUS
<1> USE DEF RadioInit, RadioInv, RadioTypeOK, RecordedMeansWhole, CopyInv, DbInv,
            DbIsWhole, RadioPcs, Firmware, Texts
<1>1. CASE /\ qcrilDb = "none" /\ modemConfig = NoConfig /\ verInfo = Empty
           /\ dbCheckDone = FALSE /\ copyComplete = FALSE
  BY <1>1, ConfigFacts, Zenon
<1>2. CASE /\ qcrilDb = (IF VendorDb THEN "whole" ELSE "none")
           /\ modemConfig = IF firmware = Empty THEN PlainFile
                            ELSE ConfigOf(firmware, TRUE)
           /\ verInfo = IF firmware = NoVersion THEN Empty ELSE firmware
           /\ dbCheckDone = TRUE /\ copyComplete = TRUE
  <2>1. qcrilDb \in {"none", "partial", "whole"} /\ qcrilDb # "partial"
    BY <1>2, VendorDbAssumption
  <2>2. verInfo \in Texts /\ modemConfig \in Configs
    BY <1>2, ConfigFacts
  <2>3. verInfo # Empty => modemConfig = ConfigOf(verInfo, TRUE)
    BY <1>2
  <2> QED BY <1>2, <2>1, <2>2, <2>3, Zenon
<1> QED BY <1>1, <1>2

LEMMA RadioStepTypes ==
  ASSUME RadioTypeOK, RadioNext \/ UNCHANGED radioVars,
         radioPc = "record" => firmware # NoVersion
  PROVE  RadioTypeOK'
<1> USE ConfigFacts DEF RadioTypeOK, RadioPcs, Firmware, Texts, Step, Fails
<1>1. CASE CreateDb
  BY <1>1 DEF CreateDb, DbNeeded
<1>2. CASE KeepDb
  BY <1>2 DEF KeepDb, DbNeeded
<1>3. CASE FillDb
  BY <1>3 DEF FillDb, Filled
<1>4. CASE DbDone
  BY <1>4 DEF DbDone
<1>5. CASE Compare
  BY <1>5 DEF Compare, CopyNeeded
<1>6. CASE RemoveConfig
  BY <1>6 DEF RemoveConfig, Removed
<1>7. CASE MakeDirectory
  BY <1>7 DEF MakeDirectory
<1>8. CASE CopyConfig
  BY <1>8 DEF CopyConfig
<1>9. CASE TruncateVersion
  BY <1>9 DEF TruncateVersion
<1>10. CASE RecordVersion
  BY <1>10 DEF RecordVersion
<1>11. CASE CopyOta
  BY <1>11 DEF CopyOta
<1>12. CASE CopyComplete
  BY <1>12 DEF CopyComplete
<1>13. CASE ResetRadioFlags
  BY <1>13 DEF ResetRadioFlags, FlagCleared
<1>14. CASE StartRadio
  BY <1>14 DEF StartRadio
<1>15. CASE RebootRadio
  BY <1>15 DEF RebootRadio
<1>16. CASE UNCHANGED radioVars
  BY <1>16 DEF radioVars
<1>17. CASE RemoveSomeFiles
  BY <1>17 DEF RemoveSomeFiles
<1> QED
  BY <1>1, <1>2, <1>3, <1>4, <1>5, <1>6, <1>7, <1>8, <1>9, <1>10, <1>11, <1>12,
     <1>13, <1>14, <1>15, <1>16, <1>17
  DEF RadioNext, RadioScript

LEMMA RadioStepInv ==
  ASSUME RadioInv, RadioNext \/ UNCHANGED radioVars
  PROVE  RadioInv'
<1>0. RadioTypeOK'
  BY RadioStepTypes DEF RadioInv, CopyInv
<1> USE <1>0, ConfigFacts
    DEF RadioInv, RecordedMeansWhole, CopyInv, DbInv, DbIsWhole, ConfigIsRight,
        Step, Fails
<1>1. CASE CreateDb
  <2>1. CASE radioPc' = "dbCopy"
    <3>1. /\ radioPc = "db" /\ qcrilDb' = "partial"
          /\ UNCHANGED <<firmware, modemConfig, verInfo, dbCheckDone, copyComplete,
                         unrecorded, copyFailed, dbCut, failed>>
      BY <1>1, <2>1, Zenon DEF CreateDb
    <3> QED BY <2>1, <3>1, Zenon
  <2>2. CASE radioPc' = "dbDone"
    BY <1>1, <2>2 DEF CreateDb
  <2> QED BY <1>1, <2>1, <2>2 DEF CreateDb
<1>2. CASE KeepDb
  <2>1. VendorDb => qcrilDb = "partial" \/ qcrilDb = "whole"
    BY <1>2 DEF KeepDb, DbNeeded, RadioTypeOK
  <2> QED BY <1>2, <2>1, Zenon DEF KeepDb
<1>3. CASE FillDb
  BY <1>3 DEF FillDb, Filled
<1>4. CASE DbDone
  BY <1>4 DEF DbDone
<1>5. CASE Compare
  BY <1>5 DEF Compare, CopyNeeded
<1>6. CASE RemoveConfig
  BY <1>6 DEF RemoveConfig, Removed
<1>7. CASE MakeDirectory
  BY <1>7 DEF MakeDirectory
<1>8. CASE CopyConfig
  <2>1. modemConfig' = ConfigOf(firmware, TRUE) \/ copyFailed'
    <3>1. CASE modemConfig = ConfigOf(firmware, FALSE)
      <4>1. modemConfig.kind = "directory" /\ modemConfig.version = firmware
        BY <3>1
      <4>2. (modemConfig.version = firmware) = TRUE
        BY <4>1
      <4> QED BY <1>8, <4>1, <4>2, Zenon DEF CopyConfig
    <3>2. CASE copyFailed
      BY <1>8, <3>2, Zenon DEF CopyConfig
    <3> QED BY <1>8, <3>1, <3>2, Zenon DEF CopyConfig
  <2>2. /\ radioPc = "copy" /\ radioPc' = "truncate"
        /\ UNCHANGED <<firmware, qcrilDb, verInfo, dbCheckDone, copyComplete, unrecorded,
                       dbCut>>
    BY <1>8, Zenon DEF CopyConfig
  <2> QED BY <2>1, <2>2, Zenon
<1>9. CASE TruncateVersion
  BY <1>9 DEF TruncateVersion
<1>10. CASE RecordVersion
  BY <1>10 DEF RecordVersion
<1>11. CASE CopyOta
  BY <1>11 DEF CopyOta
<1>12. CASE CopyComplete
  BY <1>12 DEF CopyComplete
<1>13. CASE ResetRadioFlags
  BY <1>13 DEF ResetRadioFlags, FlagCleared
<1>14. CASE StartRadio
  BY <1>14 DEF StartRadio
<1>15. CASE RebootRadio
  BY <1>15 DEF RebootRadio
<1>16. CASE UNCHANGED radioVars
  BY <1>16 DEF radioVars
<1>17. CASE RemoveSomeFiles
  BY <1>17 DEF RemoveSomeFiles
<1> QED
  BY <1>1, <1>2, <1>3, <1>4, <1>5, <1>6, <1>7, <1>8, <1>9, <1>10, <1>11, <1>12,
     <1>13, <1>14, <1>15, <1>16, <1>17
  DEF RadioNext, RadioScript

\* Once the flag is set the script has ended, and ConfigIsRight is what it left.
LEMMA FlagMeansRight == RadioInv => ConfigOfThisFirmware
  BY DEF RadioInv, CopyInv, ConfigIsRight, ConfigOfThisFirmware

----------------------------------------------------------------------------
(* EuiccDisabler. *)

LEMMA EuiccInitInv == EuiccInit => EuiccInv
<1> SUFFICES ASSUME EuiccInit PROVE EuiccInv
  OBVIOUS
<1>1. enabled \subseteq installed
  BY DEF EuiccInit
<1>2. index \in Nat \ {0} /\ toggles \in Nat /\ receiverPc = "idle"
  BY MaxTogglesAssumption DEF EuiccInit
<1> QED
  BY <1>1, <1>2 DEF EuiccInit, EuiccInv, EuiccTypeOK, PackagesFollowDependencies

LEMMA ListFacts ==
  /\ Len(Dependencies) \in Nat /\ DOMAIN Dependencies = 1..Len(Dependencies)
  /\ Len(Packages) \in Nat /\ DOMAIN Packages = 1..Len(Packages)
  /\ \A i, j \in DOMAIN Packages : Packages[i] = Packages[j] => i = j
  /\ \A b \in Builds : \A p \in b : \E i \in DOMAIN Packages : p = Packages[i]
  /\ 1 \in DOMAIN Packages
<1>1. \A b \in Builds : b \subseteq {Packages[i] : i \in DOMAIN Packages}
  BY PackagesAssumption
<1>2. \A b \in Builds : \A p \in b : \E i \in DOMAIN Packages : p = Packages[i]
  BY <1>1
<1>3. Len(Packages) \in Nat /\ DOMAIN Packages = 1..Len(Packages)
  BY PackagesAssumption DEF IsList
<1>4. Len(Dependencies) \in Nat /\ DOMAIN Dependencies = 1..Len(Dependencies)
  BY PackagesAssumption DEF IsList
<1>5. \A i, j \in DOMAIN Packages : Packages[i] = Packages[j] => i = j
  BY PackagesAssumption
<1>6. 1 \in DOMAIN Packages
  BY PackagesAssumption, <1>3
<1> QED BY <1>2, <1>3, <1>4, <1>5, <1>6

LEMMA EuiccStepTypes ==
  ASSUME EuiccTypeOK,
         OnReceive \/ Receiver \/ Toggle \/ RebootEuicc \/ UNCHANGED euiccVars
  PROVE  EuiccTypeOK'
<1> USE DEF EuiccTypeOK
<1>1. CASE OnReceive
  BY <1>1, 1 \in Nat \ {0}, Zenon DEF OnReceive
<1>2. CASE CheckDependency
  <2>1. index' \in Nat \ {0}
    BY <1>2 DEF CheckDependency
  <2>2. receiverPc' \in {"check", "set"} /\ disable' \in BOOLEAN
    BY <1>2, Zenon DEF CheckDependency
  <2> QED BY <1>2, <2>1, <2>2, Zenon DEF CheckDependency
<1>3. CASE SetPackage
  BY <1>3 DEF SetPackage
<1>4. CASE Toggle
  BY <1>4 DEF Toggle
<1>5. CASE RebootEuicc
  BY <1>5, 1 \in Nat \ {0}, Zenon DEF RebootEuicc
<1>6. CASE UNCHANGED euiccVars
  BY <1>6 DEF euiccVars
<1> QED BY <1>1, <1>2, <1>3, <1>4, <1>5, <1>6 DEF Receiver

LEMMA EuiccStepInv ==
  ASSUME EuiccInv,
         OnReceive \/ Receiver \/ Toggle \/ RebootEuicc \/ UNCHANGED euiccVars
  PROVE  EuiccInv'
<1>0. EuiccTypeOK'
  BY EuiccStepTypes DEF EuiccInv
<1> USE <1>0, ListFacts DEF EuiccInv, PackagesFollowDependencies
<1>1. CASE OnReceive
  <2>1. \A i \in DOMAIN Dependencies : ~(i < 1)
    OBVIOUS
  <2> QED BY <1>1, <2>1, Zenon DEF OnReceive
<1>2. CASE CheckDependency
  <2>0. index \in Nat \ {0} /\ present \subseteq DependencySet
    BY DEF EuiccTypeOK
  <2>1. CASE index > Len(Dependencies)
    <3>1. /\ receiverPc = "check" /\ receiverPc' = "set" /\ index' = 1
          /\ UNCHANGED <<disable, present, installed, enabled, toggles, changed>>
      BY <1>2, <2>1, Zenon DEF CheckDependency
    <3>2. \A i \in DOMAIN Dependencies : i < index
      BY <2>0, <2>1
    <3>3. ~changed => \A i \in DOMAIN Dependencies : Dependencies[i] \in present
      BY <3>1, <3>2, Zenon
    <3>4. ~changed => present = DependencySet
      BY <2>0, <3>3 DEF DependencySet
    <3>5. \A i \in DOMAIN Packages : ~(i < 1)
      OBVIOUS
    <3> QED BY <3>1, <3>4, <3>5, Zenon DEF DependencySet
  <2>2. CASE ~(index > Len(Dependencies)) /\ Missing(Dependencies[index])
    <3>1. /\ receiverPc' = "set" /\ index' = 1 /\ disable' = TRUE
          /\ UNCHANGED <<present, installed, enabled, toggles, changed>>
      BY <1>2, <2>2, Zenon DEF CheckDependency
    <3>2. index \in DOMAIN Dependencies
      BY <2>0, <2>2
    <3>3. Dependencies[index] \in DependencySet /\ Dependencies[index] \notin present
      BY <2>2, <3>2, Zenon DEF DependencySet, Missing
    <3>4. present # DependencySet
      BY <3>3
    <3>5. \A i \in DOMAIN Packages : ~(i < 1)
      OBVIOUS
    <3> QED BY <3>1, <3>4, <3>5, Zenon DEF DependencySet
  <2>3. CASE ~(index > Len(Dependencies)) /\ ~Missing(Dependencies[index])
    <3>1. \A i \in DOMAIN Dependencies : i < index + 1 => i < index \/ i = index
      BY <2>0
    <3>2. Dependencies[index] \in present
      BY <2>3, Zenon DEF Missing
    <3>3. /\ receiverPc = "check" /\ receiverPc' = "check" /\ index' = index + 1
          /\ UNCHANGED <<disable, present, installed, enabled, toggles, changed>>
      BY <1>2, <2>3, Zenon DEF CheckDependency
    <3> QED BY <3>1, <3>2, <3>3, Zenon
  <2> QED BY <2>1, <2>2, <2>3
<1>3. CASE SetPackage
  <2>0. /\ index \in Nat \ {0} /\ present \subseteq DependencySet
        /\ installed \in Builds /\ enabled \subseteq installed
    BY DEF EuiccTypeOK
  <2>1. CASE index > Len(Packages)
    <3>1. \A i \in DOMAIN Packages : i < index
      BY <2>0, <2>1
    <3>2. \A p \in installed : p \in enabled <=> ~disable
      <4> SUFFICES ASSUME NEW p \in installed PROVE p \in enabled <=> ~disable
        OBVIOUS
      <4>1. PICK i \in DOMAIN Packages : p = Packages[i]
        BY <2>0, Zenon
      <4>2. receiverPc = "set" /\ i < index
        BY <1>3, <3>1, Zenon DEF SetPackage
      <4> QED BY <4>1, <4>2, Zenon
    <3>3. Packages[1] \in installed
      BY <1>3, <3>1, Zenon DEF SetPackage
    <3>4. enabled = IF disable THEN {} ELSE installed
      <4>1. CASE disable
        BY <4>1, <2>0, <3>2
      <4>2. CASE ~disable
        BY <4>2, <2>0, <3>2
      <4> QED BY <4>1, <4>2
    <3>5. /\ receiverPc = "set"
          /\ UNCHANGED <<disable, present, installed, enabled, changed>>
      BY <1>3, <2>1, Zenon DEF SetPackage
    <3>6. ~changed => (disable <=> present # DependencySet)
      BY <3>5, Zenon
    <3>7. enabled # {} <=> ~disable
      BY <3>3, <3>4
    <3>8. enabled \in {{}, installed}
      BY <3>4
    <3>9. receiverPc' = "done"
      BY <1>3, <2>1, Zenon DEF SetPackage
    <3> QED BY <3>5, <3>6, <3>7, <3>8, <3>9, Zenon DEF DependencySet
  <2>2. CASE ~(index > Len(Packages)) /\ Packages[index] \notin installed
    BY <1>3, <2>2, Zenon DEF SetPackage
  <2>3. CASE ~(index > Len(Packages)) /\ Packages[index] \in installed
    <3>1. index \in DOMAIN Packages
      BY <2>0, <2>3
    <3>2. /\ receiverPc = "set" /\ index' = index + 1
          /\ UNCHANGED <<receiverPc, disable, present, installed, toggles, changed>>
      BY <1>3, <2>3, Zenon DEF SetPackage
    <3>3. enabled' = IF disable THEN enabled \ {Packages[index]}
                     ELSE enabled \cup {Packages[index]}
      BY <1>3, <2>3, Zenon DEF SetPackage
    <3>4. ASSUME NEW i \in DOMAIN Packages, i < index + 1
          PROVE  /\ Packages[i] \in installed
                 /\ Packages[i] \in enabled' <=> ~disable
      <4>1. CASE i = index
        BY <4>1, <2>3, <3>3, Zenon
      <4>2. CASE i # index
        <5>1. i < index
          BY <4>2, <3>4, <2>0
        <5>2. Packages[i] # Packages[index]
          BY <4>2, <3>1, Zenon
        <5>3. Packages[i] \in installed /\ (Packages[i] \in enabled <=> ~disable)
          BY <5>1, <3>2, Zenon
        <5> QED BY <5>2, <5>3, <3>3, Zenon
      <4> QED BY <4>1, <4>2
    <3> QED BY <3>2, <3>4, Zenon DEF DependencySet
  <2> QED BY <2>1, <2>2, <2>3
<1>4. CASE Toggle
  BY <1>4, Zenon DEF Toggle
<1>5. CASE RebootEuicc
  BY <1>5, Zenon DEF RebootEuicc
<1>6. CASE UNCHANGED euiccVars
  BY <1>6, Zenon DEF euiccVars, DependencySet
<1> QED BY <1>1, <1>2, <1>3, <1>4, <1>5, <1>6, Zenon DEF Receiver

----------------------------------------------------------------------------
(* Boot. *)

\* Each step of Boot is, for each component, one of its steps or none.
LEMMA ComponentSteps ==
  ASSUME [BootNext]_vars
  PROVE  /\ FpsNext \/ RebootFps \/ UNCHANGED fpsVars
         /\ RadioNext \/ UNCHANGED radioVars
         /\ OnReceive \/ Receiver \/ Toggle \/ RebootEuicc \/ UNCHANGED euiccVars
<1>1. CASE InitProcess
  BY <1>1 DEF InitProcess, InitStage, StartDevstart, WaitForManager,
              WaitForStrongbox, PostFsData, ZygoteStart, EarlyBoot, LateStart,
              RadioNext
<1>2. CASE Completed
  BY <1>2 DEF Completed, FpsNext
<1>3. CASE InsmodReady \/ DevUp \/ KeymasterComesOrGoes \/ \E d \in Daemons : DaemonReady(d)
  BY <1>3 DEF InsmodReady, DevUp, KeymasterComesOrGoes, DaemonReady
<1>4. CASE Reboot
  BY <1>4 DEF Reboot, RadioNext
<1>5. CASE FpsStep
  BY <1>5 DEF FpsStep, FpsNext
<1>6. CASE RadioStep
  BY <1>6 DEF RadioStep, RadioNext
<1>7. CASE EuiccStep
  BY <1>7 DEF EuiccStep
<1>8. CASE UNCHANGED vars
  BY <1>8 DEF vars
<1> QED BY <1>1, <1>2, <1>3, <1>4, <1>5, <1>6, <1>7, <1>8 DEF BootNext

\* What init itself keeps.
StageTypeOK ==
  /\ \E i \in DOMAIN Stages : stage = Stages[i]
  /\ keymasters \subseteq Keymasters
  /\ background \in [BackgroundScripts -> {"off", "working", "ended"}]
  /\ daemons \subseteq Daemons
  /\ properties \subseteq Properties
  /\ reboots \in Nat

LEMMA StageNames ==
  \A s : (\E i \in DOMAIN Stages : s = Stages[i])
           <=> s \in {"init", "lateFs", "strongbox", "postFsData", "zygoteStart",
                      "earlyBoot", "boot", "completed"}
<1>1. DOMAIN Stages = 1..8
  BY DEF Stages
<1>2. \A i \in 1..8 : \/ i = 1 \/ i = 2 \/ i = 3 \/ i = 4
                   \/ i = 5 \/ i = 6 \/ i = 7 \/ i = 8
  OBVIOUS
<1>3. /\ Stages[1] = "init" /\ Stages[2] = "lateFs" /\ Stages[3] = "strongbox"
      /\ Stages[4] = "postFsData" /\ Stages[5] = "zygoteStart"
      /\ Stages[6] = "earlyBoot" /\ Stages[7] = "boot" /\ Stages[8] = "completed"
  BY DEF Stages
<1> QED BY <1>1, <1>2, <1>3

LEMMA DaemonNames ==
  /\ Daemons = {"hwservicemanager", "qseecomd", "time_daemon"}
  /\ \A d \in Daemons : Announces[d] \in Properties
  /\ {"vendor.qcom.devup", "vendor.all.modules.ready"} \subseteq Properties
  BY DEF Daemons, Announces, Properties

LEMMA StageStep ==
  ASSUME StageTypeOK, [BootNext]_vars
  PROVE  StageTypeOK'
<1> USE StageNames, DaemonNames DEF StageTypeOK, BackgroundScripts
<1>1. CASE InitStage
  BY <1>1 DEF InitStage
<1>2. CASE StartDevstart
  BY <1>2 DEF StartDevstart
<1>3. CASE WaitForStrongbox
  BY <1>3 DEF WaitForStrongbox
<1>4. CASE ZygoteStart
  BY <1>4 DEF ZygoteStart
<1>5. CASE EarlyBoot
  BY <1>5 DEF EarlyBoot
<1>6. CASE LateStart
  BY <1>6 DEF LateStart, initVars
<1>7. CASE Completed
  BY <1>7 DEF Completed
<1>8. CASE InsmodReady
  BY <1>8 DEF InsmodReady
<1>9. CASE DevUp
  BY <1>9 DEF DevUp
<1>10. CASE KeymasterComesOrGoes
  BY <1>10 DEF KeymasterComesOrGoes
<1>11. CASE Reboot
  BY <1>11 DEF Reboot, PowerOn
<1>12. CASE UNCHANGED initVars
  BY <1>12 DEF initVars
<1>13. CASE WaitForManager
  BY <1>13 DEF WaitForManager
<1>14. CASE PostFsData
  BY <1>14 DEF PostFsData
<1>15. CASE \E d \in Daemons : DaemonReady(d)
  BY <1>15 DEF DaemonReady
<1> QED
  BY <1>1, <1>2, <1>3, <1>4, <1>5, <1>6, <1>7, <1>8, <1>9, <1>10, <1>11, <1>12,
     <1>13, <1>14, <1>15
  DEF BootNext, InitProcess, FpsStep, RadioStep, EuiccStep, vars

LEMMA BootInitInv == BootInit => BootInv
<1> SUFFICES ASSUME BootInit PROVE BootInv
  OBVIOUS
<1>1. StageTypeOK
  BY StageNames, BootAssumption
  DEF BootInit, PowerOn, StageTypeOK, Keymasters, BackgroundScripts
<1>2. FpsInv /\ RadioInv /\ EuiccInv
  BY FpsInitInv, RadioInitInv, EuiccInitInv DEF BootInit
<1> QED
  BY <1>1, <1>2 DEF BootInv, BootTypeOK, StageTypeOK, FpsInv, RadioInv, EuiccInv

LEMMA BootStepInv == BootInv /\ [BootNext]_vars => BootInv'
<1> SUFFICES ASSUME BootInv, [BootNext]_vars PROVE BootInv'
  OBVIOUS
<1>1. FpsInv' /\ RadioInv' /\ EuiccInv'
  BY ComponentSteps, FpsStepInv, RadioStepInv, EuiccStepInv DEF BootInv
<1>2. StageTypeOK'
  BY StageStep DEF BootInv, BootTypeOK, StageTypeOK
<1> QED
  BY <1>1, <1>2 DEF BootInv, BootTypeOK, StageTypeOK, FpsInv, RadioInv, EuiccInv

LEMMA BootInductive == BootSpec => []BootInv
  BY BootInitInv, BootStepInv, PTL DEF BootSpec

\* The variables keep their types.
THEOREM TypesCorrect == BootSpec => []BootTypeOK
<1>1. BootInv => BootTypeOK
  BY DEF BootInv
<1> QED BY <1>1, BootInductive, PTL

\* A stopped fps_hal is looked after, was given up, or stopped in the one moment
\* in which init does not start the script again, whatever max_times is.
THEOREM Supervised == BootSpec => []SupervisedUnlessLost
<1>1. BootInv => SupervisedUnlessLost
  BY DEF BootInv, FpsInv, FpsTypeOK, FpsStates, SupervisedUnlessLost, TriggerPending
<1> QED BY <1>1, BootInductive, PTL

\* A service that was given up is never declared to have succeeded.
THEOREM NoSuccessGivenUp == BootSpec => []GivenUpIsNotSuccess
<1>1. BootInv => GivenUpIsNotSuccess
  BY DEF BootInv, FpsInv, GivenUpIsNotSuccess
<1> QED BY <1>1, BootInductive, PTL

\* However many versions there are and however often the device reboots, a
\* version is recorded only next to the whole of its configuration.
THEOREM RecordIsHonest == BootSpec => []RecordedMeansWhole
<1>1. BootInv => RecordedMeansWhole
  BY DEF BootInv, RadioInv
<1> QED BY <1>1, BootInductive, PTL

\* RIL is told that the copy is complete over this firmware's configuration,
\* but for a firmware the device comes back to after a copy that was cut short.
THEOREM CompleteIsRight == BootSpec => []ConfigOfThisFirmware
<1>1. BootInv => ConfigOfThisFirmware
  BY FlagMeansRight DEF BootInv
<1> QED BY <1>1, BootInductive, PTL

\* RIL is told that qcril.db was checked over a whole one, unless its copy was
\* cut short or failed, in this boot or any earlier one.
THEOREM DbCheckedIsWhole == BootSpec => []DbIsWhole
<1>1. BootInv => DbIsWhole
  BY DEF BootInv, RadioInv
<1> QED BY <1>1, BootInductive, PTL

\* Every list of packages ends up in the state its dependencies ask for, all of
\* it, unless a package that is not installed has stopped the receiver.
THEOREM PackagesRight == BootSpec => []PackagesFollowDependencies
<1>1. BootInv => PackagesFollowDependencies
  BY DEF BootInv, EuiccInv
<1> QED BY <1>1, BootInductive, PTL

===============================================================================
