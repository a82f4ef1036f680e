-------------------------------- MODULE Health --------------------------------
(***************************************************************************)
(* The health HAL of health/Health.cpp around its two controls that keep   *)
(* state: it runs LearnedCapacity's Restore before the service is there,   *)
(* and with every battery update Recharging's updateBatteryProperties and, *)
(* later in the same call, LearnedCapacity's Backup.  One thread does it,  *)
(* and one process holds the members of both.                              *)
(*                                                                         *)
(* The controls of the pixelhealth library that run in between are left    *)
(* out, and so is BatteryInfoUpdate, which renames the one status that     *)
(* Recharging does not tell apart from Discharging either.                 *)
(***************************************************************************)
EXTENDS Recharging, LearnedCapacity

VARIABLES
  updating,   \* the level has been reported, Backup is still to be run
  \* History: the gauge has lost its power since the service was started, or
  \* last read it.
  resetSince

healthVars == <<vars, capacityVars, updating, resetSince>>

HealthInit == Init /\ CapacityInit /\ updating = FALSE /\ resetSince = FALSE

----------------------------------------------------------------------------

\* As a mutant: Restore only reads what is to be restored, and leaves the gauge to
\* the first Backup.
LeftToBackup ==
  /\ pc = "down" /\ pc' = "idle" /\ clean' = TRUE
  /\ sw_cap' = persist /\ hw_cap' = 0 /\ nom_cap' = Design
  /\ UNCHANGED <<charge_full, persist, left, saved, lost, moved>>

\* HIDL_FETCH_IHealth runs private_healthd_board_init first.
BoardInit == Start

StartService ==
  /\ BoardInit
  /\ resetSince' = FALSE
  /\ UNCHANGED <<vars, updating>>

\* private_healthd_board_battery_update, up to the level ...
UpdateLevel ==
  /\ pc = "idle" /\ ~updating
  /\ updating' = TRUE
  /\ \E s \in Socs, dt \in 0..MaxGap :
       \/ \E c \in Chargers : UpdateBatteryProperties(s, c, dt)
       \/ ReadFails(s, dt)
  /\ UNCHANGED <<capacityVars, resetSince>>

\* ... and from there on.
UpdateCapacity ==
  /\ updating
  /\ updating' = FALSE
  /\ Backup
  /\ UNCHANGED <<vars, resetSince>>

ReadGauge ==
  /\ ReadCapacity
  /\ resetSince' = FALSE
  /\ UNCHANGED <<vars, updating>>

\* The rest of Restore and of Backup.
RestoreOrBackup ==
  /\ \/ ReadPersistData \/ ReadNominalCapacity
     \/ UpdateAndSave \/ SaveToSRAM \/ CutFile \/ SaveToStorage
  /\ UNCHANGED <<vars, updating, resetSince>>

GaugeLearns ==
  /\ \E c \in Learned : Learn(c)
  /\ UNCHANGED <<vars, updating, resetSince>>

GaugeLosesPower ==
  /\ GaugeReset
  /\ resetSince' = TRUE
  /\ UNCHANGED <<vars, updating>>

\* The process ends, and with it the members of both controls.
StopService ==
  /\ Stop
  /\ Restart
  /\ updating' = FALSE
  /\ UNCHANGED resetSince

HealthNext ==
  \/ StartService \/ UpdateLevel \/ UpdateCapacity \/ ReadGauge \/ RestoreOrBackup
  \/ GaugeLearns \/ GaugeLosesPower \/ StopService

HealthSpec == HealthInit /\ [][HealthNext]_healthVars

----------------------------------------------------------------------------
(* Properties; the others are those of Recharging and LearnedCapacity. *)

HealthTypeOK ==
  /\ TypeOK /\ CapacityTypeOK
  /\ updating \in BOOLEAN /\ resetSince \in BOOLEAN
  /\ updating => pc = "idle"

\* The level the user is told comes from a gauge that has got back what it had
\* learned: a service whose file accesses went well reports no level of a gauge
\* at its design capacity when there is a learned one on file, unless the gauge
\* has lost its power since the service was started, or last looked at it.
LevelOfLearnedGauge ==
  [][~updating /\ updating' /\ saved \in Learned /\ charge_full = Design
       => resetSince \/ lost \/ ~clean]_healthVars

===============================================================================
