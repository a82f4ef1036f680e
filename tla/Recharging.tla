------------------------------ MODULE Recharging ------------------------------
(***************************************************************************)
(* What the health HAL makes of the battery level before the user sees it, *)
(* health/BatteryRechargingControl.cpp: once the battery has been full it  *)
(* goes on saying 100% while the charger tops it up, and when the power    *)
(* goes it lets the displayed level sink to the true one within            *)
(* TransitionTime seconds.                                                 *)
(*                                                                         *)
(* updateBatteryProperties is one step, called by healthd with what the    *)
(* gauge and the charger say.  Gauge, charger and the time between two     *)
(* calls are free.                                                         *)
(***************************************************************************)
EXTENDS Integers

CONSTANTS
  FullSoc,         \* kFullSoc
  TransitionTime,  \* kTransitionTime
  MinSoc,          \* bound: the gauge shows no lower level
  MaxGap           \* bound: seconds between two calls that are told apart

ASSUME SocAssumption == FullSoc \in Nat /\ MinSoc \in 0..FullSoc
ASSUME TimeAssumption == TransitionTime \in Nat \ {0} /\ MaxGap \in Nat

VARIABLES
  \* Members; sinceStart is getTime() - start_time_, as far as it matters.
  state, rechargeSoc, sinceStart,
  \* What the last call was given and what it made of it (batteryLevel); how
  \* it came by that: none yet, the charger could not be read, or by the rules.
  soc, charger, level, made,
  \* History: the seconds between the last two calls; those since the
  \* first of the calls that read "no power" below a full gauge, PowerSeen when
  \* the last reading was another one; the gauge level at which the charger came
  \* back within a transition, and KeepNothing when it has gone or the gauge
  \* has fallen since.
  gap, withoutPower, keepFrom

vars == <<state, rechargeSoc, sinceStart, soc, charger, level, made, gap,
          withoutPower, keepFrom>>

States == {"INACTIVE", "WAIT_EOC", "RECHARGING_CYCLE", "OVER_LOADING",
           "NO_POWER_SOURCE"}

\* Discharging, Not charging and Unknown are treated alike.
Chargers == {"Charging", "Full", "Stopped"}

Socs == MinSoc..FullSoc
KeepNothing == FullSoc + 1
PowerSeen == TransitionTime + 2

\* Beyond the transition it no longer matters how long ago it started.
After(t, dt) == IF t + dt > TransitionTime THEN TransitionTime + 1 ELSE t + dt

\* round(soc * diff/T + FullSoc * (1 - diff/T)): the nearest level; at an exact
\* half the sum of doubles may come out on either side.
RemapSOC(s, diff) ==
  {r \in 0..FullSoc :
     LET exact == FullSoc * TransitionTime - (FullSoc - s) * diff IN
     /\ 2 * exact - TransitionTime <= 2 * TransitionTime * r
     /\ 2 * TransitionTime * r <= 2 * exact + TransitionTime}

Init ==
  /\ state = "INACTIVE" /\ rechargeSoc = 0
  /\ sinceStart = 0  \* start_time_ is not read before it is set
  /\ soc = FullSoc /\ charger = "Stopped" /\ level = FullSoc /\ made = "none"
  /\ gap = 0 /\ withoutPower = PowerSeen /\ keepFrom = KeepNothing

----------------------------------------------------------------------------

WithoutPower(dt) ==
  IF withoutPower = PowerSeen THEN PowerSeen ELSE After(withoutPower, dt)

\* A call that reads the charger's status, and what the history makes of it.
Given(s, c, dt) ==
  /\ soc' = s /\ charger' = c /\ gap' = dt /\ made' = "rules"
  /\ withoutPower' = IF c # "Stopped" \/ s = FullSoc THEN PowerSeen
                     ELSE IF withoutPower = PowerSeen THEN 0 ELSE WithoutPower(dt)

KeepOn(s, c) ==
  keepFrom' = IF c # "Stopped" /\ keepFrom # KeepNothing /\ s >= keepFrom
              THEN keepFrom ELSE KeepNothing

\* As a mutant: start_time_ is taken anew with every call.
StartsAnew(dt) == sinceStart' = dt

Runs(dt) == sinceStart' = After(sinceStart, dt)

\* As a mutant: start_time_ is not set.
TransitionRunsOn(next, s) ==
  /\ state' = next
  /\ UNCHANGED sinceStart
  /\ level' \in RemapSOC(s, 0)

\* "charging stopped, assume no more power source", or "overload condition":
\* the transition starts now, at RemapSOC of no time at all.
StartTransition(next, s) ==
  /\ state' = next
  /\ sinceStart' = 0
  /\ level' \in RemapSOC(s, 0)

\* Nothing to do as long as the battery has not been full.
StayInactive(s, c, dt) ==
  /\ state = "INACTIVE" /\ s < FullSoc
  /\ Given(s, c, dt) /\ Runs(dt) /\ KeepOn(s, c)
  /\ level' = s
  /\ UNCHANGED <<state, rechargeSoc>>

Waiting == state \in {"INACTIVE", "WAIT_EOC"}

\* INACTIVE falls through into WAIT_EOC, with no recharge target.
Target == IF state = "INACTIVE" THEN 0 ELSE rechargeSoc

\* The gauge falls before the charge is done.
WaitLost(s, c, dt) ==
  /\ state = "WAIT_EOC" /\ s # FullSoc
  /\ Given(s, c, dt) /\ Runs(dt) /\ KeepOn(s, c)
  /\ state' = "INACTIVE" /\ rechargeSoc' = 0
  /\ level' = s

\* A full gauge, and the charger still charges or is done.
WaitForEoc(s, c, dt) ==
  /\ Waiting /\ s = FullSoc /\ c # "Stopped"
  /\ Given(s, c, dt) /\ Runs(dt) /\ KeepOn(s, c)
  /\ state' = IF c = "Full" THEN "RECHARGING_CYCLE" ELSE "WAIT_EOC"
  /\ rechargeSoc' = Target
  /\ level' = FullSoc

WaitUnplugged(s, c, dt) ==
  /\ Waiting /\ s = FullSoc /\ c = "Stopped"
  /\ Given(s, c, dt) /\ KeepOn(s, c)
  /\ StartTransition("NO_POWER_SOURCE", s)
  /\ rechargeSoc' = Target

\* The charger is done again: the next cycle sets a target of its own.
CycleDone(s, c, dt) ==
  /\ state = "RECHARGING_CYCLE" /\ c = "Full"
  /\ Given(s, c, dt) /\ Runs(dt) /\ KeepOn(s, c)
  /\ rechargeSoc' = 0
  /\ level' = FullSoc
  /\ UNCHANGED state

Overloaded(s) == rechargeSoc # 0 /\ s < rechargeSoc

\* The charger tops the battery up; the first call sets the target.
Recharge(s, c, dt) ==
  /\ state = "RECHARGING_CYCLE" /\ c = "Charging" /\ ~Overloaded(s)
  /\ Given(s, c, dt) /\ Runs(dt) /\ KeepOn(s, c)
  /\ rechargeSoc' = IF rechargeSoc = 0 THEN s ELSE rechargeSoc
  /\ level' = FullSoc
  /\ UNCHANGED state

\* The gauge falls although the charger charges.
Overload(s, c, dt) ==
  /\ state = "RECHARGING_CYCLE" /\ c = "Charging" /\ Overloaded(s)
  /\ Given(s, c, dt) /\ KeepOn(s, c)
  /\ StartTransition("OVER_LOADING", s)
  /\ UNCHANGED rechargeSoc

Unplugged(s, c, dt) ==
  /\ state = "RECHARGING_CYCLE" /\ c = "Stopped"
  /\ Given(s, c, dt) /\ KeepOn(s, c)
  /\ StartTransition("NO_POWER_SOURCE", s)
  /\ UNCHANGED rechargeSoc

InTransition == state \in {"OVER_LOADING", "NO_POWER_SOURCE"}

\* As a mutant: only reaching the true level ends a transition.
NeverUp(dt) == FALSE

TimeIsUp(dt) == After(sinceStart, dt) > TransitionTime

\* The transition is over, by time or because the true level is reached.
LeaveTransition(s, c, dt) ==
  /\ InTransition
  /\ TimeIsUp(dt) \/ (s # FullSoc /\ s \in RemapSOC(s, After(sinceStart, dt)))
  /\ Given(s, c, dt) /\ Runs(dt) /\ KeepOn(s, c)
  /\ state' = "INACTIVE"
  /\ level' = s
  /\ UNCHANGED rechargeSoc

\* The transition goes on; a charger that is back before the level has visibly
\* sunk starts a recharging cycle, whose target is the level just reported.
Transition(s, c, dt) ==
  /\ InTransition /\ ~TimeIsUp(dt)
  /\ Given(s, c, dt) /\ Runs(dt)
  /\ \E r \in RemapSOC(s, After(sinceStart, dt)) :
       /\ r = s => s = FullSoc
       /\ level' = r
       /\ IF c = "Charging" /\ r = FullSoc /\ s >= rechargeSoc
          THEN /\ state' = "RECHARGING_CYCLE" /\ rechargeSoc' = r
               /\ keepFrom' = s
          ELSE KeepOn(s, c) /\ UNCHANGED <<state, rechargeSoc>>

UpdateBatteryProperties(s, c, dt) ==
  \/ StayInactive(s, c, dt) \/ WaitLost(s, c, dt) \/ WaitForEoc(s, c, dt)
  \/ WaitUnplugged(s, c, dt) \/ CycleDone(s, c, dt) \/ Recharge(s, c, dt)
  \/ Overload(s, c, dt) \/ Unplugged(s, c, dt) \/ LeaveTransition(s, c, dt)
  \/ Transition(s, c, dt)

\* The charger's status cannot be read: the gauge's level goes through as it is.
ReadFails(s, dt) ==
  /\ soc' = s /\ level' = s /\ gap' = dt /\ made' = "unread"
  /\ withoutPower' = WithoutPower(dt) /\ Runs(dt)
  /\ keepFrom' = KeepNothing
  /\ UNCHANGED <<state, rechargeSoc, charger>>

\* The service restarts and knows nothing of the level it reported.
Restart ==
  /\ state' = "INACTIVE" /\ rechargeSoc' = 0
  /\ made' = "none" /\ keepFrom' = KeepNothing
  /\ UNCHANGED <<sinceStart, soc, charger, level, gap, withoutPower>>

Next ==
  \/ \E s \in Socs, dt \in 0..MaxGap :
       \/ \E c \in Chargers : UpdateBatteryProperties(s, c, dt)
       \/ ReadFails(s, dt)
  \/ Restart

Spec == Init /\ [][Next]_vars

----------------------------------------------------------------------------
(* Properties. *)

TypeOK ==
  /\ state \in States /\ rechargeSoc \in 0..FullSoc
  /\ sinceStart \in 0..TransitionTime + 1
  /\ soc \in Socs /\ charger \in Chargers /\ level \in 0..FullSoc
  /\ made \in {"none", "unread", "rules"}
  /\ gap \in 0..MaxGap
  /\ withoutPower \in (0..TransitionTime + 1) \cup {PowerSeen}
  /\ keepFrom \in Socs \cup {KeepNothing}

\* The displayed level errs on one side only: it is never below the gauge's,
\* however late a call comes (a call after the transition would extrapolate).
NeverUnderstates == made # "none" => level >= soc

\* The user is not told a false level for ever: TransitionTime after the first
\* call that found no power, with none that found power or a full battery in
\* between, the level is the gauge's.
TruthInTime ==
  made # "none" /\ withoutPower = TransitionTime + 1
    => level = soc

Falls(s, t) == IF t < s THEN s - t ELSE 0
Lower(s, t) == IF t < s THEN t ELSE s

\* What the state machine is for: the displayed level does not drop off a cliff.
\* Between two calls it falls by what the gauge fell, the share of the way down
\* that the time between them stands for, and one for rounding.
NoCliff ==
  [][made # "none" /\ made' = "rules" =>
       (level - level') * TransitionTime
         <= (Falls(soc, soc') + 1) * TransitionTime
              + (FullSoc - Lower(soc, soc')) * gap']_vars

\* "Change condition to Recharging cycle to avoid the SOC show lower than 100%.
\* (Keep 100%)" (BatteryRechargingControl.cpp:158): once the charger is back in
\* time, 100% is shown as long as it stays and the gauge does not fall further.
KeepsFull == keepFrom # KeepNothing /\ made = "rules" => level = FullSoc

=============================================================================
