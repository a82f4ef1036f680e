------------------------------ MODULE HealthProofs ------------------------------
(***************************************************************************)
(* Proofs about the health service for every value of the constants: about *)
(* the recharging control alone, about the capacity backup alone, and that *)
(* the service runs each of the two as it is specified alone, so that what *)
(* is proved of them holds of it, and LevelOfLearnedGauge, which is about  *)
(* both.                                                                   *)
(***************************************************************************)
EXTENDS Health, TLAPS

----------------------------------------------------------------------------
(* The recharging control. *)

\* Outside a transition and before the battery is full, the level is the gauge's.
InactiveInv == state = "INACTIVE" /\ made # "none" => level = soc

\* Time without power is only counted in a transition that started before, or
\* when there is nothing left to hide; a transition that outlives its time has
\* not been looked at since.
TransitionInv ==
  /\ withoutPower # PowerSeen => state \notin {"WAIT_EOC", "RECHARGING_CYCLE"}
  /\ InTransition /\ withoutPower # PowerSeen => sinceStart >= withoutPower
  /\ InTransition /\ sinceStart = TransitionTime + 1 => level = soc

IInv == TypeOK /\ NeverUnderstates /\ InactiveInv /\ TransitionInv

----------------------------------------------------------------------------

\* The clock stops one second after the transition, and never runs backwards.
LEMMA AfterTime ==
  ASSUME NEW t \in 0..TransitionTime + 1, NEW dt \in 0..MaxGap
  PROVE  /\ After(t, dt) \in 0..TransitionTime + 1
         /\ \A u \in 0..TransitionTime + 1 : u <= t => After(u, dt) <= After(t, dt)
BY TimeAssumption, SMT DEF After

\* During the transition a remapped level is a level, and none below the
\* gauge's.
LEMMA RemapBounds ==
  ASSUME NEW s \in Socs, NEW diff \in 0..TransitionTime, NEW r \in RemapSOC(s, diff)
  PROVE  r \in 0..FullSoc /\ r >= s
<1> DEFINE T == TransitionTime
           down == FullSoc - s
<1>1. /\ FullSoc \in Nat /\ s \in Nat /\ s <= FullSoc /\ down \in Nat
      /\ T \in Nat /\ T > 0 /\ diff \in Nat /\ diff <= T
  BY SocAssumption, TimeAssumption DEF Socs
<1>2. r \in 0..FullSoc /\ 2 * (FullSoc * T - down * diff) - T <= 2 * T * r
  BY DEF RemapSOC
<1>3. down * diff <= down * T
  <2> HIDE DEF down, T
  <2> QED BY <1>1, SMTT(30)
<1>4. down * T = FullSoc * T - s * T
  BY <1>1, SMTT(30)
<1>5. 2 * (s * T) - T <= 2 * T * r
  <2>1. /\ s * T \in Int /\ FullSoc * T \in Int /\ down * diff \in Int
        /\ down * T \in Int /\ 2 * T * r \in Int
    BY <1>1, <1>2
  <2> HIDE DEF down, T
  <2> QED BY <1>1, <1>2, <1>3, <1>4, <2>1, SMTT(30)
<1>6. r >= s
  <2>1. SUFFICES ASSUME r <= s - 1 PROVE FALSE
    BY <1>1, <1>2
  <2>2. T * r <= T * (s - 1)
    <3> HIDE DEF T
    <3> QED BY <1>1, <1>2, <2>1, SMTT(30)
  <2>3. T * (s - 1) = s * T - T
    BY <1>1, SMTT(30)
  <2>4. T * r \in Int /\ s * T \in Int /\ 2 * T * r = 2 * (T * r)
    BY <1>1, <1>2, SMTT(30)
  <2> HIDE DEF T
  <2> QED BY <1>1, <1>5, <2>2, <2>3, <2>4, SMTT(30)
<1> QED BY <1>2, <1>6

\* What every call that reads the charger does to the inputs and the history.
LEMMA GivenFacts ==
  ASSUME TypeOK, NEW s \in Socs, NEW c \in Chargers, NEW dt \in 0..MaxGap,
         Given(s, c, dt)
  PROVE  /\ soc' \in Socs /\ charger' \in Chargers /\ gap' \in 0..MaxGap
         /\ made' = "rules" /\ soc' = s
         /\ withoutPower' \in (0..TransitionTime + 1) \cup {PowerSeen}
         /\ withoutPower' # PowerSeen => c = "Stopped" /\ s # FullSoc
         /\ withoutPower' # PowerSeen =>
              withoutPower' = IF withoutPower = PowerSeen THEN 0
                              ELSE After(withoutPower, dt)
<1>1. withoutPower # PowerSeen => After(withoutPower, dt) \in 0..TransitionTime + 1
  BY AfterTime DEF TypeOK
<1> QED BY <1>1, TimeAssumption DEF Given, WithoutPower, PowerSeen

\* keepFrom is a level or KeepNothing whatever a call makes of it.
LEMMA KeepOnType ==
  ASSUME TypeOK, NEW s, NEW c, KeepOn(s, c)
  PROVE  keepFrom' \in Socs \cup {KeepNothing}
BY DEF TypeOK, KeepOn

\* The transition's clock keeps its type, and its distance from withoutPower.
LEMMA RunsFacts ==
  ASSUME TypeOK, NEW dt \in 0..MaxGap, Runs(dt)
  PROVE  /\ sinceStart' = After(sinceStart, dt)
         /\ sinceStart' \in 0..TransitionTime + 1
         /\ withoutPower # PowerSeen /\ sinceStart >= withoutPower
              => sinceStart' >= After(withoutPower, dt)
BY AfterTime DEF TypeOK, Runs

\* A transition starts with a level that is none below the gauge's.
LEMMA StartFacts ==
  ASSUME NEW s \in Socs, NEW next, StartTransition(next, s)
  PROVE  /\ state' = next /\ sinceStart' = 0
         /\ level' \in 0..FullSoc /\ level' >= s
<1>1. 0 \in 0..TransitionTime
  BY TimeAssumption
<1> QED BY <1>1, RemapBounds DEF StartTransition

----------------------------------------------------------------------------

LEMMA InitIInv == Init => IInv
<1> SUFFICES ASSUME Init PROVE IInv
  OBVIOUS
<1>1. TypeOK
  BY SocAssumption, TimeAssumption
  DEF Init, TypeOK, States, Chargers, Socs, KeepNothing, PowerSeen
<1>2. NeverUnderstates /\ InactiveInv /\ TransitionInv
  BY DEF Init, NeverUnderstates, InactiveInv, TransitionInv, InTransition
<1> QED BY <1>1, <1>2 DEF IInv

\* One step per branch of updateBatteryProperties.
LEMMA UpdateIInv ==
  ASSUME IInv, NEW s \in Socs, NEW c \in Chargers, NEW dt \in 0..MaxGap,
         UpdateBatteryProperties(s, c, dt)
  PROVE  IInv'
<1> USE DEF IInv
<1>0. /\ s \in 0..FullSoc /\ FullSoc \in Nat /\ TransitionTime \in Nat /\ TransitionTime > 0
  BY SocAssumption, TimeAssumption DEF Socs
<1>1. CASE StayInactive(s, c, dt)
  <2>1. Given(s, c, dt) /\ KeepOn(s, c)
    BY <1>1 DEF StayInactive
  <2>2. /\ sinceStart' \in 0..TransitionTime + 1
        /\ withoutPower # PowerSeen /\ sinceStart >= withoutPower
             => sinceStart' >= After(withoutPower, dt)
    BY <1>1, RunsFacts DEF StayInactive
  <2>3. TypeOK'
    BY <1>0, <1>1, <2>1, <2>2, GivenFacts, KeepOnType
    DEF TypeOK, StayInactive, States, Socs
  <2>4. NeverUnderstates' /\ InactiveInv'
    BY <1>0, <1>1, <2>1, <2>2, GivenFacts
    DEF NeverUnderstates, InactiveInv, StayInactive, Socs
  <2>5. TransitionInv'
    BY <1>0, <1>1, <2>1, <2>2, GivenFacts
    DEF TransitionInv, InTransition, StayInactive
  <2> QED BY <2>3, <2>4, <2>5
<1>2. CASE WaitLost(s, c, dt)
  <2>1. Given(s, c, dt) /\ KeepOn(s, c)
    BY <1>2 DEF WaitLost
  <2>2. /\ sinceStart' \in 0..TransitionTime + 1
        /\ withoutPower # PowerSeen /\ sinceStart >= withoutPower
             => sinceStart' >= After(withoutPower, dt)
    BY <1>2, RunsFacts DEF WaitLost
  <2>3. TypeOK'
    BY <1>0, <1>2, <2>1, <2>2, GivenFacts, KeepOnType
    DEF TypeOK, WaitLost, States, Socs
  <2>4. NeverUnderstates' /\ InactiveInv'
    BY <1>0, <1>2, <2>1, <2>2, GivenFacts
    DEF NeverUnderstates, InactiveInv, WaitLost, Socs
  <2>5. TransitionInv'
    BY <1>0, <1>2, <2>1, <2>2, GivenFacts
    DEF TransitionInv, InTransition, WaitLost
  <2> QED BY <2>3, <2>4, <2>5
<1>3. CASE WaitForEoc(s, c, dt)
  <2>1. Given(s, c, dt) /\ KeepOn(s, c)
    BY <1>3 DEF WaitForEoc
  <2>2. /\ sinceStart' \in 0..TransitionTime + 1
        /\ withoutPower # PowerSeen /\ sinceStart >= withoutPower
             => sinceStart' >= After(withoutPower, dt)
    BY <1>3, RunsFacts DEF WaitForEoc
  <2>3. TypeOK'
    BY <1>0, <1>3, <2>1, <2>2, GivenFacts, KeepOnType
    DEF TypeOK, WaitForEoc, States, Socs, Waiting, Target
  <2>4. NeverUnderstates' /\ InactiveInv'
    BY <1>0, <1>3, <2>1, <2>2, GivenFacts
    DEF NeverUnderstates, InactiveInv, WaitForEoc, Socs, Waiting, Target
  <2>5. TransitionInv'
    BY <1>0, <1>3, <2>1, <2>2, GivenFacts
    DEF TransitionInv, InTransition, WaitForEoc, Waiting, Target
  <2> QED BY <2>3, <2>4, <2>5
<1>4. CASE WaitUnplugged(s, c, dt)
  <2>1. Given(s, c, dt) /\ KeepOn(s, c)
    BY <1>4 DEF WaitUnplugged
  <2>2. /\ state' = "NO_POWER_SOURCE" /\ sinceStart' = 0
        /\ level' \in 0..FullSoc /\ level' >= s
    BY <1>4, StartFacts DEF WaitUnplugged
  <2>3. TypeOK'
    BY <1>0, <1>4, <2>1, <2>2, GivenFacts, KeepOnType
    DEF TypeOK, WaitUnplugged, States, Socs, Waiting, Target
  <2>4. NeverUnderstates' /\ InactiveInv'
    BY <1>0, <1>4, <2>1, <2>2, GivenFacts
    DEF NeverUnderstates, InactiveInv, WaitUnplugged, Socs, Waiting, Target
  <2>5. TransitionInv'
    BY <1>0, <1>4, <2>1, <2>2, GivenFacts
    DEF TransitionInv, InTransition, WaitUnplugged, Waiting, Target
  <2> QED BY <2>3, <2>4, <2>5
<1>5. CASE CycleDone(s, c, dt)
  <2>1. Given(s, c, dt) /\ KeepOn(s, c)
    BY <1>5 DEF CycleDone
  <2>2. /\ sinceStart' \in 0..TransitionTime + 1
        /\ withoutPower # PowerSeen /\ sinceStart >= withoutPower
             => sinceStart' >= After(withoutPower, dt)
    BY <1>5, RunsFacts DEF CycleDone
  <2>3. TypeOK'
    BY <1>0, <1>5, <2>1, <2>2, GivenFacts, KeepOnType
    DEF TypeOK, CycleDone, States, Socs
  <2>4. NeverUnderstates' /\ InactiveInv'
    BY <1>0, <1>5, <2>1, <2>2, GivenFacts
    DEF NeverUnderstates, InactiveInv, CycleDone, Socs
  <2>5. TransitionInv'
    BY <1>0, <1>5, <2>1, <2>2, GivenFacts
    DEF TransitionInv, InTransition, CycleDone
  <2> QED BY <2>3, <2>4, <2>5
<1>6. CASE Recharge(s, c, dt)
  <2>1. Given(s, c, dt) /\ KeepOn(s, c)
    BY <1>6 DEF Recharge
  <2>2. /\ sinceStart' \in 0..TransitionTime + 1
        /\ withoutPower # PowerSeen /\ sinceStart >= withoutPower
             => sinceStart' >= After(withoutPower, dt)
    BY <1>6, RunsFacts DEF Recharge
  <2>3. TypeOK'
    BY <1>0, <1>6, <2>1, <2>2, GivenFacts, KeepOnType
    DEF TypeOK, Recharge, States, Socs
  <2>4. NeverUnderstates' /\ InactiveInv'
    BY <1>0, <1>6, <2>1, <2>2, GivenFacts
    DEF NeverUnderstates, InactiveInv, Recharge, Socs
  <2>5. TransitionInv'
    BY <1>0, <1>6, <2>1, <2>2, GivenFacts
    DEF TransitionInv, InTransition, Recharge
  <2> QED BY <2>3, <2>4, <2>5
<1>7. CASE Overload(s, c, dt)
  <2>1. Given(s, c, dt) /\ KeepOn(s, c)
    BY <1>7 DEF Overload
  <2>2. /\ state' = "OVER_LOADING" /\ sinceStart' = 0
        /\ level' \in 0..FullSoc /\ level' >= s
    BY <1>7, StartFacts DEF Overload
  <2>3. TypeOK'
    BY <1>0, <1>7, <2>1, <2>2, GivenFacts, KeepOnType
    DEF TypeOK, Overload, States, Socs
  <2>4. NeverUnderstates' /\ InactiveInv'
    BY <1>0, <1>7, <2>1, <2>2, GivenFacts
    DEF NeverUnderstates, InactiveInv, Overload, Socs
  <2>5. TransitionInv'
    BY <1>0, <1>7, <2>1, <2>2, GivenFacts
    DEF TransitionInv, InTransition, Overload
  <2> QED BY <2>3, <2>4, <2>5
<1>8. CASE Unplugged(s, c, dt)
  <2>1. Given(s, c, dt) /\ KeepOn(s, c)
    BY <1>8 DEF Unplugged
  <2>2. /\ state' = "NO_POWER_SOURCE" /\ sinceStart' = 0
        /\ level' \in 0..FullSoc /\ level' >= s
    BY <1>8, StartFacts DEF Unplugged
  <2>3. TypeOK'
    BY <1>0, <1>8, <2>1, <2>2, GivenFacts, KeepOnType
    DEF TypeOK, Unplugged, States, Socs
  <2>4. NeverUnderstates' /\ InactiveInv'
    BY <1>0, <1>8, <2>1, <2>2, GivenFacts
    DEF NeverUnderstates, InactiveInv, Unplugged, Socs
  <2>5. TransitionInv'
    BY <1>0, <1>8, <2>1, <2>2, GivenFacts
    DEF TransitionInv, InTransition, Unplugged
  <2> QED BY <2>3, <2>4, <2>5
<1>9. CASE LeaveTransition(s, c, dt)
  <2>1. Given(s, c, dt) /\ KeepOn(s, c)
    BY <1>9 DEF LeaveTransition
  <2>2. /\ sinceStart' \in 0..TransitionTime + 1
        /\ withoutPower # PowerSeen /\ sinceStart >= withoutPower
             => sinceStart' >= After(withoutPower, dt)
    BY <1>9, RunsFacts DEF LeaveTransition
  <2>3. TypeOK'
    BY <1>0, <1>9, <2>1, <2>2, GivenFacts, KeepOnType
    DEF TypeOK, LeaveTransition, States, Socs
  <2>4. NeverUnderstates' /\ InactiveInv'
    BY <1>0, <1>9, <2>1, <2>2, GivenFacts
    DEF NeverUnderstates, InactiveInv, LeaveTransition, Socs, InTransition
  <2>5. TransitionInv'
    BY <1>0, <1>9, <2>1, <2>2, GivenFacts
    DEF TransitionInv, InTransition, LeaveTransition
  <2> QED BY <2>3, <2>4, <2>5
<1>10. CASE Transition(s, c, dt)
  <2>1. Given(s, c, dt)
    BY <1>10 DEF Transition
  <2>2. /\ sinceStart' = After(sinceStart, dt)
        /\ sinceStart' \in 0..TransitionTime
        /\ withoutPower # PowerSeen /\ sinceStart >= withoutPower
             => sinceStart' >= After(withoutPower, dt)
    BY <1>10, <1>0, RunsFacts DEF Transition, TimeIsUp
  <2>3. level' \in 0..FullSoc /\ level' >= s
    BY <1>10, <2>2, RemapBounds DEF Transition
  <2>4. keepFrom' \in Socs \cup {KeepNothing}
    BY <1>10, KeepOnType DEF Transition
  <2>5. TypeOK'
    BY <1>0, <1>10, <2>1, <2>2, <2>3, <2>4, GivenFacts
    DEF TypeOK, Transition, States, Socs
  <2>6. NeverUnderstates' /\ InactiveInv'
    BY <1>0, <1>10, <2>1, <2>2, <2>3, <2>4, GivenFacts
    DEF NeverUnderstates, InactiveInv, Transition, Socs, InTransition
  <2>7. TransitionInv'
    BY <1>0, <1>10, <2>1, <2>2, <2>3, <2>4, GivenFacts
    DEF TransitionInv, InTransition, Transition
  <2> QED BY <2>5, <2>6, <2>7
<1> QED BY <1>1, <1>2, <1>3, <1>4, <1>5, <1>6, <1>7, <1>8, <1>9, <1>10 DEF UpdateBatteryProperties

\* A call that cannot read the charger shows the gauge's level.
LEMMA ReadFailsIInv ==
  ASSUME IInv, NEW s \in Socs, NEW dt \in 0..MaxGap, ReadFails(s, dt)
  PROVE  IInv'
<1>1. s \in 0..FullSoc /\ FullSoc \in Nat /\ TransitionTime \in Nat
  BY SocAssumption, TimeAssumption DEF Socs
<1>2. /\ sinceStart' \in 0..TransitionTime + 1
      /\ withoutPower # PowerSeen /\ sinceStart >= withoutPower
           => sinceStart' >= After(withoutPower, dt)
  BY RunsFacts DEF IInv, ReadFails
<1>3. withoutPower # PowerSeen => After(withoutPower, dt) \in 0..TransitionTime + 1
  BY AfterTime DEF IInv, TypeOK
<1>4. TypeOK'
  BY <1>1, <1>2, <1>3 DEF IInv, TypeOK, ReadFails, WithoutPower
<1>5. NeverUnderstates' /\ InactiveInv'
  BY <1>1 DEF NeverUnderstates, InactiveInv, ReadFails
<1>6. TransitionInv'
  BY <1>1, <1>2, <1>3
  DEF IInv, TransitionInv, InTransition, ReadFails, WithoutPower
<1> QED BY <1>4, <1>5, <1>6 DEF IInv

LEMMA NextIInv == IInv /\ [Next]_vars => IInv'
<1> SUFFICES ASSUME IInv, [Next]_vars PROVE IInv'
  OBVIOUS
<1>1. CASE Restart
  <2>1. TypeOK'
    BY <1>1, SocAssumption DEF IInv, TypeOK, Restart, States
  <2>2. NeverUnderstates' /\ InactiveInv' /\ TransitionInv'
    BY <1>1 DEF IInv, NeverUnderstates, InactiveInv, TransitionInv, InTransition,
               Restart
  <2> QED BY <2>1, <2>2 DEF IInv
<1>2. CASE UNCHANGED vars
  BY <1>2 DEF IInv, TypeOK, NeverUnderstates, InactiveInv, TransitionInv,
             InTransition, vars
<1> QED BY <1>1, <1>2, UpdateIInv, ReadFailsIInv DEF Next

\* The inductive invariant holds throughout.
THEOREM Invariant == Spec => []IInv
BY InitIInv, NextIInv, PTL DEF Spec

\* Every variable keeps its type, for every value of the constants.
THEOREM TypeCorrect == Spec => []TypeOK
<1>1. IInv => TypeOK
  BY DEF IInv
<1> QED BY <1>1, Invariant, PTL

\* The displayed level is never below the gauge's.
THEOREM Overstates == Spec => []NeverUnderstates
<1>1. IInv => NeverUnderstates
  BY DEF IInv
<1> QED BY <1>1, Invariant, PTL

\* TransitionTime after the power has gone the level is the gauge's.
THEOREM Truth == Spec => []TruthInTime
<1>1. IInv => TruthInTime
  <2> SUFFICES ASSUME IInv, made # "none", withoutPower = TransitionTime + 1
               PROVE  level = soc
    BY DEF TruthInTime
  <2>1. withoutPower # PowerSeen
    BY TimeAssumption DEF PowerSeen
  <2>2. state \in {"INACTIVE", "OVER_LOADING", "NO_POWER_SOURCE"}
    BY <2>1 DEF IInv, TransitionInv, TypeOK, States
  <2>3. CASE state = "INACTIVE"
    BY <2>3 DEF IInv, InactiveInv
  <2>4. CASE InTransition
    <3>1. sinceStart = TransitionTime + 1
      BY <2>1, <2>4, TimeAssumption DEF IInv, TransitionInv, TypeOK
    <3> QED BY <3>1, <2>4 DEF IInv, TransitionInv
  <2> QED BY <2>2, <2>3, <2>4 DEF InTransition
<1> QED BY <1>1, Invariant, PTL

----------------------------------------------------------------------------
(* How far the displayed level falls between two calls. *)

\* Where the displayed level stands: at the gauge's, at 100%, or on the way down
\* from the one to the other that the transition's clock has come to.
LevelInv ==
  /\ made = "unread" => level = soc
  /\ state = "WAIT_EOC" /\ made # "none" => level = soc
  /\ state = "RECHARGING_CYCLE" /\ made = "rules" => level = FullSoc
  /\ InTransition /\ made = "rules" =>
       sinceStart \in 0..TransitionTime /\ level \in RemapSOC(soc, sinceStart)

\* Products of naturals are monotonic, and distribute over sums and differences.
LEMMA Products ==
  ASSUME NEW x \in Int, NEW y \in Int, NEW z \in Nat
  PROVE  /\ x * z \in Int /\ y * z \in Int
         /\ x <= y => x * z <= y * z
         /\ (x + y) * z = x * z + y * z
         /\ (x - y) * z = x * z - y * z
BY SMTT(30)

\* The bounds a remapped level keeps, as products.
LEMMA RemapProducts ==
  ASSUME NEW s \in Socs, NEW diff \in 0..TransitionTime, NEW r \in RemapSOC(s, diff)
  PROVE  /\ 2 * (r * TransitionTime)
              <= 2 * (FullSoc * TransitionTime - (FullSoc - s) * diff) + TransitionTime
         /\ 2 * (FullSoc * TransitionTime - (FullSoc - s) * diff) - TransitionTime
              <= 2 * (r * TransitionTime)
<1>1. /\ FullSoc \in Nat /\ s \in Nat /\ s <= FullSoc /\ r \in Nat
      /\ TransitionTime \in Nat
  BY SocAssumption, TimeAssumption DEF Socs, RemapSOC
<1>2. 2 * TransitionTime * r = 2 * (r * TransitionTime)
  BY <1>1, SMTT(30)
<1>. QED  BY <1>2 DEF RemapSOC

\* At no time at all, or of a full gauge, the remapped level is 100%.
LEMMA RemapFull ==
  ASSUME NEW s \in Socs, NEW diff \in 0..TransitionTime, NEW r \in RemapSOC(s, diff),
         diff = 0 \/ s = FullSoc
  PROVE  r = FullSoc
<1>1. /\ FullSoc \in Nat /\ s \in Nat /\ diff \in Nat
      /\ TransitionTime \in Nat /\ TransitionTime > 0
      /\ r \in 0..FullSoc
  BY SocAssumption, TimeAssumption DEF Socs, RemapSOC
<1>2. (FullSoc - s) * diff = 0
  BY <1>1, SMTT(30)
<1>3. 2 * (FullSoc * TransitionTime) - TransitionTime <= 2 * (r * TransitionTime)
  BY <1>1, <1>2, RemapProducts, Products
<1>4. ASSUME r <= FullSoc - 1 PROVE FALSE
  <2>1. r * TransitionTime <= (FullSoc - 1) * TransitionTime
    BY <1>1, <1>4, Products
  <2>2. (FullSoc - 1) * TransitionTime = FullSoc * TransitionTime - TransitionTime
    BY <1>1, SMTT(30)
  <2>3. r * TransitionTime \in Int /\ FullSoc * TransitionTime \in Int
    BY <1>1, Products
  <2>. QED  BY <1>1, <1>3, <2>1, <2>2, <2>3
<1>. QED  BY <1>1, <1>4

\* What NoCliff allows the level to fall between a call at gauge level s and one
\* at gauge level t that comes dt seconds later.
Allowed(s, t, dt) ==
  (Falls(s, t) + 1) * TransitionTime + (FullSoc - Lower(s, t)) * dt

\* The allowance, by the direction in which the gauge went.
LEMMA AllowedProducts ==
  ASSUME NEW s \in Socs, NEW t \in Socs, NEW dt \in Nat
  PROVE  /\ Allowed(s, t, dt) \in Int
         /\ t <= s => Allowed(s, t, dt) = (s - t) * TransitionTime + TransitionTime
                                            + (FullSoc - t) * dt
         /\ s <= t => Allowed(s, t, dt) = TransitionTime + (FullSoc - s) * dt
<1>1. FullSoc \in Nat /\ s \in Nat /\ t \in Nat /\ TransitionTime \in Nat
  BY SocAssumption, TimeAssumption DEF Socs
<1>2. /\ t <= s => Falls(s, t) = s - t /\ Lower(s, t) = t
      /\ s <= t => Falls(s, t) = 0 /\ Lower(s, t) = s
  BY <1>1 DEF Falls, Lower
<1>3. (s - t + 1) * TransitionTime = (s - t) * TransitionTime + TransitionTime
  BY <1>1, SMTT(30)
<1>4. (0 + 1) * TransitionTime = TransitionTime
  BY <1>1
<1>5. (s - t) * TransitionTime \in Int /\ (FullSoc - t) * dt \in Int
      /\ (FullSoc - s) * dt \in Int
  BY <1>1, Products
<1>. QED  BY <1>1, <1>2, <1>3, <1>4, <1>5 DEF Allowed

\* A level that falls no further than the gauge keeps within the allowance.
LEMMA GaugeWithin ==
  ASSUME NEW s \in Socs, NEW t \in Socs, NEW dt \in Nat,
         NEW l \in 0..FullSoc, NEW r \in 0..FullSoc, l - r <= s - t \/ l <= r
  PROVE  (l - r) * TransitionTime <= Allowed(s, t, dt)
<1>1. /\ FullSoc \in Nat /\ s \in Nat /\ t \in Nat /\ TransitionTime \in Nat
      /\ s <= FullSoc /\ t <= FullSoc /\ l - r \in Int /\ s - t \in Int
  BY SocAssumption, TimeAssumption DEF Socs
<1>2. /\ (FullSoc - t) * dt >= 0 /\ (FullSoc - s) * dt >= 0
      /\ (FullSoc - t) * dt \in Int /\ (FullSoc - s) * dt \in Int
  BY <1>1, SMTT(30)
<1>3. CASE t <= s
  <2>1. (l - r) * TransitionTime <= (s - t) * TransitionTime
    BY <1>1, <1>3, Products
  <2>2. /\ (l - r) * TransitionTime \in Int /\ (s - t) * TransitionTime \in Int
    BY <1>1, Products
  <2>3. Allowed(s, t, dt) = (s - t) * TransitionTime + TransitionTime
                              + (FullSoc - t) * dt
    BY <1>3, AllowedProducts
  <2>. QED  BY <1>1, <1>2, <2>1, <2>2, <2>3
<1>4. CASE s <= t
  <2>1. (l - r) * TransitionTime <= 0 * TransitionTime
    BY <1>1, <1>4, Products
  <2>2. (l - r) * TransitionTime \in Int
    BY <1>1, Products
  <2>3. Allowed(s, t, dt) = TransitionTime + (FullSoc - s) * dt
    BY <1>4, AllowedProducts
  <2>4. 0 * TransitionTime = 0
    BY <1>1
  <2>. QED  BY <1>1, <1>2, <2>1, <2>2, <2>3, <2>4
<1>. QED  BY <1>1, <1>3, <1>4

\* Between two calls of one transition the level keeps within the allowance.
LEMMA TransitionWithin ==
  ASSUME NEW s \in Socs, NEW t \in Socs, NEW u \in 0..TransitionTime, NEW dt \in Nat,
         u + dt \in 0..TransitionTime,
         NEW l \in RemapSOC(s, u), NEW r \in RemapSOC(t, u + dt)
  PROVE  (l - r) * TransitionTime <= Allowed(s, t, dt)
<1>1. /\ FullSoc \in Nat /\ s \in Nat /\ t \in Nat /\ TransitionTime \in Nat
      /\ s <= FullSoc /\ t <= FullSoc /\ u \in Nat /\ u <= TransitionTime
      /\ l \in Nat /\ r \in Nat
  BY SocAssumption, TimeAssumption DEF Socs, RemapSOC
<1>2. /\ 2 * (l * TransitionTime)
           <= 2 * (FullSoc * TransitionTime - (FullSoc - s) * u) + TransitionTime
      /\ 2 * (FullSoc * TransitionTime - (FullSoc - t) * (u + dt)) - TransitionTime
           <= 2 * (r * TransitionTime)
  BY RemapProducts
<1>3. /\ (FullSoc - t) * (u + dt) = (FullSoc - t) * u + (FullSoc - t) * dt
      /\ (l - r) * TransitionTime = l * TransitionTime - r * TransitionTime
      /\ (s - t) * u = (FullSoc - t) * u - (FullSoc - s) * u
  BY <1>1, SMTT(30)
<1>4. /\ l * TransitionTime \in Int /\ r * TransitionTime \in Int
      /\ FullSoc * TransitionTime \in Int /\ (FullSoc - s) * u \in Int
      /\ (FullSoc - t) * u \in Int /\ (FullSoc - t) * dt \in Int
      /\ (FullSoc - s) * dt \in Int /\ (s - t) * TransitionTime \in Int
      /\ (s - t) * u \in Int
  BY <1>1, Products
<1>5. (l - r) * TransitionTime
        <= (s - t) * u + (FullSoc - t) * dt + TransitionTime
  BY <1>1, <1>2, <1>3, <1>4
<1>6. CASE t <= s
  <2>1. (s - t) * u <= (s - t) * TransitionTime
    BY <1>1, <1>6, SMTT(30)
  <2>2. Allowed(s, t, dt) = (s - t) * TransitionTime + TransitionTime
                              + (FullSoc - t) * dt
    BY <1>6, AllowedProducts
  <2>. QED  BY <1>1, <1>3, <1>4, <1>5, <2>1, <2>2
<1>7. CASE s <= t
  <2>1. (s - t) * u <= 0
    BY <1>1, <1>7, SMTT(30)
  <2>2. (FullSoc - t) * dt <= (FullSoc - s) * dt
    BY <1>1, <1>7, Products
  <2>3. Allowed(s, t, dt) = TransitionTime + (FullSoc - s) * dt
    BY <1>7, AllowedProducts
  <2>. QED  BY <1>1, <1>3, <1>4, <1>5, <2>1, <2>2, <2>3
<1>. QED  BY <1>1, <1>6, <1>7

\* A transition whose time is up between the two calls ends at the gauge's level,
\* within the allowance.
LEMMA TimeUpWithin ==
  ASSUME NEW s \in Socs, NEW t \in Socs, NEW u \in 0..TransitionTime, NEW dt \in Nat,
         u + dt > TransitionTime, NEW l \in RemapSOC(s, u)
  PROVE  (l - t) * TransitionTime <= Allowed(s, t, dt)
<1>1. /\ FullSoc \in Nat /\ s \in Nat /\ t \in Nat /\ TransitionTime \in Nat
      /\ s <= FullSoc /\ t <= FullSoc /\ u \in Nat /\ u <= TransitionTime
      /\ l \in Nat
  BY SocAssumption, TimeAssumption DEF Socs, RemapSOC
<1>2. 2 * (l * TransitionTime)
        <= 2 * (FullSoc * TransitionTime - (FullSoc - s) * u) + TransitionTime
  BY RemapProducts
<1>. DEFINE rest == TransitionTime - u
<1>3. /\ (l - t) * TransitionTime = l * TransitionTime - t * TransitionTime
      /\ FullSoc * TransitionTime - t * TransitionTime
           = (FullSoc - t) * TransitionTime
      /\ (FullSoc - t) * TransitionTime
           = (s - t) * TransitionTime + (FullSoc - s) * TransitionTime
      /\ (FullSoc - s) * TransitionTime = (FullSoc - s) * u + (FullSoc - s) * rest
  BY <1>1, SMTT(30)
<1>4. /\ l * TransitionTime \in Int /\ t * TransitionTime \in Int
      /\ FullSoc * TransitionTime \in Int /\ (FullSoc - s) * u \in Int
      /\ (FullSoc - t) * TransitionTime \in Int /\ (s - t) * TransitionTime \in Int
      /\ (FullSoc - s) * TransitionTime \in Int /\ (FullSoc - s) * rest \in Int
      /\ (FullSoc - t) * dt \in Int /\ (FullSoc - s) * dt \in Int
  BY <1>1, SMTT(30)
<1>5. (l - t) * TransitionTime
        <= (s - t) * TransitionTime + (FullSoc - s) * rest + TransitionTime
  <2>. HIDE DEF rest
  <2>. QED  BY <1>1, <1>2, <1>3, <1>4
<1>5a. (l - t) * TransitionTime \in Int
  BY <1>1, Products
<1>6. (FullSoc - s) * rest <= (FullSoc - s) * dt
  BY <1>1, SMTT(30)
<1>7. CASE t <= s
  <2>1. (FullSoc - s) * dt <= (FullSoc - t) * dt
    BY <1>1, <1>7, Products
  <2>2. Allowed(s, t, dt) = (s - t) * TransitionTime + TransitionTime
                              + (FullSoc - t) * dt
    BY <1>7, AllowedProducts
  <2>. HIDE DEF rest
  <2>. QED  BY <1>1, <1>4, <1>5, <1>6, <1>5a, <2>1, <2>2
<1>8. CASE s <= t
  <2>1. (s - t) * TransitionTime <= 0
    BY <1>1, <1>8, SMTT(30)
  <2>2. Allowed(s, t, dt) = TransitionTime + (FullSoc - s) * dt
    BY <1>8, AllowedProducts
  <2>. HIDE DEF rest
  <2>. QED  BY <1>1, <1>4, <1>5, <1>6, <1>5a, <2>1, <2>2
<1>. QED  BY <1>1, <1>7, <1>8

\* The clock, as long as the transition's time is not up.
LEMMA AfterSum ==
  ASSUME NEW u \in 0..TransitionTime, NEW dt \in 0..MaxGap
  PROVE  /\ ~TimeIsUp(dt) /\ u = sinceStart =>
              After(u, dt) = u + dt /\ u + dt \in 0..TransitionTime
         /\ TimeIsUp(dt) /\ u = sinceStart => u + dt > TransitionTime
BY TimeAssumption DEF TimeIsUp, After

\* One step per branch of updateBatteryProperties that leaves a state LevelInv
\* speaks of.
LEMMA UpdateLevelInv ==
  ASSUME IInv, NEW s \in Socs, NEW c \in Chargers, NEW dt \in 0..MaxGap,
         UpdateBatteryProperties(s, c, dt)
  PROVE  LevelInv'
<1>0. soc' = s /\ made' = "rules"
  BY DEF UpdateBatteryProperties, StayInactive, WaitLost, WaitForEoc, WaitUnplugged,
         CycleDone, Recharge, Overload, Unplugged, LeaveTransition, Transition, Given
<1>1. CASE StayInactive(s, c, dt) \/ WaitLost(s, c, dt) \/ LeaveTransition(s, c, dt)
  <2>1. state' = "INACTIVE"
    BY <1>1 DEF StayInactive, WaitLost, LeaveTransition
  <2>. QED  BY <1>0, <2>1 DEF LevelInv, InTransition
<1>2. CASE WaitForEoc(s, c, dt) \/ CycleDone(s, c, dt) \/ Recharge(s, c, dt)
  <2>1. /\ level' = FullSoc
        /\ \/ state' = "WAIT_EOC" /\ s = FullSoc
           \/ state' = "RECHARGING_CYCLE"
    BY <1>2 DEF WaitForEoc, CycleDone, Recharge
  <2>. QED  BY <1>0, <2>1 DEF LevelInv, InTransition
<1>3. CASE WaitUnplugged(s, c, dt) \/ Overload(s, c, dt) \/ Unplugged(s, c, dt)
  <2>1. /\ state' \in {"OVER_LOADING", "NO_POWER_SOURCE"}
        /\ sinceStart' = 0 /\ level' \in RemapSOC(s, 0)
    BY <1>3 DEF WaitUnplugged, Overload, Unplugged, StartTransition
  <2>. QED  BY <1>0, <2>1, TimeAssumption DEF LevelInv
<1>4. CASE Transition(s, c, dt)
  <2>1. /\ sinceStart' = After(sinceStart, dt) /\ sinceStart' \in 0..TransitionTime
    BY <1>4, RunsFacts, TimeAssumption DEF IInv, Transition, TimeIsUp
  <2>2. /\ level' \in RemapSOC(s, After(sinceStart, dt))
        /\ \/ state' = "RECHARGING_CYCLE" /\ level' = FullSoc
           \/ state' = state /\ InTransition
    BY <1>4 DEF Transition
  <2>. QED  BY <1>0, <2>1, <2>2 DEF LevelInv, InTransition
<1>. QED  BY <1>1, <1>2, <1>3, <1>4 DEF UpdateBatteryProperties

LEMMA LevelInvStep == IInv /\ LevelInv /\ [Next]_vars => LevelInv'
<1>. SUFFICES ASSUME IInv, LevelInv, [Next]_vars PROVE LevelInv'
  OBVIOUS
<1>1. ASSUME NEW s \in Socs, NEW dt \in 0..MaxGap, ReadFails(s, dt) PROVE LevelInv'
  BY <1>1 DEF ReadFails, LevelInv
<1>2. CASE Restart
  BY <1>2 DEF Restart, LevelInv, InTransition
<1>3. CASE UNCHANGED vars
  BY <1>3 DEF vars, LevelInv, InTransition
<1>. QED  BY <1>1, <1>2, <1>3, UpdateLevelInv DEF Next

\* An update takes the level down by no more than its allowance.
LEMMA UpdateWithin ==
  ASSUME IInv, IInv', LevelInv, made # "none",
         NEW s \in Socs, NEW c \in Chargers, NEW dt \in 0..MaxGap,
         UpdateBatteryProperties(s, c, dt)
  PROVE  (level - level') * TransitionTime <= Allowed(soc, s, dt)
<1>0. /\ soc \in Socs /\ level \in 0..FullSoc /\ level' \in 0..FullSoc /\ dt \in Nat
      /\ soc \in Int /\ s \in Int /\ level \in Int /\ level' \in Int
      /\ state \in States /\ made \in {"unread", "rules"}
  BY SocAssumption, TimeAssumption DEF IInv, TypeOK, Socs
<1>1. soc' = s /\ made' = "rules"
  BY DEF UpdateBatteryProperties, StayInactive, WaitLost, WaitForEoc, WaitUnplugged,
         CycleDone, Recharge, Overload, Unplugged, LeaveTransition, Transition, Given
<1>2. CASE level = soc
  <2>1. level' >= s
    BY <1>1 DEF IInv, NeverUnderstates
  <2>. QED  BY <1>0, <1>2, <2>1, GaugeWithin
<1>3. CASE level' = FullSoc
  <2>1. level <= level'
    BY <1>0, <1>3, SocAssumption
  <2>. QED  BY <1>0, <2>1, GaugeWithin
<1>4. CASE InTransition /\ made = "rules"
  <2>1. sinceStart \in 0..TransitionTime /\ level \in RemapSOC(soc, sinceStart)
    BY <1>4 DEF LevelInv
  <2>2. CASE LeaveTransition(s, c, dt)
    <3>1. level' = s
      BY <2>2 DEF LeaveTransition
    <3>2. CASE TimeIsUp(dt)
      BY <1>0, <2>1, <3>1, <3>2, AfterSum, TimeUpWithin
    <3>3. CASE ~TimeIsUp(dt)
      <4>1. s \in RemapSOC(s, sinceStart + dt) /\ sinceStart + dt \in 0..TransitionTime
        BY <2>1, <2>2, <3>3, AfterSum DEF LeaveTransition
      <4>. QED  BY <1>0, <2>1, <3>1, <4>1, TransitionWithin
    <3>. QED  BY <3>2, <3>3
  <2>3. CASE Transition(s, c, dt)
    <3>1. ~TimeIsUp(dt) /\ level' \in RemapSOC(s, After(sinceStart, dt))
      BY <2>3 DEF Transition
    <3>2. /\ level' \in RemapSOC(s, sinceStart + dt)
          /\ sinceStart + dt \in 0..TransitionTime
      BY <2>1, <3>1, AfterSum
    <3>. QED  BY <1>0, <2>1, <3>2, TransitionWithin
  <2>. QED
    BY <1>4, <2>2, <2>3
    DEF UpdateBatteryProperties, StayInactive, WaitLost, WaitForEoc, WaitUnplugged,
        Waiting, CycleDone, Recharge, Overload, Unplugged, InTransition
<1>5. CASE state = "RECHARGING_CYCLE" /\ made = "rules"
  <2>1. CycleDone(s, c, dt) \/ Recharge(s, c, dt) => level' = FullSoc
    BY DEF CycleDone, Recharge
  <2>2. Overload(s, c, dt) \/ Unplugged(s, c, dt) => level' = FullSoc
    BY RemapFull, TimeAssumption DEF Overload, Unplugged, StartTransition
  <2>. QED
    BY <1>3, <1>5, <2>1, <2>2
    DEF UpdateBatteryProperties, StayInactive, WaitLost, WaitForEoc, WaitUnplugged,
        Waiting, LeaveTransition, Transition, InTransition
<1>6. CASE made = "unread" \/ state \in {"INACTIVE", "WAIT_EOC"}
  BY <1>2, <1>6 DEF LevelInv, IInv, InactiveInv
<1>. QED  BY <1>0, <1>4, <1>5, <1>6 DEF States, InTransition

\* The displayed level never drops off a cliff: between two calls it falls by no
\* more than the gauge, the time that has passed and one for rounding account for.
THEOREM GentleFall == Spec => NoCliff
<1>1. Init => LevelInv
  BY DEF Init, LevelInv, InTransition
<1>2. ASSUME IInv, IInv', LevelInv, Next, made # "none", made' = "rules"
      PROVE  (level - level') * TransitionTime <= Allowed(soc, soc', gap')
  <2>1. PICK s \in Socs, dt \in 0..MaxGap, c \in Chargers :
          UpdateBatteryProperties(s, c, dt)
    BY <1>2 DEF Next, ReadFails, Restart
  <2>2. soc' = s /\ gap' = dt
    BY <2>1 DEF UpdateBatteryProperties, StayInactive, WaitLost, WaitForEoc,
         WaitUnplugged, CycleDone, Recharge, Overload, Unplugged, LeaveTransition,
         Transition, Given
  <2>. QED  BY <1>2, <2>1, <2>2, UpdateWithin
<1>3. IInv /\ IInv' /\ LevelInv /\ [Next]_vars =>
        [made # "none" /\ made' = "rules" =>
           (level - level') * TransitionTime
             <= (Falls(soc, soc') + 1) * TransitionTime
                  + (FullSoc - Lower(soc, soc')) * gap']_vars
  BY <1>2 DEF Allowed
<1>. QED  BY <1>1, <1>3, LevelInvStep, Invariant, PTL DEF Spec, NoCliff

----------------------------------------------------------------------------
(* The backup of the learned capacity. *)

\* Restore starts with nothing known; what is about to be written is a capacity.
SavesNumbers ==
  /\ pc = "persist" => sw_cap = 0
  /\ pc \in {"cut", "storage"} => sw_cap # 0
  /\ pc = "gauge" => hw_cap # 0

\* As long as none of the four accidents has happened, the file holds the
\* learned capacity, the service knows it and the design value, and only another
\* learned capacity is about to replace it.
KeptInv ==
  saved \in Learned /\ ~lost =>
    /\ pc # "storage" => persist = saved
    /\ pc \notin {"down", "persist"} => sw_cap # 0
    /\ pc \notin {"down", "persist", "nominal"} => nom_cap = Design
    /\ pc \in {"cut", "storage"} => sw_cap # Design

\* Without a failing access the service's copy is the file's, but while it is
\* being saved, and the gauge's, from the comparison on.
AgreeInv ==
  clean =>
    /\ pc \in {"nominal", "capacity", "update", "gauge", "idle"} => persist = sw_cap
    /\ pc = "update" => hw_cap # 0
    /\ pc \in {"gauge", "cut", "storage"} => hw_cap = sw_cap

CapacityIInv == CapacityTypeOK /\ SavesNumbers /\ KeptInv /\ AgreeInv

----------------------------------------------------------------------------

LEMMA Numbers ==
  /\ Design \in Nat /\ Design # 0 /\ Design \notin Learned
  /\ 0 \notin Learned /\ Learned \subseteq Nat
BY CapacityAssumption

LEMMA BudgetType ==
  ASSUME CapacityTypeOK, NEW kind \in Kinds, Spend(kind)
  PROVE  left' \in [Kinds -> Nat]
BY DEF CapacityTypeOK, Spend, Kinds

LEMMA CapacityInitIInv == CapacityInit => CapacityIInv
BY Numbers, BudgetAssumption
DEF CapacityInit, CapacityIInv, CapacityTypeOK, SavesNumbers, KeptInv,
    AgreeInv, Capacities, Pcs, Unreadable

LEMMA CapacityNextIInv == CapacityIInv /\ [CapacityNext]_capacityVars => CapacityIInv'
<1> SUFFICES ASSUME CapacityIInv, [CapacityNext]_capacityVars PROVE CapacityIInv'
  OBVIOUS
<1> USE DEF CapacityIInv
<1>1. CASE Start
  <2>1. CapacityTypeOK'
    BY <1>1, Numbers
    DEF CapacityTypeOK, Start, Capacities, Unreadable, Pcs
  <2>2. SavesNumbers' /\ AgreeInv'
    BY <1>1, Numbers
    DEF CapacityTypeOK, SavesNumbers, AgreeInv, Start, Capacities, Unreadable
  <2>3. KeptInv'
    BY <1>1, Numbers
    DEF CapacityTypeOK, SavesNumbers, KeptInv, Start, Capacities, Unreadable
  <2> QED BY <2>1, <2>2, <2>3
<1>2. CASE ReadPersistData
  <2>1. CapacityTypeOK'
    BY <1>2, Numbers, BudgetType
    DEF CapacityTypeOK, ReadPersistData, Failed, Capacities, Unreadable, Pcs,
        Kinds, members
  <2>2. SavesNumbers' /\ AgreeInv'
    BY <1>2, Numbers
    DEF CapacityTypeOK, SavesNumbers, AgreeInv, ReadPersistData, Failed,
        Capacities, Unreadable, members
  <2>3. KeptInv'
    BY <1>2, Numbers
    DEF CapacityTypeOK, SavesNumbers, KeptInv, ReadPersistData, Failed,
        Capacities, Unreadable, members
  <2> QED BY <2>1, <2>2, <2>3
<1>3. CASE ReadNominalCapacity
  <2>1. CapacityTypeOK'
    BY <1>3, Numbers, BudgetType
    DEF CapacityTypeOK, ReadNominalCapacity, Failed, Capacities, Unreadable,
        Pcs, Kinds, members
  <2>2. SavesNumbers' /\ AgreeInv'
    BY <1>3, Numbers
    DEF CapacityTypeOK, SavesNumbers, AgreeInv, ReadNominalCapacity, Failed,
        Capacities, Unreadable, members
  <2>3. KeptInv'
    BY <1>3, Numbers
    DEF CapacityTypeOK, SavesNumbers, KeptInv, ReadNominalCapacity, Failed,
        Capacities, Unreadable, members
  <2> QED BY <2>1, <2>2, <2>3
<1>4. CASE Backup
  <2>1. CapacityTypeOK'
    BY <1>4, Numbers
    DEF CapacityTypeOK, Backup, Capacities, Unreadable, Pcs, members
  <2>2. SavesNumbers' /\ AgreeInv'
    BY <1>4, Numbers
    DEF CapacityTypeOK, SavesNumbers, AgreeInv, Backup, Capacities, Unreadable,
        members
  <2>3. KeptInv'
    BY <1>4, Numbers
    DEF CapacityTypeOK, SavesNumbers, KeptInv, Backup, Capacities, Unreadable,
        members
  <2> QED BY <2>1, <2>2, <2>3
<1>5. CASE ReadCapacity
  <2>1. CapacityTypeOK'
    BY <1>5, Numbers, BudgetType
    DEF CapacityTypeOK, ReadCapacity, Failed, Capacities, Unreadable, Pcs,
        Kinds, members
  <2>2. SavesNumbers' /\ AgreeInv'
    BY <1>5, Numbers
    DEF CapacityTypeOK, SavesNumbers, AgreeInv, ReadCapacity, Failed,
        Capacities, Unreadable, members
  <2>3. KeptInv'
    BY <1>5, Numbers
    DEF CapacityTypeOK, SavesNumbers, KeptInv, ReadCapacity, Failed,
        Capacities, Unreadable, members
  <2> QED BY <2>1, <2>2, <2>3
<1>6. CASE UpdateAndSave
  <2>1. CapacityTypeOK'
    BY <1>6, Numbers
    DEF CapacityTypeOK, UpdateAndSave, Capacities, Unreadable, Pcs, members
  <2>2. SavesNumbers' /\ AgreeInv'
    BY <1>6, Numbers
    DEF CapacityTypeOK, SavesNumbers, AgreeInv, UpdateAndSave, ToSave,
        ToRestore, Capacities, Unreadable, members
  <2>3. KeptInv'
    BY <1>6, Numbers
    DEF CapacityTypeOK, SavesNumbers, KeptInv, UpdateAndSave, ToSave,
        ToRestore, Capacities, Unreadable, members
  <2> QED BY <2>1, <2>2, <2>3
<1>7. CASE SaveToSRAM
  <2>1. CapacityTypeOK'
    BY <1>7, Numbers, BudgetType
    DEF CapacityTypeOK, SavesNumbers, SaveToSRAM, Failed, Capacities,
        Unreadable, Pcs, Kinds, members
  <2>2. SavesNumbers' /\ AgreeInv'
    BY <1>7, Numbers
    DEF CapacityTypeOK, SavesNumbers, AgreeInv, SaveToSRAM, Failed, Capacities,
        Unreadable, members
  <2>3. KeptInv'
    BY <1>7, Numbers
    DEF CapacityTypeOK, SavesNumbers, KeptInv, SaveToSRAM, Failed, Capacities,
        Unreadable, members
  <2> QED BY <2>1, <2>2, <2>3
<1>8. CASE CutFile
  <2>1. CapacityTypeOK'
    BY <1>8, Numbers, BudgetType
    DEF CapacityTypeOK, CutFile, Failed, Capacities, Unreadable, Pcs, Kinds,
        members
  <2>2. SavesNumbers' /\ AgreeInv'
    BY <1>8, Numbers
    DEF CapacityTypeOK, SavesNumbers, AgreeInv, CutFile, Failed, Capacities,
        Unreadable, members
  <2>3. KeptInv'
    BY <1>8, Numbers
    DEF CapacityTypeOK, SavesNumbers, KeptInv, CutFile, Failed, Capacities,
        Unreadable, members
  <2> QED BY <2>1, <2>2, <2>3
<1>9. CASE SaveToStorage
  <2>1. CapacityTypeOK'
    BY <1>9, Numbers, BudgetType
    DEF CapacityTypeOK, SaveToStorage, Failed, Capacities, Unreadable, Pcs,
        Kinds, members
  <2>2. SavesNumbers' /\ AgreeInv'
    BY <1>9, Numbers
    DEF CapacityTypeOK, SavesNumbers, AgreeInv, SaveToStorage, Failed,
        Capacities, Unreadable, members
  <2>3. KeptInv'
    BY <1>9, Numbers
    DEF CapacityTypeOK, SavesNumbers, KeptInv, SaveToStorage, Failed,
        Capacities, Unreadable, members
  <2> QED BY <2>1, <2>2, <2>3
<1>10. ASSUME NEW c \in Learned, Learn(c) PROVE CapacityIInv'
  <2>1. CapacityTypeOK'
    BY <1>10, Numbers, BudgetType
    DEF CapacityTypeOK, Learn, Capacities, Unreadable, Pcs, Kinds, members
  <2>2. SavesNumbers' /\ AgreeInv'
    BY <1>10, Numbers
    DEF CapacityTypeOK, SavesNumbers, AgreeInv, Learn, Capacities, Unreadable,
        members
  <2>3. KeptInv'
    BY <1>10, Numbers
    DEF CapacityTypeOK, SavesNumbers, KeptInv, Learn, Capacities, Unreadable,
        members
  <2> QED BY <2>1, <2>2, <2>3
<1>11. CASE GaugeReset
  <2>1. CapacityTypeOK'
    BY <1>11, Numbers, BudgetType
    DEF CapacityTypeOK, GaugeReset, Capacities, Unreadable, Pcs, Kinds, members
  <2>2. SavesNumbers' /\ AgreeInv'
    BY <1>11, Numbers
    DEF CapacityTypeOK, SavesNumbers, AgreeInv, GaugeReset, Capacities,
        Unreadable, members
  <2>3. KeptInv'
    BY <1>11, Numbers
    DEF CapacityTypeOK, SavesNumbers, KeptInv, GaugeReset, Capacities,
        Unreadable, members
  <2> QED BY <2>1, <2>2, <2>3
<1>12. CASE Stop
  <2>1. CapacityTypeOK'
    BY <1>12, Numbers, BudgetType
    DEF CapacityTypeOK, Stop, Capacities, Unreadable, Pcs, Kinds, members
  <2>2. SavesNumbers' /\ AgreeInv'
    BY <1>12, Numbers
    DEF CapacityTypeOK, SavesNumbers, AgreeInv, Stop, Capacities, Unreadable,
        members
  <2>3. KeptInv'
    BY <1>12, Numbers
    DEF CapacityTypeOK, SavesNumbers, KeptInv, Stop, Capacities, Unreadable,
        members
  <2> QED BY <2>1, <2>2, <2>3
<1>13. CASE UNCHANGED capacityVars
  BY <1>13 DEF CapacityTypeOK, SavesNumbers, KeptInv, AgreeInv, capacityVars,
      members
<1> QED BY <1>1, <1>2, <1>3, <1>4, <1>5, <1>6, <1>7, <1>8, <1>9, <1>10, <1>11,
    <1>12, <1>13 DEF CapacityNext

\* The inductive invariant holds throughout.
THEOREM CapacityInvariant == CapacitySpec => []CapacityIInv
BY CapacityInitIInv, CapacityNextIInv, PTL DEF CapacitySpec

\* Every variable keeps its type, for every value of the constants.
THEOREM CapacityTypeCorrect == CapacitySpec => []CapacityTypeOK
<1>1. CapacityIInv => CapacityTypeOK
  BY DEF CapacityIInv
<1> QED BY <1>1, CapacityInvariant, PTL

\* A learned capacity in the file is never given up for the design value but by
\* the four accidents.
THEOREM Kept == CapacitySpec => LearnedIsKept
<1>1. CapacityIInv /\ [CapacityNext]_capacityVars
        => [~lost /\ saved \in Learned => saved' # Design]_capacityVars
  <2> SUFFICES ASSUME CapacityIInv, [CapacityNext]_capacityVars, ~lost,
                      saved \in Learned
               PROVE  saved' # Design
    OBVIOUS
  <2>1. CASE saved' = saved
    BY <2>1, Numbers
  <2>2. CASE SaveToStorage
    BY <2>2, Numbers DEF CapacityIInv, KeptInv, SaveToStorage
  <2> QED
    BY <2>1, <2>2
    DEF CapacityNext, Start, ReadPersistData, ReadNominalCapacity, Backup,
        ReadCapacity, UpdateAndSave, SaveToSRAM, CutFile, Learn, GaugeReset,
        Stop, capacityVars
<1> QED BY <1>1, CapacityInvariant, PTL DEF CapacitySpec, LearnedIsKept

\* A gauge read at its design capacity, or about to be written to, still is at
\* it, or has moved since; without a failing access what the service has compared
\* is what the gauge says, or said.
GaugeInv ==
  /\ hw_cap = Design \/ pc = "gauge" => charge_full = Design \/ moved
  /\ clean =>
       /\ pc = "update" => hw_cap = charge_full \/ moved
       /\ pc \in {"cut", "storage"} => charge_full = sw_cap \/ moved

LEMMA GaugeStep ==
  CapacityTypeOK /\ GaugeInv /\ [CapacityNext]_capacityVars => GaugeInv'
<1> SUFFICES ASSUME CapacityTypeOK, GaugeInv, [CapacityNext]_capacityVars
             PROVE  GaugeInv'
  OBVIOUS
<1> USE DEF GaugeInv, members, Failed
<1>1. CASE ReadCapacity
  BY <1>1 DEF ReadCapacity
<1>2. CASE UpdateAndSave
  <2>1. nom_cap \in {0, Design}
    BY DEF CapacityTypeOK
  <2> QED BY <1>2, <2>1 DEF UpdateAndSave, ToSave, ToRestore
<1>3. CASE SaveToSRAM \/ CutFile \/ SaveToStorage
  BY <1>3 DEF SaveToSRAM, CutFile, SaveToStorage
<1>4. CASE GaugeReset \/ \E c \in Learned : Learn(c)
  BY <1>4 DEF GaugeReset, Learn
<1>5. CASE Start \/ ReadPersistData \/ ReadNominalCapacity \/ Backup \/ Stop
  BY <1>5, Numbers
  DEF Start, ReadPersistData, ReadNominalCapacity, Backup, Stop
<1>6. CASE UNCHANGED capacityVars
  BY <1>6 DEF capacityVars
<1> QED BY <1>1, <1>2, <1>3, <1>4, <1>5, <1>6 DEF CapacityNext

\* After an update without a failing access, file, service and gauge agree, but
\* for what the gauge did since it was read; only a gauge that moved is robbed of
\* something it had learned.
THEOREM Agreement == CapacitySpec => CopiesAgree
<1>1. CapacityInit => GaugeInv
  BY Numbers DEF CapacityInit, GaugeInv
<1>2. ASSUME CapacityIInv, CapacityIInv', GaugeInv, [CapacityNext]_capacityVars,
             pc # "idle", pc' = "idle", clean'
      PROVE  /\ persist' = sw_cap' /\ hw_cap' = sw_cap'
             /\ charge_full' = sw_cap' \/ moved'
  <2>1. persist' = sw_cap'
    BY <1>2 DEF CapacityIInv, AgreeInv
  <2>2. CASE UpdateAndSave
    <3>1. hw_cap # 0 /\ sw_cap \in Nat
      BY <1>2, <2>2, Numbers DEF CapacityIInv, CapacityTypeOK, AgreeInv,
          UpdateAndSave, Capacities
    <3>2. hw_cap = charge_full \/ moved
      BY <1>2, <2>2 DEF GaugeInv, UpdateAndSave
    <3> QED BY <1>2, <2>1, <2>2, <3>1, <3>2 DEF UpdateAndSave, ToSave, ToRestore
  <2>3. CASE SaveToSRAM
    BY <1>2, <2>1, <2>3
    DEF CapacityIInv, AgreeInv, SaveToSRAM, members, Failed
  <2>4. CASE SaveToStorage
    BY <1>2, <2>1, <2>4
    DEF CapacityIInv, AgreeInv, GaugeInv, SaveToStorage, members, Failed
  <2>5. ~CutFile
    BY <1>2 DEF CutFile, Failed
  <2> QED
    BY <1>2, <2>2, <2>3, <2>4, <2>5
    DEF CapacityNext, Start, ReadPersistData, ReadNominalCapacity, Backup,
        ReadCapacity, Learn, GaugeReset, Stop, capacityVars
<1>3. GaugeInv /\ pc = "gauge" => charge_full \in {Design, charge_full'} \/ moved
  BY DEF GaugeInv
<1>4. CapacityIInv /\ CapacityIInv' /\ GaugeInv /\ [CapacityNext]_capacityVars
        => [/\ pc # "idle" /\ pc' = "idle" /\ clean' =>
                 /\ persist' = sw_cap' /\ hw_cap' = sw_cap'
                 /\ charge_full' = sw_cap' \/ moved'
            /\ pc = "gauge" /\ pc' = "idle" =>
                 charge_full \in {Design, charge_full'} \/ moved]_capacityVars
  BY <1>2, <1>3
<1>5. CapacityIInv => CapacityTypeOK
  BY DEF CapacityIInv
<1> QED
  BY <1>1, <1>4, <1>5, GaugeStep, CapacityInvariant, PTL DEF CapacitySpec, CopiesAgree

----------------------------------------------------------------------------
(* The service. *)

LEMMA InitOfControls == HealthInit => Init /\ CapacityInit
BY DEF HealthInit

\* A step of the service is one of the recharging control, or none of its.
LEMMA RechargingSteps == [HealthNext]_healthVars => [Next]_vars
<1> SUFFICES ASSUME [HealthNext]_healthVars PROVE Next \/ UNCHANGED vars
  OBVIOUS
<1>1. CASE UpdateLevel
  BY <1>1 DEF UpdateLevel, Next
<1>2. CASE StopService
  BY <1>2 DEF StopService, Next
<1>3. CASE UNCHANGED healthVars
  BY <1>3 DEF healthVars
<1> QED
  BY <1>1, <1>2, <1>3
  DEF HealthNext, StartService, UpdateCapacity, ReadGauge, RestoreOrBackup,
      GaugeLearns, GaugeLosesPower

\* A step of the service is one of the capacity backup, or none of its.
LEMMA CapacitySteps == [HealthNext]_healthVars => [CapacityNext]_capacityVars
<1> SUFFICES ASSUME [HealthNext]_healthVars
             PROVE  CapacityNext \/ UNCHANGED capacityVars
  OBVIOUS
<1>1. CASE UpdateLevel
  BY <1>1 DEF UpdateLevel
<1>2. CASE UNCHANGED healthVars
  BY <1>2 DEF healthVars
<1> QED
  BY <1>1, <1>2
  DEF HealthNext, StartService, BoardInit, UpdateCapacity, ReadGauge,
      RestoreOrBackup, GaugeLearns, GaugeLosesPower, StopService, CapacityNext

\* The service runs each control as its own specification says.
THEOREM RunsBothControls == HealthSpec => Spec /\ CapacitySpec
BY InitOfControls, RechargingSteps, CapacitySteps, PTL
DEF HealthSpec, Spec, CapacitySpec

\* The level is never below the gauge's, whatever the backup is doing.
THEOREM NeverBelowGauge == HealthSpec => []NeverUnderstates
BY RunsBothControls, Overstates, PTL

\* A transition is over when its time is, whatever the backup is doing.
THEOREM TruthTold == HealthSpec => []TruthInTime
BY RunsBothControls, Truth, PTL

\* The level falls gently, whatever the backup is doing.
THEOREM NoCliffAhead == HealthSpec => NoCliff
BY RunsBothControls, GentleFall, PTL

\* The service never gives up a learned capacity but by the four accidents.
THEOREM CapacityKept == HealthSpec => LearnedIsKept
BY RunsBothControls, Kept, PTL

\* An update without a failing access leaves file, service and gauge agreeing.
THEOREM CapacityAgreed == HealthSpec => CopiesAgree
BY RunsBothControls, Agreement, PTL

----------------------------------------------------------------------------

\* The level is reported between two runs of Backup.
UpdatingInv ==
  /\ updating \in BOOLEAN /\ resetSince \in BOOLEAN
  /\ updating => pc = "idle"

\* What was read and is about to be saved is still in the gauge, as far as it
\* tells a learned capacity from the design value.
ReadInv ==
  clean /\ ~resetSince /\ pc \in {"update", "cut", "storage"} /\ hw_cap # Design
    => charge_full # Design

\* Between two updates a gauge with a learned capacity on file has it.
IdleInv ==
  clean /\ ~resetSince /\ ~lost /\ saved \in Learned /\ pc = "idle"
    => charge_full # Design

HealthInv == UpdatingInv /\ ReadInv /\ IdleInv

LEMMA HealthInitInv == HealthInit => HealthInv
BY DEF HealthInit, CapacityInit, HealthInv, UpdatingInv, ReadInv, IdleInv

LEMMA HealthNextInv ==
  HealthInv /\ CapacityIInv /\ CapacityIInv' /\ [HealthNext]_healthVars
    => HealthInv'
<1> SUFFICES ASSUME HealthInv, CapacityIInv, CapacityIInv', [HealthNext]_healthVars
             PROVE  HealthInv'
  OBVIOUS
<1> USE DEF HealthInv
<1>1. CASE StartService
  BY <1>1
  DEF StartService, BoardInit, Start, UpdatingInv, ReadInv, IdleInv
<1>2. CASE UpdateLevel
  BY <1>2 DEF UpdateLevel, capacityVars, UpdatingInv, ReadInv, IdleInv
<1>3. CASE UpdateCapacity
  BY <1>3 DEF UpdateCapacity, Backup, UpdatingInv, ReadInv, IdleInv
<1>4. CASE ReadGauge
  BY <1>4 DEF ReadGauge, ReadCapacity, Failed, UpdatingInv, ReadInv, IdleInv
<1>5. CASE RestoreOrBackup
  <2>1. UpdatingInv'
    BY <1>5
    DEF RestoreOrBackup, UpdatingInv, ReadPersistData, ReadNominalCapacity,
        UpdateAndSave, SaveToSRAM, CutFile, SaveToStorage
  <2>2. CASE ReadPersistData \/ ReadNominalCapacity
    BY <2>1, <2>2
    DEF ReadPersistData, ReadNominalCapacity, ReadInv, IdleInv
  <2>3. CASE UpdateAndSave
    <3>1. ReadInv'
      BY <1>5, <2>3
      DEF RestoreOrBackup, UpdateAndSave, CapacityIInv, AgreeInv, ReadInv
    <3>2. IdleInv'
      <4> SUFFICES ASSUME clean, ~resetSince, ~lost, saved \in Learned,
                          pc' = "idle", charge_full = Design
                   PROVE  FALSE
        BY <1>5, <2>3 DEF RestoreOrBackup, UpdateAndSave, IdleInv
      <4>1. hw_cap # 0 /\ sw_cap # 0 /\ nom_cap = Design /\ sw_cap \in Nat
        BY <2>3, Numbers
        DEF UpdateAndSave, CapacityIInv, AgreeInv, KeptInv, CapacityTypeOK,
            Capacities
      <4>2. hw_cap = Design
        BY <2>3 DEF UpdateAndSave, ReadInv
      <4> QED
        BY <2>3, <4>1, <4>2 DEF UpdateAndSave, ToSave, ToRestore
    <3> QED BY <2>1, <3>1, <3>2
  <2>4. CASE SaveToSRAM
    <3>1. clean' /\ ~lost /\ saved \in Learned
            => hw_cap # Design /\ charge_full' = hw_cap
      BY <2>4, Numbers
      DEF SaveToSRAM, Failed, CapacityIInv, AgreeInv, KeptInv, CapacityTypeOK
    <3> QED
      BY <1>5, <2>1, <2>4, <3>1
      DEF RestoreOrBackup, SaveToSRAM, Failed, ReadInv, IdleInv
  <2>5. CASE CutFile
    BY <1>5, <2>1, <2>5
    DEF RestoreOrBackup, CutFile, Failed, members, ReadInv, IdleInv
  <2>6. CASE SaveToStorage
    <3>1. clean' /\ saved' \in Learned => hw_cap # Design
      BY <2>6, Numbers
      DEF SaveToStorage, Failed, CapacityIInv, AgreeInv
    <3> QED
      BY <1>5, <2>1, <2>6, <3>1
      DEF RestoreOrBackup, SaveToStorage, Failed, members, ReadInv, IdleInv
  <2> QED BY <1>5, <2>2, <2>3, <2>4, <2>5, <2>6 DEF RestoreOrBackup
<1>6. CASE GaugeLearns
  BY <1>6, Numbers
  DEF GaugeLearns, Learn, members, UpdatingInv, ReadInv, IdleInv
<1>7. CASE GaugeLosesPower
  BY <1>7
  DEF GaugeLosesPower, GaugeReset, members, UpdatingInv, ReadInv, IdleInv
<1>8. CASE StopService
  BY <1>8 DEF StopService, Stop, members, UpdatingInv, ReadInv, IdleInv
<1>9. CASE UNCHANGED healthVars
  BY <1>9 DEF healthVars, capacityVars, UpdatingInv, ReadInv, IdleInv
<1> QED
  BY <1>1, <1>2, <1>3, <1>4, <1>5, <1>6, <1>7, <1>8, <1>9 DEF HealthNext

\* The strengthening holds throughout, next to the backup's own.
THEOREM HealthInvariant == HealthSpec => [](HealthInv /\ CapacityIInv)
<1>1. HealthSpec => []CapacityIInv
  BY RunsBothControls, CapacityInvariant, PTL
<1> QED
  BY <1>1, HealthInitInv, HealthNextInv, PTL DEF HealthSpec

\* Every variable keeps its type, and a level is reported only by a service
\* that is not in the middle of an update of the capacity.
THEOREM HealthTypes == HealthSpec => []HealthTypeOK
<1>1. HealthInv /\ CapacityIInv /\ TypeOK => HealthTypeOK
  BY DEF HealthInv, UpdatingInv, CapacityIInv, HealthTypeOK
<1>2. HealthSpec => []TypeOK
  BY RunsBothControls, TypeCorrect, PTL
<1> QED
  BY <1>1, <1>2, HealthInvariant, PTL

\* No level is reported from a gauge that has yet to get back a capacity on
\* file, unless it lost its power after it was last read or an access failed.
THEOREM LevelIsOfLearned == HealthSpec => LevelOfLearnedGauge
<1>1. HealthInv /\ [HealthNext]_healthVars
        => [~updating /\ updating' /\ saved \in Learned /\ charge_full = Design
              => resetSince \/ lost \/ ~clean]_healthVars
  <2> SUFFICES ASSUME HealthInv, [HealthNext]_healthVars,
                      ~updating, updating', saved \in Learned,
                      charge_full = Design
               PROVE  resetSince \/ lost \/ ~clean
    OBVIOUS
  <2>1. pc = "idle"
    BY DEF HealthNext, StartService, UpdateLevel, UpdateCapacity, ReadGauge,
           RestoreOrBackup, GaugeLearns, GaugeLosesPower, StopService, healthVars
  <2> QED BY <2>1 DEF HealthInv, IdleInv
<1> QED
  BY <1>1, HealthInvariant, PTL DEF HealthSpec, LevelOfLearnedGauge
=================================================================================
