---------------------------- MODULE LearnedCapacity ----------------------------
(***************************************************************************)
(* health/LearnedCapacityBackupRestore.cpp: the fuel gauge learns what a   *)
(* full charge of the aging battery is, and forgets it when it loses       *)
(* power.  Restore, run once when the health HAL starts, and Backup, run   *)
(* with every battery update, keep a copy in a file of the persist         *)
(* partition and write it back into a gauge that has been reset.           *)
(*                                                                         *)
(* Every file access is a step; the gauge may learn or lose its power, and *)
(* the service may stop, between any two of them.                          *)
(***************************************************************************)
EXTENDS Integers

CONSTANTS
  Design,   \* charge_full_design, what a reset gauge starts with
  Learned,  \* capacities the gauge may learn
  Budget    \* bound: how often each kind of outside event may happen

Kinds == {"stops", "resets", "learns", "readFaults", "writeFaults"}

ASSUME CapacityAssumption ==
  Design \in Nat \ {0} /\ Learned \subseteq Nat \ {0, Design}
ASSUME BudgetAssumption == Budget \in [Kinds -> Nat]

VARIABLES
  sw_cap, hw_cap, nom_cap,  \* members
  pc,                       \* where Restore or Backup is
  charge_full,              \* the gauge
  persist,                  \* the file, Unreadable without a number
  left,                     \* what is left of the budget
  \* History: whether every access since the service started went well; the
  \* capacity last written to the file, and whether one of the accidents that
  \* the code has no answer to has happened since; whether the gauge has learned
  \* or lost a capacity since it was last read.
  clean, saved, lost, moved

capacityVars == <<sw_cap, hw_cap, nom_cap, pc, charge_full, persist, left,
                  clean, saved, lost, moved>>
members == <<sw_cap, hw_cap, nom_cap>>

Capacities == Learned \cup {Design}

\* A file that is missing, or cut off before anything was written to it: reading
\* it leaves the member at 0.
Unreadable == 0

Pcs == {"down", "persist", "nominal", "capacity", "update", "gauge", "cut",
        "storage", "idle"}

Spend(kind) == left[kind] > 0 /\ left' = [left EXCEPT ![kind] = @ - 1]

CapacityInit ==
  /\ sw_cap = 0 /\ hw_cap = 0 /\ nom_cap = 0
  /\ pc = "down"
  /\ charge_full \in Capacities
  /\ persist = Unreadable
  /\ left = Budget
  /\ clean = TRUE /\ saved = 0 /\ lost = FALSE /\ moved = FALSE

----------------------------------------------------------------------------

\* The service starts with its members zero, and runs Restore.
Start ==
  /\ pc = "down"
  /\ pc' = "persist"
  /\ sw_cap' = 0 /\ hw_cap' = 0 /\ nom_cap' = 0
  /\ clean' = TRUE
  /\ UNCHANGED <<charge_full, persist, left, saved, lost, moved>>

\* What a failing access leaves behind it: nothing but this.
Failed(kind) == Spend(kind) /\ clean' = FALSE

\* A file without a number in it leaves sw_cap_ zero.
ReadPersistData ==
  /\ pc = "persist"
  /\ pc' = "nominal"
  /\ \/ /\ sw_cap' = IF persist = Unreadable THEN sw_cap ELSE persist
        /\ UNCHANGED <<left, clean, lost>>
     \/ /\ Failed("readFaults")
        /\ lost' = TRUE
        /\ UNCHANGED sw_cap
  /\ UNCHANGED <<hw_cap, nom_cap, charge_full, persist, saved, moved>>

ReadNominalCapacity ==
  /\ pc = "nominal"
  /\ pc' = "capacity"
  /\ \/ nom_cap' = Design /\ UNCHANGED <<left, clean, lost>>
     \/ /\ Failed("readFaults")
        /\ lost' = TRUE
        /\ UNCHANGED nom_cap
  /\ UNCHANGED <<sw_cap, hw_cap, charge_full, persist, saved, moved>>

\* Backup starts here.
Backup ==
  /\ pc = "idle"
  /\ pc' = "capacity"
  /\ UNCHANGED <<members, charge_full, persist, left, clean, saved, lost, moved>>

ReadCapacity ==
  /\ pc = "capacity"
  /\ pc' = "update"
  /\ \/ hw_cap' = charge_full /\ moved' = FALSE /\ UNCHANGED <<left, clean>>
     \/ Failed("readFaults") /\ UNCHANGED <<hw_cap, moved>>
  /\ UNCHANGED <<sw_cap, nom_cap, charge_full, persist, saved, lost>>

\* As mutants: a gauge that has been reset counts as one that has learned; it is
\* never given back what it had.
LearnsFromReset == hw_cap # sw_cap \/ sw_cap = 0
NeverRestores == FALSE

ToSave == (hw_cap # sw_cap /\ hw_cap # nom_cap) \/ sw_cap = 0

ToRestore == sw_cap > 0 /\ hw_cap = nom_cap

\* UpdateAndSave decides.
UpdateAndSave ==
  /\ pc = "update"
  /\ IF hw_cap # 0 /\ ToSave
     THEN sw_cap' = hw_cap /\ pc' = "cut" /\ UNCHANGED hw_cap
     ELSE IF hw_cap # 0 /\ ToRestore
     THEN hw_cap' = sw_cap /\ pc' = "gauge" /\ UNCHANGED sw_cap
     ELSE pc' = "idle" /\ UNCHANGED <<sw_cap, hw_cap>>
  /\ UNCHANGED <<nom_cap, charge_full, persist, left, clean, saved, lost, moved>>

SaveToSRAM ==
  /\ pc = "gauge"
  /\ pc' = "idle"
  /\ \/ charge_full' = hw_cap /\ UNCHANGED <<left, clean>>
     \/ Failed("writeFaults") /\ UNCHANGED charge_full
  /\ UNCHANGED <<members, persist, saved, lost, moved>>

\* WriteStringToFile truncates the file and then writes to it.
CutFile ==
  /\ pc = "cut"
  /\ \/ persist' = Unreadable /\ pc' = "storage" /\ UNCHANGED <<left, clean>>
     \/ Failed("writeFaults") /\ pc' = "idle" /\ UNCHANGED persist
  /\ UNCHANGED <<members, charge_full, saved, lost, moved>>

\* A write that fails leaves no file: WriteStringToFile then removes it.
SaveToStorage ==
  /\ pc = "storage"
  /\ pc' = "idle"
  /\ \/ /\ persist' = sw_cap /\ saved' = sw_cap
        /\ lost' = (nom_cap = 0)
        /\ UNCHANGED <<left, clean>>
     \/ /\ Failed("writeFaults")
        /\ lost' = TRUE
        /\ UNCHANGED <<persist, saved>>
  /\ UNCHANGED <<members, charge_full, moved>>

----------------------------------------------------------------------------
(* The gauge, and the end of the process. *)

Learn(c) ==
  /\ c # charge_full
  /\ Spend("learns")
  /\ charge_full' = c /\ moved' = TRUE
  /\ UNCHANGED <<members, pc, persist, clean, saved, lost>>

\* The gauge loses its power.
GaugeReset ==
  /\ charge_full # Design
  /\ Spend("resets")
  /\ charge_full' = Design /\ moved' = TRUE
  /\ UNCHANGED <<members, pc, persist, clean, saved, lost>>

\* The service, or the device, stops; between the truncation and the write that
\* leaves the file empty.
Stop ==
  /\ pc # "down"
  /\ Spend("stops")
  /\ pc' = "down"
  /\ lost' = (lost \/ pc = "storage")
  /\ UNCHANGED <<members, charge_full, persist, clean, saved, moved>>

CapacityNext ==
  \/ Start \/ ReadPersistData \/ ReadNominalCapacity \/ Backup \/ ReadCapacity
  \/ UpdateAndSave \/ SaveToSRAM \/ CutFile \/ SaveToStorage
  \/ \E c \in Learned : Learn(c)
  \/ GaugeReset \/ Stop

CapacitySpec == CapacityInit /\ [][CapacityNext]_capacityVars

----------------------------------------------------------------------------
(* Properties. *)

CapacityTypeOK ==
  /\ sw_cap \in Capacities \cup {0} /\ hw_cap \in Capacities \cup {0}
  /\ nom_cap \in {0, Design}
  /\ pc \in Pcs
  /\ charge_full \in Capacities
  /\ persist \in Capacities \cup {Unreadable}
  /\ left \in [Kinds -> Nat]
  /\ clean \in BOOLEAN /\ saved \in Capacities \cup {0} /\ lost \in BOOLEAN
  /\ moved \in BOOLEAN

\* A capacity the gauge has learned and the file has kept is never given up for
\* the design value, through any number of resets and restarts.  The accidents
\* that do undo it are the four that set lost: an unreadable file or an
\* unreadable design value at the start, a write that fails after the file was
\* cut, and a service that stops there.
LearnedIsKept ==
  [][~lost /\ saved \in Learned => saved' # Design]_capacityVars

\* Once an update is over, and no access has failed since the service started,
\* the file, the service and the gauge agree on the capacity, but for what the
\* gauge has learned or lost since it was read.  And what is written to a gauge
\* that was taken for reset overwrites nothing it had learned, unless it has
\* learned it since: there is no second look before the write.
CopiesAgree ==
  [][/\ pc # "idle" /\ pc' = "idle" /\ clean' =>
          /\ persist' = sw_cap' /\ hw_cap' = sw_cap'
          /\ charge_full' = sw_cap' \/ moved'
     /\ pc = "gauge" /\ pc' = "idle" =>
          charge_full \in {Design, charge_full'} \/ moved]_capacityVars

===============================================================================
