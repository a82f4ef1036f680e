---------------------------- MODULE EuiccDisabler ----------------------------
(***************************************************************************)
(* EuiccDisabler.java, run by BootCompletedReceiver on BOOT_COMPLETED: the *)
(* eUICC applications are enabled when the applications they depend on are *)
(* installed and enabled, and disabled otherwise.  The package manager and *)
(* whoever else enables and disables packages are the environment.         *)
(***************************************************************************)
EXTENDS Naturals, Sequences

CONSTANTS
  Dependencies,  \* EUICC_DEPENDENCIES, in their order
  Packages,      \* EUICC_PACKAGES, in their order
  Builds,        \* sets of packages a build may have installed
  MaxToggles     \* bound: how often a dependency may change

IsList(s) == Len(s) \in Nat /\ DOMAIN s = 1..Len(s)

ASSUME PackagesAssumption ==
  /\ IsList(Dependencies) /\ IsList(Packages) /\ Packages # <<>>
  /\ \A i, j \in DOMAIN Packages : Packages[i] = Packages[j] => i = j
  /\ Builds \subseteq SUBSET {Packages[i] : i \in DOMAIN Packages}
ASSUME MaxTogglesAssumption == MaxToggles \in Nat

VARIABLES
  receiverPc,  \* where onReceive is; "idle": not called since the boot
  index,       \* the dependency or package it has got to
  disable,     \* what shouldDisable has returned
  present,     \* the dependencies that are installed and enabled
  installed,   \* the packages that are installed
  enabled,     \* those of them that are enabled
  toggles,     \* how often a dependency may still change
  \* History: a dependency has changed since onReceive was called.
  changed

euiccVars ==
  <<receiverPc, index, disable, present, installed, enabled, toggles, changed>>

DependencySet == {Dependencies[i] : i \in DOMAIN Dependencies}

EuiccInit ==
  /\ receiverPc = "idle" /\ index = 1 /\ disable = FALSE
  /\ present \in SUBSET DependencySet
  /\ installed \in Builds /\ enabled \in {{}, installed}
  /\ toggles = MaxToggles
  /\ changed = FALSE

OnReceive ==
  /\ receiverPc = "idle"
  /\ receiverPc' = "check"
  /\ index' = 1 /\ disable' = FALSE
  /\ changed' = FALSE
  /\ UNCHANGED <<present, installed, enabled, toggles>>

\* As a mutant: one dependency is enough.
OneIsEnough(d) == DependencySet \cap present = {}

Missing(d) == d \notin present

\* shouldDisable, one dependency at a time: the first that is missing decides.
CheckDependency ==
  /\ receiverPc = "check"
  /\ IF index > Len(Dependencies)
     THEN receiverPc' = "set" /\ index' = 1 /\ UNCHANGED disable
     ELSE IF Missing(Dependencies[index])
     THEN receiverPc' = "set" /\ index' = 1 /\ disable' = TRUE
     ELSE index' = index + 1 /\ UNCHANGED <<receiverPc, disable>>
  /\ UNCHANGED <<present, installed, enabled, toggles, changed>>

\* setApplicationEnabledSetting, one package at a time; it throws for a package
\* that is not installed, and the rest are left as they are.
SetPackage ==
  /\ receiverPc = "set"
  /\ IF index > Len(Packages)
     THEN receiverPc' = "done" /\ UNCHANGED <<index, enabled>>
     ELSE IF Packages[index] \notin installed
     THEN receiverPc' = "thrown" /\ UNCHANGED <<index, enabled>>
     ELSE /\ enabled' = IF disable THEN enabled \ {Packages[index]}
                        ELSE enabled \cup {Packages[index]}
          /\ index' = index + 1
          /\ UNCHANGED receiverPc
  /\ UNCHANGED <<disable, present, installed, toggles, changed>>

\* A dependency is installed, enabled, disabled or removed.
Toggle ==
  /\ toggles > 0
  /\ toggles' = toggles - 1
  /\ \E d \in DependencySet :
       present' = IF d \in present THEN present \ {d} ELSE present \cup {d}
  /\ changed' = TRUE
  /\ UNCHANGED <<receiverPc, index, disable, installed, enabled>>

RebootEuicc ==
  /\ receiverPc' = "idle" /\ index' = 1 /\ disable' = FALSE
  /\ changed' = FALSE
  /\ UNCHANGED <<present, installed, enabled, toggles>>

Receiver == CheckDependency \/ SetPackage

EuiccTypeOK ==
  /\ receiverPc \in {"idle", "check", "set", "done", "thrown"}
  /\ index \in Nat \ {0} /\ disable \in BOOLEAN
  /\ present \subseteq DependencySet /\ installed \in Builds /\ enabled \subseteq installed
  /\ toggles \in Nat /\ changed \in BOOLEAN

\* "Disable if any of the dependencies are disabled" (EuiccDisabler.java:51):
\* once the receiver is through all the packages are in the same state, however
\* an earlier boot that was cut short or an exception has left them, and it is
\* the state the dependencies ask for unless one of them changed meanwhile.
PackagesFollowDependencies ==
  receiverPc = "done" =>
    /\ enabled \in {{}, installed}
    /\ ~changed => (enabled # {} <=> present = DependencySet)

\* The inductive invariant behind it: what the loops have established so far.
EuiccInv ==
  /\ EuiccTypeOK
  /\ receiverPc = "check" =>
       /\ ~disable
       /\ ~changed => \A i \in DOMAIN Dependencies :
                        i < index => Dependencies[i] \in present
  /\ receiverPc = "set" =>
       /\ ~changed => (disable <=> present # DependencySet)
       /\ \A i \in DOMAIN Packages :
            i < index => /\ Packages[i] \in installed
                         /\ Packages[i] \in enabled <=> ~disable
  /\ PackagesFollowDependencies

===============================================================================
