-------------------------------- MODULE MCBoot --------------------------------
(* Constants of the TLC run of Boot. *)
EXTENDS Boot

TwoDependencies == <<"gms", "gsf">>
TwoPackages == <<"euicc", "ims">>
TwoBuilds == {{"euicc", "ims"}, {"euicc"}}

\* Bound: the radio script, which shares nothing with what the end of the boot
\* starts, is through by then.
RadioFirst == stage = "completed" => radioPc = "ended"

\* Bound: a dependency changes while the receiver runs, since before and after it
\* another initial state says the same; fps_hal ends once init has come to stage
\* "boot", since nothing looks at it before.
LateAccidents ==
  /\ toggles' # toggles => receiverPc \in {"check", "set"}
  /\ exits' # exits => stage \in {"boot", "completed"}
===============================================================================
