----------------------------- MODULE MCRecharging -----------------------------
(* The module the TLC runs of Recharging are made from. *)
EXTENDS Recharging
=============================================================================
