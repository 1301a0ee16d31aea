---------------------------- MODULE MC_EnergyRelay ----------------------------
(* An instance of EnergyRelay for TLC. *)
EXTENDS EnergyRelay

(* Beyond the lower end of the heating curve; the start is on its slope. *)
MC_Outdoors == {-21}
=============================================================================
