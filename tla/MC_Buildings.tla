----------------------------- MODULE MC_Buildings -----------------------------
(* A small instance of Buildings for TLC: one client of each kind. *)
EXTENDS Buildings

CONSTANTS regulator, deaf

MC_Clients == {regulator, deaf}
MC_Patient == {regulator}
=============================================================================
