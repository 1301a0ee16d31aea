--------------------------- MODULE MC_Regulator ---------------------------
(* A small instance of Regulator for TLC. *)
EXTENDS Regulator, FiniteSets, TLC

CONSTANTS energy, logging, sntp

MC_Energy  == {energy}
MC_Nobody  == {}
=============================================================================
