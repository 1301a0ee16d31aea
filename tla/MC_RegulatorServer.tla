-------------------------- MODULE MC_RegulatorServer --------------------------
(* Small instances of RegulatorServer for TLC. *)
EXTENDS RegulatorServer

CONSTANTS exchanger, ks

MC_Two == {exchanger, ks}
MC_Ks  == {ks}

MC_MaxReq == [c \in MC_Two |-> IF c = exchanger THEN 2 ELSE 1]
=============================================================================
