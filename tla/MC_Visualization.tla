------------------------- MODULE MC_Visualization -------------------------
(* A small instance of Visualization for TLC: two curves. *)
EXTENDS Visualization

CONSTANTS Tpco_2, Tr_2

MC_Names == <<Tpco_2, Tr_2>>
MC_Stamps == 5 .. 7
MC_MaxLog == [v \in Vars |-> IF v = Tpco_2 THEN 2 ELSE 4]
=============================================================================
