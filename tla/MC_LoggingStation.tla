------------------------- MODULE MC_LoggingStation -------------------------
(* Small instances of LoggingStation for TLC. *)
EXTENDS LoggingStation

CONSTANTS building, viewer, regulator, other, x

MC_Two     == {building, other}
MC_Three   == {building, viewer, regulator}
MC_Pair    == {building, viewer}
MC_OneVar  == {x}

(* Who sends what: the buildings log, the visualization searches, the      *)
(* regulator logs without waiting, another client sends what it likes.     *)
MC_Logging   == [c \in MC_Three |-> IF c = viewer THEN {"RANGE"} ELSE {"PUT"}]
MC_Anything  == [c \in MC_Two |->
                   IF c = building THEN {"PUT", "GET", "RANGE", "TRUNCATE"}
                   ELSE {"PUT", "BARE", "BAD"}]
MC_Building  == {building}

MC_Nobody    == {}
=============================================================================
