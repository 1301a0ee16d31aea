--------------------------- MODULE Visualization ---------------------------
(***************************************************************************)
(* The local visualization (local_visualization/main.py): a timer calls    *)
(* animate, which searches the logging station for each curve in turn,     *)
(* adds to the curve what it has not drawn yet and plots.  Meanwhile the   *)
(* other programs go on logging.                                           *)
(*                                                                         *)
(* Abstractions.  Tab_time and Tab_val are appended to and popped together *)
(* and are one sequence of points here.  A record's value is the variable  *)
(* it was logged for.  pobier_dane reads until the braces it has received  *)
(* balance, which is the whole answer, and an error, which has none,       *)
(* comes in one piece.  Records have the fields the station's readme asks  *)
(* for (what becomes of others is in LoggingStation).                      *)
(***************************************************************************)
EXTENDS Naturals, Sequences, SequencesExt

CONSTANTS
  Names,    \* the variable of each curve
  Stamps,   \* the times records are logged at
  Ahead,    \* how far beyond its start a search reaches (5)
  Window,   \* the points a curve keeps (1000)
  MaxLog    \* how many records each table gets

Vars   == ToSet(Names)
Curves == DOMAIN Names

(* Records are logged in seconds since 1970, positions in a curve are       *)
(* below Window.                                                            *)
ASSUME VisualizationAssumption ==
  /\ Names \in Seq(Vars) /\ IsInjective(Names) /\ Names # <<>>
  /\ Ahead \in Nat /\ Window \in Nat \ {0} /\ MaxLog \in [Vars -> Nat]
  /\ Stamps \subseteq {t \in Nat : t >= Window + Ahead}

VARIABLES
  log,     \* the station's tables
  Tab,     \* the points of each curve
  pc,      \* where animate is
  i,       \* the curve it refreshes
  query,   \* the table and the times it has asked for
  dane     \* the records of the station's answer, none for an error

vars == <<log, Tab, pc, i, query, dane>>

Point == [timestamp : Stamps, value : Vars]
Error == <<>>

Halted == pc \in {"raised", "exited"}

TypeOK ==
  /\ \A v \in Vars : log[v] \in BoundedSeq(Point, MaxLog[v])
  /\ Tab \in [Curves -> BoundedSeq(Point, Window)]
  /\ pc \in {"timer", "ask", "wait", "save", "plot", "raised", "exited"}
  /\ i \in Curves
  /\ query.table \in Vars /\ query.from <= Window /\ query.to <= Window + Ahead
  /\ \E v \in Vars : dane \in BoundedSeq(Point, MaxLog[v])

-----------------------------------------------------------------------------
(* The search *)

(* Mutant: a name copied from another curve. *)
jaka_zmienna_Copied(c) == Names[1]

jaka_zmienna(c) == Names[c]

Whole(c) == [kind |-> "GET", table |-> jaka_zmienna(c), from |-> 0, to |-> 0]

(* The position, from 0, of the time of the last point.  The search is then *)
(* given that position in place of the time.                                *)
LastIndex(tab) ==
  SelectInSeq(tab, LAMBDA p : p.timestamp = Last(tab).timestamp) - 1

Search(c) ==
  IF Tab[c] = <<>> \/ LastIndex(Tab[c]) = 0 THEN Whole(c)
  ELSE [kind |-> "RANGE", table |-> jaka_zmienna(c),
        from |-> LastIndex(Tab[c]), to |-> LastIndex(Tab[c]) + Ahead]

Init ==
  /\ log = [v \in Vars |-> <<>>]
  /\ Tab = [c \in Curves |-> <<>>]
  /\ pc = "timer"
  /\ i = 1
  /\ query = Whole(1)
  /\ dane = Error

pobier_dane ==
  /\ pc = "ask"
  /\ query' = Search(i)
  /\ pc' = "wait"
  /\ UNCHANGED <<log, Tab, i, dane>>

(* The records between two times, in the order of the table. *)
Between(table, from, to) ==
  LET data[n \in 0 .. Len(table)] ==
        IF n = 0 THEN <<>>
        ELSE IF from <= table[n].timestamp /\ table[n].timestamp <= to
             THEN Append(data[n - 1], table[n]) ELSE data[n - 1]
  IN data[Len(table)]

(* What the station answers: records between two times, up to that of the   *)
(* record inserted last when the search is for the whole table.             *)
get_from_db(table, q) ==
  CASE q.kind = "RANGE" -> Between(table, q.from, q.to)
    [] q.kind = "GET" /\ table = <<>> -> Error
    [] q.kind = "GET" /\ table # <<>> -> Between(table, 0, Last(table).timestamp)

Answer ==
  /\ pc = "wait"
  /\ dane' = get_from_db(log[query.table], query)
  /\ pc' = "save"
  /\ UNCHANGED <<log, Tab, i, query>>

-----------------------------------------------------------------------------
(* The curves *)

Newer(tab, r) == r.timestamp > Last(tab).timestamp

Extend(tab, recs) ==
  LET drawn[n \in 0 .. Len(recs)] ==
        IF n = 0 THEN tab
        ELSE IF Newer(drawn[n - 1], recs[n])
             THEN Append(drawn[n - 1], recs[n]) ELSE drawn[n - 1]
  IN drawn[Len(recs)]

(* Mutant: one point too many is kept. *)
Trim_OneMore(tab) ==
  IF Len(tab) > Window + 1 THEN SubSeq(tab, Len(tab) - Window, Len(tab)) ELSE tab

Trim(tab) ==
  IF Len(tab) > Window THEN SubSeq(tab, Len(tab) - Window + 1, Len(tab)) ELSE tab

(* Mutant: the last curve is left out. *)
NextCurve_Short ==
  IF i < Len(Names) - 1 THEN i' = i + 1 /\ pc' = "ask" ELSE i' = 1 /\ pc' = "plot"

NextCurve ==
  IF i < Len(Names) THEN i' = i + 1 /\ pc' = "ask" ELSE i' = 1 /\ pc' = "plot"

(* A new curve starts at the answer's key "1", which is the second record.  *)
Start(tab, recs) == IF tab = <<>> THEN <<recs[2]>> ELSE tab

zapisz_dane ==
  /\ pc = "save"
  /\ IF dane = <<>> THEN UNCHANGED Tab
     ELSE /\ Tab[i] # <<>> \/ Len(dane) >= 2
          /\ Tab' = [Tab EXCEPT ![i] = Trim(Extend(Start(@, dane), dane))]
  /\ NextCurve
  /\ UNCHANGED <<log, query, dane>>

(* The answer to the first search has one record: KeyError leaves the       *)
(* timer's callback and the timer is not set again.                         *)
KeyError ==
  /\ pc = "save"
  /\ Tab[i] = <<>> /\ Len(dane) = 1
  /\ pc' = "raised"
  /\ UNCHANGED <<log, Tab, i, query, dane>>

animate ==
  /\ pc = "timer"
  /\ pc' = "ask"
  /\ UNCHANGED <<log, Tab, i, query, dane>>

Plot ==
  /\ pc = "plot"
  /\ pc' \in {"timer", "exited"}
  /\ UNCHANGED <<log, Tab, i, query, dane>>

(* The other programs log, each at its own clock's time. *)
Put(v) ==
  /\ Len(log[v]) < MaxLog[v]
  /\ \E t \in Stamps :
       log' = [log EXCEPT ![v] = Append(@, [timestamp |-> t, value |-> v])]
  /\ UNCHANGED <<Tab, pc, i, query, dane>>

Stopped == Halted /\ UNCHANGED vars

Refresh == animate \/ pobier_dane \/ Answer \/ zapisz_dane \/ KeyError \/ Plot

Next == Refresh \/ Stopped \/ \E v \in Vars : Put(v)

Spec == Init /\ [][Next]_vars

(* The timer fires again and again, and the station answers a client that   *)
(* waits (PatientServed of LoggingStation).                                 *)
FairSpec == Spec /\ WF_vars(Refresh)

-----------------------------------------------------------------------------
(* Properties *)

(* A curve shows records of its own variable only, whichever answers come  *)
(* in between, and no time twice: its time axis runs forward although the   *)
(* table has records out of order and equal times (50-62, 84-87).           *)
OwnRecordsInOrder ==
  \A c \in Curves :
    /\ ToSet(Tab[c]) \subseteq ToSet(log[Names[c]])
    /\ \A m, n \in DOMAIN Tab[c] : m < n => Tab[c][m].timestamp < Tab[c][n].timestamp

(* A curve never falls behind for good: again and again, while the display  *)
(* runs, a curve that has begun reaches the record logged last for it       *)
(* (62-71, 84-87).                                                          *)
CurvesKeepUp ==
  \A c \in Curves :
    []<>(Tab[c] = <<>> \/ Halted \/ ~Newer(Tab[c], Last(log[Names[c]])))

(* Every table of two records comes to be drawn, unless the display has     *)
(* stopped by then, be it over another curve (82, 93-97).                   *)
TablesAreDrawn ==
  \A c \in Curves : Len(log[Names[c]]) >= 2 ~> (Tab[c] # <<>> \/ Halted)
=============================================================================
