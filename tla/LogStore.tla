------------------------------- MODULE LogStore -------------------------------
(***************************************************************************)
(* What the logging station promises its clients, whatever its threads do: *)
(* a table only grows, by one record at a time, and a record whose PUT has *)
(* been acknowledged is in its table.                                      *)
(***************************************************************************)
EXTENDS Sequences

CONSTANTS Vars, Records

VARIABLES
  store,   \* the table of each variable, a sequence of records
  acked    \* the records whose PUT has been acknowledged

Stored == UNION {{store[v][i] : i \in DOMAIN store[v]} : v \in Vars}

Init ==
  /\ store = [v \in Vars |-> <<>>]
  /\ acked = {}

Insert(v, r) ==
  /\ r \notin Stored
  /\ store' = [store EXCEPT ![v] = Append(@, r)]
  /\ UNCHANGED acked

Acknowledge(r) ==
  /\ r \in Stored
  /\ acked' = acked \cup {r}
  /\ UNCHANGED store

Next == \E r \in Records : Acknowledge(r) \/ \E v \in Vars : Insert(v, r)

Spec == Init /\ [][Next]_<<store, acked>>
=============================================================================
