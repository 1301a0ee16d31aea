--------------------------- MODULE LoggingStation ---------------------------
(***************************************************************************)
(* The logging station (logging_station/main.py): a TCP server with one    *)
(* handler thread per connection, over a TinyDB file shared under db_lock. *)
(* The clients are those of the repository: most send a request and wait   *)
(* for its answer, the regulator sends its PUTs one after the other and    *)
(* never reads an answer.                                                  *)
(*                                                                         *)
(* Abstractions.  A request is a record; the n-th one of a connection is   *)
(* timestamped n.  A stream is the sequence of the messages written to it  *)
(* and not read yet; one recv returns what has arrived, one request or     *)
(* several glued together.  An insertion reads the whole file and writes   *)
(* it back, as TinyDB does.  The records of an answer are a set: the order *)
(* and the keys 0, 1, ... they come under matter to the visualization only *)
(* (Visualization).                                                        *)
(***************************************************************************)
EXTENDS Naturals, Sequences, FiniteSets, SequencesExt

CONSTANTS
  Conns,      \* the connections
  Leaving,    \* those whose client may close it
  Patient,    \* those whose client waits for the answer before it goes on
  Vars,       \* the names of the logged variables, one table each
  Kinds,      \* the kinds of request each client may send
  MaxReq,     \* requests a client sends
  OutCap,     \* answers a connection buffers
  Nobody      \* the owner of db_lock when it is free

AllKinds == {"PUT", "BARE", "GET", "RANGE", "TRUNCATE", "BAD"}

ASSUME StationAssumption ==
  /\ Patient \subseteq Conns /\ Leaving \subseteq Conns
  /\ Nobody \notin Conns
  /\ Kinds \in [Conns -> SUBSET AllKinds]
  /\ MaxReq \in Nat
  /\ OutCap \in Nat \ {0}

VARIABLES
  sent,     \* requests each client has sent
  waiting,  \* a patient client has not got its answer yet
  closed,   \* the client has closed the connection
  known,    \* records acknowledged when the client sent its last search
  inq,      \* requests on their way to the handler
  outq,     \* answers the client has not read
  hpc,      \* where the handler of a connection is
  job,      \* the request it handles
  ans,      \* the answer it has prepared
  snap,     \* the copy of the file each handler works on
  holder,   \* the owner of db_lock
  db,       \* the file: a table per variable
  acked     \* records answered with OK

client  == <<sent, waiting, closed, known>>
station == <<snap, holder, db, acked>>
vars    == <<client, inq, outq, hpc, job, ans, station>>

(* BARE is a PUT that lacks the timestamp, BAD anything that is not a       *)
(* dictionary or names no known request.                                    *)
Requests ==
  [kind : AllKinds, var : Vars, n : 1 .. MaxReq, lo : 0 .. MaxReq, hi : 0 .. MaxReq]

Records == [by : Conns, n : 1 .. MaxReq, stamped : BOOLEAN]

RecordOf(c) == [by |-> c, n |-> job[c].n, stamped |-> job[c].kind = "PUT"]

NoFile == [v \in Vars |-> <<>>]

Stored == UNION {ToSet(db[v]) : v \in Vars}

Plain(type) == [type |-> type, recs |-> {}]

(* Mutant: the upper bound is excluded. *)
Between_Open(table, lo, hi) ==
  {r \in ToSet(table) : lo <= r.n /\ r.n < hi}

Between(table, lo, hi) ==
  {r \in ToSet(table) : lo <= r.n /\ r.n <= hi}

(* Without a time_to the last record inserted gives the upper bound; an     *)
(* empty table then raises IndexError, a record that lacks its timestamp    *)
(* raises KeyError.                                                         *)
Lookup(table, q) ==
  IF (table = <<>> /\ q.kind = "GET") \/ \E r \in ToSet(table) : ~r.stamped
  THEN Plain("Error")
  ELSE LET hi == IF q.kind = "GET" THEN Last(table).n ELSE q.hi
       IN [type |-> "Data", recs |-> Between(table, q.lo, hi)]

-----------------------------------------------------------------------------
Init ==
  /\ sent = [c \in Conns |-> 0]
  /\ waiting = [c \in Conns |-> FALSE]
  /\ closed = [c \in Conns |-> FALSE]
  /\ known = [c \in Conns |-> {}]
  /\ inq = [c \in Conns |-> <<>>]
  /\ outq = [c \in Conns |-> <<>>]
  /\ hpc = [c \in Conns |-> "recv"]
  /\ job = [c \in Conns |-> <<>>]
  /\ ans = [c \in Conns |-> <<>>]
  /\ snap = [c \in Conns |-> NoFile]
  /\ holder = Nobody
  /\ db = NoFile
  /\ acked = {}

(* The clients *)

(* Mutant: no client waits for its answer. *)
Send_Impatient(c) ==
  /\ ~closed[c]
  /\ sent[c] < MaxReq
  /\ \E kind \in Kinds[c], v \in Vars :
       inq' = [inq EXCEPT ![c] =
                 Append(@, [kind |-> kind, var |-> v, n |-> sent[c] + 1,
                            lo |-> 0, hi |-> 0])]
  /\ sent' = [sent EXCEPT ![c] = @ + 1]
  /\ UNCHANGED <<waiting, closed, known, outq, hpc, job, ans, station>>

Send(c) ==
  /\ ~closed[c]
  /\ sent[c] < MaxReq
  /\ ~waiting[c]
  /\ \E kind \in Kinds[c], v \in Vars, lo \in 0 .. MaxReq, hi \in 0 .. MaxReq :
       /\ kind # "RANGE" => lo = 0 /\ hi = 0
       /\ inq' = [inq EXCEPT ![c] =
                    Append(@, [kind |-> kind, var |-> v, n |-> sent[c] + 1,
                               lo |-> lo, hi |-> hi])]
       /\ known' = [known EXCEPT ![c] = IF kind = "RANGE" THEN acked ELSE {}]
  /\ sent' = [sent EXCEPT ![c] = @ + 1]
  /\ waiting' = [waiting EXCEPT ![c] = c \in Patient]
  /\ UNCHANGED <<closed, outq, hpc, job, ans, station>>

(* A patient client reads all that has come with one recv. *)
Read(c) ==
  /\ c \in Patient
  /\ ~closed[c]
  /\ outq[c] # <<>>
  /\ outq' = [outq EXCEPT ![c] = <<>>]
  /\ waiting' = [waiting EXCEPT ![c] = FALSE]
  /\ UNCHANGED <<sent, closed, known, inq, hpc, job, ans, station>>

Close(c) ==
  /\ c \in Leaving
  /\ ~closed[c]
  /\ closed' = [closed EXCEPT ![c] = TRUE]
  /\ UNCHANGED <<sent, waiting, known, inq, outq, hpc, job, ans, station>>

-----------------------------------------------------------------------------
(* The handlers *)

(* recv takes k requests at once; two or more do not evaluate as one        *)
(* dictionary, and neither does a request that is not one.                  *)
Recv(c) ==
  /\ hpc[c] = "recv"
  /\ \E k \in 1 .. Len(inq[c]) :
       /\ inq' = [inq EXCEPT ![c] = SubSeq(@, k + 1, Len(@))]
       /\ job' = [job EXCEPT ![c] = Head(inq[c])]
       /\ \/ /\ k = 1 /\ Head(inq[c]).kind # "BAD"
             /\ hpc' = [hpc EXCEPT ![c] = "lock"]
             /\ UNCHANGED ans
          \/ /\ k > 1 \/ Head(inq[c]).kind = "BAD"
             /\ hpc' = [hpc EXCEPT ![c] = "reply"]
             /\ ans' = [ans EXCEPT ![c] = Plain("Error")]
  /\ UNCHANGED <<client, outq, station>>

(* Mutant: the empty string is taken for a repetition of the last request. *)
RecvClosed_Repeats(c) ==
  /\ hpc[c] = "recv"
  /\ closed[c]
  /\ inq[c] = <<>>
  /\ hpc' = [hpc EXCEPT ![c] = "lock"]
  /\ UNCHANGED <<client, inq, outq, job, ans, station>>

(* The empty string recv returns on a closed connection is a bad request *)
(* like another: data[0] raises IndexError.                              *)
RecvClosed(c) ==
  /\ hpc[c] = "recv"
  /\ closed[c]
  /\ inq[c] = <<>>
  /\ hpc' = [hpc EXCEPT ![c] = "reply"]
  /\ ans' = [ans EXCEPT ![c] = Plain("Error")]
  /\ UNCHANGED <<client, inq, outq, job, station>>

(* Mutant: log_into_db does not take db_lock. *)
Lock_Forgotten(c) ==
  /\ hpc[c] = "lock"
  /\ holder' = c
  /\ snap' = [snap EXCEPT ![c] = db]
  /\ hpc' = [hpc EXCEPT ![c] = "db"]
  /\ UNCHANGED <<client, inq, outq, job, ans, db, acked>>

(* with db_lock: the file is read ... *)
Lock(c) ==
  /\ hpc[c] = "lock"
  /\ holder = Nobody
  /\ holder' = c
  /\ snap' = [snap EXCEPT ![c] = db]
  /\ hpc' = [hpc EXCEPT ![c] = "db"]
  /\ UNCHANGED <<client, inq, outq, job, ans, db, acked>>

(* Mutant: acquire and release in place of "with": an exception in a search *)
(* leaves db_lock taken.                                                    *)
Unlock_Leaks(c) ==
  /\ hpc[c] = "db"
  /\ \/ /\ job[c].kind \in {"PUT", "BARE"}
        /\ db' = [snap[c] EXCEPT ![job[c].var] = Append(@, RecordOf(c))]
        /\ ans' = [ans EXCEPT ![c] = Plain("OK")]
     \/ /\ job[c].kind \in {"GET", "RANGE"}
        /\ ans' = [ans EXCEPT ![c] = Lookup(snap[c][job[c].var], job[c])]
        /\ UNCHANGED db
     \/ /\ job[c].kind = "TRUNCATE"
        /\ db' = snap[c]
        /\ ans' = [ans EXCEPT ![c] = Plain("Deleted")]
  /\ holder' = IF ans'[c].type = "Error" THEN c ELSE Nobody
  /\ snap' = [snap EXCEPT ![c] = NoFile]
  /\ hpc' = [hpc EXCEPT ![c] = "reply"]
  /\ UNCHANGED <<client, inq, outq, job, acked>>

(* ... and written back with the record, or searched.  db.truncate() drops  *)
(* the default table only, which no variable uses.                          *)
Unlock(c) ==
  /\ hpc[c] = "db"
  /\ \/ /\ job[c].kind \in {"PUT", "BARE"}
        /\ db' = [snap[c] EXCEPT ![job[c].var] = Append(@, RecordOf(c))]
        /\ ans' = [ans EXCEPT ![c] = Plain("OK")]
     \/ /\ job[c].kind \in {"GET", "RANGE"}
        /\ ans' = [ans EXCEPT ![c] = Lookup(snap[c][job[c].var], job[c])]
        /\ UNCHANGED db
     \/ /\ job[c].kind = "TRUNCATE"
        /\ db' = snap[c]
        /\ ans' = [ans EXCEPT ![c] = Plain("Deleted")]
  /\ holder' = Nobody
  /\ snap' = [snap EXCEPT ![c] = NoFile]
  /\ hpc' = [hpc EXCEPT ![c] = "reply"]
  /\ UNCHANGED <<client, inq, outq, job, acked>>

(* sendall waits while the client reads nothing. *)
Reply(c) ==
  /\ hpc[c] = "reply"
  /\ ~closed[c]
  /\ Len(outq[c]) < OutCap
  /\ outq' = [outq EXCEPT ![c] = Append(@, ans[c])]
  /\ acked' = IF ans[c].type = "OK" THEN acked \cup {RecordOf(c)} ELSE acked
  /\ hpc' = [hpc EXCEPT ![c] = "recv"]
  /\ ans' = [ans EXCEPT ![c] = <<>>]
  /\ UNCHANGED <<client, inq, job, snap, holder, db>>

(* To a client that has closed it may succeed once more, or it raises in  *)
(* the finally clause and the handler ends.                               *)
ReplyClosed(c) ==
  /\ hpc[c] = "reply"
  /\ closed[c]
  /\ hpc' \in {[hpc EXCEPT ![c] = "recv"], [hpc EXCEPT ![c] = "ended"]}
  /\ UNCHANGED <<client, inq, outq, job, ans, station>>

Handler(c) ==
  \/ Recv(c) \/ RecvClosed(c) \/ Lock(c) \/ Unlock(c) \/ Reply(c) \/ ReplyClosed(c)

(* The clients may be silent, or gone, while no handler wants the database. *)
Rest == (\A c \in Conns : hpc[c] \notin {"lock", "db"}) /\ UNCHANGED vars

Next == Rest \/ \E c \in Conns : Send(c) \/ Read(c) \/ Close(c) \/ Handler(c)

Spec == Init /\ [][Next]_vars

(* The handlers are threads of one process; a thread that waits for db_lock *)
(* contends with finitely many requests, so that weak fairness is enough.   *)
FairSpec == Spec /\ \A c \in Conns : WF_vars(Handler(c))

-----------------------------------------------------------------------------
(* Properties *)

Answers == {"OK", "Error", "Deleted", "Data"}

TypeOK ==
  /\ sent \in [Conns -> 0 .. MaxReq]
  /\ waiting \in [Conns -> BOOLEAN] /\ closed \in [Conns -> BOOLEAN]
  /\ known \in [Conns -> SUBSET Records]
  /\ inq \in [Conns -> Seq(Requests)]
  /\ hpc \in [Conns -> {"recv", "lock", "db", "reply", "ended"}]
  /\ job \in [Conns -> Requests \cup {<<>>}]
  /\ ans = [c \in Conns |-> ans[c]]
  /\ \A c \in Conns :
       /\ hpc[c] \in {"lock", "db"} => job[c] \in Requests
       /\ hpc[c] = "reply" =>
            /\ ans[c].type \in Answers
            /\ ans[c].type = "OK" => job[c] \in Requests
  /\ snap \in [Conns -> [Vars -> Seq(Records)]] /\ db \in [Vars -> Seq(Records)]
  /\ holder \in Conns \cup {Nobody}
  /\ acked \subseteq Records

(* A client that waits for every answer gets, for each request, the answer  *)
(* to that request: never one left over from an earlier request, and never  *)
(* an error for a complete PUT (the README's "OK", readme.md:41-42 of the   *)
(* station's protocol).                                                     *)
PatientAnswered ==
  \A c \in Patient : ~closed[c] =>
    /\ Len(outq[c]) <= 1
    /\ outq[c] # <<>> =>
         /\ hpc[c] # "reply"
         /\ job[c].n = sent[c]
         /\ job[c].kind = "PUT" => Head(outq[c]).type = "OK"

(* A search misses no record that had been acknowledged before it was asked *)
(* for, among those between its bounds.                                     *)
SearchIsComplete ==
  \A c \in Patient :
    (~closed[c] /\ outq[c] # <<>> /\ Head(outq[c]).type = "Data" /\ job[c].kind = "RANGE") =>
      \A r \in known[c] :
        (r \in ToSet(db[job[c].var]) /\ job[c].lo <= r.n /\ r.n <= job[c].hi) =>
          r \in Head(outq[c]).recs

(* A patient client's request is answered although another client never     *)
(* reads its answers and its handler is stuck in sendall (main.py:110-111   *)
(* replies after db_lock is released).                                      *)
PatientServed ==
  \A c \in Patient : waiting[c] ~> (outq[c] # <<>> \/ closed[c])

(* What the station's readme says and the code does not do. *)

(* readme.md:42 answers "OK" to a correct request: no complete PUT of a     *)
(* client that is still there is refused (main.py:48-58 refuses those that  *)
(* one recv returns together).                                              *)
CompletePutIsOK ==
  \A c \in Conns :
    (hpc[c] = "reply" /\ ~closed[c] /\ job[c].kind = "PUT") => ans[c].type = "OK"

(* readme.md:61 answers a correct search with json: no search between two   *)
(* bounds is refused (main.py:31 raises on a record without its timestamp,  *)
(* which main.py:64-69 has let in although readme.md:32-35 requires it).     *)
RangeGivesData ==
  \A c \in Conns :
    (hpc[c] = "reply" /\ ~closed[c] /\ job[c].kind = "RANGE") => ans[c].type = "Data"

(* Every table only grows and an acknowledged record stays in its table. *)
LS == INSTANCE LogStore WITH store <- db
StoreSpec == LS!Spec
=============================================================================
