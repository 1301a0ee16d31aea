------------------------ MODULE LoggingStationProofs ------------------------
(* Theorems about LoggingStation, for every set of connections, of requests *)
(* and every bound.                                                         *)
EXTENDS LoggingStation, SequenceTheorems, TLAPS

(* Taking the first requests off a queue. *)
LEMMA Rest0 ==
  ASSUME NEW S, NEW s \in Seq(S), NEW k \in 1 .. Len(s)
  PROVE  /\ SubSeq(s, k + 1, Len(s)) \in Seq(S)
         /\ Len(SubSeq(s, k + 1, Len(s))) = Len(s) - k
         /\ \A i \in 1 .. Len(s) - k :
              SubSeq(s, k + 1, Len(s))[i] = s[k + i]
         /\ Head(s) = s[1]
  OBVIOUS

LEMMA Appended ==
  ASSUME NEW S, NEW s \in Seq(S), NEW x \in S
  PROVE  /\ Append(s, x) \in Seq(S)
         /\ Len(Append(s, x)) = Len(s) + 1
         /\ Append(s, x)[Len(s) + 1] = x
         /\ \A i \in 1 .. Len(s) : Append(s, x)[i] = s[i]
  OBVIOUS

LEMMA NumberType == \A q \in Requests : q.n \in Nat
  BY StationAssumption DEF Requests

LEMMA NumbersType ==
  ASSUME NEW s \in Seq(Requests)
  PROVE  \A i \in 1 .. Len(s) : s[i].n \in Nat
<1>1. \A i \in 1 .. Len(s) : s[i] \in Requests
  OBVIOUS
<1> QED BY <1>1, NumberType

LEMMA LookupType ==
  ASSUME NEW table, NEW q
  PROVE  Lookup(table, q).type \in {"Error", "Data"}
  BY DEF Lookup, Plain

(* A handler at the database prepares one answer: OK for a PUT only. *)
LEMMA Prepared ==
  ASSUME NEW c \in Conns, Unlock(c)
  PROVE  \E a : /\ ans' = [ans EXCEPT ![c] = a]
                /\ a.type \in Answers
                /\ job[c].kind \notin {"PUT", "BARE"} => a.type # "OK"
<1>0. Plain("OK").type = "OK" /\ Plain("Deleted").type = "Deleted"
  BY DEF Plain
<1>1. CASE job[c].kind \in {"PUT", "BARE"} /\ ans' = [ans EXCEPT ![c] = Plain("OK")]
  BY <1>0, <1>1 DEF Answers
<1>2. CASE ans' = [ans EXCEPT ![c] = Plain("Deleted")]
  BY <1>0, <1>2 DEF Answers
<1>3. CASE ans' = [ans EXCEPT ![c] = Lookup(snap[c][job[c].var], job[c])]
  <2>1. Lookup(snap[c][job[c].var], job[c]).type \in {"Error", "Data"}
    BY LookupType
  <2> QED BY <1>3, <2>1 DEF Answers
<1> QED BY <1>1, <1>2, <1>3 DEF Unlock

LEMMA RecordType ==
  ASSUME NEW c \in Conns, job[c] \in Requests
  PROVE  RecordOf(c) \in Records /\ RecordOf(c).by = c /\ RecordOf(c).n = job[c].n
  BY DEF RecordOf, Requests, Records

(* A client sends one well-formed request, numbered after the last one. *)
LEMMA SentRequest ==
  ASSUME TypeOK, NEW c \in Conns, Send(c)
  PROVE  \E q \in Requests :
           q.n = sent[c] + 1 /\ inq' = [inq EXCEPT ![c] = Append(inq[c], q)]
<1>1. PICK kind \in Kinds[c], v \in Vars, lo \in 0 .. MaxReq, hi \in 0 .. MaxReq :
        inq' = [inq EXCEPT ![c] =
                  Append(@, [kind |-> kind, var |-> v, n |-> sent[c] + 1,
                             lo |-> lo, hi |-> hi])]
  BY DEF Send
<1>2. kind \in AllKinds
  BY StationAssumption
<1>3. sent[c] + 1 \in 1 .. MaxReq
  BY StationAssumption DEF Send, TypeOK
<1> DEFINE q == [kind |-> kind, var |-> v, n |-> sent[c] + 1, lo |-> lo, hi |-> hi]
<1>4. q \in Requests /\ q.n = sent[c] + 1
  BY <1>2, <1>3 DEF Requests
<1>5. inq' = [inq EXCEPT ![c] = Append(inq[c], q)]
  BY <1>1
<1> QED BY <1>4, <1>5

-----------------------------------------------------------------------------
(* The variables keep their types. *)

(* Every reachable state of the station is well typed: a handler that holds *)
(* or awaits the database works on a request, never on an empty read.       *)
THEOREM TypeCorrect == Spec => []TypeOK
<1>1. Init => TypeOK
  BY StationAssumption DEF Init, TypeOK, NoFile
<1>2. TypeOK /\ [Next]_vars => TypeOK'
  <2> SUFFICES ASSUME TypeOK, [Next]_vars PROVE TypeOK'
    OBVIOUS
  <2> USE StationAssumption
  <2>1. ASSUME NEW c \in Conns, Send(c) PROVE TypeOK'
    <3>5. inq' \in [Conns -> Seq(Requests)]
      <4>1. PICK q \in Requests : inq' = [inq EXCEPT ![c] = Append(inq[c], q)]
        BY <2>1, SentRequest
      <4>2. Append(inq[c], q) \in Seq(Requests)
        BY Appended DEF TypeOK
      <4> QED BY <4>1, <4>2 DEF TypeOK
    <3>6. known' \in [Conns -> SUBSET Records]
      BY <2>1 DEF Send, TypeOK
    <3>7. sent' \in [Conns -> 0 .. MaxReq] /\ waiting' \in [Conns -> BOOLEAN]
      BY <2>1 DEF Send, TypeOK
    <3> QED BY <2>1, <3>5, <3>6, <3>7 DEF Send, TypeOK, station
  <2>2. ASSUME NEW c \in Conns, Read(c) PROVE TypeOK'
    BY <2>2 DEF Read, TypeOK, station
  <2>3. ASSUME NEW c \in Conns, Close(c) PROVE TypeOK'
    BY <2>3 DEF Close, TypeOK, station
  <2>4. ASSUME NEW c \in Conns, Recv(c) PROVE TypeOK'
    <3>1. PICK k \in 1 .. Len(inq[c]) :
            /\ inq' = [inq EXCEPT ![c] = SubSeq(@, k + 1, Len(@))]
            /\ job' = [job EXCEPT ![c] = Head(inq[c])]
            /\ \/ /\ hpc' = [hpc EXCEPT ![c] = "lock"]
                  /\ UNCHANGED ans
               \/ /\ hpc' = [hpc EXCEPT ![c] = "reply"]
                  /\ ans' = [ans EXCEPT ![c] = Plain("Error")]
      BY <2>4 DEF Recv
    <3>2. inq[c] \in Seq(Requests)
      BY DEF TypeOK
    <3>3. inq' \in [Conns -> Seq(Requests)]
      BY <3>1, <3>2, Rest0 DEF TypeOK
    <3>4. Head(inq[c]) \in Requests
      BY <3>1, <3>2
    <3>5. job' \in [Conns -> Requests \cup {<<>>}] /\ job'[c] \in Requests
      BY <3>1, <3>4 DEF TypeOK
    <3>6. \A d \in Conns \ {c} : hpc'[d] = hpc[d] /\ job'[d] = job[d] /\ ans'[d] = ans[d]
      BY <3>1 DEF TypeOK
    <3>7. hpc'[c] = "reply" => ans'[c].type \in Answers
      BY <3>1 DEF TypeOK, Plain, Answers
    <3>8. \A d \in Conns :
            /\ hpc'[d] \in {"lock", "db"} => job'[d] \in Requests
            /\ hpc'[d] = "reply" =>
                 /\ ans'[d].type \in Answers
                 /\ ans'[d].type = "OK" => job'[d] \in Requests
      BY <3>5, <3>6, <3>7 DEF TypeOK
    <3>9. hpc' \in [Conns -> {"recv", "lock", "db", "reply", "ended"}]
      BY <3>1 DEF TypeOK
    <3>10. ans' = [d \in Conns |-> ans'[d]]
      BY <3>1 DEF TypeOK
    <3> QED BY <2>4, <3>3, <3>5, <3>8, <3>9, <3>10 DEF Recv, TypeOK, client, station
  <2>5. ASSUME NEW c \in Conns, RecvClosed(c) PROVE TypeOK'
    BY <2>5 DEF RecvClosed, TypeOK, client, station, Plain, Answers
  <2>6. ASSUME NEW c \in Conns, Lock(c) PROVE TypeOK'
    BY <2>6 DEF Lock, TypeOK, client
  <2>7. ASSUME NEW c \in Conns, Unlock(c) PROVE TypeOK'
    <3>1. job[c] \in Requests /\ snap[c] \in [Vars -> Seq(Records)]
      BY <2>7 DEF Unlock, TypeOK
    <3>2. job[c].var \in Vars /\ RecordOf(c) \in Records
      BY <3>1, RecordType DEF Requests
    <3>3. db' \in [Vars -> Seq(Records)]
      <4>1. CASE db' = [snap[c] EXCEPT ![job[c].var] = Append(@, RecordOf(c))]
        BY <4>1, <3>1, <3>2
      <4>2. CASE db' \in {db, snap[c]}
        BY <4>2, <3>1 DEF TypeOK
      <4> QED BY <2>7, <4>1, <4>2 DEF Unlock
    <3>4. hpc'[c] = "reply" /\ \A d \in Conns \ {c} : hpc'[d] = hpc[d]
      BY <2>7 DEF Unlock, TypeOK
    <3>5. PICK a : ans' = [ans EXCEPT ![c] = a] /\ a.type \in Answers
      BY <2>7, Prepared
    <3>6. \A d \in Conns : hpc'[d] = "reply" => ans'[d].type \in Answers
      BY <3>4, <3>5 DEF TypeOK
    <3>7. snap' \in [Conns -> [Vars -> Seq(Records)]]
      BY <2>7 DEF Unlock, TypeOK, NoFile
    <3> QED BY <2>7, <3>3, <3>4, <3>6, <3>7 DEF Unlock, TypeOK, client
  <2>8. ASSUME NEW c \in Conns, Reply(c) PROVE TypeOK'
    <3>1. ans[c].type = "OK" => RecordOf(c) \in Records
      BY <2>8, RecordType DEF Reply, TypeOK
    <3>2. acked' \subseteq Records
      BY <2>8, <3>1 DEF Reply, TypeOK
    <3> QED BY <2>8, <3>2 DEF Reply, TypeOK, client
  <2>9. ASSUME NEW c \in Conns, ReplyClosed(c) PROVE TypeOK'
    BY <2>9 DEF ReplyClosed, TypeOK, client, station
  <2>10. CASE UNCHANGED vars
    BY <2>10 DEF vars, client, station, TypeOK
  <2> QED BY <2>1, <2>2, <2>3, <2>4, <2>5, <2>6, <2>7, <2>8, <2>9, <2>10
        DEF Next, Handler, Rest
<1> QED BY <1>1, <1>2, PTL DEF Spec

-----------------------------------------------------------------------------
(* The lock, and the numbers of the requests. *)

(* The copy a handler works on is the file itself, as nobody else writes it. *)
Owned == \A c \in Conns : hpc[c] = "db" => holder = c /\ snap[c] = db

Numbered ==
  \A c \in Conns :
    /\ \A i \in 1 .. Len(inq[c]) : inq[c][i].n <= sent[c]
    /\ \A i, j \in 1 .. Len(inq[c]) : i < j => inq[c][i].n < inq[c][j].n
    /\ hpc[c] \in {"lock", "db"} =>
         \A i \in 1 .. Len(inq[c]) : job[c].n < inq[c][i].n
    /\ hpc[c] \in {"lock", "db"} => job[c].n <= sent[c]

(* A stored record is older than every request still to be handled. *)
Older(r) ==
  /\ r.n <= sent[r.by]
  /\ \A i \in 1 .. Len(inq[r.by]) : r.n < inq[r.by][i].n
  /\ hpc[r.by] \in {"lock", "db"} => r.n < job[r.by].n

Ordered == \A v \in Vars : \A i \in 1 .. Len(db[v]) : Older(db[v][i])

(* An OK that is about to be sent is about a stored record. *)
Backed ==
  \A c \in Conns : (hpc[c] = "reply" /\ ans[c].type = "OK") => RecordOf(c) \in Stored

IInv == TypeOK /\ Owned /\ Numbered /\ Ordered /\ Backed

LEMMA InStored ==
  ASSUME TypeOK
  PROVE  Stored = {r \in Records : \E v \in Vars : \E i \in 1 .. Len(db[v]) : r = db[v][i]}
<1>1. \A v \in Vars : db[v] \in Seq(Records)
  BY DEF TypeOK
<1>2. \A v \in Vars : ToSet(db[v]) = {r \in Records : \E i \in 1 .. Len(db[v]) : r = db[v][i]}
  BY <1>1 DEF ToSet
<1> QED BY <1>2 DEF Stored

LEMMA OwnedInductive == TypeOK /\ Owned /\ [Next]_vars => Owned'
<1> SUFFICES ASSUME TypeOK, Owned, [Next]_vars PROVE Owned'
  OBVIOUS
<1>1. ASSUME NEW c \in Conns, Send(c) \/ Read(c) \/ Close(c) PROVE Owned'
  BY <1>1 DEF Send, Read, Close, Owned, station
<1>2. ASSUME NEW c \in Conns, Recv(c) PROVE Owned'
  <2>1. hpc'[c] # "db" /\ \A d \in Conns \ {c} : hpc'[d] = hpc[d]
    BY <1>2 DEF Recv, TypeOK
  <2> QED BY <1>2, <2>1 DEF Recv, Owned, station
<1>3. ASSUME NEW c \in Conns, RecvClosed(c) \/ ReplyClosed(c) PROVE Owned'
  BY <1>3 DEF RecvClosed, ReplyClosed, Owned, TypeOK, station
<1>4. ASSUME NEW c \in Conns, Lock(c) PROVE Owned'
  <2>1. \A d \in Conns \ {c} : hpc'[d] = hpc[d] /\ hpc[d] # "db"
    BY <1>4, StationAssumption DEF Lock, Owned, TypeOK
  <2>2. holder' = c /\ snap'[c] = db /\ db' = db
    BY <1>4 DEF Lock, TypeOK
  <2> QED BY <2>1, <2>2 DEF Owned
<1>5. ASSUME NEW c \in Conns, Unlock(c) PROVE Owned'
  <2>1. \A d \in Conns : hpc'[d] # "db"
    BY <1>5 DEF Unlock, Owned, TypeOK
  <2> QED BY <2>1 DEF Owned
<1>6. ASSUME NEW c \in Conns, Reply(c) PROVE Owned'
  BY <1>6 DEF Reply, Owned, TypeOK
<1>7. CASE UNCHANGED vars
  BY <1>7 DEF vars, station, Owned
<1> QED BY <1>1, <1>2, <1>3, <1>4, <1>5, <1>6, <1>7 DEF Next, Handler, Rest

(* Nothing but Recv and Send touches a queue, and they keep it in order. *)
LEMMA NumberedInductive == TypeOK /\ Numbered /\ [Next]_vars => Numbered'
<1> SUFFICES ASSUME TypeOK, Numbered, [Next]_vars PROVE Numbered'
  OBVIOUS
<1>1. ASSUME NEW c \in Conns, Send(c) PROVE Numbered'
  <2>1. PICK q \in Requests :
          q.n = sent[c] + 1 /\ inq' = [inq EXCEPT ![c] = Append(inq[c], q)]
    BY <1>1, SentRequest
  <2>2. sent' = [sent EXCEPT ![c] = @ + 1] /\ UNCHANGED <<hpc, job>>
    BY <1>1 DEF Send
  <2>3. inq[c] \in Seq(Requests) /\ sent[c] \in Nat
    BY DEF TypeOK
  <2>4. /\ inq'[c] = Append(inq[c], q) /\ sent'[c] = sent[c] + 1
        /\ \A d \in Conns \ {c} : inq'[d] = inq[d] /\ sent'[d] = sent[d]
    BY <2>1, <2>2 DEF TypeOK
  <2>5. /\ Len(inq'[c]) = Len(inq[c]) + 1 /\ inq'[c][Len(inq[c]) + 1] = q
        /\ \A i \in 1 .. Len(inq[c]) : inq'[c][i] = inq[c][i] /\ inq[c][i].n \in Nat
    BY <2>3, <2>4, Appended, NumbersType
  <2>6. hpc[c] \in {"lock", "db"} => job[c].n \in Nat
    BY DEF TypeOK, Requests
  <2>7. ASSUME NEW d \in Conns
        PROVE  /\ \A i \in 1 .. Len(inq'[d]) : inq'[d][i].n <= sent'[d]
               /\ \A i, j \in 1 .. Len(inq'[d]) : i < j => inq'[d][i].n < inq'[d][j].n
               /\ hpc'[d] \in {"lock", "db"} =>
                    \A i \in 1 .. Len(inq'[d]) : job'[d].n < inq'[d][i].n
               /\ hpc'[d] \in {"lock", "db"} => job'[d].n <= sent'[d]
    <3>1. CASE d # c
      BY <2>2, <2>4, <3>1 DEF Numbered
    <3>2. CASE d = c
      <4>1. \A i \in 1 .. Len(inq[c]) + 1 :
              i \in 1 .. Len(inq[c]) \/ i = Len(inq[c]) + 1
        BY <2>3
      <4>2. \A i \in 1 .. Len(inq[c]) : inq[c][i].n <= sent[c]
        BY DEF Numbered
      <4>3. \A i \in 1 .. Len(inq'[c]) : inq'[c][i].n <= sent'[c]
        BY <2>1, <2>3, <2>4, <2>5, <4>1, <4>2
      <4>4. \A i, j \in 1 .. Len(inq[c]) : i < j => inq[c][i].n < inq[c][j].n
        BY DEF Numbered
      <4>5. \A i, j \in 1 .. Len(inq'[c]) : i < j => inq'[c][i].n < inq'[c][j].n
        BY <2>1, <2>3, <2>4, <2>5, <4>1, <4>2, <4>4
      <4>6. hpc'[c] \in {"lock", "db"} =>
              /\ \A i \in 1 .. Len(inq'[c]) : job'[c].n < inq'[c][i].n
              /\ job'[c].n <= sent'[c]
        <5>1. hpc[c] \in {"lock", "db"} =>
                /\ \A i \in 1 .. Len(inq[c]) : job[c].n < inq[c][i].n
                /\ job[c].n <= sent[c]
          BY DEF Numbered
        <5> QED BY <2>1, <2>2, <2>3, <2>4, <2>5, <2>6, <4>1, <5>1
      <4> QED BY <3>2, <4>3, <4>5, <4>6
    <3> QED BY <3>1, <3>2
  <2> QED BY <2>7 DEF Numbered
<1>2. ASSUME NEW c \in Conns, Recv(c) PROVE Numbered'
  <2>1. PICK k \in 1 .. Len(inq[c]) :
          /\ inq' = [inq EXCEPT ![c] = SubSeq(@, k + 1, Len(@))]
          /\ job' = [job EXCEPT ![c] = Head(inq[c])]
    BY <1>2 DEF Recv
  <2>2. inq[c] \in Seq(Requests) /\ sent[c] \in Nat
    BY DEF TypeOK
  <2>3. /\ Len(inq'[c]) = Len(inq[c]) - k
        /\ \A i \in 1 .. Len(inq[c]) - k : inq'[c][i] = inq[c][k + i]
        /\ job'[c] = inq[c][1]
        /\ \A d \in Conns \ {c} : inq'[d] = inq[d] /\ job'[d] = job[d]
    <3>1. /\ inq'[c] = SubSeq(inq[c], k + 1, Len(inq[c])) /\ job'[c] = Head(inq[c])
          /\ \A d \in Conns \ {c} : inq'[d] = inq[d] /\ job'[d] = job[d]
      BY <2>1 DEF TypeOK
    <3> QED BY <2>2, <3>1, Rest0
  <2>4. sent' = sent /\ \A d \in Conns \ {c} : hpc'[d] = hpc[d]
    BY <1>2 DEF Recv, client, TypeOK
  <2>5. \A i \in 1 .. Len(inq[c]) : inq[c][i].n \in Nat
    BY <2>2, NumbersType
  <2>6. ASSUME NEW d \in Conns
        PROVE  /\ \A i \in 1 .. Len(inq'[d]) : inq'[d][i].n <= sent'[d]
               /\ \A i, j \in 1 .. Len(inq'[d]) : i < j => inq'[d][i].n < inq'[d][j].n
               /\ hpc'[d] \in {"lock", "db"} =>
                    \A i \in 1 .. Len(inq'[d]) : job'[d].n < inq'[d][i].n
               /\ hpc'[d] \in {"lock", "db"} => job'[d].n <= sent'[d]
    <3>1. CASE d # c
      BY <2>3, <2>4, <3>1 DEF Numbered
    <3>2. CASE d = c
      <4>1. /\ \A i \in 1 .. Len(inq[c]) : inq[c][i].n <= sent[c]
            /\ \A i, j \in 1 .. Len(inq[c]) : i < j => inq[c][i].n < inq[c][j].n
        BY DEF Numbered
      <4>2. /\ Len(inq[c]) \in Nat /\ k >= 1 /\ k <= Len(inq[c])
            /\ 1 \in 1 .. Len(inq[c])
            /\ \A i \in 1 .. Len(inq[c]) - k : k + i \in 1 .. Len(inq[c]) /\ 1 < k + i
        BY <2>2
      <4>3. \A i \in 1 .. Len(inq'[c]) : inq'[c][i].n <= sent'[c]
        BY <2>3, <2>4, <4>1, <4>2
      <4>4. \A i, j \in 1 .. Len(inq'[c]) : i < j => inq'[c][i].n < inq'[c][j].n
        <5> SUFFICES ASSUME NEW i \in 1 .. Len(inq'[c]), NEW j \in 1 .. Len(inq'[c]), i < j
                     PROVE  inq'[c][i].n < inq'[c][j].n
          OBVIOUS
        <5>1. k + i < k + j /\ k + i \in 1 .. Len(inq[c]) /\ k + j \in 1 .. Len(inq[c])
          BY <2>3, <4>2
        <5>2. inq'[c][i] = inq[c][k + i] /\ inq'[c][j] = inq[c][k + j]
          BY <2>3, <4>2
        <5> QED BY <4>1, <5>1, <5>2
      <4>5. job'[c].n <= sent'[c] /\ \A i \in 1 .. Len(inq'[c]) : job'[c].n < inq'[c][i].n
        BY <2>3, <2>4, <4>1, <4>2
      <4> QED BY <3>2, <4>3, <4>4, <4>5
    <3> QED BY <3>1, <3>2
  <2> QED BY <2>6 DEF Numbered
<1>3. ASSUME NEW c \in Conns,
             Read(c) \/ Close(c) \/ RecvClosed(c) \/ Lock(c) \/ Unlock(c) \/ Reply(c)
               \/ ReplyClosed(c)
      PROVE  Numbered'
  <2>1. UNCHANGED <<sent, inq, job>>
    BY <1>3 DEF Read, Close, RecvClosed, Lock, Unlock, Reply, ReplyClosed, client
  <2>2. \A d \in Conns : hpc'[d] \in {"lock", "db"} => hpc[d] \in {"lock", "db"}
    <3>1. \/ UNCHANGED hpc
          \/ hpc[c] \in {"lock", "db"} /\ hpc' \in {[hpc EXCEPT ![c] = "db"], [hpc EXCEPT ![c] = "reply"]}
          \/ hpc' \in {[hpc EXCEPT ![c] = x] : x \in {"recv", "reply", "ended"}}
      BY <1>3 DEF Read, Close, RecvClosed, Lock, Unlock, Reply, ReplyClosed
    <3> QED BY <3>1 DEF TypeOK
  <2> QED BY <2>1, <2>2 DEF Numbered
<1>4. CASE UNCHANGED vars
  BY <1>4 DEF vars, client, Numbered
<1> QED BY <1>1, <1>2, <1>3, <1>4 DEF Next, Handler, Rest

(* Only Unlock stores a record, and it stores the one of its request. *)
LEMMA Inserted ==
  ASSUME TypeOK, Owned, NEW c \in Conns, Unlock(c)
  PROVE  \/ db' = db
         \/ /\ job[c].kind \in {"PUT", "BARE"}
            /\ job[c] \in Requests
            /\ job[c].var \in Vars
            /\ db' = [db EXCEPT ![job[c].var] = Append(db[job[c].var], RecordOf(c))]
<1>1. snap[c] = db /\ job[c] \in Requests
  BY DEF Unlock, Owned, TypeOK
<1>2. job[c].var \in Vars
  BY <1>1 DEF Requests
<1>3. CASE db' = [snap[c] EXCEPT ![job[c].var] = Append(@, RecordOf(c))]
           /\ job[c].kind \in {"PUT", "BARE"}
  BY <1>1, <1>2, <1>3
<1>4. CASE db' \in {db, snap[c]}
  BY <1>1, <1>4
<1> QED BY <1>3, <1>4 DEF Unlock

(* An insertion adds its record to the stored ones and to no other table. *)
LEMMA InsertEffect ==
  ASSUME TypeOK, NEW v \in Vars, NEW r \in Records,
         db' = [db EXCEPT ![v] = Append(db[v], r)]
  PROVE  /\ \A w \in Vars : \A i \in 1 .. Len(db'[w]) :
              \/ i \in 1 .. Len(db[w]) /\ db'[w][i] = db[w][i]
              \/ db'[w][i] = r
         /\ r \in Stored'
         /\ Stored \subseteq Stored'
<1>1. db[v] \in Seq(Records) /\ db'[v] = Append(db[v], r)
      /\ \A w \in Vars \ {v} : db'[w] = db[w]
  BY DEF TypeOK
<1>2. /\ Len(db'[v]) = Len(db[v]) + 1 /\ db'[v][Len(db[v]) + 1] = r
      /\ \A i \in 1 .. Len(db[v]) : db'[v][i] = db[v][i]
      /\ db'[v] \in Seq(Records)
  BY <1>1, Appended
<1>3. \A i \in 1 .. Len(db'[v]) : i \in 1 .. Len(db[v]) \/ i = Len(db[v]) + 1
  BY <1>1, <1>2
<1>4. \A w \in Vars : \A i \in 1 .. Len(db'[w]) :
        \/ i \in 1 .. Len(db[w]) /\ db'[w][i] = db[w][i]
        \/ db'[w][i] = r
  BY <1>1, <1>2, <1>3
<1>5. DOMAIN db'[v] = 1 .. Len(db[v]) + 1 /\ DOMAIN db[v] = 1 .. Len(db[v]) /\ Len(db[v]) \in Nat
  BY <1>1, <1>2
<1>6. r \in ToSet(db'[v]) /\ ToSet(db[v]) \subseteq ToSet(db'[v])
  BY <1>2, <1>5 DEF ToSet
<1>7. \A w \in Vars \ {v} : ToSet(db'[w]) = ToSet(db[w])
  BY <1>1
<1> QED BY <1>4, <1>6, <1>7 DEF Stored

LEMMA OrderedInductive ==
  TypeOK /\ Owned /\ Numbered /\ Ordered /\ [Next]_vars => Ordered'
<1> SUFFICES ASSUME TypeOK, Owned, Numbered, Ordered, [Next]_vars PROVE Ordered'
  OBVIOUS
<1>0. \A v \in Vars : \A i \in 1 .. Len(db[v]) : db[v][i] \in Records /\ db[v][i].by \in Conns
                                                /\ db[v][i].n \in Nat
  <2>1. \A v \in Vars : db[v] \in Seq(Records)
    BY DEF TypeOK
  <2>2. \A v \in Vars : \A i \in 1 .. Len(db[v]) : db[v][i] \in Records
    BY <2>1
  <2>3. \A r \in Records : r.by \in Conns /\ r.n \in Nat
    BY StationAssumption DEF Records
  <2> QED BY <2>2, <2>3
<1>1. ASSUME NEW c \in Conns, Send(c) PROVE Ordered'
  <2>1. PICK q \in Requests :
          q.n = sent[c] + 1 /\ inq' = [inq EXCEPT ![c] = Append(inq[c], q)]
    BY <1>1, SentRequest
  <2>2. sent' = [sent EXCEPT ![c] = @ + 1] /\ UNCHANGED <<hpc, job, db>>
    BY <1>1 DEF Send, station
  <2>3. inq[c] \in Seq(Requests) /\ sent[c] \in Nat
    BY DEF TypeOK
  <2>4. /\ inq'[c] = Append(inq[c], q) /\ sent'[c] = sent[c] + 1
        /\ \A d \in Conns \ {c} : inq'[d] = inq[d] /\ sent'[d] = sent[d]
    BY <2>1, <2>2 DEF TypeOK
  <2>5. /\ Len(inq'[c]) = Len(inq[c]) + 1 /\ inq'[c][Len(inq[c]) + 1] = q
        /\ \A i \in 1 .. Len(inq[c]) : inq'[c][i] = inq[c][i]
        /\ \A i \in 1 .. Len(inq[c]) + 1 : i \in 1 .. Len(inq[c]) \/ i = Len(inq[c]) + 1
    BY <2>3, <2>4, Appended
  <2>6. ASSUME NEW r \in Records, r.by \in Conns, r.n \in Nat, Older(r) PROVE Older(r)'
    <3>1. CASE r.by # c
      BY <2>2, <2>4, <2>6, <3>1 DEF Older
    <3>2. CASE r.by = c
      BY <2>1, <2>2, <2>3, <2>4, <2>5, <2>6, <3>2 DEF Older
    <3> QED BY <3>1, <3>2
  <2> QED BY <1>0, <2>2, <2>6 DEF Ordered
<1>2. ASSUME NEW c \in Conns, Recv(c) PROVE Ordered'
  <2>1. PICK k \in 1 .. Len(inq[c]) :
          /\ inq' = [inq EXCEPT ![c] = SubSeq(@, k + 1, Len(@))]
          /\ job' = [job EXCEPT ![c] = Head(inq[c])]
    BY <1>2 DEF Recv
  <2>2. inq[c] \in Seq(Requests)
    BY DEF TypeOK
  <2>3. /\ inq'[c] = SubSeq(inq[c], k + 1, Len(inq[c])) /\ job'[c] = Head(inq[c])
        /\ \A d \in Conns \ {c} : inq'[d] = inq[d] /\ job'[d] = job[d]
    BY <2>1 DEF TypeOK
  <2>4. /\ Len(inq'[c]) = Len(inq[c]) - k
        /\ \A i \in 1 .. Len(inq[c]) - k : inq'[c][i] = inq[c][k + i]
        /\ job'[c] = inq[c][1]
    BY <2>2, <2>3, Rest0
  <2>5. UNCHANGED <<sent, db>> /\ \A d \in Conns \ {c} : hpc'[d] = hpc[d]
    BY <1>2 DEF Recv, client, station, TypeOK
  <2>6. /\ 1 \in 1 .. Len(inq[c])
        /\ \A i \in 1 .. Len(inq[c]) - k : k + i \in 1 .. Len(inq[c])
    BY <2>2
  <2>7. ASSUME NEW r \in Records, r.by \in Conns, Older(r) PROVE Older(r)'
    <3>1. CASE r.by # c
      BY <2>3, <2>5, <2>7, <3>1 DEF Older
    <3>2. CASE r.by = c
      BY <2>4, <2>5, <2>6, <2>7, <3>2 DEF Older
    <3> QED BY <3>1, <3>2
  <2> QED BY <1>0, <2>5, <2>7 DEF Ordered
<1>3. ASSUME NEW c \in Conns,
             Read(c) \/ Close(c) \/ RecvClosed(c) \/ Lock(c) \/ Reply(c) \/ ReplyClosed(c)
      PROVE  Ordered'
  <2>1. UNCHANGED <<sent, inq, job, db>>
    BY <1>3 DEF Read, Close, RecvClosed, Lock, Reply, ReplyClosed, client, station
  <2>2. \A d \in Conns : hpc'[d] \in {"lock", "db"} => hpc[d] \in {"lock", "db"}
    <3>1. \/ UNCHANGED hpc
          \/ hpc[c] = "lock" /\ hpc' = [hpc EXCEPT ![c] = "db"]
          \/ hpc' \in {[hpc EXCEPT ![c] = x] : x \in {"recv", "reply", "ended"}}
      BY <1>3 DEF Read, Close, RecvClosed, Lock, Reply, ReplyClosed
    <3> QED BY <3>1 DEF TypeOK
  <2> QED BY <1>0, <2>1, <2>2 DEF Ordered, Older
<1>4. ASSUME NEW c \in Conns, Unlock(c) PROVE Ordered'
  <2>1. UNCHANGED <<sent, inq, job>> /\ hpc'[c] = "reply"
        /\ \A d \in Conns \ {c} : hpc'[d] = hpc[d]
    BY <1>4 DEF Unlock, client, TypeOK
  <2>2. ASSUME NEW r \in Records, r.by \in Conns, Older(r) PROVE Older(r)'
    BY <2>1, <2>2 DEF Older
  <2>3. CASE db' = db
    BY <1>0, <2>2, <2>3 DEF Ordered
  <2>4. CASE /\ job[c] \in Requests
             /\ job[c].var \in Vars
             /\ db' = [db EXCEPT ![job[c].var] = Append(db[job[c].var], RecordOf(c))]
    <3>1. RecordOf(c) \in Records /\ RecordOf(c).by = c /\ RecordOf(c).n = job[c].n
      BY <2>4, RecordType
    <3>2. hpc[c] = "db"
      BY <1>4 DEF Unlock
    <3>3. Older(RecordOf(c))'
      BY <2>1, <3>1, <3>2 DEF Older, Numbered, RecordOf
    <3>4. \A w \in Vars : \A i \in 1 .. Len(db'[w]) :
            \/ i \in 1 .. Len(db[w]) /\ db'[w][i] = db[w][i]
            \/ db'[w][i] = RecordOf(c)
      BY <2>4, <3>1, InsertEffect
    <3>5. RecordOf(c)' = RecordOf(c)
      BY <2>1 DEF RecordOf
    <3> QED BY <1>0, <2>2, <3>3, <3>4, <3>5 DEF Ordered
  <2> QED BY <1>4, <2>3, <2>4, Inserted
<1>5. CASE UNCHANGED vars
  BY <1>5 DEF vars, client, station, Ordered, Older
<1> QED BY <1>1, <1>2, <1>3, <1>4, <1>5 DEF Next, Handler, Rest

LEMMA BackedInductive == TypeOK /\ Owned /\ Backed /\ [Next]_vars => Backed'
<1> SUFFICES ASSUME TypeOK, Owned, Backed, [Next]_vars PROVE Backed'
  OBVIOUS
<1>1. ASSUME NEW c \in Conns, Send(c) \/ Read(c) \/ Close(c) PROVE Backed'
  BY <1>1 DEF Send, Read, Close, Backed, station, RecordOf, Stored
<1>2. ASSUME NEW c \in Conns, Recv(c) \/ RecvClosed(c) PROVE Backed'
  <2>1. UNCHANGED db /\ \A d \in Conns \ {c} :
          hpc'[d] = hpc[d] /\ job'[d] = job[d] /\ ans'[d] = ans[d]
    BY <1>2 DEF Recv, RecvClosed, station, TypeOK
  <2>2. hpc'[c] = "reply" => ans'[c].type # "OK"
    BY <1>2 DEF Recv, RecvClosed, Plain, TypeOK
  <2> QED BY <2>1, <2>2 DEF Backed, RecordOf, Stored
<1>3. ASSUME NEW c \in Conns, Lock(c) \/ Reply(c) \/ ReplyClosed(c) PROVE Backed'
  <2>1. UNCHANGED <<db, job>> /\ hpc'[c] # "reply"
        /\ \A d \in Conns \ {c} : hpc'[d] = hpc[d] /\ ans'[d] = ans[d]
    BY <1>3 DEF Lock, Reply, ReplyClosed, station, TypeOK
  <2> QED BY <2>1 DEF Backed, RecordOf, Stored
<1>4. ASSUME NEW c \in Conns, Unlock(c) PROVE Backed'
  <2>1. UNCHANGED job /\ \A d \in Conns \ {c} : hpc'[d] = hpc[d] /\ ans'[d] = ans[d]
    BY <1>4 DEF Unlock, TypeOK
  <2>2. \A d \in Conns : RecordOf(d)' = RecordOf(d)
    BY <2>1 DEF RecordOf
  <2>3. Stored \subseteq Stored' /\ (ans'[c].type = "OK" => RecordOf(c) \in Stored')
    <3>1. CASE job[c].kind \notin {"PUT", "BARE"}
      <4>1. db' = db
        BY <1>4, <3>1, Inserted
      <4>2. ans'[c].type # "OK"
        <5>1. PICK a : ans' = [ans EXCEPT ![c] = a] /\ a.type # "OK"
          BY <1>4, <3>1, Prepared
        <5> QED BY <5>1 DEF TypeOK
      <4> QED BY <4>1, <4>2 DEF Stored
    <3>2. CASE job[c].kind \in {"PUT", "BARE"}
      <4>1. db' = [snap[c] EXCEPT ![job[c].var] = Append(@, RecordOf(c))]
            /\ snap[c] = db /\ job[c] \in Requests
        BY <1>4, <3>2 DEF Unlock, Owned, TypeOK
      <4>2. job[c].var \in Vars /\ RecordOf(c) \in Records
        BY <4>1, RecordType DEF Requests
      <4>3. db' = [db EXCEPT ![job[c].var] = Append(db[job[c].var], RecordOf(c))]
        BY <4>1
      <4> QED BY <4>2, <4>3, InsertEffect
    <3> QED BY <3>1, <3>2
  <2> QED BY <2>1, <2>2, <2>3 DEF Backed
<1>5. CASE UNCHANGED vars
  BY <1>5 DEF vars, station, Backed, RecordOf, Stored
<1> QED BY <1>1, <1>2, <1>3, <1>4, <1>5 DEF Next, Handler, Rest

LEMMA Initially == Init => Owned /\ Numbered /\ Ordered /\ Backed
  BY DEF Init, NoFile, Owned, Numbered, Ordered, Backed

(* A handler that works on the database owns db_lock and its copy is the    *)
(* file; requests are handled in the order they were sent; an OK is sent    *)
(* for a stored record only.                                                *)
THEOREM Invariant == Spec => []IInv
<1>1. Init => Owned /\ Numbered /\ Ordered /\ Backed
  BY Initially
<1>2. TypeOK /\ (Owned /\ Numbered /\ Ordered /\ Backed) /\ [Next]_vars
        => (Owned /\ Numbered /\ Ordered /\ Backed)'
  BY OwnedInductive, NumberedInductive, OrderedInductive, BackedInductive
<1>3. Spec => [](Owned /\ Numbered /\ Ordered /\ Backed)
  BY <1>1, <1>2, TypeCorrect, PTL DEF Spec
<1>4. TypeOK /\ (Owned /\ Numbered /\ Ordered /\ Backed) => IInv
  BY DEF IInv
<1> QED BY <1>3, <1>4, TypeCorrect, PTL

(* No handler touches the database while another one holds db_lock: the     *)
(* "with db_lock" of log_into_db, get_from_db and delete_db (main.py:10-35). *)
THEOREM MutualExclusion ==
  Spec => [](\A c, d \in Conns : (hpc[c] = "db" /\ hpc[d] = "db") => c = d)
<1>1. IInv => \A c, d \in Conns : (hpc[c] = "db" /\ hpc[d] = "db") => c = d
  BY DEF IInv, Owned
<1> QED BY <1>1, Invariant, PTL

-----------------------------------------------------------------------------
(* A client that waits has one thing under way: its request, a handler that *)
(* works on it, or its answer.                                              *)

Put(c) == job[c].kind = "PUT"

Idle(c) ==
  /\ ~waiting[c] /\ hpc[c] = "recv" /\ inq[c] = <<>> /\ outq[c] = <<>>

Requested(c) ==
  /\ waiting[c] /\ hpc[c] = "recv" /\ outq[c] = <<>>
  /\ Len(inq[c]) = 1 /\ inq[c][1].n = sent[c]

Handled(c) ==
  /\ waiting[c] /\ hpc[c] \in {"lock", "db", "reply"} /\ inq[c] = <<>> /\ outq[c] = <<>>
  /\ job[c].n = sent[c]
  /\ hpc[c] = "reply" /\ Put(c) => ans[c].type = "OK"

Answered(c) ==
  /\ waiting[c] /\ hpc[c] = "recv" /\ inq[c] = <<>>
  /\ Len(outq[c]) = 1 /\ outq[c] # <<>>
  /\ job[c].n = sent[c]
  /\ Put(c) => Head(outq[c]).type = "OK"

UnderWay(c) == Idle(c) \/ Requested(c) \/ Handled(c) \/ Answered(c)

OneUnderWay ==
  /\ outq = [c \in Conns |-> outq[c]]
  /\ \A c \in Patient : ~closed[c] => UnderWay(c)

LEMMA Empty ==
  ASSUME NEW S, NEW s \in Seq(S), Len(s) = 0
  PROVE  s = <<>>
  OBVIOUS

LEMMA Single ==
  ASSUME NEW S, NEW x \in S
  PROVE  /\ Len(Append(<<>>, x)) = 1 /\ Append(<<>>, x) # <<>>
         /\ Head(Append(<<>>, x)) = x /\ Append(<<>>, x)[1] = x
  OBVIOUS

(* A connection a step does not touch is where it was. *)
LEMMA Untouched ==
  ASSUME OneUnderWay, NEW c \in Conns, outq' = [d \in Conns |-> outq'[d]],
         \A d \in Conns \ {c} :
           /\ closed'[d] = closed[d] /\ waiting'[d] = waiting[d] /\ hpc'[d] = hpc[d]
           /\ inq'[d] = inq[d] /\ outq'[d] = outq[d] /\ job'[d] = job[d]
           /\ ans'[d] = ans[d] /\ sent'[d] = sent[d],
         c \in Patient /\ ~closed'[c] => UnderWay(c)'
  PROVE  OneUnderWay'
<1>1. Patient \subseteq Conns
  BY StationAssumption
<1>2. ASSUME NEW d \in Patient \ {c}, ~closed'[d] PROVE UnderWay(d)'
  BY <1>1, <1>2 DEF OneUnderWay, UnderWay, Idle, Requested, Handled, Answered, Put
<1> QED BY <1>2 DEF OneUnderWay

LEMMA UnderWayInductive == TypeOK /\ OneUnderWay /\ [Next]_vars => OneUnderWay'
<1> SUFFICES ASSUME TypeOK, OneUnderWay, [Next]_vars PROVE OneUnderWay'
  OBVIOUS
<1>0. \A c \in Patient : c \in Conns /\ (~closed[c] => UnderWay(c))
  BY StationAssumption DEF OneUnderWay
<1>1. ASSUME NEW c \in Conns, Send(c) PROVE OneUnderWay'
  <2>1. PICK q \in Requests :
          q.n = sent[c] + 1 /\ inq' = [inq EXCEPT ![c] = Append(inq[c], q)]
    BY <1>1, SentRequest
  <2>2. /\ sent' = [sent EXCEPT ![c] = @ + 1]
        /\ waiting' = [waiting EXCEPT ![c] = c \in Patient]
        /\ UNCHANGED <<closed, outq, hpc, job, ans>> /\ ~waiting[c]
    BY <1>1 DEF Send
  <2>3. ASSUME c \in Patient, ~closed'[c] PROVE UnderWay(c)'
    <3>1. Idle(c)
      BY <1>0, <2>2, <2>3 DEF UnderWay, Requested, Handled, Answered
    <3>2. inq'[c] = Append(<<>>, q)
      BY <2>1, <3>1 DEF Idle, TypeOK
    <3>3. Len(inq'[c]) = 1 /\ inq'[c][1] = q
      BY <3>2, Single
    <3>4. sent'[c] = sent[c] + 1 /\ waiting'[c]
      BY <2>2, <2>3 DEF TypeOK
    <3> QED BY <2>1, <2>2, <3>1, <3>3, <3>4 DEF UnderWay, Requested, Idle
  <2> QED BY <2>1, <2>2, <2>3, Untouched DEF TypeOK, OneUnderWay
<1>2. ASSUME NEW c \in Conns, Read(c) PROVE OneUnderWay'
  <2>1. /\ c \in Patient /\ ~closed[c] /\ outq[c] # <<>>
        /\ outq' = [outq EXCEPT ![c] = <<>>] /\ waiting' = [waiting EXCEPT ![c] = FALSE]
        /\ UNCHANGED <<sent, closed, inq, hpc, job, ans>>
    BY <1>2 DEF Read
  <2>2. Answered(c)
    BY <1>0, <2>1 DEF UnderWay, Idle, Requested, Handled
  <2>3. outq'[c] = <<>> /\ ~waiting'[c] /\ outq' = [d \in Conns |-> outq'[d]]
    BY <2>1 DEF TypeOK, OneUnderWay
  <2>4. UnderWay(c)'
    BY <2>1, <2>2, <2>3 DEF UnderWay, Idle, Answered
  <2> QED BY <2>1, <2>3, <2>4, Untouched DEF TypeOK, OneUnderWay
<1>3. ASSUME NEW c \in Conns, Close(c) PROVE OneUnderWay'
  <2>1. /\ closed' = [closed EXCEPT ![c] = TRUE]
        /\ UNCHANGED <<sent, waiting, inq, outq, hpc, job, ans>>
    BY <1>3 DEF Close
  <2>2. closed'[c]
    BY <2>1 DEF TypeOK
  <2> QED BY <2>1, <2>2, Untouched DEF TypeOK, OneUnderWay
<1>4. ASSUME NEW c \in Conns, Recv(c) PROVE OneUnderWay'
  <2>1. PICK k \in 1 .. Len(inq[c]) :
          /\ inq' = [inq EXCEPT ![c] = SubSeq(@, k + 1, Len(@))]
          /\ job' = [job EXCEPT ![c] = Head(inq[c])]
          /\ \/ /\ k = 1 /\ Head(inq[c]).kind # "BAD"
                /\ hpc' = [hpc EXCEPT ![c] = "lock"]
                /\ UNCHANGED ans
             \/ /\ k > 1 \/ Head(inq[c]).kind = "BAD"
                /\ hpc' = [hpc EXCEPT ![c] = "reply"]
                /\ ans' = [ans EXCEPT ![c] = Plain("Error")]
    BY <1>4 DEF Recv
  <2>2. UNCHANGED <<sent, waiting, closed, outq>> /\ hpc[c] = "recv"
    BY <1>4 DEF Recv, client
  <2>3. inq[c] \in Seq(Requests)
    BY DEF TypeOK
  <2>4. ASSUME c \in Patient, ~closed'[c] PROVE UnderWay(c)'
    <3>1. Requested(c)
      <4>1. UnderWay(c)
        BY <1>0, <2>2, <2>4
      <4>2. inq[c] # <<>>
        <5>1. Len(<<>>) = 0
          OBVIOUS
        <5>2. inq[c] = <<>> => 1 .. Len(inq[c]) = {}
          BY <5>1
        <5> QED BY <2>1, <5>2
      <4> QED BY <2>2, <4>1, <4>2 DEF UnderWay, Idle, Handled, Answered
    <3>2. k = 1 /\ Len(inq[c]) = 1
      BY <2>1, <3>1 DEF Requested
    <3>3. Len(SubSeq(inq[c], k + 1, Len(inq[c]))) = Len(inq[c]) - k
          /\ SubSeq(inq[c], k + 1, Len(inq[c])) \in Seq(Requests)
          /\ Head(inq[c]) = inq[c][1]
      BY <2>1, <2>3, Rest0
    <3>4. SubSeq(inq[c], k + 1, Len(inq[c])) = <<>>
      <4>1. Len(SubSeq(inq[c], k + 1, Len(inq[c]))) = 0
        BY <3>2, <3>3
      <4> QED BY <3>3, <4>1, Empty
    <3>5. inq'[c] = <<>> /\ job'[c] = inq[c][1]
      BY <2>1, <3>3, <3>4 DEF TypeOK
    <3>6. hpc'[c] \in {"lock", "reply"} /\ (hpc'[c] = "reply" => job'[c].kind = "BAD")
      BY <2>1, <3>2, <3>3, <3>5 DEF TypeOK
    <3>7. hpc'[c] = "reply" => ~Put(c)'
      BY <3>6 DEF Put
    <3> QED BY <2>2, <3>1, <3>5, <3>6, <3>7 DEF UnderWay, Handled, Requested
  <2>5. \A d \in Conns \ {c} :
          /\ inq'[d] = inq[d] /\ job'[d] = job[d] /\ hpc'[d] = hpc[d] /\ ans'[d] = ans[d]
    BY <2>1 DEF TypeOK
  <2> QED BY <2>2, <2>4, <2>5, Untouched DEF OneUnderWay
<1>5. ASSUME NEW c \in Conns, RecvClosed(c) \/ ReplyClosed(c) PROVE OneUnderWay'
  <2>1. /\ closed[c] /\ UNCHANGED <<sent, waiting, closed, inq, outq, job>>
        /\ \A d \in Conns \ {c} : hpc'[d] = hpc[d] /\ ans'[d] = ans[d]
    <3>1. CASE RecvClosed(c)
      BY <3>1 DEF RecvClosed, client, TypeOK
    <3>2. CASE ReplyClosed(c)
      BY <3>2 DEF ReplyClosed, client, TypeOK
    <3> QED BY <1>5, <3>1, <3>2
  <2> QED BY <2>1, Untouched DEF OneUnderWay
<1>6. ASSUME NEW c \in Conns, Lock(c) PROVE OneUnderWay'
  <2>1. /\ hpc[c] = "lock" /\ hpc' = [hpc EXCEPT ![c] = "db"]
        /\ UNCHANGED <<sent, waiting, closed, inq, outq, job, ans>>
    BY <1>6 DEF Lock, client
  <2>2. hpc'[c] = "db"
    BY <2>1 DEF TypeOK
  <2>3. c \in Patient /\ ~closed'[c] => UnderWay(c)'
    BY <1>0, <2>1, <2>2 DEF UnderWay, Idle, Requested, Handled, Answered
  <2> QED BY <2>1, <2>3, Untouched DEF TypeOK, OneUnderWay
<1>7. ASSUME NEW c \in Conns, Unlock(c) PROVE OneUnderWay'
  <2>1. /\ hpc[c] = "db" /\ hpc' = [hpc EXCEPT ![c] = "reply"]
        /\ UNCHANGED <<sent, waiting, closed, inq, outq, job>>
    BY <1>7 DEF Unlock, client
  <2>2. /\ \A d \in Conns \ {c} : ans'[d] = ans[d]
        /\ hpc'[c] = "reply"
    BY <1>7, <2>1 DEF Unlock, TypeOK
  <2>3. Put(c) => ans'[c].type = "OK"
    BY <1>7 DEF Unlock, Put, Plain, TypeOK
  <2>4. c \in Patient /\ ~closed'[c] => UnderWay(c)'
    BY <1>0, <2>1, <2>2, <2>3 DEF UnderWay, Idle, Requested, Handled, Answered, Put
  <2> QED BY <2>1, <2>2, <2>4, Untouched DEF TypeOK, OneUnderWay
<1>8. ASSUME NEW c \in Conns, Reply(c) PROVE OneUnderWay'
  <2>1. /\ hpc[c] = "reply" /\ hpc' = [hpc EXCEPT ![c] = "recv"]
        /\ outq' = [outq EXCEPT ![c] = Append(@, ans[c])]
        /\ ans' = [ans EXCEPT ![c] = <<>>]
        /\ UNCHANGED <<sent, waiting, closed, inq, job>>
    BY <1>8 DEF Reply, client
  <2>2. /\ outq'[c] = Append(outq[c], ans[c]) /\ hpc'[c] = "recv"
        /\ outq' = [d \in Conns |-> outq'[d]]
        /\ \A d \in Conns \ {c} :
             outq'[d] = outq[d] /\ hpc'[d] = hpc[d] /\ ans'[d] = ans[d]
    BY <2>1 DEF TypeOK, OneUnderWay
  <2>3. ASSUME c \in Patient, ~closed'[c] PROVE UnderWay(c)'
    <3>1. Handled(c)
      BY <1>0, <2>1, <2>3 DEF UnderWay, Idle, Requested, Answered
    <3>2. /\ Len(outq'[c]) = 1 /\ outq'[c] # <<>> /\ Head(outq'[c]) = ans[c]
      <4>1. outq'[c] = Append(<<>>, ans[c])
        BY <2>2, <3>1 DEF Handled
      <4> QED BY <4>1, Single
    <3> QED BY <2>1, <2>2, <3>1, <3>2 DEF UnderWay, Handled, Answered, Put
  <2> QED BY <2>1, <2>2, <2>3, Untouched
<1>9. CASE UNCHANGED vars
  BY <1>9 DEF vars, client, OneUnderWay, UnderWay, Idle, Requested, Handled, Answered, Put
<1> QED BY <1>1, <1>2, <1>3, <1>4, <1>5, <1>6, <1>7, <1>8, <1>9 DEF Next, Handler, Rest

LEMMA Waits == Spec => []OneUnderWay
<1>1. Init => OneUnderWay
  BY StationAssumption DEF Init, OneUnderWay, UnderWay, Idle
<1> QED BY <1>1, UnderWayInductive, TypeCorrect, PTL DEF Spec

(* A client that waits gets the answer to its request, and OK for every     *)
(* complete PUT, however the handlers of the other connections contend for  *)
(* db_lock (main.py:48-58, 100-111).                                        *)
THEOREM PatientAnsweredHolds == Spec => []PatientAnswered
<1>1. OneUnderWay => PatientAnswered
  <2> SUFFICES ASSUME OneUnderWay, NEW c \in Patient, ~closed[c]
               PROVE  /\ Len(outq[c]) <= 1
                      /\ outq[c] # <<>> =>
                           /\ hpc[c] # "reply"
                           /\ job[c].n = sent[c]
                           /\ job[c].kind = "PUT" => Head(outq[c]).type = "OK"
    BY DEF PatientAnswered
  <2>1. UnderWay(c)
    BY DEF OneUnderWay
  <2>2. CASE outq[c] = <<>>
    BY <2>2
  <2>3. CASE Answered(c)
    <3>1. 1 <= 1
      OBVIOUS
    <3>2. Len(outq[c]) <= 1
      BY <2>3, <3>1, Zenon DEF Answered
    <3> QED BY <2>3, <3>2 DEF Answered, Put
  <2> QED BY <2>1, <2>2, <2>3 DEF UnderWay, Idle, Requested, Handled
<1> QED BY <1>1, Waits, PTL

-----------------------------------------------------------------------------
(* A search finds what was acknowledged before it was asked for.            *)

(* A record is new when it is inserted: it is younger than those stored.    *)
LEMMA NewRecord ==
  ASSUME IInv, NEW c \in Conns, Unlock(c), job[c] \in Requests
  PROVE  RecordOf(c) \notin Stored
<1> SUFFICES ASSUME RecordOf(c) \in Stored PROVE FALSE
  OBVIOUS
<1>1. RecordOf(c).by = c /\ RecordOf(c).n = job[c].n
  BY RecordType
<1>2. PICK v \in Vars : \E i \in 1 .. Len(db[v]) : RecordOf(c) = db[v][i]
  BY InStored DEF IInv
<1>3. Older(RecordOf(c))
  BY <1>2 DEF IInv, Ordered
<1>4. job[c].n < job[c].n
  BY <1>1, <1>3 DEF Older, Unlock
<1> QED BY <1>4, NumberType

Remembered == acked \subseteq Stored /\ \A c \in Conns : known[c] \subseteq acked

LEMMA StoredGrows ==
  ASSUME IInv, [Next]_vars
  PROVE  Stored \subseteq Stored'
<1>1. CASE db' = db
  BY <1>1 DEF Stored
<1>2. ASSUME NEW c \in Conns, Unlock(c), db' # db PROVE Stored \subseteq Stored'
  <2>1. /\ job[c] \in Requests /\ job[c].var \in Vars
        /\ db' = [db EXCEPT ![job[c].var] = Append(db[job[c].var], RecordOf(c))]
    BY <1>2, Inserted DEF IInv
  <2> QED BY <2>1, RecordType, InsertEffect DEF IInv
<1> QED BY <1>1, <1>2 DEF Next, Handler, Rest, vars, station, Send, Read, Close, Recv,
           RecvClosed, Lock, Reply, ReplyClosed

LEMMA RememberedInductive == IInv /\ Remembered /\ [Next]_vars => Remembered'
<1> SUFFICES ASSUME IInv, Remembered, [Next]_vars PROVE Remembered'
  OBVIOUS
<1>1. ASSUME NEW c \in Conns, Send(c) PROVE Remembered'
  <2>1. known' = [known EXCEPT ![c] = known'[c]] /\ known'[c] \in {acked, {}}
    BY <1>1 DEF Send, IInv, TypeOK
  <2> QED BY <1>1, <2>1, StoredGrows DEF Send, Remembered, station, IInv, TypeOK
<1>2. ASSUME NEW c \in Conns, Reply(c) PROVE Remembered'
  <2>1. acked' \subseteq Stored /\ acked \subseteq acked' /\ UNCHANGED known
    BY <1>2 DEF Reply, Remembered, IInv, Backed, client
  <2> QED BY <2>1, StoredGrows DEF Remembered
<1>3. CASE UNCHANGED <<known, acked>>
  BY <1>3, StoredGrows DEF Remembered
<1> QED BY <1>1, <1>2, <1>3 DEF Next, Handler, Rest, vars, client, station, Read, Close,
           Recv, RecvClosed, Lock, Unlock, ReplyClosed

(* The answer a misses nothing that the client of c knew of when it asked. *)
Complete(c, a) ==
  /\ job[c] \in Requests
  /\ a.type = "Data" /\ job[c].kind = "RANGE" =>
       \A r \in known[c] :
         r \in ToSet(db[job[c].var]) /\ job[c].lo <= r.n /\ r.n <= job[c].hi => r \in a.recs

Finished(c) ==
  /\ hpc[c] = "reply" => Complete(c, ans[c])
  /\ outq[c] # <<>> => Complete(c, Head(outq[c]))

Searched == \A c \in Patient : ~closed[c] => Finished(c)

(* What is inserted was known to nobody. *)
LEMMA KnownIsOld ==
  ASSUME IInv, Remembered, [Next]_vars, NEW c \in Conns, NEW r \in known[c], NEW v \in Vars,
         r \in ToSet(db'[v])
  PROVE  r \in ToSet(db[v])
<1>1. CASE db' = db
  BY <1>1
<1>2. ASSUME NEW d \in Conns, Unlock(d), db' # db PROVE r \in ToSet(db[v])
  <2>1. /\ job[d] \in Requests /\ job[d].var \in Vars
        /\ db' = [db EXCEPT ![job[d].var] = Append(db[job[d].var], RecordOf(d))]
    BY <1>2, Inserted DEF IInv
  <2>2. RecordOf(d) \in Records /\ RecordOf(d) \notin Stored
    BY <1>2, <2>1, RecordType, NewRecord
  <2>3. r # RecordOf(d)
    BY <2>2 DEF Remembered
  <2>4. db'[v] \in Seq(Records) /\ db[v] \in Seq(Records)
    BY <2>1, <2>2, Appended DEF IInv, TypeOK
  <2>5. PICK i \in 1 .. Len(db'[v]) : r = db'[v][i]
    BY <2>4 DEF ToSet
  <2>6. i \in 1 .. Len(db[v]) /\ db'[v][i] = db[v][i]
    BY <2>1, <2>2, <2>3, <2>5, InsertEffect DEF IInv
  <2> QED BY <2>4, <2>5, <2>6 DEF ToSet
<1> QED BY <1>1, <1>2 DEF Next, Handler, Rest, vars, station, Send, Read, Close, Recv,
           RecvClosed, Lock, Reply, ReplyClosed

(* A connection a step does not touch is as complete as it was. *)
LEMMA StillFinished ==
  ASSUME IInv, Remembered, [Next]_vars, NEW c \in Conns, Finished(c),
         job'[c] = job[c], known'[c] = known[c], ans'[c] = ans[c],
         outq'[c] = outq[c] \/ outq'[c] = <<>>,
         hpc'[c] = "reply" => hpc[c] = "reply"
  PROVE  Finished(c)'
<1>1. \A a : Complete(c, a) =>
        /\ job'[c] \in Requests
        /\ a.type = "Data" /\ job'[c].kind = "RANGE" =>
             \A r \in known'[c] :
               r \in ToSet(db'[job'[c].var]) /\ job'[c].lo <= r.n /\ r.n <= job'[c].hi
                 => r \in a.recs
  <2>1. job[c] \in Requests => job[c].var \in Vars
    BY DEF Requests
  <2> QED BY <2>1, KnownIsOld DEF Complete
<1> QED BY <1>1 DEF Finished, Complete

LEMMA SearchedInductive == IInv /\ Remembered /\ OneUnderWay /\ Searched /\ [Next]_vars => Searched'
<1> SUFFICES ASSUME IInv, Remembered, OneUnderWay, Searched, [Next]_vars, TypeOK,
                    NEW d \in Patient, ~closed'[d]
             PROVE  Finished(d)'
  BY DEF Searched, IInv
<1>0. d \in Conns /\ (~closed[d] => UnderWay(d) /\ Finished(d))
  BY StationAssumption DEF OneUnderWay, Searched
<1> DEFINE Aside == /\ job'[d] = job[d] /\ known'[d] = known[d] /\ ans'[d] = ans[d]
                    /\ outq'[d] = outq[d] /\ hpc'[d] = hpc[d] /\ closed'[d] = closed[d]
<1>a. CASE Aside
  BY <1>0, <1>a, StillFinished
<1>1. ASSUME NEW c \in Conns, Send(c) PROVE Finished(d)'
  <2>1. /\ UNCHANGED <<closed, outq, hpc, job, ans>> /\ ~waiting[c]
        /\ \A e \in Conns \ {c} : known'[e] = known[e]
    BY <1>1 DEF Send, TypeOK
  <2>2. CASE d = c
    <3>1. Idle(d)
      BY <1>0, <2>1, <2>2 DEF UnderWay, Requested, Handled, Answered
    <3> QED BY <2>1, <3>1 DEF Idle, Finished
  <2> QED BY <1>0, <1>a, <2>1, <2>2
<1>2. ASSUME NEW c \in Conns, Read(c) PROVE Finished(d)'
  <2>1. outq'[d] = outq[d] \/ outq'[d] = <<>>
    BY <1>0, <1>2 DEF Read, OneUnderWay
  <2>2. UNCHANGED <<closed, known, hpc, job, ans>>
    BY <1>2 DEF Read
  <2> QED BY <1>0, <2>1, <2>2, StillFinished
<1>3. ASSUME NEW c \in Conns, Close(c) PROVE Finished(d)'
  <2>1. UNCHANGED <<known, outq, hpc, job, ans>> /\ ~closed[d]
    BY <1>0, <1>3 DEF Close, TypeOK
  <2> QED BY <1>0, <2>1, StillFinished
<1>4. ASSUME NEW c \in Conns, Recv(c) PROVE Finished(d)'
  <2>1. PICK k \in 1 .. Len(inq[c]) :
          /\ job' = [job EXCEPT ![c] = Head(inq[c])]
          /\ \/ hpc' = [hpc EXCEPT ![c] = "lock"] /\ UNCHANGED ans
             \/ /\ hpc' = [hpc EXCEPT ![c] = "reply"]
                /\ ans' = [ans EXCEPT ![c] = Plain("Error")]
    BY <1>4 DEF Recv
  <2>2. UNCHANGED <<closed, known, outq>> /\ hpc[c] = "recv"
    BY <1>4 DEF Recv, client
  <2>3. CASE d = c
    <3>1. outq[d] = <<>>
      <4>1. inq[d] # <<>>
        <5>1. Len(<<>>) = 0
          OBVIOUS
        <5>2. inq[c] = <<>> => 1 .. Len(inq[c]) = {}
          BY <5>1
        <5> QED BY <2>1, <2>3, <5>2
      <4> QED BY <1>0, <2>2, <2>3, <4>1 DEF UnderWay, Idle, Requested, Handled, Answered
    <3>2. job'[d] \in Requests
      <4>1. inq[c] \in Seq(Requests)
        BY DEF TypeOK
      <4>2. Head(inq[c]) \in Requests
        BY <2>1, <4>1
      <4> QED BY <2>1, <2>3, <4>2 DEF TypeOK
    <3>3. hpc'[d] = "reply" => ans'[d].type = "Error"
      BY <2>1, <2>3 DEF Plain, TypeOK
    <3> QED BY <2>2, <3>1, <3>2, <3>3 DEF Finished, Complete
  <2> QED BY <1>0, <1>a, <2>1, <2>2, <2>3 DEF TypeOK
<1>5. ASSUME NEW c \in Conns, RecvClosed(c) \/ ReplyClosed(c) PROVE Finished(d)'
  <2>1. closed[c] /\ UNCHANGED <<closed, known, outq, job>>
        /\ \A e \in Conns \ {c} : hpc'[e] = hpc[e] /\ ans'[e] = ans[e]
    <3>1. CASE RecvClosed(c)
      BY <3>1 DEF RecvClosed, client, TypeOK
    <3>2. CASE ReplyClosed(c)
      BY <3>2 DEF ReplyClosed, client, TypeOK
    <3> QED BY <1>5, <3>1, <3>2
  <2> QED BY <1>0, <1>a, <2>1
<1>6. ASSUME NEW c \in Conns, Lock(c) PROVE Finished(d)'
  <2>1. /\ UNCHANGED <<closed, known, outq, job, ans>>
        /\ hpc'[d] = hpc[d] \/ hpc'[d] = "db"
    BY <1>0, <1>6 DEF Lock, client, TypeOK
  <2> QED BY <1>0, <2>1, StillFinished
<1>7. ASSUME NEW c \in Conns, Unlock(c) PROVE Finished(d)'
  <2>1. /\ UNCHANGED <<closed, known, outq, job>> /\ hpc[c] = "db"
        /\ \A e \in Conns \ {c} : hpc'[e] = hpc[e] /\ ans'[e] = ans[e]
    BY <1>7 DEF Unlock, client, TypeOK
  <2>2. CASE d = c
    <3>1. outq[d] = <<>> /\ job[d] \in Requests
      BY <1>0, <2>1, <2>2 DEF UnderWay, Idle, Requested, Handled, Answered, TypeOK
    <3>2. CASE job[d].kind # "RANGE"
      BY <2>1, <3>1, <3>2 DEF Finished, Complete
    <3>3. CASE job[d].kind = "RANGE"
      <4>1. db' = db /\ ans'[d] = Lookup(db[job[d].var], job[d])
        BY <1>7, <2>2, <3>3 DEF Unlock, IInv, Owned, TypeOK
      <4>2. ans'[d].type = "Data" =>
              ans'[d].recs = Between(db[job[d].var], job[d].lo, job[d].hi)
        BY <3>3, <4>1 DEF Lookup, Plain
      <4> QED BY <2>1, <3>1, <4>1, <4>2 DEF Finished, Complete, Between
    <3> QED BY <3>2, <3>3
  <2> QED BY <1>0, <1>a, <2>1, <2>2
<1>8. ASSUME NEW c \in Conns, Reply(c) PROVE Finished(d)'
  <2>1. /\ UNCHANGED <<closed, known, job, db>> /\ hpc[c] = "reply" /\ hpc'[c] = "recv"
        /\ outq'[c] = Append(outq[c], ans[c])
        /\ \A e \in Conns \ {c} : outq'[e] = outq[e] /\ hpc'[e] = hpc[e] /\ ans'[e] = ans[e]
    BY <1>8 DEF Reply, client, TypeOK, OneUnderWay
  <2>2. CASE d = c
    <3>1. outq[d] = <<>> /\ Complete(d, ans[d])
      BY <1>0, <2>1, <2>2 DEF UnderWay, Idle, Requested, Handled, Answered, Finished
    <3>2. Head(outq'[d]) = ans[d]
      BY <2>1, <2>2, <3>1, Single
    <3> QED BY <2>1, <2>2, <3>1, <3>2 DEF Finished, Complete
  <2> QED BY <1>0, <1>a, <2>1, <2>2
<1>9. CASE UNCHANGED vars
  BY <1>0, <1>9, <1>a DEF vars, client
<1> QED BY <1>1, <1>2, <1>3, <1>4, <1>5, <1>6, <1>7, <1>8, <1>9 DEF Next, Handler, Rest

(* A search between two times answers with every record between them whose  *)
(* PUT had been answered with OK when the search was sent, whatever other   *)
(* handlers do meanwhile (main.py:21-35, 71-83).                            *)
THEOREM SearchIsCompleteHolds == Spec => []SearchIsComplete
<1>1. Init => Remembered /\ Searched
  BY StationAssumption DEF Init, Remembered, Searched, Finished
<1>2. Spec => []Remembered
  BY <1>1, RememberedInductive, Invariant, PTL DEF Spec
<1>3. Spec => []Searched
  BY <1>1, <1>2, SearchedInductive, Invariant, Waits, PTL DEF Spec
<1>4. Searched => SearchIsComplete
  BY DEF Searched, Finished, Complete, SearchIsComplete
<1> QED BY <1>3, <1>4, PTL

-----------------------------------------------------------------------------
(* db_lock is never left taken. *)

(* Its owner is at the database, with a request the database can do, and so *)
(* always able to go on and release it.                                     *)
Released ==
  /\ holder # Nobody => hpc[holder] = "db"
  /\ \A c \in Conns : hpc[c] \in {"lock", "db"} => job[c].kind # "BAD"

LEMMA ReleasedInductive == TypeOK /\ Owned /\ Released /\ [Next]_vars => Released'
<1> SUFFICES ASSUME TypeOK, Owned, Released, [Next]_vars PROVE Released'
  OBVIOUS
<1>0. holder = Nobody \/ holder \in Conns
  BY DEF TypeOK
<1>1. ASSUME NEW c \in Conns, Send(c) \/ Read(c) \/ Close(c) PROVE Released'
  BY <1>1 DEF Send, Read, Close, Released, station
<1>2. ASSUME NEW c \in Conns, Recv(c) PROVE Released'
  <2>1. /\ hpc[c] = "recv" /\ UNCHANGED holder
        /\ \A d \in Conns \ {c} : hpc'[d] = hpc[d] /\ job'[d] = job[d]
        /\ hpc'[c] \in {"lock", "db"} => job'[c].kind # "BAD"
    BY <1>2 DEF Recv, TypeOK, station
  <2> QED BY <1>0, <2>1 DEF Released
<1>3. ASSUME NEW c \in Conns, RecvClosed(c) \/ ReplyClosed(c) PROVE Released'
  BY <1>0, <1>3 DEF RecvClosed, ReplyClosed, Released, TypeOK, station
<1>4. ASSUME NEW c \in Conns, Lock(c) PROVE Released'
  BY <1>4 DEF Lock, Released, TypeOK
<1>5. ASSUME NEW c \in Conns, Unlock(c) PROVE Released'
  BY <1>5 DEF Unlock, Released, TypeOK
<1>6. ASSUME NEW c \in Conns, Reply(c) PROVE Released'
  BY <1>0, <1>6 DEF Reply, Released, TypeOK
<1>7. CASE UNCHANGED vars
  BY <1>7 DEF vars, station, Released
<1> QED BY <1>1, <1>2, <1>3, <1>4, <1>5, <1>6, <1>7 DEF Next, Handler, Rest

(* No request leaves db_lock taken, not even one whose search raises: the   *)
(* owner of the lock is a handler in the middle of a request it can finish  *)
(* (main.py:10-35, 48-58).                                                  *)
THEOREM LockIsReleased == Spec => []Released
<1>1. Init => Released
  BY DEF Init, Released
<1>2. Spec => [](TypeOK /\ Owned)
  <2>1. IInv => TypeOK /\ Owned
    BY DEF IInv
  <2> QED BY <2>1, Invariant, PTL
<1> QED BY <1>1, <1>2, ReleasedInductive, PTL DEF Spec

(* What a patient client waits for is under way: its request in the stream, *)
(* its handler at work, or its answer; nothing is lost, whoever leaves or   *)
(* does not read (main.py:100-111).                                         *)
THEOREM NeverForgotten ==
  Spec => [](\A c \in Patient : waiting[c] /\ ~closed[c] =>
               \/ Len(inq[c]) = 1 /\ hpc[c] = "recv"
               \/ hpc[c] \in {"lock", "db", "reply"}
               \/ Len(outq[c]) = 1)
<1>1. OneUnderWay =>
        \A c \in Patient : waiting[c] /\ ~closed[c] =>
          \/ Len(inq[c]) = 1 /\ hpc[c] = "recv"
          \/ hpc[c] \in {"lock", "db", "reply"}
          \/ Len(outq[c]) = 1
  BY DEF OneUnderWay, UnderWay, Idle, Requested, Handled, Answered
<1> QED BY <1>1, Waits, PTL

-----------------------------------------------------------------------------
(* What the station refuses. *)

(* A PUT that is refused was read together with a later request. *)
OnlyGluedIsRefused ==
  \A c \in Conns :
    (hpc[c] = "reply" /\ ~closed[c] /\ job[c].kind = "PUT" /\ ans[c].type # "OK") =>
      job[c] \in Requests /\ job[c].n < sent[c]

LEMMA SecondIsLater ==
  ASSUME TypeOK, Numbered, NEW c \in Conns, NEW k \in 1 .. Len(inq[c]), k > 1
  PROVE  Head(inq[c]) \in Requests /\ Head(inq[c]).n < sent[c]
<1>1. inq[c] \in Seq(Requests) /\ sent[c] \in Nat /\ Len(inq[c]) \in Nat
  BY DEF TypeOK
<1>2. 1 \in 1 .. Len(inq[c]) /\ 2 \in 1 .. Len(inq[c]) /\ 1 < 2
  BY <1>1
<1>3. inq[c][1].n < inq[c][2].n /\ inq[c][2].n <= sent[c]
  BY <1>2, Zenon DEF Numbered
<1>4. inq[c][1].n \in Nat /\ inq[c][2].n \in Nat
  BY <1>1, <1>2, NumbersType
<1>5. Head(inq[c]) = inq[c][1]
  BY <1>1, <1>2
<1> QED BY <1>1, <1>3, <1>4, <1>5

LEMMA RefusedInductive ==
  TypeOK /\ Numbered /\ OnlyGluedIsRefused /\ [Next]_vars => OnlyGluedIsRefused'
<1> SUFFICES ASSUME TypeOK, Numbered, OnlyGluedIsRefused, [Next]_vars
             PROVE  OnlyGluedIsRefused'
  OBVIOUS
<1>1. ASSUME NEW c \in Conns, Send(c) PROVE OnlyGluedIsRefused'
  <2>1. /\ UNCHANGED <<hpc, closed, job, ans>>
        /\ \A d \in Conns : sent[d] \in Nat /\ sent'[d] \in {sent[d], sent[d] + 1}
    BY <1>1 DEF Send, TypeOK
  <2>2. \A d \in Conns : hpc[d] = "reply" /\ job[d].kind = "PUT" /\ ans[d].type # "OK"
                         /\ ~closed[d] => job[d] \in Requests /\ job[d].n < sent'[d]
    <3> SUFFICES ASSUME NEW d \in Conns, job[d] \in Requests, job[d].n < sent[d]
                 PROVE  job[d].n < sent'[d]
      BY DEF OnlyGluedIsRefused
    <3> QED BY <2>1, NumberType
  <2> QED BY <2>1, <2>2 DEF OnlyGluedIsRefused
<1>2. ASSUME NEW c \in Conns, Read(c) \/ Close(c) \/ Lock(c) PROVE OnlyGluedIsRefused'
  <2>1. /\ sent' = sent /\ job' = job /\ ans' = ans
        /\ \A d \in Conns : /\ ~closed'[d] => ~closed[d]
                            /\ hpc'[d] = "reply" => hpc[d] = "reply"
    BY <1>2 DEF Read, Close, Lock, TypeOK, client, station
  <2> QED BY <2>1 DEF OnlyGluedIsRefused
<1>3. ASSUME NEW c \in Conns, Recv(c) PROVE OnlyGluedIsRefused'
  <2>1. PICK k \in 1 .. Len(inq[c]) :
          /\ job' = [job EXCEPT ![c] = Head(inq[c])]
          /\ k > 1 \/ Head(inq[c]).kind = "BAD" \/ hpc' = [hpc EXCEPT ![c] = "lock"]
    BY <1>3 DEF Recv
  <2>2. /\ UNCHANGED <<closed, sent>> /\ job'[c] = Head(inq[c])
        /\ \A d \in Conns \ {c} : hpc'[d] = hpc[d] /\ job'[d] = job[d] /\ ans'[d] = ans[d]
    BY <1>3, <2>1 DEF Recv, TypeOK, client
  <2>3. k > 1 \/ job'[c].kind # "PUT" \/ hpc'[c] # "reply"
    BY <2>1, <2>2 DEF TypeOK
  <2>4. k > 1 => job'[c] \in Requests /\ job'[c].n < sent'[c]
    BY <2>2, SecondIsLater
  <2> QED BY <2>2, <2>3, <2>4 DEF OnlyGluedIsRefused
<1>4. ASSUME NEW c \in Conns, RecvClosed(c) \/ ReplyClosed(c) \/ Reply(c)
      PROVE  OnlyGluedIsRefused'
  <2>1. /\ UNCHANGED <<closed, sent, job>> /\ (closed[c] \/ hpc'[c] # "reply")
        /\ \A d \in Conns \ {c} : hpc'[d] = hpc[d] /\ ans'[d] = ans[d]
    BY <1>4 DEF RecvClosed, ReplyClosed, Reply, TypeOK, client
  <2> QED BY <2>1 DEF OnlyGluedIsRefused
<1>5. ASSUME NEW c \in Conns, Unlock(c) PROVE OnlyGluedIsRefused'
  <2>1. /\ UNCHANGED <<closed, sent, job>>
        /\ \A d \in Conns \ {c} : hpc'[d] = hpc[d] /\ ans'[d] = ans[d]
        /\ job[c].kind = "PUT" => ans'[c] = Plain("OK")
    BY <1>5 DEF Unlock, TypeOK, client
  <2>2. Plain("OK").type = "OK"
    BY DEF Plain
  <2> QED BY <2>1, <2>2 DEF OnlyGluedIsRefused
<1>6. CASE UNCHANGED vars
  BY <1>6 DEF vars, client, OnlyGluedIsRefused
<1> QED BY <1>1, <1>2, <1>3, <1>4, <1>5, <1>6 DEF Next, Handler, Rest

(* Glue is the only reason the station refuses a complete PUT: of a refused *)
(* one the client had already sent a successor (main.py:48-58), so that one *)
(* that waits for each answer is never refused (PatientAnsweredHolds).      *)
THEOREM OnlyGluedIsRefusedHolds == Spec => []OnlyGluedIsRefused
<1>1. Init => OnlyGluedIsRefused
  BY DEF Init, OnlyGluedIsRefused
<1>2. IInv => TypeOK /\ Numbered
  BY DEF IInv
<1> QED BY <1>1, <1>2, RefusedInductive, Invariant, PTL DEF Spec

(* A table that holds a record without its timestamp. *)
Spoilt(v) == \E r \in ToSet(db[v]) : ~r.stamped

SpoiltForGood ==
  \A v \in Vars : Spoilt(v) =>
    /\ Spoilt(v)'
    /\ \A c \in Conns :
         Unlock(c) /\ job[c].kind \in {"GET", "RANGE"} /\ job[c].var = v =>
           ans'[c] = Plain("Error")

LEMMA TableGrows ==
  ASSUME IInv, [Next]_vars, NEW v \in Vars
  PROVE  ToSet(db[v]) \subseteq ToSet(db'[v])
<1>1. CASE db' = db
  BY <1>1
<1>2. ASSUME NEW c \in Conns, Unlock(c), db' # db
      PROVE  ToSet(db[v]) \subseteq ToSet(db'[v])
  <2>1. /\ job[c] \in Requests /\ job[c].var \in Vars
        /\ db' = [db EXCEPT ![job[c].var] = Append(db[job[c].var], RecordOf(c))]
    BY <1>2, Inserted DEF IInv
  <2>2. \A w \in Vars : db[w] \in Seq(Records)
    BY DEF IInv, TypeOK
  <2>3. CASE v # job[c].var
    BY <2>1, <2>2, <2>3 DEF IInv, TypeOK
  <2>4. CASE v = job[c].var
    <3>1. db'[v] = Append(db[v], RecordOf(c)) /\ RecordOf(c) \in Records
      BY <2>1, <2>4, RecordType DEF IInv, TypeOK
    <3>2. /\ Len(db'[v]) = Len(db[v]) + 1 /\ Len(db[v]) \in Nat /\ db'[v] \in Seq(Records)
          /\ \A i \in 1 .. Len(db[v]) : db'[v][i] = db[v][i]
      BY <2>2, <3>1, Appended
    <3>3. DOMAIN db'[v] = 1 .. Len(db[v]) + 1 /\ DOMAIN db[v] = 1 .. Len(db[v])
      BY <2>2, <3>2
    <3> QED BY <3>2, <3>3 DEF ToSet
  <2> QED BY <2>3, <2>4
<1> QED BY <1>1, <1>2 DEF Next, Handler, Rest, vars, station, Send, Read, Close, Recv,
           RecvClosed, Lock, Reply, ReplyClosed

(* One PUT without a timestamp ends all searches of its variable: the       *)
(* record is never removed, and every search that meets it raises KeyError  *)
(* (main.py:12, 31, 64-69).                                                 *)
THEOREM SpoiltForGoodHolds == Spec => [][SpoiltForGood]_vars
<1>1. ASSUME IInv, [Next]_vars PROVE SpoiltForGood
  <2> SUFFICES ASSUME NEW v \in Vars, Spoilt(v) PROVE
                 /\ Spoilt(v)'
                 /\ \A c \in Conns :
                      Unlock(c) /\ job[c].kind \in {"GET", "RANGE"} /\ job[c].var = v =>
                        ans'[c] = Plain("Error")
    BY DEF SpoiltForGood
  <2>1. Spoilt(v)'
    BY <1>1, TableGrows DEF Spoilt
  <2>2. ASSUME NEW c \in Conns, Unlock(c), job[c].kind \in {"GET", "RANGE"}, job[c].var = v
        PROVE  ans'[c] = Plain("Error")
    <3>1. ans' = [ans EXCEPT ![c] = Lookup(snap[c][v], job[c])]
      BY <2>2 DEF Unlock
    <3>2. snap[c] = db /\ c \in DOMAIN ans
      BY <1>1, <2>2 DEF Unlock, IInv, Owned, TypeOK
    <3>3. Lookup(db[v], job[c]) = Plain("Error")
      BY DEF Lookup, Spoilt
    <3> QED BY <3>1, <3>2, <3>3
  <2> QED BY <2>1, <2>2
<1> QED BY <1>1, Invariant, PTL DEF Spec

-----------------------------------------------------------------------------
(* The station implements LogStore. *)

LEMMA SameStored == LS!Stored = Stored
  BY DEF LS!Stored, Stored, ToSet

LEMMA StepImplements ==
  ASSUME IInv, Next
  PROVE  LS!Next \/ UNCHANGED <<db, acked>>
<1>1. ASSUME NEW c \in Conns, Unlock(c) PROVE LS!Next \/ UNCHANGED <<db, acked>>
  <2>1. CASE db' = db
    BY <1>1, <2>1 DEF Unlock
  <2>2. CASE /\ job[c] \in Requests
             /\ job[c].var \in Vars
             /\ db' = [db EXCEPT ![job[c].var] = Append(db[job[c].var], RecordOf(c))]
    <3>1. RecordOf(c) \in Records /\ RecordOf(c).by = c /\ RecordOf(c).n = job[c].n
      BY <2>2, RecordType
    <3>2. RecordOf(c) \notin Stored
      BY <1>1, <2>2, NewRecord
    <3>3. LS!Insert(job[c].var, RecordOf(c))
      BY <1>1, <2>2, <3>2, SameStored DEF LS!Insert, Unlock
    <3> QED BY <2>2, <3>1, <3>3 DEF LS!Next
  <2> QED BY <1>1, <2>1, <2>2, Inserted DEF IInv
<1>2. ASSUME NEW c \in Conns, Reply(c) PROVE LS!Next \/ UNCHANGED <<db, acked>>
  <2>1. CASE ans[c].type = "OK"
    <3>1. RecordOf(c) \in Stored /\ RecordOf(c) \in Records
      BY <1>2, <2>1, RecordType DEF Reply, IInv, Backed, TypeOK
    <3>2. LS!Acknowledge(RecordOf(c))
      BY <1>2, <2>1, <3>1, SameStored DEF LS!Acknowledge, Reply
    <3> QED BY <3>1, <3>2 DEF LS!Next
  <2>2. CASE ans[c].type # "OK"
    BY <1>2, <2>2 DEF Reply
  <2> QED BY <2>1, <2>2
<1>3. ASSUME NEW c \in Conns,
             Send(c) \/ Read(c) \/ Close(c) \/ Recv(c) \/ RecvClosed(c) \/ Lock(c)
               \/ ReplyClosed(c)
      PROVE  UNCHANGED <<db, acked>>
  BY <1>3 DEF Send, Read, Close, Recv, RecvClosed, Lock, ReplyClosed, station
<1> QED BY <1>1, <1>2, <1>3 DEF Next, Handler, Rest, vars, station

(* A table only grows, by one new record at a time, and a record answered   *)
(* with OK has been stored: log_into_db, whatever the other threads do.     *)
THEOREM Implements == Spec => StoreSpec
<1>1. Init => LS!Init
  BY DEF Init, LS!Init, NoFile
<1>2. IInv /\ [Next]_vars => [LS!Next]_<<db, acked>>
  BY StepImplements DEF vars, station
<1> QED BY <1>1, <1>2, Invariant, PTL DEF Spec, StoreSpec, LS!Spec
=============================================================================
