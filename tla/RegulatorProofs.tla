--------------------------- MODULE RegulatorProofs ---------------------------
(* Theorems about Regulator, for every set of clients and every bound. *)
EXTENDS Regulator, TLAPS

LEMMA OlderType == \A a \in Age : Older(a) \in Age
  BY BoundsAssumption DEF Older, Age

(* Beginning a round keeps a queue of answers a queue of answers. *)
LEMMA AgedQueue ==
  ASSUME NEW s \in Seq(Age)
  PROVE  [i \in DOMAIN s |-> Older(s[i])] \in Seq(Age)
<1>1. Len(s) \in Nat /\ DOMAIN s = 1 .. Len(s) /\ \A i \in 1 .. Len(s) : s[i] \in Age
  OBVIOUS
<1>2. [i \in DOMAIN s |-> Older(s[i])] \in [1 .. Len(s) -> Age]
  BY <1>1, OlderType
<1> QED BY <1>1, <1>2

LEMMA LaunchType ==
  ASSUME TypeOK, NEW job, NEW next, Launch(job, next),
         \A c \in DOMAIN job \cap Clients : job[c] \in Jobs(c)
  PROVE  /\ thread' \in [Clients -> UNION {Jobs(c) : c \in Clients}]
         /\ \A c \in Clients : thread'[c] \in Jobs(c)
         /\ pc' \in {next, "aborted"}
  BY DEF Launch, TypeOK

LEMMA ReopenType ==
  ASSUME TypeOK, NEW cs \in SUBSET Unicast, NEW next, Reopen(cs, next)
  PROVE  /\ thread' \in [Clients -> UNION {Jobs(c) : c \in Clients}]
         /\ \A c \in Clients : thread'[c] \in Jobs(c)
         /\ pc' \in {next, "aborted"}
         /\ conn' \in [Unicast -> Links]
         /\ pend' \in [Unicast -> 0 .. Capacity]
         /\ inbox' \in [Unicast -> Seq(Age)]
         /\ torn' \in [DataClients -> BOOLEAN]
<1>1. \A c \in cs : "reconnect" \in Jobs(c)
  BY ClientsAssumption DEF Jobs, Unicast
<1>2. Launch([c \in cs |-> "reconnect"], next)
  BY DEF Reopen
<1>3. /\ thread' \in [Clients -> UNION {Jobs(c) : c \in Clients}]
      /\ \A c \in Clients : thread'[c] \in Jobs(c)
      /\ pc' \in {next, "aborted"}
  BY <1>1, <1>2, LaunchType
<1>4. conn' \in [Unicast -> Links]
  BY DEF Reopen, NewSockets, TypeOK, Links
<1>5. pend' \in [Unicast -> 0 .. Capacity]
  BY BoundsAssumption DEF Reopen, NewSockets, TypeOK
<1>6. inbox' \in [Unicast -> Seq(Age)]
  BY DEF Reopen, NewSockets, TypeOK
<1>7. torn' \in [DataClients -> BOOLEAN]
  BY DEF Reopen, NewSockets, TypeOK
<1> QED BY <1>3, <1>4, <1>5, <1>6, <1>7

(* One worker's job, its other fields of state apart. *)
LEMMA JobType ==
  ASSUME TypeOK, NEW c \in Clients, NEW j \in Jobs(c),
         thread' = [thread EXCEPT ![c] = j]
  PROVE  /\ thread' \in [Clients -> UNION {Jobs(d) : d \in Clients}]
         /\ \A d \in Clients : thread'[d] \in Jobs(d)
  BY DEF TypeOK

LEMMA EndsType ==
  ASSUME TypeOK, NEW c \in Unicast, NEW r \in Result, Ends(c, r)
  PROVE  /\ thread' \in [Clients -> UNION {Jobs(d) : d \in Clients}]
         /\ \A d \in Clients : thread'[d] \in Jobs(d)
         /\ result' \in [Unicast -> Result]
<1>1. c \in Clients /\ "done" \in Jobs(c)
  BY DEF Clients, Jobs
<1>2. thread' = [thread EXCEPT ![c] = "done"]
  BY DEF Ends
<1>3. result' \in [Unicast -> Result]
  BY DEF Ends, TypeOK
<1> QED BY <1>1, <1>2, <1>3, JobType

LEMMA InitType == Init => TypeOK
<1> SUFFICES ASSUME Init PROVE TypeOK
  OBVIOUS
<1>1. \A c \in Clients : thread[c] \in Jobs(c)
  BY ClientsAssumption DEF Init, Jobs, Clients, Unicast
<1>2. thread \in [Clients -> UNION {Jobs(c) : c \in Clients}]
  BY <1>1 DEF Init
<1>3. items \in 0 .. NItems /\ \A c \in Unicast : pend[c] \in 0 .. Capacity
  BY BoundsAssumption DEF Init
<1> QED BY <1>1, <1>2, <1>3 DEF Init, TypeOK, Result, Links

LEMMA MainType == TypeOK /\ Main => TypeOK'
<1> SUFFICES ASSUME TypeOK, Main PROVE TypeOK'
  OBVIOUS
<1> USE DEF net
<1>1. CASE Start
  <2>1. \A c \in Clients : "none" \in Jobs(c)
    BY DEF Jobs
  <2> QED BY <1>1, <2>1 DEF Start, TypeOK
<1>2. CASE RelinkLogger
  <2>1. CASE result[Logger] = "success"
    BY <1>2, <2>1 DEF RelinkLogger, TypeOK
  <2>2. CASE result[Logger] # "success"
    <3>1. {Logger} \in SUBSET Unicast
      BY DEF Unicast
    <3>2. Reopen({Logger}, "request")
      BY <1>2, <2>2 DEF RelinkLogger
    <3> HIDE DEF net
    <3> QED BY <1>2, <3>1, <3>2, ReopenType DEF RelinkLogger, TypeOK, Halting
  <2> QED BY <2>1, <2>2
<1>3. CASE Request
  <2> DEFINE asked == {c \in DataClients : result[c] = "success"}
             job == [c \in asked \cup {TimeClient} |->
                       IF c = TimeClient THEN "time" ELSE "send"]
  <2>1. \A c \in DOMAIN job : job[c] \in Jobs(c)
    BY ClientsAssumption DEF Jobs, Unicast
  <2>2. Launch(job, "join")
    BY <1>3 DEF Request
  <2>3. /\ thread' \in [Clients -> UNION {Jobs(c) : c \in Clients}]
        /\ \A c \in Clients : thread'[c] \in Jobs(c)
        /\ pc' \in {"join", "aborted"}
    <3> HIDE DEF job
    <3> QED BY <2>1, <2>2, LaunchType
  <2>4. inbox' \in [Unicast -> Seq(Age)]
    <3>1. \A c \in Unicast : inbox[c] \in Seq(Age)
      BY DEF TypeOK
    <3>2. \A c \in Unicast :
            [i \in DOMAIN inbox[c] |-> Older(inbox[c][i])] \in Seq(Age)
      BY <3>1, AgedQueue
    <3> QED BY <1>3, <3>1, <3>2 DEF Request
  <2>5. data' \in [DataClients -> SUBSET Age]
    BY <1>3, OlderType DEF Request, TypeOK
  <2> HIDE DEF job
  <2> QED BY <1>3, <2>3, <2>4, <2>5 DEF Request, TypeOK, Halting
<1>4. ASSUME NEW here, NEW next \in {"relink", "top"}, Join(here, next)
      PROVE  TypeOK'
  <2>1. \A c \in Clients : "none" \in Jobs(c)
    BY DEF Jobs
  <2> QED BY <1>4, <2>1 DEF Join, TypeOK
<1>5. CASE JoinRequests
  BY <1>4, <1>5 DEF JoinRequests
<1>6. CASE JoinRelinks
  BY <1>4, <1>6 DEF JoinRelinks
<1>7. CASE Relink
  <2> DEFINE cs == {c \in DataClients : result[c] \in Failing}
  <2>1. cs \in SUBSET Unicast /\ Reopen(cs, "compute")
    BY <1>7 DEF Relink, Unicast
  <2> HIDE DEF cs
  <2> QED BY <1>7, <2>1, ReopenType DEF Relink, TypeOK, Halting
<1>8. CASE Compute
  BY <1>8 DEF Compute, TypeOK, Halting
<1>9. CASE Log
  <2>1. Logger \in Clients /\ "log" \in Jobs(Logger) /\ "none" \in Jobs(Logger)
    BY ClientsAssumption DEF Jobs, Clients, Unicast
  <2>2. \E j \in Jobs(Logger) : thread' = [thread EXCEPT ![Logger] = j]
    BY <1>9, <2>1 DEF Log
  <2>3. /\ thread' \in [Clients -> UNION {Jobs(d) : d \in Clients}]
        /\ \A d \in Clients : thread'[d] \in Jobs(d)
    BY <2>1, <2>2, JobType
  <2>4. items' \in 0 .. NItems
    BY <1>9, BoundsAssumption DEF Log, TypeOK
  <2> QED BY <1>9, <2>3, <2>4 DEF Log, TypeOK
<1> QED BY <1>1, <1>2, <1>3, <1>5, <1>6, <1>7, <1>8, <1>9 DEF Main

LEMMA WorkerType ==
  TypeOK /\ (\/ AskTime \/ LogItem
             \/ \E c \in DataClients : Work(c) \/ Expire(c)
             \/ \E c \in Unicast : Establish(c) \/ Connect(c)) => TypeOK'
<1> USE DEF net
<1>1. ASSUME TypeOK, AskTime PROVE TypeOK'
  <2>1. TimeClient \in Clients /\ "done" \in Jobs(TimeClient)
    BY DEF Clients, Jobs
  <2>2. /\ thread' \in [Clients -> UNION {Jobs(d) : d \in Clients}]
        /\ \A d \in Clients : thread'[d] \in Jobs(d)
    BY <1>1, <2>1, JobType DEF AskTime
  <2> QED BY <1>1, <2>2 DEF AskTime, TypeOK
<1>2. ASSUME TypeOK, LogItem PROVE TypeOK'
  <2>1. /\ Logger \in Clients /\ Logger \in Unicast
        /\ "done" \in Jobs(Logger) /\ "log" \in Jobs(Logger)
    BY ClientsAssumption DEF Clients, Jobs, Unicast
  <2>2. \E j \in Jobs(Logger) : thread' = [thread EXCEPT ![Logger] = j]
    BY <1>2, <2>1 DEF LogItem
  <2>3. /\ thread' \in [Clients -> UNION {Jobs(d) : d \in Clients}]
        /\ \A d \in Clients : thread'[d] \in Jobs(d)
    BY <1>1, <1>2, <2>1, <2>2, JobType
  <2>4. items' \in 0 .. NItems
    BY <1>2, BoundsAssumption DEF LogItem, TypeOK
  <2>5. pend' \in [Unicast -> 0 .. Capacity]
    <3>1. \/ UNCHANGED pend
          \/ pend[Logger] < Capacity /\ pend' = [pend EXCEPT ![Logger] = @ + 1]
      BY <1>2 DEF LogItem
    <3>2. /\ pend \in [Unicast -> 0 .. Capacity]
          /\ pend[Logger] \in 0 .. Capacity
      BY <1>2, <2>1 DEF TypeOK
    <3>3. pend[Logger] < Capacity => pend[Logger] + 1 \in 0 .. Capacity
      BY <3>2, BoundsAssumption
    <3> QED BY <3>1, <3>2, <3>3
  <2>6. result' \in [Unicast -> Result]
    BY <1>2, <2>1 DEF LogItem, TypeOK, Result, Failing
  <2> QED BY <1>2, <2>3, <2>4, <2>5, <2>6 DEF LogItem, TypeOK
<1>3. ASSUME TypeOK, NEW c \in DataClients, Send(c) PROVE TypeOK'
  <2>1. /\ c \in Unicast /\ c \in Clients /\ "recv" \in Jobs(c)
        /\ "wouldBlock" \in Result /\ "genericError" \in Result
        /\ "success" \in Result /\ Failing \subseteq Result
    BY ClientsAssumption DEF Clients, Unicast, Jobs, Result, Failing
  <2>2. /\ thread' \in [Clients -> UNION {Jobs(d) : d \in Clients}]
        /\ \A d \in Clients : thread'[d] \in Jobs(d)
        /\ result' \in [Unicast -> Result]
    <3>1. CASE \E r \in Result : Ends(c, r)
      BY <1>3, <2>1, <3>1, EndsType
    <3>2. CASE /\ thread' = [thread EXCEPT ![c] = "recv"]
               /\ result' = [result EXCEPT ![c] = "success"]
      <4>1. result' \in [Unicast -> Result]
        BY <1>3, <2>1, <3>2 DEF TypeOK
      <4> QED BY <1>3, <2>1, <3>2, <4>1, JobType
    <3> QED BY <1>3, <2>1, <3>1, <3>2 DEF Send
  <2>3. pend' \in [Unicast -> 0 .. Capacity]
    <3>1. \/ UNCHANGED pend
          \/ pend[c] < Capacity /\ pend' = [pend EXCEPT ![c] = @ + 1]
      BY <1>3 DEF Send
    <3>2. pend \in [Unicast -> 0 .. Capacity] /\ pend[c] \in 0 .. Capacity
      BY <1>3, <2>1 DEF TypeOK
    <3>3. pend[c] < Capacity => pend[c] + 1 \in 0 .. Capacity
      BY <3>2, BoundsAssumption
    <3> QED BY <3>1, <3>2, <3>3
  <2>4. data' \in [DataClients -> SUBSET Age] /\ late' \in [DataClients -> BOOLEAN]
    BY <1>3 DEF Send, TypeOK
  <2> QED BY <1>3, <2>2, <2>3, <2>4 DEF Send, TypeOK
<1>4. ASSUME TypeOK, NEW c \in DataClients, Recv(c) PROVE TypeOK'
  <2>1. c \in Unicast /\ "success" \in Result
    BY DEF Unicast, Result
  <2>2. /\ thread' \in [Clients -> UNION {Jobs(d) : d \in Clients}]
        /\ \A d \in Clients : thread'[d] \in Jobs(d)
        /\ result' \in [Unicast -> Result]
    BY <1>4, <2>1, EndsType DEF Recv
  <2> DEFINE s == inbox[c]
             n == Len(s)
             q == IF n <= PerRecv THEN <<>> ELSE SubSeq(s, PerRecv + 1, n)
  <2>3. s \in Seq(Age) /\ s # <<>>
    BY <1>4, <2>1 DEF Recv, TypeOK
  <2>4. Head(s) \in Age /\ q \in Seq(Age)
    BY <2>3, BoundsAssumption
  <2>5. data' \in [DataClients -> SUBSET Age]
    BY <1>4, <2>4 DEF Recv, TypeOK
  <2>6. inbox' = [inbox EXCEPT ![c] = q]
    BY <1>4 DEF Recv
  <2>7. inbox' \in [Unicast -> Seq(Age)]
    <3> HIDE DEF q
    <3> QED BY <1>4, <2>4, <2>6 DEF TypeOK
  <2>8. torn' \in [DataClients -> BOOLEAN]
    BY <1>4, BoundsAssumption DEF Recv, TypeOK
  <2> QED BY <1>4, <2>2, <2>5, <2>7, <2>8 DEF Recv, TypeOK
<1>5. ASSUME TypeOK, NEW c \in DataClients,
             RecvTorn(c) \/ RecvError(c) \/ RecvTimeout(c)
      PROVE  TypeOK'
  <2>1. c \in Unicast /\ "success" \in Result /\ Failing \subseteq Result
    BY DEF Unicast, Result
  <2>2. CASE RecvTorn(c)
    BY <2>2, <1>5 DEF RecvTorn, TypeOK, Halting
  <2>3. CASE RecvError(c)
    <3>1. \E r \in Result : Ends(c, r)
      BY <2>1, <2>3 DEF RecvError
    <3> QED BY <1>5, <2>1, <2>3, <3>1, EndsType DEF RecvError, TypeOK
  <2>4. CASE RecvTimeout(c)
    BY <1>5, <2>1, <2>4, EndsType DEF RecvTimeout, TypeOK
  <2> QED BY <1>5, <2>2, <2>3, <2>4
<1>6. ASSUME TypeOK, NEW c \in DataClients, Expire(c) PROVE TypeOK'
  BY <1>6 DEF Expire, TypeOK
<1>7. ASSUME TypeOK, NEW c \in Unicast,
             Establish(c) \/ Reestablish(c) \/ GiveUp(c)
      PROVE  TypeOK'
  <2>1. "success" \in Result /\ "connectionReset" \in Result /\ result[c] \in Result
    BY <1>7 DEF Result, Failing, TypeOK
  <2>2. \E r \in Result : Ends(c, r)
    BY <1>7, <2>1 DEF Establish, Reestablish, GiveUp
  <2>3. conn' \in [Unicast -> Links]
    BY <1>7 DEF Establish, Reestablish, GiveUp, Connected, TypeOK, Links
  <2> QED BY <1>7, <2>2, <2>3, EndsType DEF Establish, Reestablish, GiveUp, TypeOK
<1> QED BY <1>1, <1>2, <1>3, <1>4, <1>5, <1>6, <1>7 DEF Work, Recieve, Connect

LEMMA PeerType ==
  ASSUME TypeOK, NEW c \in Unicast, Peer(c)
  PROVE  TypeOK'
<1>1. \A d \in Unicast : inbox[d] \in Seq(Age) /\ Append(inbox[d], 0) \in Seq(Age)
  BY BoundsAssumption DEF TypeOK, Age
<1>2. CASE Answer(c)
  <2>1. pend' \in [Unicast -> 0 .. Capacity]
    BY <1>2, BoundsAssumption DEF Answer, TypeOK
  <2> QED BY <1>1, <1>2, <2>1 DEF Answer, TypeOK
<1>3. CASE Greet(c)
  BY <1>1, <1>3 DEF Greet, TypeOK, Links
<1>4. CASE Drop(c)
  <2>1. pend' \in [Unicast -> 0 .. Capacity] /\ conn' \in [Unicast -> Links]
    BY <1>4, BoundsAssumption DEF Drop, TypeOK, Links
  <2>2. inbox' \in [Unicast -> Seq(Age)]
    <3>1. <<>> \in Seq(Age)
      OBVIOUS
    <3>2. \/ UNCHANGED inbox
          \/ inbox' = [inbox EXCEPT ![c] = <<>>]
      BY <1>4 DEF Drop
    <3> QED BY <3>1, <3>2 DEF TypeOK
  <2>3. torn' \in [DataClients -> BOOLEAN]
    BY <1>4 DEF Drop, TypeOK
  <2> QED BY <1>4, <2>1, <2>2, <2>3 DEF Drop, TypeOK
<1> QED BY <1>2, <1>3, <1>4 DEF Peer

(* Every variable keeps its type, whatever the peers do. *)
THEOREM TypeCorrect == Spec => []TypeOK
<1>1. TypeOK /\ [Next]_vars => TypeOK'
  <2>1. ASSUME TypeOK, UNCHANGED vars PROVE TypeOK'
    BY <2>1 DEF vars, TypeOK
  <2>2. ASSUME TypeOK, Next PROVE TypeOK'
    BY <2>1, <2>2, MainType, WorkerType, PeerType DEF Next, Stopped
  <2> QED BY <2>1, <2>2
<1> QED BY InitType, <1>1, PTL DEF Spec

-----------------------------------------------------------------------------
(* The discipline of the threads.  NoSharedUse is not inductive: a client   *)
(* whose reconnection runs while main computes must have been emptied by    *)
(* the request that failed, which relates the Json to the result.           *)

(* A full Json belongs to a healthy client that nothing is writing for. *)
FullIsHealthy ==
  \A c \in DataClients :
    data[c] # {} => result[c] = "success" /\ thread[c] \notin {"recv", "reconnect"}

(* A request runs for a healthy client, a reconnection for a failed one. *)
JobFitsResult ==
  \A c \in DataClients :
    /\ thread[c] \in {"send", "recv"} => result[c] = "success"
    /\ thread[c] = "reconnect" => result[c] \in Failing

Discipline == TypeOK /\ NoSharedUse /\ FullIsHealthy /\ JobFitsResult

LEMMA InitDiscipline == Init => Discipline
  BY InitType, ClientsAssumption
  DEF Init, Discipline, NoSharedUse, FullIsHealthy, JobFitsResult, Clients, Unicast

LEMMA MainDiscipline == Discipline /\ Main => Discipline'
<1> SUFFICES ASSUME Discipline, Main
             PROVE  NoSharedUse' /\ FullIsHealthy' /\ JobFitsResult'
  BY MainType DEF Discipline
<1>0. /\ DataClients \subseteq Clients /\ TimeClient \in Clients
      /\ DataClients \subseteq Unicast /\ Joined \subseteq Clients
      /\ Logger \notin DataClients /\ TimeClient \notin Unicast
  BY ClientsAssumption DEF Clients, Unicast, Joined
<1> USE <1>0 DEF Discipline, Joined
<1>1. CASE Start
  BY <1>1 DEF Start, NoSharedUse, FullIsHealthy, JobFitsResult
<1>2. CASE RelinkLogger
  <2>1. \A c \in DataClients \cup {TimeClient} : thread'[c] = thread[c]
    BY <1>2 DEF RelinkLogger, Reopen, NewSockets, Launch, TypeOK, Unicast
  <2>2. pc' \in {"request", "aborted"} /\ pc = "top"
    BY <1>2 DEF RelinkLogger, Reopen, NewSockets, Launch
  <2>3. UNCHANGED <<result, data>>
    BY <1>2 DEF RelinkLogger
  <2> QED BY <2>1, <2>2, <2>3 DEF NoSharedUse, FullIsHealthy, JobFitsResult
<1>3. CASE Request
  <2>1. pc = "request" /\ \A c \in Joined : thread[c] = "none"
    BY <1>3 DEF Request, NoSharedUse
  <2>2. /\ pc' = "join"
        /\ \A c \in DataClients :
             thread'[c] = IF result[c] = "success" THEN "send" ELSE "none"
    BY <1>3, <2>1 DEF Request, Launch
  <2>3. /\ UNCHANGED result
        /\ \A c \in DataClients : data'[c] # {} => data[c] # {}
    BY <1>3 DEF Request
  <2> QED BY <2>1, <2>2, <2>3 DEF NoSharedUse, FullIsHealthy, JobFitsResult
<1>4. ASSUME NEW here, NEW next \in {"relink", "top"}, Join(here, next)
      PROVE  NoSharedUse' /\ FullIsHealthy' /\ JobFitsResult'
  BY <1>4 DEF Join, NoSharedUse, FullIsHealthy, JobFitsResult
<1>5. CASE JoinRequests
  BY <1>4, <1>5 DEF JoinRequests
<1>6. CASE JoinRelinks
  BY <1>4, <1>6 DEF JoinRelinks
<1>7. CASE Relink
  <2>1. pc = "relink" /\ \A c \in Joined : thread[c] = "none"
    BY <1>7 DEF Relink, NoSharedUse
  <2>2. /\ pc' = "compute"
        /\ \A c \in DataClients :
             thread'[c] = IF result[c] \in Failing THEN "reconnect" ELSE "none"
    BY <1>7, <2>1 DEF Relink, Reopen, NewSockets, Launch
  <2>3. UNCHANGED <<result, data>>
    BY <1>7 DEF Relink
  <2>4. \A c \in DataClients : "reconnect" \in Jobs(c)
    BY DEF Jobs
  <2>5. \A c \in DataClients : result[c] \in Failing => data[c] = {}
    BY DEF FullIsHealthy, Failing
  <2> QED BY <2>2, <2>3, <2>4, <2>5 DEF NoSharedUse, FullIsHealthy, JobFitsResult
<1>8. CASE Compute
  BY <1>8 DEF Compute, NoSharedUse, FullIsHealthy, JobFitsResult
<1>9. CASE Log
  <2>1. \A c \in DataClients : thread'[c] = thread[c]
    BY <1>9 DEF Log, TypeOK
  <2>2. UNCHANGED <<result, data>> /\ pc = "log" /\ pc' = "sleep"
    BY <1>9 DEF Log
  <2> QED BY <2>1, <2>2 DEF NoSharedUse, FullIsHealthy, JobFitsResult
<1> QED BY <1>1, <1>2, <1>3, <1>5, <1>6, <1>7, <1>8, <1>9 DEF Main

LEMMA WorkerDiscipline ==
  Discipline /\ (\/ AskTime \/ LogItem
                 \/ \E c \in DataClients : Work(c) \/ Expire(c)
                 \/ \E c \in Unicast : Establish(c) \/ Connect(c)) => Discipline'
<1> SUFFICES ASSUME Discipline,
                    \/ AskTime \/ LogItem
                    \/ \E c \in DataClients : Work(c) \/ Expire(c)
                    \/ \E c \in Unicast : Establish(c) \/ Connect(c)
             PROVE  NoSharedUse' /\ FullIsHealthy' /\ JobFitsResult'
  BY WorkerType DEF Discipline
<1>0. /\ DataClients \subseteq Clients /\ TimeClient \in Clients
      /\ DataClients \subseteq Unicast /\ Unicast \subseteq Clients
      /\ Logger \notin DataClients /\ TimeClient \notin Unicast
  BY ClientsAssumption DEF Clients, Unicast
<1> USE <1>0 DEF Discipline, Joined
<1>1. CASE AskTime
  BY <1>1 DEF AskTime, NoSharedUse, FullIsHealthy, JobFitsResult
<1>2. CASE LogItem
  <2>1. \A c \in DataClients \cup {TimeClient} : thread'[c] = thread[c]
    BY <1>2 DEF LogItem, TypeOK, Unicast
  <2>2. \A c \in DataClients : result'[c] = result[c]
    BY <1>2 DEF LogItem, TypeOK
  <2>3. UNCHANGED <<pc, data>>
    BY <1>2 DEF LogItem
  <2> QED BY <2>1, <2>2, <2>3 DEF NoSharedUse, FullIsHealthy, JobFitsResult
<1>3. ASSUME NEW c \in DataClients, Work(c)
      PROVE  NoSharedUse' /\ FullIsHealthy' /\ JobFitsResult'
  <2>1. /\ thread[c] \in {"send", "recv"}
        /\ pc \notin {"top", "request", "relink", "compute", "log", "sleep"}
    BY <1>3 DEF Work, Recieve, Send, Recv, RecvTorn, RecvError, RecvTimeout,
                NoSharedUse, Jobs
  <2>2. pc' \in {pc, "terminated"}
    BY <1>3 DEF Work, Recieve, Send, Recv, RecvTorn, RecvError, RecvTimeout
  <2>3. \A d \in DataClients \ {c} :
          thread'[d] = thread[d] /\ result'[d] = result[d] /\ data'[d] = data[d]
    BY <1>3 DEF Work, Recieve, Send, Recv, RecvTorn, RecvError, RecvTimeout,
                Ends, TypeOK
  <2>4. CASE Send(c)
    <3>1. /\ data'[c] = {}
          /\ \/ thread'[c] = "recv" /\ result'[c] = "success"
             \/ thread'[c] = "done"
      BY <2>4 DEF Send, Ends, TypeOK
    <3> QED BY <2>1, <2>2, <2>3, <3>1 DEF NoSharedUse, FullIsHealthy, JobFitsResult
  <2>5. CASE Recv(c)
    <3>1. thread'[c] = "done" /\ result'[c] = "success"
      BY <2>5 DEF Recv, Ends, TypeOK
    <3> QED BY <2>1, <2>2, <2>3, <3>1 DEF NoSharedUse, FullIsHealthy, JobFitsResult
  <2>6. CASE RecvTorn(c)
    BY <2>6 DEF RecvTorn, NoSharedUse, FullIsHealthy, JobFitsResult
  <2>7. CASE RecvError(c) \/ RecvTimeout(c)
    <3>1. thread'[c] = "done" /\ data'[c] = data[c] /\ thread[c] = "recv"
      BY <2>7 DEF RecvError, RecvTimeout, Ends, TypeOK
    <3>2. data[c] = {}
      BY <3>1 DEF FullIsHealthy
    <3> QED BY <2>1, <2>2, <2>3, <3>1, <3>2 DEF NoSharedUse, FullIsHealthy, JobFitsResult
  <2> QED BY <1>3, <2>4, <2>5, <2>6, <2>7 DEF Work, Recieve
<1>4. ASSUME NEW c \in DataClients, Expire(c)
      PROVE  NoSharedUse' /\ FullIsHealthy' /\ JobFitsResult'
  BY <1>4 DEF Expire, NoSharedUse, FullIsHealthy, JobFitsResult
<1>5. ASSUME NEW c \in Unicast, Establish(c) \/ Reestablish(c) \/ GiveUp(c)
      PROVE  NoSharedUse' /\ FullIsHealthy' /\ JobFitsResult'
  <2>1. /\ thread[c] \in {"connect", "reconnect"} /\ thread'[c] = "done"
        /\ thread[c] = "connect" => result'[c] = result[c]
        /\ UNCHANGED <<pc, data>>
    BY <1>5 DEF Establish, Reestablish, GiveUp, Ends, TypeOK
  <2>2. /\ \A d \in Clients \ {c} : thread'[d] = thread[d]
        /\ \A d \in Unicast \ {c} : result'[d] = result[d]
    BY <1>5 DEF Establish, Reestablish, GiveUp, Ends, TypeOK
  <2>3. c \in DataClients => "done" \in Jobs(c)
    BY DEF Jobs
  <2> QED BY <2>1, <2>2, <2>3 DEF NoSharedUse, FullIsHealthy, JobFitsResult
<1> QED BY <1>1, <1>2, <1>3, <1>4, <1>5 DEF Connect

LEMMA PeerDiscipline == \A c \in Unicast : Discipline /\ Peer(c) => Discipline'
  BY PeerType
  DEF Discipline, Peer, Answer, Greet, Drop, NoSharedUse, FullIsHealthy, JobFitsResult

LEMMA StepDiscipline == Discipline /\ [Next]_vars => Discipline'
<1>1. ASSUME Discipline, UNCHANGED vars PROVE Discipline'
  BY <1>1 DEF vars, Discipline, TypeOK, NoSharedUse, FullIsHealthy, JobFitsResult
<1>2. ASSUME Discipline, Next PROVE Discipline'
  BY <1>1, <1>2, MainDiscipline, WorkerDiscipline, PeerDiscipline DEF Next, Stopped
<1> QED BY <1>1, <1>2

(* The discipline of the threads is an invariant. *)
THEOREM Disciplined == Spec => []Discipline
  BY InitDiscipline, StepDiscipline, PTL DEF Spec

(* Main never uses what a worker can still write. *)
THEOREM NoSharedUseHolds == Spec => []NoSharedUse
<1>1. Discipline => NoSharedUse
  BY DEF Discipline
<1> QED BY <1>1, Disciplined, PTL

(* A failed client contributes nothing to a computation. *)
THEOREM FailedGivesNothingHolds == Spec => []FailedGivesNothing
<1>1. Discipline => FailedGivesNothing
  BY DEF Discipline, FullIsHealthy, FailedGivesNothing
<1> QED BY <1>1, Disciplined, PTL

(* The process aborts on the logger's unjoined thread only. *)
THEOREM AbortsOnlyOnLoggerHolds == Spec => AbortsOnlyOnLogger
<1>1. ASSUME Discipline, Next, pc' = "aborted", pc # "aborted"
      PROVE  pc = "top" /\ thread[Logger] # "none"
  <2>1. CASE Main
    <3>1. CASE RelinkLogger
      BY <3>1, <1>1 DEF RelinkLogger, Reopen, NewSockets, Launch
    <3>2. CASE Request
      BY <3>2, <1>1 DEF Request, Launch, Discipline, NoSharedUse, Joined
    <3>3. CASE Relink
      BY <3>3, <1>1 DEF Relink, Reopen, NewSockets, Launch, Discipline, NoSharedUse, Joined
    <3>4. CASE Start \/ JoinRequests \/ JoinRelinks \/ Compute \/ Log
      BY <3>4, <1>1 DEF Start, JoinRequests, JoinRelinks, Join, Compute, Log
    <3> QED BY <2>1, <3>1, <3>2, <3>3, <3>4 DEF Main
  <2>2. CASE AskTime \/ LogItem
    BY <2>2, <1>1 DEF AskTime, LogItem
  <2>3. ASSUME NEW c \in DataClients, Work(c) \/ Expire(c)
        PROVE  pc' \in {pc, "terminated"}
    BY <2>3 DEF Work, Recieve, Send, Recv, RecvTorn, RecvError, RecvTimeout, Expire
  <2>4. ASSUME NEW c \in Unicast, Establish(c) \/ Connect(c) \/ Peer(c)
        PROVE  pc' = pc
    BY <2>4 DEF Establish, Connect, Reestablish, GiveUp, Peer, Answer, Greet, Drop
  <2>5. CASE Stopped
    BY <2>5, <1>1 DEF Stopped, vars
  <2> QED BY <1>1, <2>1, <2>2, <2>3, <2>4, <2>5 DEF Next
<1>2. ASSUME Discipline, [Next]_vars
      PROVE  [pc' = "aborted" => pc = "top" /\ thread[Logger] # "none"]_vars
  <2>1. CASE UNCHANGED vars
    BY <2>1
  <2>2. CASE Next /\ pc # "aborted"
    BY <1>1, <1>2, <2>2
  <2>3. CASE Next /\ pc = "aborted"
    BY <2>3 DEF Next, Halted, Halting, Stopped
  <2> QED BY <1>2, <2>1, <2>2, <2>3
<1> QED BY <1>2, Disciplined, PTL DEF Spec, AbortsOnlyOnLogger

(* Once a client's send buffer has been full the client is not used again. *)
THEOREM WouldBlockIsFinalHolds == Spec => WouldBlockIsFinal
<1> DEFINE Final == \A c \in DataClients :
                      result[c] = "wouldBlock" => result'[c] = "wouldBlock"
<1>1. ASSUME Discipline, Next PROVE Final
  <2> TAKE c \in DataClients
  <2> HAVE result[c] = "wouldBlock"
  <2>1. /\ c \in Unicast /\ c \in Clients /\ c # Logger
        /\ thread[c] \notin {"send", "recv", "reconnect"}
        /\ result \in [Unicast -> Result]
    BY <1>1, ClientsAssumption
    DEF Discipline, JobFitsResult, Failing, Unicast, Clients, TypeOK
  <2>2. CASE Main
    BY <2>2 DEF Main, Start, RelinkLogger, Request, JoinRequests, JoinRelinks,
                Join, Relink, Compute, Log
  <2>3. CASE AskTime \/ LogItem
    BY <2>1, <2>3 DEF AskTime, LogItem
  <2>4. ASSUME NEW d \in DataClients, Work(d) \/ Expire(d)
        PROVE  result'[c] = result[c]
    BY <2>1, <2>4 DEF Work, Recieve, Send, Recv, RecvTorn, RecvError, RecvTimeout,
                      Expire, Ends
  <2>5. ASSUME NEW d \in Unicast, Establish(d) \/ Connect(d) \/ Peer(d)
        PROVE  result'[c] = result[c]
    BY <2>1, <2>5 DEF Establish, Connect, Reestablish, GiveUp, Ends,
                      Peer, Answer, Greet, Drop
  <2>6. CASE Stopped
    BY <2>6 DEF Stopped, vars
  <2> QED BY <1>1, <2>2, <2>3, <2>4, <2>5, <2>6 DEF Next
<1>2. ASSUME Discipline, [Next]_vars PROVE [Final]_vars
  BY <1>1, <1>2
<1> QED BY <1>2, Disciplined, PTL DEF Spec, WouldBlockIsFinal

-----------------------------------------------------------------------------
(* Connections.  What a worker is launched on is decided by the result, so  *)
(* the invariant says which results mean that the socket was connected.     *)

Linked ==
  ~Halted =>
    \A c \in Unicast :
      \/ result[c] = "success" /\ thread[c] \notin {"connect", "reconnect"}
      \/ thread[c] = "log"
      => conn[c] # "new"

LEMMA MainLinked == Discipline /\ Linked /\ Main => Linked'
<1> SUFFICES ASSUME Discipline, Linked, Main, ~Halted, ~Halted',
                    NEW c \in Unicast,
                    \/ result'[c] = "success" /\ thread'[c] \notin {"connect", "reconnect"}
                    \/ thread'[c] = "log"
             PROVE  conn'[c] # "new"
  BY DEF Linked, Main, Start, RelinkLogger, Request, JoinRequests, JoinRelinks,
         Join, Relink, Compute, Log, Halted, Halting
<1>0. /\ c \in Clients /\ TypeOK /\ c # TimeClient /\ Logger \notin DataClients
      /\ Logger \in Unicast
      /\ pc' # "aborted" /\ thread \in [Clients -> UNION {Jobs(d) : d \in Clients}]
  BY ClientsAssumption DEF Clients, Unicast, Discipline, Halted, Halting, TypeOK
<1>1. CASE Start
  BY <1>0, <1>1 DEF Start, Linked, Finished, net
<1>2. CASE RelinkLogger
  <2>1. CASE result[Logger] = "success"
    BY <1>0, <1>2, <2>1 DEF RelinkLogger, Linked, net
  <2>2. CASE result[Logger] # "success"
    <3>1. thread'[Logger] = "reconnect"
      BY <1>0, <1>2, <2>2 DEF RelinkLogger, Reopen, NewSockets, Launch, Clients
    <3>2. c # Logger => thread'[c] = thread[c] /\ conn'[c] = conn[c]
      BY <1>0, <1>2, <2>2 DEF RelinkLogger, Reopen, NewSockets, Launch
    <3> QED BY <1>2, <3>1, <3>2 DEF RelinkLogger, Linked
  <2> QED BY <2>1, <2>2
<1>3. CASE Request
  <2>1. \/ thread'[c] = thread[c]
        \/ thread'[c] = "send" /\ result[c] = "success" /\ thread[c] = "none"
    BY <1>0, <1>3 DEF Request, Launch
  <2> QED BY <1>3, <2>1 DEF Request, Linked
<1>4. ASSUME NEW here, NEW next, Join(here, next) PROVE conn'[c] # "new"
  BY <1>0, <1>4 DEF Join, Linked, Finished, net
<1>5. CASE JoinRequests \/ JoinRelinks
  BY <1>4, <1>5 DEF JoinRequests, JoinRelinks
<1>6. CASE Relink
  <2>1. \/ thread'[c] = thread[c] /\ conn'[c] = conn[c]
        \/ thread'[c] = "reconnect"
    BY <1>0, <1>6 DEF Relink, Reopen, NewSockets, Launch
  <2> QED BY <1>6, <2>1 DEF Relink, Linked
<1>7. CASE Compute
  BY <1>7 DEF Compute, Linked, net
<1>8. CASE Log
  BY <1>0, <1>8 DEF Log, Linked, Finished, net
<1> QED BY <1>1, <1>2, <1>3, <1>5, <1>6, <1>7, <1>8 DEF Main

LEMMA WorkerLinked ==
  Discipline /\ Linked /\ ~Halted /\
    (\/ AskTime \/ LogItem
     \/ \E d \in DataClients : Work(d) \/ Expire(d)
     \/ \E d \in Unicast : Establish(d) \/ Connect(d) \/ Peer(d)) => Linked'
<1> SUFFICES ASSUME Discipline, Linked, ~Halted,
                    \/ AskTime \/ LogItem
                    \/ \E d \in DataClients : Work(d) \/ Expire(d)
                    \/ \E d \in Unicast : Establish(d) \/ Connect(d) \/ Peer(d),
                    NEW c \in Unicast,
                    \/ result'[c] = "success" /\ thread'[c] \notin {"connect", "reconnect"}
                    \/ thread'[c] = "log"
             PROVE  conn'[c] # "new"
  BY DEF Linked
<1>0. /\ c \in Clients /\ c # TimeClient /\ Logger \in Unicast
      /\ thread \in [Clients -> UNION {Jobs(d) : d \in Clients}]
      /\ result \in [Unicast -> Result] /\ conn \in [Unicast -> Links]
  BY ClientsAssumption DEF Clients, Unicast, Discipline, TypeOK
<1>1. CASE AskTime
  BY <1>0, <1>1 DEF AskTime, Linked, net
<1>2. CASE LogItem
  BY <1>0, <1>2 DEF LogItem, Linked
<1>3. ASSUME NEW d \in DataClients, Work(d) \/ Expire(d) PROVE conn'[c] # "new"
  <2>1. UNCHANGED conn
    BY <1>3 DEF Work, Recieve, Send, Recv, RecvTorn, RecvError, RecvTimeout, Expire, net
  <2>2. d # c => thread'[c] = thread[c] /\ result'[c] = result[c]
    BY <1>0, <1>3 DEF Work, Recieve, Send, Recv, RecvTorn, RecvError, RecvTimeout,
                      Expire, Ends
  <2>3. d = c => thread[c] \in {"send", "recv"} /\ result[c] = "success"
    BY <1>3 DEF Work, Recieve, Send, Recv, RecvTorn, RecvError, RecvTimeout, Expire,
                Discipline, JobFitsResult
  <2> QED BY <2>1, <2>2, <2>3 DEF Linked
<1>4. ASSUME NEW d \in Unicast, Establish(d) \/ Reestablish(d) PROVE conn'[c] # "new"
  BY <1>0, <1>4 DEF Establish, Reestablish, Connected, Ends, Linked
<1>5. ASSUME NEW d \in Unicast, GiveUp(d) PROVE conn'[c] # "new"
  BY <1>0, <1>5 DEF GiveUp, Ends, Linked, net
<1>6. ASSUME NEW d \in Unicast, Peer(d) PROVE conn'[c] # "new"
  BY <1>0, <1>6 DEF Peer, Answer, Greet, Drop, Linked
<1> QED BY <1>1, <1>2, <1>3, <1>4, <1>5, <1>6 DEF Connect

LEMMA StepLinked == Discipline /\ Linked /\ [Next]_vars => Linked'
<1>1. ASSUME Linked, UNCHANGED vars PROVE Linked'
  BY <1>1 DEF vars, Linked, Halted
<1>2. ASSUME Discipline, Linked, Next PROVE Linked'
  BY <1>1, <1>2, MainLinked, WorkerLinked DEF Next, Stopped
<1> QED BY <1>1, <1>2

(* A client that may be used has a connected socket. *)
THEOREM LinkedHolds == Spec => []Linked
<1>1. Init => Linked
  BY ClientsAssumption DEF Init, Linked, Clients, Unicast
<1> QED BY <1>1, StepLinked, Disciplined, PTL DEF Spec

(* No worker sends or waits on a socket that was never connected. *)
THEOREM ConnectedBeforeUseHolds == Spec => []ConnectedBeforeUse
<1>1. Discipline /\ Linked => ConnectedBeforeUse
  <2> SUFFICES ASSUME Discipline, Linked, ~Halted, NEW c \in Unicast,
                      thread[c] \in {"send", "recv", "log"}
               PROVE  conn[c] # "new"
    BY DEF ConnectedBeforeUse
  <2>1. c \in Clients /\ c # TimeClient /\ thread[c] \in Jobs(c)
    BY ClientsAssumption DEF Clients, Discipline, TypeOK
  <2>2. c = Logger \/ c \in DataClients
    BY DEF Unicast
  <2>3. CASE c = Logger
    BY <2>1, <2>3 DEF Jobs, Linked
  <2>4. CASE c \in DataClients /\ c # Logger
    BY <2>1, <2>4 DEF Jobs, Linked, Discipline, JobFitsResult
  <2> QED BY <2>2, <2>3, <2>4
<1> QED BY <1>1, Disciplined, LinkedHolds, PTL

-----------------------------------------------------------------------------
(* Repair: the safety of FailedIsRelinked.  From its relinking on, a round  *)
(* has no failed client without a reconnection, running or given up, and    *)
(* nothing but a reconnection turns a failure into a success.               *)

Repaired ==
  pc \in {"compute", "log", "sleep"} =>
    \A c \in DataClients : result[c] \in Failing => thread[c] \in {"reconnect", "done"}

LEMMA MainRepaired == Discipline /\ Repaired /\ Main => Repaired'
<1> SUFFICES ASSUME Discipline, Repaired, Main, pc' \in {"compute", "log", "sleep"},
                    NEW c \in DataClients, result'[c] \in Failing
             PROVE  thread'[c] \in {"reconnect", "done"}
  BY DEF Repaired
<1>0. /\ c \in Clients /\ c # Logger /\ thread \in [Clients -> UNION {Jobs(d) : d \in Clients}]
      /\ result' = result
  BY ClientsAssumption
  DEF Clients, Unicast, Discipline, TypeOK, Main, Start, RelinkLogger, Request, JoinRequests,
      JoinRelinks, Join, Relink, Compute, Log
<1>1. CASE Relink
  BY <1>0, <1>1 DEF Relink, Reopen, NewSockets, Launch
<1>2. CASE Compute
  BY <1>0, <1>2 DEF Compute, Repaired
<1>3. CASE Log
  BY <1>0, <1>3 DEF Log, Repaired
<1>4. CASE Start \/ RelinkLogger \/ Request \/ JoinRequests \/ JoinRelinks
  BY <1>4 DEF Start, RelinkLogger, Reopen, Launch, Request, JoinRequests, JoinRelinks, Join
<1> QED BY <1>1, <1>2, <1>3, <1>4 DEF Main

LEMMA WorkerRepaired ==
  Discipline /\ Repaired /\
    (\/ AskTime \/ LogItem
     \/ \E d \in DataClients : Work(d) \/ Expire(d)
     \/ \E d \in Unicast : Establish(d) \/ Connect(d) \/ Peer(d)) => Repaired'
<1> SUFFICES ASSUME Discipline, Repaired,
                    \/ AskTime \/ LogItem
                    \/ \E d \in DataClients : Work(d) \/ Expire(d)
                    \/ \E d \in Unicast : Establish(d) \/ Connect(d) \/ Peer(d),
                    pc' \in {"compute", "log", "sleep"},
                    NEW c \in DataClients, result'[c] \in Failing
             PROVE  thread'[c] \in {"reconnect", "done"}
  BY DEF Repaired
<1>0. /\ c \in Clients /\ c \in Unicast /\ c # TimeClient /\ c # Logger
      /\ thread \in [Clients -> UNION {Jobs(d) : d \in Clients}]
      /\ result \in [Unicast -> Result]
  BY ClientsAssumption DEF Clients, Unicast, Discipline, TypeOK
<1>1. CASE AskTime \/ LogItem
  BY <1>0, <1>1 DEF AskTime, LogItem, Repaired
<1>2. ASSUME NEW d \in DataClients, Work(d) \/ Expire(d)
      PROVE  thread'[c] \in {"reconnect", "done"}
  <2>1. thread[d] \in {"send", "recv"} /\ pc' \in {pc, "terminated"}
    BY <1>2 DEF Work, Recieve, Send, Recv, RecvTorn, RecvError, RecvTimeout, Expire
  <2>2. thread[d] \notin {"send", "recv"}
    BY <2>1 DEF Discipline, NoSharedUse
  <2> QED BY <2>1, <2>2
<1>3. ASSUME NEW d \in Unicast, Establish(d) \/ Connect(d)
      PROVE  thread'[c] \in {"reconnect", "done"}
  BY <1>0, <1>3 DEF Establish, Connect, Reestablish, GiveUp, Ends, Repaired
<1>4. ASSUME NEW d \in Unicast, Peer(d) PROVE thread'[c] \in {"reconnect", "done"}
  BY <1>0, <1>4 DEF Peer, Answer, Greet, Drop, Repaired
<1> QED BY <1>1, <1>2, <1>3, <1>4

(* No round passes a failed client over: when it computes, logs and sleeps, *)
(* every client that failed is being reconnected or has just been given up  *)
(* once more (main.cpp:94-112).                                             *)
THEOREM NoFailureIsPassedOver == Spec => []Repaired
<1>1. Init => Repaired
  BY DEF Init, Repaired
<1>2. ASSUME Discipline, Repaired, [Next]_vars PROVE Repaired'
  <2>1. CASE UNCHANGED vars
    BY <1>2, <2>1 DEF vars, Repaired
  <2>2. CASE Next
    BY <1>2, <2>1, <2>2, MainRepaired, WorkerRepaired DEF Next, Stopped
  <2> QED BY <1>2, <2>1, <2>2
<1> QED BY <1>1, <1>2, Disciplined, PTL DEF Spec

(* Only a reconnection turns a failure into a success: no timeout, no late  *)
(* worker and no later request does (Client.cpp:91-105, 107-186).           *)
FailureStays ==
  \A c \in DataClients :
    result[c] \in Failing => result'[c] \in Failing \/ thread[c] = "reconnect"

THEOREM FailureStaysHolds == Spec => [][FailureStays]_vars
<1>1. ASSUME Discipline, Next PROVE FailureStays
  <2> SUFFICES ASSUME NEW c \in DataClients, result[c] \in Failing, thread[c] # "reconnect"
               PROVE  result'[c] \in Failing
    BY DEF FailureStays
  <2>1. /\ c \in Unicast /\ c \in Clients /\ c # Logger
        /\ thread[c] \notin {"send", "recv", "reconnect"}
        /\ result \in [Unicast -> Result]
    BY <1>1, ClientsAssumption
    DEF Discipline, JobFitsResult, Failing, Unicast, Clients, TypeOK
  <2>2. CASE Main
    BY <2>2 DEF Main, Start, RelinkLogger, Request, JoinRequests, JoinRelinks,
                Join, Relink, Compute, Log
  <2>3. CASE AskTime \/ LogItem
    BY <2>1, <2>3 DEF AskTime, LogItem
  <2>4. ASSUME NEW d \in DataClients, Work(d) \/ Expire(d)
        PROVE  result'[c] = result[c]
    BY <2>1, <2>4 DEF Work, Recieve, Send, Recv, RecvTorn, RecvError, RecvTimeout,
                      Expire, Ends
  <2>5. ASSUME NEW d \in Unicast, Establish(d) \/ Connect(d) \/ Peer(d)
        PROVE  result'[c] = result[c]
    BY <2>1, <2>5 DEF Establish, Connect, Reestablish, GiveUp, Ends,
                      Peer, Answer, Greet, Drop
  <2>6. CASE Stopped
    BY <2>6 DEF Stopped, vars
  <2> QED BY <1>1, <2>2, <2>3, <2>4, <2>5, <2>6 DEF Next
<1>2. ASSUME Discipline, [Next]_vars PROVE [FailureStays]_vars
  BY <1>1, <1>2
<1> QED BY <1>2, Disciplined, PTL DEF Spec

-----------------------------------------------------------------------------
(* Freshness.  The bound of one round holds because a receive empties the   *)
(* queue: outside a request the queue of a healthy client holds only what   *)
(* arrived since the round began, and it ages by one when the next begins.  *)

Empty(c) == inbox[c] = <<>> /\ ~torn[c]

QueueFresh(c) ==
  result[c] = "success" /\ ~torn[c] =>
    \A i \in DOMAIN inbox[c] :
      \/ inbox[c][i] = 0
      \/ inbox[c][i] = 1 /\ thread[c] \in {"send", "recv"}

Fresh ==
  CutMidAnswer /\ ~Halted =>
    \A c \in DataClients :
      /\ data[c] \subseteq {0, 1} \/ thread[c] = "send"
      /\ QueueFresh(c)
      /\ thread[c] = "reconnect" => Empty(c) /\ conn[c] = "new"

(* An answer that arrives is new, and the others keep their ages. *)
LEMMA Arrived ==
  ASSUME NEW s \in Seq(Age), NEW i \in DOMAIN Append(s, 0)
  PROVE  Append(s, 0)[i] = 0 \/ (i \in DOMAIN s /\ Append(s, 0)[i] = s[i])
<1>1. /\ Len(s) \in Nat /\ DOMAIN s = 1 .. Len(s)
      /\ DOMAIN Append(s, 0) = 1 .. Len(s) + 1
      /\ Append(s, 0)[Len(s) + 1] = 0
      /\ \A j \in 1 .. Len(s) : Append(s, 0)[j] = s[j]
  OBVIOUS
<1> QED BY <1>1

LEMMA MainFresh == Discipline /\ Fresh /\ ~Halted /\ Main => Fresh'
<1> SUFFICES ASSUME Discipline, Fresh, Main, CutMidAnswer, ~Halted, ~Halted',
                    NEW c \in DataClients
             PROVE  /\ data'[c] \subseteq {0, 1} \/ thread'[c] = "send"
                    /\ QueueFresh(c)'
                    /\ thread'[c] = "reconnect" => Empty(c)' /\ conn'[c] = "new"
  BY DEF Fresh, QueueFresh, Empty
<1>0. /\ c \in Clients /\ c \in Unicast /\ c \in Joined /\ c # TimeClient /\ c # Logger
      /\ ~Halted /\ pc' # "aborted"
      /\ thread \in [Clients -> UNION {Jobs(d) : d \in Clients}]
  BY ClientsAssumption DEF Clients, Unicast, Joined, Discipline, TypeOK, Halted, Halting
<1>1. CASE Start \/ JoinRequests \/ JoinRelinks
  <2>1. thread'[c] = "none" /\ UNCHANGED <<result, net, data>> /\ thread[c] \in {"none", "done"}
    BY <1>0, <1>1 DEF Start, JoinRequests, JoinRelinks, Join, Finished
  <2> QED BY <1>0, <2>1 DEF Fresh, QueueFresh, net
<1>2. CASE RelinkLogger
  <2>1. /\ thread'[c] = thread[c] /\ conn'[c] = conn[c] /\ inbox'[c] = inbox[c]
        /\ torn'[c] = torn[c] /\ data'[c] = data[c] /\ result'[c] = result[c]
    BY <1>0, <1>2 DEF RelinkLogger, Reopen, NewSockets, Launch, net
  <2> QED BY <1>0, <2>1 DEF Fresh, QueueFresh, Empty
<1>3. CASE Request
  <2>1. /\ thread[c] = "none" /\ UNCHANGED <<result, torn>>
        /\ thread'[c] = IF result[c] = "success" THEN "send" ELSE "none"
        /\ inbox'[c] = [i \in DOMAIN inbox[c] |-> Older(inbox[c][i])]
        /\ data'[c] = {Older(a) : a \in data[c]}
    BY <1>0, <1>3 DEF Request, Launch, Discipline, NoSharedUse
  <2>2. result[c] # "success" => data[c] = {}
    BY DEF Discipline, FullIsHealthy
  <2>3. Older(0) = 1
    BY BoundsAssumption DEF Older
  <2>4. QueueFresh(c)'
    BY <1>0, <2>1, <2>3 DEF Fresh, QueueFresh
  <2> QED BY <2>1, <2>2, <2>4
<1>4. CASE Relink
  <2>1. thread[c] = "none"
    BY <1>0, <1>4 DEF Relink, Discipline, NoSharedUse
  <2>2. CASE result[c] \in Failing
    BY <1>0, <1>4, <2>1, <2>2
    DEF Relink, Reopen, NewSockets, Launch, Fresh, QueueFresh, Empty, Failing
  <2>3. CASE result[c] \notin Failing
    <3>1. /\ thread'[c] = thread[c] /\ inbox'[c] = inbox[c] /\ torn'[c] = torn[c]
          /\ data'[c] = data[c] /\ result'[c] = result[c]
      BY <1>0, <1>4, <2>3 DEF Relink, Reopen, NewSockets, Launch
    <3> QED BY <1>0, <2>1, <3>1 DEF Fresh, QueueFresh
  <2> QED BY <2>2, <2>3
<1>5. CASE Compute \/ Log
  <2>1. thread'[c] = thread[c] /\ UNCHANGED <<result, net, data>>
    BY <1>0, <1>5 DEF Compute, Log
  <2> QED BY <1>0, <2>1 DEF Fresh, QueueFresh, Empty, net
<1> QED BY <1>1, <1>2, <1>3, <1>4, <1>5 DEF Main

LEMMA WorkerFresh ==
  Discipline /\ Fresh /\ ~Halted /\
    (\/ AskTime \/ LogItem
     \/ \E d \in DataClients : Work(d) \/ Expire(d)
     \/ \E d \in Unicast : Establish(d) \/ Connect(d) \/ Peer(d)) => Fresh'
<1> SUFFICES ASSUME Discipline, Fresh, ~Halted, CutMidAnswer, ~Halted',
                    \/ AskTime \/ LogItem
                    \/ \E d \in DataClients : Work(d) \/ Expire(d)
                    \/ \E d \in Unicast : Establish(d) \/ Connect(d) \/ Peer(d),
                    NEW c \in DataClients
             PROVE  /\ data'[c] \subseteq {0, 1} \/ thread'[c] = "send"
                    /\ QueueFresh(c)'
                    /\ thread'[c] = "reconnect" => Empty(c)' /\ conn'[c] = "new"
  BY DEF Fresh, QueueFresh, Empty
<1>0. /\ c \in Clients /\ c \in Unicast /\ c # TimeClient /\ c # Logger
      /\ thread \in [Clients -> UNION {Jobs(d) : d \in Clients}]
      /\ result \in [Unicast -> Result] /\ conn \in [Unicast -> Links]
      /\ inbox \in [Unicast -> Seq(Age)] /\ inbox[c] \in Seq(Age)
      /\ torn \in [DataClients -> BOOLEAN] /\ data \in [DataClients -> SUBSET Age]
  BY ClientsAssumption DEF Clients, Unicast, Discipline, TypeOK
<1> DEFINE Same == /\ thread'[c] = thread[c] /\ conn'[c] = conn[c]
                   /\ inbox'[c] = inbox[c] /\ torn'[c] = torn[c]
                   /\ data'[c] = data[c] /\ result'[c] = result[c]
           Goal == /\ data'[c] \subseteq {0, 1} \/ thread'[c] = "send"
                   /\ QueueFresh(c)'
                   /\ thread'[c] = "reconnect" => Empty(c)' /\ conn'[c] = "new"
<1>1. ASSUME Same PROVE Goal
  BY <1>0, <1>1 DEF Fresh, QueueFresh, Empty
<1>2. CASE AskTime \/ LogItem
  <2>1. Same
    BY <1>0, <1>2 DEF AskTime, LogItem, net
  <2> QED BY <1>1, <2>1
<1>3. ASSUME NEW d \in DataClients, Work(d) \/ Expire(d), d # c PROVE Goal
  <2>1. Same
    BY <1>0, <1>3 DEF Work, Recieve, Send, Recv, RecvTorn, RecvError, RecvTimeout,
                      Expire, Ends, net
  <2> QED BY <1>1, <2>1
<1>4. CASE Send(c)
  <2>1. /\ data'[c] = {} /\ UNCHANGED <<inbox, torn>> /\ thread[c] = "send"
        /\ result[c] = "success"
    BY <1>0, <1>4 DEF Send, Discipline, JobFitsResult
  <2>2. \/ thread'[c] = "recv"
        \/ thread'[c] = "done" /\ result'[c] # "success"
    BY <1>0, <1>4 DEF Send, Ends, Failing
  <2> QED BY <1>0, <2>1, <2>2 DEF Fresh, QueueFresh
<1>5. CASE Recv(c)
  <2>1. /\ thread[c] = "recv" /\ ~torn[c] /\ result[c] = "success" /\ inbox[c] # <<>>
        /\ thread'[c] = "done" /\ data'[c] = {Head(inbox[c])}
    BY <1>0, <1>5 DEF Recv, Ends, Discipline, JobFitsResult
  <2>2. 1 \in DOMAIN inbox[c] /\ Head(inbox[c]) = inbox[c][1]
    BY <1>0, <2>1
  <2>3. data'[c] \subseteq {0, 1}
    BY <1>0, <2>1, <2>2 DEF Fresh, QueueFresh
  <2>4. inbox'[c] = <<>> \/ torn'[c]
    <3>1. Len(inbox[c]) \in Nat /\ PerRecv \in Nat
      BY <1>0, BoundsAssumption
    <3>2. CASE Len(inbox[c]) <= PerRecv
      BY <1>0, <1>5, <3>2 DEF Recv
    <3>3. CASE Len(inbox[c]) > PerRecv
      BY <1>0, <1>5, <3>3 DEF Recv
    <3> QED BY <3>1, <3>2, <3>3
  <2> QED BY <2>1, <2>3, <2>4 DEF QueueFresh
<1>6. CASE RecvError(c) \/ RecvTimeout(c)
  <2>1. /\ inbox'[c] = <<>> /\ data'[c] = data[c] /\ thread[c] = "recv"
        /\ thread'[c] = "done"
    BY <1>0, <1>6 DEF RecvError, RecvTimeout, Ends, net
  <2> QED BY <1>0, <2>1 DEF Fresh, QueueFresh
<1>7. CASE RecvTorn(c)
  BY <1>7 DEF RecvTorn, Halted, Halting
<1>8. CASE Expire(c)
  <2>1. Same
    BY <1>8 DEF Expire, net
  <2> QED BY <1>1, <2>1
<1>9. ASSUME NEW d \in Unicast, Establish(d) \/ Connect(d) PROVE Goal
  <2>1. /\ d # c => Same
        /\ inbox'[c] = inbox[c] /\ torn'[c] = torn[c] /\ data'[c] = data[c]
        /\ d = c => thread'[c] = "done" /\ thread[c] \in {"connect", "reconnect"}
    BY <1>0, <1>9 DEF Establish, Connect, Reestablish, GiveUp, Connected, Ends, net
  <2>2. d = c /\ thread[c] = "connect" => result'[c] = result[c]
    BY <1>0, <1>9 DEF Establish, Connect, Reestablish, GiveUp, Ends
  <2>3. CASE d = c
    BY <1>0, <2>1, <2>2, <2>3 DEF Fresh, QueueFresh, Empty
  <2> QED BY <1>1, <2>1, <2>3
<1>10. ASSUME NEW d \in Unicast, Peer(d) PROVE Goal
  <2>1. d # c => Same
    BY <1>0, <1>10 DEF Peer, Answer, Greet, Drop
  <2>2. CASE d = c
    <3>1. /\ thread' = thread /\ data' = data /\ result' = result
          /\ conn[c] # "new"
          /\ \/ inbox'[c] = inbox[c] /\ torn' = torn
             \/ inbox'[c] = <<>>
             \/ inbox'[c] = Append(inbox[c], 0) /\ torn' = torn
      BY <1>0, <1>10, <2>2 DEF Peer, Answer, Greet, Drop, Online
    <3>2. ASSUME inbox'[c] = Append(inbox[c], 0), NEW i \in DOMAIN inbox'[c]
          PROVE  inbox'[c][i] = 0 \/ (i \in DOMAIN inbox[c] /\ inbox'[c][i] = inbox[c][i])
      BY <1>0, <3>2, Arrived
    <3>3. QueueFresh(c)'
      <4> SUFFICES ASSUME result'[c] = "success", ~torn'[c],
                          NEW i \in DOMAIN inbox'[c]
                   PROVE  \/ inbox'[c][i] = 0
                          \/ inbox'[c][i] = 1 /\ thread'[c] \in {"send", "recv"}
        BY DEF QueueFresh
      <4>1. CASE inbox'[c] = inbox[c] /\ torn' = torn
        BY <3>1, <4>1 DEF Fresh, QueueFresh
      <4>2. CASE inbox'[c] = <<>>
        BY <4>2
      <4>3. CASE inbox'[c] = Append(inbox[c], 0) /\ torn' = torn
        BY <3>1, <3>2, <4>3 DEF Fresh, QueueFresh
      <4> QED BY <3>1, <4>1, <4>2, <4>3
    <3> QED BY <3>1, <3>3 DEF Fresh
  <2> QED BY <1>1, <2>1, <2>2
<1> QED BY <1>2, <1>3, <1>4, <1>5, <1>6, <1>7, <1>8, <1>9, <1>10 DEF Work, Recieve

LEMMA StepFresh == Discipline /\ Fresh /\ [Next]_vars => Fresh'
<1>1. ASSUME Fresh, UNCHANGED vars PROVE Fresh'
  BY <1>1 DEF vars, Fresh, QueueFresh, Empty, Halted
<1>2. ASSUME Discipline, Fresh, Next PROVE Fresh'
  BY <1>1, <1>2, MainFresh, WorkerFresh DEF Next, Stopped
<1> QED BY <1>1, <1>2

(* The ages of the queued and the received answers stay within a round. *)
THEOREM FreshHolds == Spec => []Fresh
<1>1. Init => Fresh
  <2> SUFFICES ASSUME Init, NEW c \in DataClients
               PROVE  /\ data[c] = {} /\ inbox[c] = <<>> /\ ~torn[c]
                      /\ thread[c] = "connect"
    <3>1. \A i \in DOMAIN << >> : FALSE
      OBVIOUS
    <3> QED BY <3>1 DEF Fresh, QueueFresh
  <2> QED BY ClientsAssumption DEF Init, Unicast, Clients
<1> QED BY <1>1, StepFresh, Disciplined, PTL DEF Spec

(* No reading older than one round is used, however late the peers answer. *)
THEOREM FreshOrEmptyHolds == Spec => []FreshOrEmpty
<1>1. Discipline /\ Fresh => FreshOrEmpty
  <2> SUFFICES ASSUME Discipline, Fresh, pc = "compute", CutMidAnswer, NEW c \in DataClients
               PROVE  data[c] \subseteq {0, 1}
    BY DEF FreshOrEmpty
  <2>1. thread[c] # "send"
    BY DEF Discipline, NoSharedUse
  <2> QED BY <2>1 DEF Fresh, Halted, Halting
<1> QED BY <1>1, Disciplined, FreshHolds, PTL
=============================================================================
