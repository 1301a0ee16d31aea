------------------------------ MODULE Regulator ------------------------------
(***************************************************************************)
(* The heat-exchange regulator: the main loop of heat_exchange_regulator/  *)
(* main.cpp and the worker thread each of its clients runs (Client.cpp),   *)
(* one TCP connection to every data peer (energy supplier, heat exchanger, *)
(* buildings) and to the logging station, and one UDP client for the time. *)
(*                                                                         *)
(* One round of the loop: repair the logger's connection, launch one       *)
(* request per healthy client, join them, launch reconnections, use what   *)
(* was received, launch the logging of the results, sleep, join.           *)
(*                                                                         *)
(* Abstractions.  A reading is its age: the number of rounds begun since   *)
(* it arrived at the regulator's host, saturated at MaxAge.  A TCP stream  *)
(* is the number of requests the peer has not read (pend) and the sequence *)
(* of whole answers the regulator has not read (inbox).  Join waits in one *)
(* step for all the threads it joins: a finished worker does nothing more. *)
(* Creating, binding and closing a socket succeeds.                        *)
(***************************************************************************)
EXTENDS Naturals, Sequences

CONSTANTS
  DataClients,   \* energySupplierClient, heatExchangerClient, buildingClients
  Logger,        \* loggingClient
  TimeClient,    \* timeClient
  Capacity,      \* messages a connection buffers in each direction
  PerRecv,       \* whole answers that fit in the 256 bytes of one recv
  CutMidAnswer,  \* TRUE iff a recv of 256 bytes ends inside an answer
  MaxAge,        \* ages are counted up to this one
  NItems,        \* values logged in a round (Fzm, Fzco, Tpco)
  Greeters,      \* peers that send a first message when they accept
  BadPeers       \* peers whose answers may lack the members main.cpp reads

Unicast == DataClients \cup {Logger}
Joined  == DataClients \cup {TimeClient}    \* the clients joinClients joins
Clients == Unicast \cup {TimeClient}

ASSUME ClientsAssumption ==
  /\ Logger \notin DataClients
  /\ TimeClient \notin Unicast
  /\ Greeters \subseteq DataClients
  /\ BadPeers \subseteq DataClients

ASSUME BoundsAssumption ==
  /\ Capacity \in Nat \ {0}
  /\ PerRecv \in Nat \ {0}
  /\ CutMidAnswer \in BOOLEAN
  /\ MaxAge \in Nat /\ MaxAge >= 2
  /\ NItems \in Nat \ {0}

VARIABLES
  pc,        \* where main is
  thread,    \* the job of each client's clientThread, or "none"
  result,    \* the Result variable main passes to each unicast client
  late,      \* the worker's elapsed time has passed its timeout
  conn,      \* the state of each TCP connection
  pend,      \* requests sent that the peer has not read
  inbox,     \* ages of the answers the regulator has not read
  torn,      \* the first unread bytes are the tail of an answer
  data,      \* the Json of each data client: {} or {age}
  items      \* values the logging worker still has to send

vars == <<pc, thread, result, late, conn, pend, inbox, torn, data, items>>
net  == <<conn, pend, inbox, torn>>

Age     == 0 .. MaxAge
Failing == {"connectionReset", "genericError"}
Result  == Failing \cup {"success", "wouldBlock"}
Halting == {"aborted", "terminated", "exited"}
Halted  == pc \in Halting
Links   == {"new", "greeting", "up", "down"}
Online  == {"greeting", "up"}

Jobs(c) ==
  {"none", "done"} \cup
  (IF c = TimeClient THEN {"time"}
   ELSE {"connect", "reconnect"} \cup
        (IF c = Logger THEN {"log"} ELSE {"send", "recv"}))

Older(a) == IF a < MaxAge THEN a + 1 ELSE a

TypeOK ==
  /\ pc \in {"starting", "top", "request", "join", "relink", "compute",
             "log", "sleep"} \cup Halting
  /\ thread \in [Clients -> UNION {Jobs(c) : c \in Clients}]
  /\ \A c \in Clients : thread[c] \in Jobs(c)
  /\ result \in [Unicast -> Result]
  /\ late \in [DataClients -> BOOLEAN]
  /\ conn \in [Unicast -> Links]
  /\ pend \in [Unicast -> 0 .. Capacity]
  /\ inbox \in [Unicast -> Seq(Age)]
  /\ torn \in [DataClients -> BOOLEAN]
  /\ data \in [DataClients -> SUBSET Age]
  /\ items \in 0 .. NItems

-----------------------------------------------------------------------------
(* Threads *)

Finished(cs) == \A c \in cs : thread[c] \in {"none", "done"}

(* A clientThread is created under assert(!clientThread); when it fails the *)
(* process aborts (built without assertions, the joinable std::thread that  *)
(* is overwritten calls std::terminate: the same end).                      *)
Launch(job, next) ==
  IF \A c \in DOMAIN job : thread[c] = "none"
  THEN /\ thread' = [c \in Clients |->
                       IF c \in DOMAIN job THEN job[c] ELSE thread[c]]
       /\ pc' = next
  ELSE pc' = "aborted" /\ UNCHANGED thread

(* The socket of each client of cs is closed and another is created. *)
NewSockets(cs) ==
  /\ conn'  = [c \in Unicast |-> IF c \in cs THEN "new" ELSE conn[c]]
  /\ pend'  = [c \in Unicast |-> IF c \in cs THEN 0 ELSE pend[c]]
  /\ inbox' = [c \in Unicast |-> IF c \in cs THEN <<>> ELSE inbox[c]]
  /\ torn'  = [c \in DataClients |-> IF c \in cs THEN FALSE ELSE torn[c]]

(* recconectToServer on each client of cs, in a worker of its own. *)
Reopen(cs, next) ==
  /\ NewSockets(cs)
  /\ Launch([c \in cs |-> "reconnect"], next)

-----------------------------------------------------------------------------
(* The main thread *)

(* The constructor of Network launches a connection per unicast client. *)
Init ==
  /\ pc = "starting"
  /\ thread = [c \in Clients |-> IF c = TimeClient THEN "none" ELSE "connect"]
  /\ result = [c \in Unicast |-> "success"]
  /\ late = [c \in DataClients |-> FALSE]
  /\ conn = [c \in Unicast |-> "new"]
  /\ pend = [c \in Unicast |-> 0]
  /\ inbox = [c \in Unicast |-> <<>>]
  /\ torn = [c \in DataClients |-> FALSE]
  /\ data = [c \in DataClients |-> {}]
  /\ items = 0

(* ... and joins them all before the loop begins. *)
Start ==
  /\ pc = "starting"
  /\ Finished(Clients)
  /\ thread' = [c \in Clients |-> "none"]
  /\ pc' = "top"
  /\ UNCHANGED <<result, late, net, data, items>>

(* loggingResult is read here although logDataToServer's worker, which      *)
(* writes it, has not been joined: the value is the one it has reached.     *)
RelinkLogger ==
  /\ pc = "top"
  /\ \/ /\ result[Logger] = "success"
        /\ pc' = "request"
        /\ UNCHANGED <<thread, net>>
     \/ /\ result[Logger] # "success"
        /\ Reopen({Logger}, "request")
  /\ UNCHANGED <<result, late, data, items>>

Request ==
  /\ pc = "request"
  /\ LET asked == {c \in DataClients : result[c] = "success"}
     IN Launch([c \in asked \cup {TimeClient} |->
                  IF c = TimeClient THEN "time" ELSE "send"], "join")
  /\ inbox' = [c \in Unicast |->
                 IF c = Logger THEN inbox[c]
                 ELSE [i \in DOMAIN inbox[c] |-> Older(inbox[c][i])]]
  /\ data' = [c \in DataClients |-> {Older(a) : a \in data[c]}]
  /\ UNCHANGED <<result, late, conn, pend, torn, items>>

Join(here, next) ==
  /\ pc = here
  /\ Finished(Joined)
  /\ thread' = [c \in Clients |-> IF c \in Joined THEN "none" ELSE thread[c]]
  /\ pc' = next
  /\ UNCHANGED <<result, late, net, data, items>>

(* Mutant: the join of main.cpp:92 is forgotten. *)
JoinRequests_Forgotten ==
  /\ pc = "join" /\ pc' = "relink"
  /\ UNCHANGED <<thread, result, late, net, data, items>>

(* Mutant: the join of main.cpp:165 is forgotten. *)
JoinRelinks_Forgotten ==
  /\ pc = "sleep" /\ pc' = "top"
  /\ UNCHANGED <<thread, result, late, net, data, items>>

JoinRequests == Join("join", "relink")
JoinRelinks  == Join("sleep", "top")

(* Mutant: genericError is not among the results that reconnect. *)
Relink_ResetOnly ==
  /\ pc = "relink"
  /\ Reopen({c \in DataClients : result[c] = "connectionReset"}, "compute")
  /\ UNCHANGED <<result, late, data, items>>

Relink ==
  /\ pc = "relink"
  /\ Reopen({c \in DataClients : result[c] \in Failing}, "compute")
  /\ UNCHANGED <<result, late, data, items>>

(* The readings are used wherever the Json is not empty; a missing member *)
(* throws, and main returns 1.                                            *)
Compute ==
  /\ pc = "compute"
  /\ \/ pc' = "log"
     \/ pc' = "exited" /\ \E c \in BadPeers : data[c] # {}
  /\ UNCHANGED <<thread, result, late, net, data, items>>

(* Mutant: the loop over the values runs once too often. *)
Log_OneMore ==
  /\ pc = "log"
  /\ Finished({Logger})
  /\ result[Logger] = "success"
  /\ thread' = [thread EXCEPT ![Logger] = "log"]
  /\ items' = NItems + 1
  /\ pc' = "sleep"
  /\ UNCHANGED <<result, late, net, data>>

Log ==
  /\ pc = "log"
  /\ Finished({Logger})
  /\ \/ /\ result[Logger] = "success"
        /\ thread' = [thread EXCEPT ![Logger] = "log"]
        /\ items' = NItems
     \/ /\ result[Logger] # "success"
        /\ thread' = [thread EXCEPT ![Logger] = "none"]
        /\ UNCHANGED items
  /\ pc' = "sleep"
  /\ UNCHANGED <<result, late, net, data>>

Main ==
  \/ Start \/ RelinkLogger \/ Request \/ JoinRequests \/ Relink
  \/ Compute \/ Log \/ JoinRelinks

-----------------------------------------------------------------------------
(* The worker threads *)

Connected(c) == conn' = [conn EXCEPT ![c] =
                           IF c \in Greeters THEN "greeting" ELSE "up"]

Ends(c, r) ==
  /\ thread' = [thread EXCEPT ![c] = "done"]
  /\ result' = [result EXCEPT ![c] = r]

(* establishConnection tries until it succeeds. *)
Establish(c) ==
  /\ thread[c] = "connect"
  /\ Connected(c)
  /\ Ends(c, result[c])
  /\ UNCHANGED <<pc, late, pend, inbox, torn, data, items>>

Reestablish(c) ==
  /\ thread[c] = "reconnect"
  /\ Connected(c)
  /\ Ends(c, "success")
  /\ UNCHANGED <<pc, late, pend, inbox, torn, data, items>>

(* Mutant: the timeout sets success, as the timeouts of the requests do. *)
GiveUp_AsSuccess(c) ==
  /\ thread[c] = "reconnect"
  /\ Ends(c, "success")
  /\ UNCHANGED <<pc, late, net, data, items>>

GiveUp(c) ==
  /\ thread[c] = "reconnect"
  /\ Ends(c, "connectionReset")
  /\ UNCHANGED <<pc, late, net, data, items>>

(* Mutant: the Json is not cleared. *)
Send_KeepsData(c) ==
  /\ thread[c] = "send"
  /\ late' = [late EXCEPT ![c] = FALSE]
  /\ \/ /\ conn[c] \in Online /\ pend[c] < Capacity
        /\ pend' = [pend EXCEPT ![c] = @ + 1]
        /\ thread' = [thread EXCEPT ![c] = "recv"]
        /\ UNCHANGED result
     \/ /\ conn[c] = "down"
        /\ \E r \in Failing : Ends(c, r)
        /\ UNCHANGED pend
  /\ UNCHANGED <<pc, conn, inbox, torn, data, items>>

(* requestDataFromSerever clears the Json, then sends one byte.  On a       *)
(* connection the peer has closed the send may still be accepted.           *)
Send(c) ==
  /\ thread[c] = "send"
  /\ data' = [data EXCEPT ![c] = {}]
  /\ late' = [late EXCEPT ![c] = FALSE]
  /\ \/ /\ conn[c] \in Online /\ pend[c] < Capacity
        /\ pend' = [pend EXCEPT ![c] = @ + 1]
        /\ thread' = [thread EXCEPT ![c] = "recv"]
        /\ result' = [result EXCEPT ![c] = "success"]
     \/ /\ conn[c] \in Online /\ pend[c] = Capacity
        /\ Ends(c, "wouldBlock")
        /\ UNCHANGED pend
     \/ /\ conn[c] = "down"
        /\ thread' = [thread EXCEPT ![c] = "recv"]
        /\ result' = [result EXCEPT ![c] = "success"]
        /\ UNCHANGED pend
     \/ /\ conn[c] = "down"
        /\ \E r \in Failing : Ends(c, r)
        /\ UNCHANGED pend
     \/ /\ conn[c] = "new"
        /\ Ends(c, "genericError")
        /\ UNCHANGED pend
  /\ UNCHANGED <<pc, conn, inbox, torn, items>>

(* Mutant: a recv takes one answer and leaves the others queued. *)
Recv_OneAnswer(c) ==
  /\ thread[c] = "recv"
  /\ inbox[c] # <<>>
  /\ data' = [data EXCEPT ![c] = {Head(inbox[c])}]
  /\ inbox' = [inbox EXCEPT ![c] = Tail(@)]
  /\ Ends(c, "success")
  /\ UNCHANGED <<pc, late, conn, pend, torn, items>>

(* recieveJson: one recv of at most 256 bytes, of which the first answer is *)
(* kept and the others dropped; an answer cut by the 256th byte leaves its  *)
(* tail unread.                                                             *)
Recv(c) ==
  /\ thread[c] = "recv"
  /\ inbox[c] # <<>>
  /\ ~torn[c]
  /\ data' = [data EXCEPT ![c] = {Head(inbox[c])}]
  /\ Ends(c, "success")
  /\ LET n == Len(inbox[c])
     IN /\ inbox' = [inbox EXCEPT ![c] =
                       IF n <= PerRecv THEN <<>> ELSE SubSeq(@, PerRecv + 1, n)]
        /\ torn' = [torn EXCEPT ![c] = n > PerRecv /\ CutMidAnswer]
  /\ UNCHANGED <<pc, late, conn, pend, items>>

(* The tail of an answer does not parse: the exception leaves the thread's *)
(* function and std::terminate ends the process.                           *)
RecvTorn(c) ==
  /\ thread[c] = "recv"
  /\ inbox[c] # <<>>
  /\ torn[c]
  /\ pc' = "terminated"
  /\ UNCHANGED <<thread, result, late, net, data, items>>

(* Nothing to read from a closed connection: an error, unless the timeout *)
(* has passed, which sets success whatever recv returned.                 *)
RecvError(c) ==
  /\ thread[c] = "recv"
  /\ inbox[c] = <<>>
  /\ conn[c] = "down"
  /\ \E r \in Failing : Ends(c, IF late[c] THEN "success" ELSE r)
  /\ UNCHANGED <<pc, late, net, data, items>>

RecvTimeout(c) ==
  /\ thread[c] = "recv"
  /\ inbox[c] = <<>>
  /\ conn[c] # "down"
  /\ late[c]
  /\ Ends(c, "success")
  /\ UNCHANGED <<pc, late, net, data, items>>

(* Mutant: the start time is taken again at every turn of the loop. *)
Expire_ClockRestarts(c) ==
  /\ thread[c] = "recv"
  /\ ~late[c]
  /\ UNCHANGED vars

Expire(c) ==
  /\ thread[c] = "recv"
  /\ ~late[c]
  /\ late' = [late EXCEPT ![c] = TRUE]
  /\ UNCHANGED <<pc, thread, result, net, data, items>>

(* logData sends one PUT per value and goes on after a failure, so that     *)
(* the last value decides the result; sendAll turns every error into        *)
(* genericError.                                                            *)
LogItem ==
  /\ thread[Logger] = "log"
  /\ items > 0
  /\ items' = items - 1
  /\ thread' = [thread EXCEPT ![Logger] = IF items = 1 THEN "done" ELSE "log"]
  /\ \/ /\ conn[Logger] \in Online /\ pend[Logger] < Capacity
        /\ pend' = [pend EXCEPT ![Logger] = @ + 1]
        /\ result' = [result EXCEPT ![Logger] = "success"]
     \/ /\ conn[Logger] \in {"new", "down"} \/ pend[Logger] = Capacity
        /\ result' = [result EXCEPT ![Logger] = "genericError"]
        /\ UNCHANGED pend
     \/ /\ conn[Logger] = "down"
        /\ result' = [result EXCEPT ![Logger] = "success"]
        /\ UNCHANGED pend
  /\ UNCHANGED <<pc, late, conn, inbox, torn, data>>

(* requestTimeFromSerever ends by its answer or by its timeout; what it     *)
(* reads is the subject of RegulatorClock.                                  *)
AskTime ==
  /\ thread[TimeClient] = "time"
  /\ thread' = [thread EXCEPT ![TimeClient] = "done"]
  /\ UNCHANGED <<pc, result, late, net, data, items>>

Recieve(c) == Recv(c) \/ RecvTorn(c) \/ RecvError(c) \/ RecvTimeout(c)

Work(c) == Send(c) \/ Recieve(c)
Connect(c) == Reestablish(c) \/ GiveUp(c)

-----------------------------------------------------------------------------
(* The peers and the network *)

(* The peer reads k coalesced requests with one recv and answers once. *)
Answer(c) ==
  /\ conn[c] = "up"
  /\ Len(inbox[c]) < Capacity
  /\ \E k \in 1 .. pend[c] : pend' = [pend EXCEPT ![c] = @ - k]
  /\ inbox' = [inbox EXCEPT ![c] = Append(@, 0)]
  /\ UNCHANGED <<pc, thread, result, late, conn, torn, data, items>>

(* The energy supplier's server sends its data as soon as it accepts. *)
Greet(c) ==
  /\ conn[c] = "greeting"
  /\ conn' = [conn EXCEPT ![c] = "up"]
  /\ inbox' = [inbox EXCEPT ![c] = Append(@, 0)]
  /\ UNCHANGED <<pc, thread, result, late, pend, torn, data, items>>

(* The peer closes: what it had sent may still be read, or is lost. *)
Drop(c) ==
  /\ conn[c] \in Online
  /\ conn' = [conn EXCEPT ![c] = "down"]
  /\ pend' = [pend EXCEPT ![c] = 0]
  /\ \/ UNCHANGED <<inbox, torn>>
     \/ /\ inbox' = [inbox EXCEPT ![c] = <<>>]
        /\ torn' = [d \in DataClients |-> IF d = c THEN FALSE ELSE torn[d]]
  /\ UNCHANGED <<pc, thread, result, late, data, items>>

Peer(c) == Answer(c) \/ Greet(c) \/ Drop(c)

-----------------------------------------------------------------------------
Stopped == Halted /\ UNCHANGED vars

Next ==
  \/ ~Halted /\ \/ Main
                \/ AskTime
                \/ LogItem
                \/ \E c \in DataClients : Work(c) \/ Expire(c)
                \/ \E c \in Unicast : Establish(c) \/ Connect(c) \/ Peer(c)
  \/ Stopped

Spec == Init /\ [][Next]_vars

(* A thread that can run does: the operating system schedules main, the     *)
(* workers and their clocks.  Nothing is assumed of the peers, nor of the   *)
(* first connection, which waits for its peer without a limit.              *)
Fairness ==
  /\ WF_vars(~Halted /\ Main)
  /\ WF_vars(~Halted /\ AskTime)
  /\ WF_vars(~Halted /\ LogItem)
  /\ \A c \in DataClients : /\ WF_vars(~Halted /\ Work(c))
                            /\ WF_vars(~Halted /\ Expire(c))
  /\ \A c \in Unicast : WF_vars(~Halted /\ Connect(c))

FairSpec == Spec /\ Fairness
-----------------------------------------------------------------------------
(* Properties *)

(* Main starts workers, closes sockets and reads the received Jsons only    *)
(* while no worker of those clients can touch them: between its joins every *)
(* joined client is without a thread, and from the computation on the only  *)
(* ones running are reconnecting and have nothing received (main.cpp:69-165 *)
(* uses energySupplierData and its siblings without a lock).                *)
NoSharedUse ==
  /\ pc \in {"top", "request", "relink"} =>
       \A c \in Joined : thread[c] = "none"
  /\ pc \in {"compute", "log", "sleep"} =>
       \A c \in DataClients : \/ thread[c] = "none"
                              \/ thread[c] \in Jobs(c) \ {"send", "recv"}
                                 /\ data[c] = {}

(* A reading main computes with is one its client's last request returned   *)
(* without an error: a client that failed contributes nothing, however many *)
(* rounds its repair takes (main.cpp:122-143 tests only empty()).           *)
FailedGivesNothing ==
  pc = "compute" =>
    \A c \in DataClients : data[c] # {} => result[c] = "success"

(* A reading main computes with arrived in this round or in the one before: *)
(* answers that came after their request's timeout are not queued up and    *)
(* replayed one per round, since one recv empties the queue (Socket.cpp:    *)
(* 248-261).  Where a recv can end exactly between two answers they may be. *)
FreshOrEmpty ==
  (pc = "compute" /\ CutMidAnswer) =>
    \A c \in DataClients : data[c] \subseteq {0, 1}

(* A request or a log entry is sent, and an answer awaited, only on a       *)
(* socket that has been connected since it was created: a reconnection that *)
(* timed out is not mistaken for a success (Client.cpp:97-101).             *)
ConnectedBeforeUse ==
  ~Halted => \A c \in Unicast :
    thread[c] \in {"send", "recv", "log"} => conn[c] # "new"

(* The process aborts at main.cpp:65 only, on the logger's thread, which    *)
(* nothing has joined; every other thread has been joined when a new one of *)
(* its client is created.                                                   *)
AbortsOnlyOnLogger ==
  [][pc' = "aborted" => pc = "top" /\ thread[Logger] # "none"]_vars

(* A client whose send buffer was full once is never used again: main.cpp:  *)
(* 72-110 neither requests from it nor reconnects it.                       *)
WouldBlockIsFinal ==
  [][\A c \in DataClients :
       result[c] = "wouldBlock" => result'[c] = "wouldBlock"]_vars

(* The assertion of recconectToServer (Client.cpp:23) never fails. *)
NeverAborts == pc # "aborted"

(* Every round ends, whatever the peers do: no request outlives its timeout *)
(* and no join waits forever (main.cpp:60-166).                             *)
RoundsEnd == (pc = "request") ~> (pc = "top" \/ Halted)

(* A data client whose connection failed is reconnected, however the round  *)
(* it failed in went on (main.cpp:94-112).                                  *)
FailedIsRelinked ==
  \A c \in DataClients :
    (result[c] \in Failing) ~> (thread[c] = "reconnect" \/ Halted)
=============================================================================
