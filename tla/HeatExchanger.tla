---------------------------- MODULE HeatExchanger ----------------------------
(***************************************************************************)
(* The heat exchanger: the simulation loop (simulation.py) with its time   *)
(* client (sntp_client_new.py), and the data server whose threads answer   *)
(* with the state the loop publishes (server_multithread.py).              *)
(*                                                                         *)
(* Abstractions.  Time counts from 1, since 0 stands for no reading in the *)
(* code; Tick is a change of the time shown, whatever its size.  A         *)
(* temperature is the number of the step that computed it.                 *)
(* The flags is_controller, is_energy and is_logger are False, as in the   *)
(* code: the loop asks nobody but the time server.  The names the loop     *)
(* uses are all defined before it, so that nothing raises NameError.  The  *)
(* clients wait for their answers.                                         *)
(***************************************************************************)
EXTENDS Integers, Sequences

CONSTANTS
  Conns,    \* the connections to the data server
  Nothing,  \* no request is waiting, no answer has been read
  Wreck,    \* an answer that is no published state
  MaxReq,   \* requests a client sends
  MaxNow,   \* the time server is followed for MaxNow - 1 changes of its time
  MaxSteps  \* steps the loop publishes

ASSUME ExchangerAssumption ==
  /\ Nothing \notin Nat /\ Wreck \notin Nat
  /\ MaxReq \in Nat /\ MaxNow \in Nat \ {0} /\ MaxSteps \in Nat

VARIABLES
  now,        \* the time the server shows
  changes,    \* ghost: how often it has changed
  pc,         \* where the loop is
  current,    \* SntpNew.current_time
  delta,      \* SntpNew.delta
  swallowed,  \* ghost: the request of this round timed out unnoticed
  time,       \* time_dict of the round
  x0,         \* ProcessModel.x0
  state,      \* MultiServer.current_state
  published,  \* ghost: states published since the start
  repeated,   \* ghost: those of rounds whose timeout was swallowed
  conn,       \* "idle", "open", "closed" by the server, "left" by the client
  thread,     \* where the thread of a connection is
  sent,       \* requests the client has sent
  pending,    \* connections with a request the thread has not received
  answers,    \* answers in the connection, oldest first
  asked,      \* ghost: states published when the waiting request was sent
  got         \* the last answer the client read

server == <<now, changes>>
clock  == <<current, delta, swallowed, time>>
loop   == <<pc, clock, x0, state, published, repeated>>
client == <<sent, asked, got>>
net    == <<conn, thread, pending, answers>>
vars   == <<server, loop, client, net>>

TypeOK ==
  /\ now \in 1 .. MaxNow /\ changes \in 0 .. MaxNow - 1
  /\ pc \in {"ask", "again", "check", "Tpm", "Tzco", "publish", "dead"}
  /\ current \in 0 .. MaxNow /\ time \in 0 .. MaxNow /\ delta \in -MaxNow .. MaxNow
  /\ swallowed \in BOOLEAN
  /\ x0 \in [Tpm : Nat, Tzco : Nat]
  /\ state \in [Tpm : Nat, Tzco : Nat, Time : 0 .. MaxNow]
  /\ published \in Nat /\ repeated \in 0 .. published
  /\ conn \in [Conns -> {"idle", "open", "closed", "left"}]
  /\ thread \in [Conns -> {"none", "recv", "reply", "closing", "ended"}]
  /\ sent \in [Conns -> 0 .. MaxReq]
  /\ pending \subseteq Conns
  /\ \A c \in Conns : Len(answers[c]) <= 1
  /\ asked \in [Conns -> Nat \cup {Nothing}]
  /\ got \in [Conns -> Nat \cup {Nothing, Wreck}]

Init ==
  /\ now = 1 /\ changes = 0
  /\ pc = "ask"
  /\ current = 0 /\ delta = 0 /\ swallowed = FALSE /\ time = 0
  /\ x0 = [Tpm |-> 0, Tzco |-> 0]
  /\ state = [Tpm |-> 0, Tzco |-> 0, Time |-> 0]
  /\ published = 0 /\ repeated = 0
  /\ conn = [c \in Conns |-> "idle"]
  /\ thread = [c \in Conns |-> "none"]
  /\ sent = [c \in Conns |-> 0]
  /\ pending = {}
  /\ answers = [c \in Conns |-> <<>>]
  /\ asked = [c \in Conns |-> Nothing]
  /\ got = [c \in Conns |-> Nothing]

-----------------------------------------------------------------------------
(* The time server *)

Tick ==
  /\ changes < MaxNow - 1 /\ changes' = changes + 1
  /\ now' = now + 1
  /\ UNCHANGED <<loop, client, net>>

(* A server that accelerates takes its start for its base: started again,   *)
(* it shows an earlier time.                                                *)
Restart ==
  /\ changes < MaxNow - 1 /\ changes' = changes + 1
  /\ now' \in 1 .. now - 1
  /\ UNCHANGED <<loop, client, net>>

-----------------------------------------------------------------------------
(* The simulation loop *)

Goto(from, to) == pc = from /\ pc' = to

(* get_time with an answer; the first reading gives no interval. *)
GetTime ==
  /\ pc \in {"ask", "again"} /\ pc' = "check"
  /\ delta' = IF current = 0 THEN delta ELSE now - current
  /\ current' = now
  /\ time' = current'
  /\ swallowed' = FALSE
  /\ UNCHANGED <<server, x0, state, published, repeated, client, net>>

(* get_time catches the timeout of the socket itself. *)
GetTimeSwallows ==
  /\ pc \in {"ask", "again"} /\ pc' = "check"
  /\ time' = current
  /\ swallowed' = TRUE
  /\ UNCHANGED <<server, current, delta, x0, state, published, repeated, client, net>>

(* NTPException: a new time object, which asks once more. *)
TimeLost ==
  /\ Goto("ask", "again")
  /\ current' = 0 /\ delta' = 0
  /\ UNCHANGED <<server, swallowed, time, x0, state, published, repeated, client, net>>

(* Nobody catches the second one, or another exception of the first: the    *)
(* loop ends, the server's threads stay.                                    *)
TimeFails ==
  /\ pc \in {"ask", "again"} /\ pc' = "dead"
  /\ UNCHANGED <<server, clock, x0, state, published, repeated, client, net>>

(* Mutant: the round goes on without an interval. *)
Check_NoSkip ==
  /\ Goto("check", "Tpm")
  /\ published < MaxSteps
  /\ UNCHANGED <<server, clock, x0, state, published, repeated, client, net>>

Check ==
  /\ pc = "check"
  /\ pc' = IF delta = 0 THEN "ask" ELSE "Tpm"
  /\ published < MaxSteps
  /\ UNCHANGED <<server, clock, x0, state, published, repeated, client, net>>

(* Mutant: the published dictionary is the model's own. *)
SimulateTpm_InPlace ==
  /\ Goto("Tpm", "Tzco")
  /\ x0' = [x0 EXCEPT !.Tpm = @ + 1]
  /\ state' = [state EXCEPT !.Tpm = @ + 1]
  /\ UNCHANGED <<server, clock, published, repeated, client, net>>

(* simulate replaces the temperatures in place, one after the other. *)
SimulateTpm ==
  /\ Goto("Tpm", "Tzco")
  /\ x0' = [x0 EXCEPT !.Tpm = @ + 1]
  /\ UNCHANGED <<server, clock, state, published, repeated, client, net>>

SimulateTzco ==
  /\ Goto("Tzco", "publish")
  /\ x0' = [x0 EXCEPT !.Tzco = @ + 1]
  /\ UNCHANGED <<server, clock, state, published, repeated, client, net>>

(* A new dictionary takes the place of the published one. *)
Publish ==
  /\ Goto("publish", "ask")
  /\ state' = [Tpm |-> x0.Tpm, Tzco |-> x0.Tzco, Time |-> time]
  /\ published' = published + 1
  /\ repeated' = IF swallowed THEN repeated + 1 ELSE repeated
  /\ UNCHANGED <<server, clock, x0, client, net>>

Simulation == \/ GetTime \/ GetTimeSwallows \/ TimeLost \/ TimeFails \/ Check
              \/ SimulateTpm \/ SimulateTzco \/ Publish

-----------------------------------------------------------------------------
(* The data server *)

At(c, from, to) == thread[c] = from /\ thread' = [thread EXCEPT ![c] = to]

Accept(c) ==
  /\ conn[c] # "idle"
  /\ At(c, "none", "recv")
  /\ UNCHANGED <<server, loop, client, conn, pending, answers>>

(* Mutant: the request stays in the connection. *)
Recv_Peeks(c) ==
  /\ c \in pending
  /\ At(c, "recv", "reply")
  /\ UNCHANGED <<server, loop, client, conn, pending, answers>>

Recv(c) ==
  /\ c \in pending
  /\ At(c, "recv", "reply")
  /\ pending' = pending \ {c}
  /\ UNCHANGED <<server, loop, client, conn, answers>>

(* Mutant: the empty string is no reason to stop. *)
RecvFails_OnlyIdle(c) ==
  /\ c \notin pending /\ conn[c] # "left"
  /\ At(c, "recv", "closing")
  /\ UNCHANGED <<server, loop, client, conn, pending, answers>>

(* The client has left, or sent nothing for 30 seconds: OSError either way. *)
RecvFails(c) ==
  /\ c \notin pending
  /\ At(c, "recv", "closing")
  /\ UNCHANGED <<server, loop, client, conn, pending, answers>>

(* sendall to a client that has left may fail or go unnoticed. *)
Reply(c) ==
  /\ \/ conn[c] = "open" /\ At(c, "reply", "recv")
        /\ answers' = [answers EXCEPT ![c] = Append(@, state)]
     \/ conn[c] = "left" /\ (At(c, "reply", "recv") \/ At(c, "reply", "closing"))
        /\ UNCHANGED answers
  /\ UNCHANGED <<server, loop, client, conn, pending>>

(* Mutant: the exception ends the thread before it has closed. *)
Close_Forgotten(c) ==
  /\ At(c, "closing", "ended")
  /\ UNCHANGED <<server, loop, client, conn, pending, answers>>

(* A request that came since recv gave up is lost with the connection. *)
Close(c) ==
  /\ At(c, "closing", "ended")
  /\ conn' = [conn EXCEPT ![c] = IF @ = "open" THEN "closed" ELSE @]
  /\ pending' = pending \ {c}
  /\ UNCHANGED <<server, loop, client, answers>>

Thread(c) == Recv(c) \/ RecvFails(c) \/ Reply(c) \/ Close(c)

-----------------------------------------------------------------------------
(* The clients *)

Connect(c) ==
  /\ conn[c] = "idle"
  /\ conn' = [conn EXCEPT ![c] = "open"]
  /\ UNCHANGED <<server, loop, client, thread, pending, answers>>

Request(c) ==
  /\ conn[c] \in {"open", "closed"}
  /\ sent[c] < MaxReq
  /\ asked[c] = Nothing
  /\ sent' = [sent EXCEPT ![c] = @ + 1]
  /\ asked' = [asked EXCEPT ![c] = published]
  /\ pending' = IF conn[c] = "open" THEN pending \cup {c} ELSE pending
  /\ UNCHANGED <<server, loop, got, conn, thread, answers>>

Whole(s) == IF s.Tpm = s.Tzco THEN s.Tpm ELSE Wreck

Read(c) ==
  /\ conn[c] \in {"open", "closed"}
  /\ answers[c] # <<>>
  /\ got' = [got EXCEPT ![c] = Whole(Head(answers[c]))]
  /\ answers' = [answers EXCEPT ![c] = Tail(@)]
  /\ asked' = [asked EXCEPT ![c] = Nothing]
  /\ UNCHANGED <<server, loop, sent, conn, thread, pending>>

(* The client finds the connection closed, or leaves of its own accord. *)
Leave(c) ==
  /\ conn[c] \in {"open", "closed"}
  /\ conn' = [conn EXCEPT ![c] = "left"]
  /\ asked' = [asked EXCEPT ![c] = Nothing]
  /\ UNCHANGED <<server, loop, sent, got, thread, pending, answers>>

Broken(c) == conn[c] = "closed" /\ answers[c] = <<>> /\ Leave(c)

Client(c) == Connect(c) \/ Request(c) \/ Read(c) \/ Leave(c)

-----------------------------------------------------------------------------
Next == \/ Tick \/ Restart \/ Simulation
        \/ \E c \in Conns : Accept(c) \/ Thread(c) \/ Client(c)

Spec == Init /\ [][Next]_vars

(* Threads go on, and a client that waits reads or finds itself cut off. *)
Fairness ==
  \A c \in Conns :
    WF_vars(Accept(c)) /\ WF_vars(Thread(c)) /\ WF_vars(Read(c) \/ Broken(c))

FairSpec == Spec /\ Fairness

-----------------------------------------------------------------------------
(* Properties *)

(* An answer is a published state, whole, and was in force after the        *)
(* request, although the loop changes its temperatures in place and no lock *)
(* is taken (simulation.py:78-82, process_model.py:33-34,                   *)
(* server_multithread.py:44).                                               *)
Promise == INSTANCE Snapshot WITH Clients <- Conns, open <- TRUE
SnapshotSpec == Promise!Spec

(* The model does not run ahead of the time server: it has simulated no     *)
(* more steps than the time shown has changed, forward or back, but one for *)
(* every round whose timeout get_time swallowed.  No step comes of the      *)
(* first reading, of one that shows the same time again, or of the first    *)
(* after the time server was lost (simulation.py:44-65,                     *)
(* sntp_client_new.py:14-24).                                               *)
NotAhead == published <= changes + repeated

(* A client that waits gets its answer or finds the connection closed, even *)
(* when its request crosses the idle timeout and when the loop is dead      *)
(* (server_multithread.py:29, 38-49).                                       *)
PatientServed == \A c \in Conns : asked[c] # Nothing ~> asked[c] = Nothing

(* No thread outlives its client (server_multithread.py:45-49).             *)
ThreadsEnd == \A c \in Conns : conn[c] = "left" ~> thread[c] = "ended"
=============================================================================
