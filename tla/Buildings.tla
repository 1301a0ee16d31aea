------------------------------ MODULE Buildings ------------------------------
(***************************************************************************)
(* The programs of the Python buildings RS, JP and KS as they start, and   *)
(* the data servers of RS and JP (server.py, functions.py), which outlive  *)
(* their main threads: each of the three main threads ends by an exception *)
(* before it reaches the loop that simulates.                              *)
(*                                                                         *)
(* Abstractions.  A published state is its number: 0 until RS has written  *)
(* its timestamp, 1 from then on.  The four connections of JP and KS are   *)
(* one step.  A connection carries one client, and what a client sends is  *)
(* more than white space.  A handler encodes the dictionary when it sends  *)
(* it, in one step: main changes one entry only, once.                     *)
(***************************************************************************)
EXTENDS Naturals, Sequences

CONSTANTS
  Clients,  \* the connections to the data server
  Patient,  \* clients that wait for their answers; the others never read
  Nothing,  \* no request is waiting, no answer was read, the lock is free
  Wreck,    \* an answer that is no published state
  MaxReq,   \* requests a client sends
  Capacity  \* answers that fit in a connection nobody reads

ASSUME BuildingsAssumption ==
  /\ Patient \subseteq Clients
  /\ Nothing \notin Nat \cup Clients /\ Wreck \notin Nat
  /\ MaxReq \in Nat /\ Capacity \in Nat \ {0}

VARIABLES
  kind,       \* which of the programs this is
  main,       \* where its main thread is
  server,     \* "bound", "listening", or "shut": it accepts nobody any more
  published,  \* the state that handlers answer with
  lock,       \* the handler that holds server.lock of RS
  conn,       \* "idle", "open", "left" by its client, "reset" by its host
  thread,     \* where the handler of a connection is
  pending,    \* requests the handler has not received
  answers,    \* answers in the connection, oldest first
  sent,       \* requests the client has sent
  asked,      \* ghost: the state in force when the waiting request was sent
  got         \* the last answer the client read

program == <<kind, main, server, published>>
handler == <<lock, thread>>
net     == <<conn, pending, answers>>
client  == <<sent, asked, got>>
vars    == <<program, handler, net, client>>

TypeOK ==
  /\ kind \in {"RS", "JP", "KS"}
  /\ main \in {"start", "energy", "again", "time", "link", "receive", "dead"}
  /\ server \in {"bound", "listening", "shut"}
  /\ published \in 0 .. 1
  /\ lock \in Clients \cup {Nothing}
  /\ conn \in [Clients -> {"idle", "open", "left", "reset"}]
  /\ thread \in [Clients -> {"none", "recv", "lock", "send", "ended"}]
  /\ pending \in [Clients -> 0 .. MaxReq]
  /\ answers \in [Clients -> Seq(0 .. 1)]
  /\ \A c \in Clients : Len(answers[c]) <= IF c \in Patient THEN 1 ELSE Capacity
  /\ sent \in [Clients -> 0 .. MaxReq]
  /\ asked \in [Patient -> {0, 1, Nothing}]
  /\ got \in [Patient -> {0, 1, Nothing}]

Init ==
  /\ \/ kind = "RS" /\ main = "start" /\ server = "listening"
     \/ kind = "JP" /\ main = "time" /\ server = "bound"
     \/ kind = "KS" /\ main = "link" /\ server = "bound"
  /\ published = 0
  /\ lock = Nothing
  /\ conn = [c \in Clients |-> "idle"]
  /\ thread = [c \in Clients |-> "none"]
  /\ pending = [c \in Clients |-> 0]
  /\ answers = [c \in Clients |-> <<>>]
  /\ sent = [c \in Clients |-> 0]
  /\ asked = [c \in Patient |-> Nothing]
  /\ got = [c \in Patient |-> Nothing]

-----------------------------------------------------------------------------
(* The main threads *)

Goto(from, to) ==
  /\ main = from /\ main' = to
  /\ UNCHANGED <<kind, handler, net, client>>

(* RS writes the time into the dictionary its server already answers with. *)
Stamp ==
  /\ Goto("start", "energy")
  /\ published' = 1
  /\ UNCHANGED server

(* Client.connect of RS: after a success connected is False, as before, and *)
(* the loop tries once more; a TimeoutError only repeats it.                *)
ConnectEnergy == Goto("energy", "again") /\ UNCHANGED <<server, published>>

(* JP asks for the time and connects, KS connects and asks for the time. *)
GetTime ==
  /\ Goto("time", IF kind = "JP" THEN "link" ELSE "receive")
  /\ UNCHANGED <<server, published>>

Link ==
  /\ Goto("link", IF kind = "KS" THEN "time" ELSE "receive")
  /\ UNCHANGED <<server, published>>

(* What nobody catches: a refused connection, a time server that does not   *)
(* answer, the second connect of a socket that is connected, and receive,   *)
(* which waits for an answer to a request that was not sent: the heat       *)
(* exchanger closes the idle connection, and json.loads of nothing raises.  *)
Raise ==
  /\ \E step \in {"energy", "again", "time", "link", "receive"} : Goto(step, "dead")
  /\ UNCHANGED <<server, published>>

(* The thread of JP's server; KS constructs one and does not start it. *)
Listen ==
  /\ kind = "JP" /\ server = "bound"
  /\ server' = "listening"
  /\ UNCHANGED <<kind, main, published, handler, net, client>>

(* A Python that joins the remaining threads when main ends calls join of   *)
(* ServerThread, and that stops serve_forever; a later one only waits.      *)
Shutdown ==
  /\ kind = "RS" /\ main = "dead" /\ server = "listening"
  /\ server' = "shut"
  /\ UNCHANGED <<kind, main, published, handler, net, client>>

Main == Stamp \/ ConnectEnergy \/ GetTime \/ Link \/ Raise \/ Listen \/ Shutdown

-----------------------------------------------------------------------------
(* The handlers *)

At(c, from, to) == thread[c] = from /\ thread' = [thread EXCEPT ![c] = to]

Accept(c) ==
  /\ server = "listening" /\ conn[c] # "idle"
  /\ At(c, "none", "recv")
  /\ UNCHANGED <<program, lock, net, client>>

(* Mutant: the requests stay in the connection. *)
Recv_Peeks(c) ==
  /\ pending[c] > 0
  /\ At(c, "recv", IF kind = "RS" THEN "lock" ELSE "send")
  /\ UNCHANGED <<program, lock, net, client>>

(* recv gives one request or several: one answer either way. *)
Recv(c) ==
  /\ At(c, "recv", IF kind = "RS" THEN "lock" ELSE "send")
  /\ \E n \in 1 .. pending[c] : pending' = [pending EXCEPT ![c] = @ - n]
  /\ UNCHANGED <<program, lock, conn, answers, client>>

(* Mutant: RS takes nothing for no reason to return. *)
RecvNothing_Continues(c) ==
  /\ conn[c] \in {"left", "reset"} /\ pending[c] = 0
  /\ \/ kind = "JP" /\ At(c, "recv", "send")
     \/ kind = "JP" /\ conn[c] = "reset" /\ At(c, "recv", "ended")
  /\ UNCHANGED <<program, lock, net, client>>

(* The client has left: RS returns, JP answers all the same, and recv of a *)
(* connection that was reset may raise.                                    *)
RecvNothing(c) ==
  /\ conn[c] \in {"left", "reset"} /\ pending[c] = 0
  /\ \/ kind = "RS" /\ At(c, "recv", "ended")
     \/ kind = "JP" /\ At(c, "recv", "send")
     \/ kind = "JP" /\ conn[c] = "reset" /\ At(c, "recv", "ended")
  /\ UNCHANGED <<program, lock, net, client>>

Lock(c) ==
  /\ lock = Nothing
  /\ At(c, "lock", "send")
  /\ lock' = c
  /\ UNCHANGED <<program, net, client>>

(* Mutant: an exception leaves the lock taken. *)
Release_NotInFinally(c) ==
  lock' = IF lock = c /\ thread'[c] # "ended" THEN Nothing ELSE lock

(* RS releases its lock in a finally clause. *)
Release(c) == lock' = IF lock = c THEN Nothing ELSE lock

(* Mutant: the server answers with a copy of the dictionary it was given. *)
State_Copied == 0

State == published

(* sendall waits while the connection is full; it may go unnoticed that the *)
(* client has left, whose host resets the connection then.                  *)
Send(c) ==
  /\ \/ /\ conn[c] = "open" /\ Len(answers[c]) < Capacity
        /\ At(c, "send", "recv")
        /\ answers' = [answers EXCEPT ![c] = Append(@, State)]
        /\ UNCHANGED conn
     \/ /\ conn[c] = "left"
        /\ At(c, "send", "recv")
        /\ conn' = [conn EXCEPT ![c] = "reset"]
        /\ UNCHANGED answers
     \/ /\ conn[c] \in {"left", "reset"}
        /\ At(c, "send", "ended")
        /\ UNCHANGED <<conn, answers>>
  /\ Release(c)
  /\ UNCHANGED <<program, pending, client>>

Handler(c) == Recv(c) \/ RecvNothing(c) \/ Lock(c) \/ Send(c)

-----------------------------------------------------------------------------
(* The clients *)

(* The host accepts connections as long as the socket listens. *)
Connect(c) ==
  /\ conn[c] = "idle" /\ server # "bound"
  /\ conn' = [conn EXCEPT ![c] = "open"]
  /\ UNCHANGED <<program, handler, pending, answers, client>>

Request(c) ==
  /\ conn[c] = "open" /\ sent[c] < MaxReq
  /\ sent' = [sent EXCEPT ![c] = @ + 1]
  /\ pending' = [pending EXCEPT ![c] = @ + 1]
  /\ IF c \in Patient
     THEN asked[c] = Nothing /\ asked' = [asked EXCEPT ![c] = published]
     ELSE UNCHANGED asked
  /\ UNCHANGED <<program, handler, conn, answers, got>>

Read(c) ==
  /\ c \in Patient /\ answers[c] # <<>>
  /\ got' = [got EXCEPT ![c] = Head(answers[c])]
  /\ answers' = [answers EXCEPT ![c] = Tail(@)]
  /\ asked' = [asked EXCEPT ![c] = Nothing]
  /\ UNCHANGED <<program, handler, conn, pending, sent>>

Leave(c) ==
  /\ conn[c] = "open"
  /\ conn' = [conn EXCEPT ![c] = "left"]
  /\ answers' = [answers EXCEPT ![c] = <<>>]
  /\ asked' = [d \in Patient |-> IF d = c THEN Nothing ELSE asked[d]]
  /\ UNCHANGED <<program, handler, pending, sent, got>>

Client(c) == Connect(c) \/ Request(c) \/ Read(c) \/ Leave(c)

-----------------------------------------------------------------------------
Next == Main \/ \E c \in Clients : Accept(c) \/ Handler(c) \/ Client(c)

Spec == Init /\ [][Next]_vars

(* Threads go on and clients that wait read; nothing is assumed of main. *)
Fairness ==
  \A c \in Clients : WF_vars(Accept(c)) /\ WF_vars(Handler(c)) /\ WF_vars(Read(c))

FairSpec == Spec /\ Fairness

-----------------------------------------------------------------------------
(* Properties *)

(* An answer is a state that was in force after the request, also while RS  *)
(* writes its timestamp into the dictionary the handlers share              *)
(* (main.py:46-51, 66, server.py:18).                                       *)
Promise == INSTANCE Snapshot WITH Clients <- Patient, open <- TRUE
SnapshotSpec == Promise!Spec

(* A handler of RS that waits, with the lock, for a client that does not    *)
(* read (server.py:16-20).                                                  *)
Blocked(c) == lock = c /\ conn[c] = "open" /\ Len(answers[c]) = Capacity
NobodyBlocksForEver == \A c \in Clients : []<>~Blocked(c)

(* A client that waits is answered, long after the main thread has died and *)
(* beside clients that leave while they are being answered, unless a client *)
(* of RS that does not read keeps the lock for good (server.py:9-20,        *)
(* functions.py:45-67).                                                     *)
PatientServed ==
  NobodyBlocksForEver =>
    \A c \in Patient : asked[c] # Nothing /\ thread[c] # "none" ~> asked[c] = Nothing

(* No handler outlives its client, although that of JP never looks at what  *)
(* recv returns (server.py:12-15, functions.py:48-56).                      *)
ThreadsEnd ==
  NobodyBlocksForEver =>
    \A c \in Clients : conn[c] \in {"left", "reset"} /\ thread[c] # "none"
                         ~> thread[c] = "ended"
=============================================================================
