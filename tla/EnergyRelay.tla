------------------------------ MODULE EnergyRelay -----------------------------
(***************************************************************************)
(* The server of the energy provider: it keeps what the provider said last *)
(* and tells it to every client that connects and to every client that     *)
(* asks (server.py).  EnergyProvider is the other end of its first         *)
(* connection.                                                             *)
(*                                                                         *)
(* Abstractions.  The provider connects first and stays.  A message is the *)
(* second it was sent in; of messages received at once, and told to clients*)
(* at once, only the last is followed.  A client sends a request and waits *)
(* for an answer, but recv may give it the greeting and the answer at once.*)
(* The relay may crash and be started again, once.                         *)
(***************************************************************************)
EXTENDS EnergyProvider, Sequences

CONSTANTS
  Clients,
  Undefined,  \* send_data before the provider's first message
  MaxReq,     \* requests a client sends
  MaxLink     \* messages of the provider that wait in its connection

ASSUME RelayAssumption ==
  Undefined \notin Nat /\ MaxReq \in Nat /\ MaxLink \in Nat \ {0}

VARIABLES
  link,       \* the provider's messages on their way
  crashed,    \* the relay has been started again: the provider is cut off
  send_data,
  thread,     \* client_thr of each client
  left,       \* clients that have closed their connection
  pending,    \* requests of each client that are not received
  answers,    \* what is on its way to each client
  waiting,    \* clients that wait for an answer
  sent,       \* requests sent by each client
  asked,      \* ghost: time of send_data at the last request
  before      \* ghost: the same at the request before, or at accept, while a
              \* client waits

supply == <<provider, link, crashed>>
relay  == <<send_data, thread>>
ghost  == <<asked, before>>
client == <<left, waiting, sent, ghost>>
vars   == <<supply, relay, pending, answers, client>>

TypeOK ==
  /\ real \in 0 .. MaxReal /\ date \in Int /\ date0 \in Int
  /\ failure \in BOOLEAN
  /\ link \in Seq(0 .. MaxReal) /\ Len(link) <= MaxLink
  /\ send_data \in (0 .. MaxReal) \cup {Undefined}
  /\ crashed \in BOOLEAN
  /\ thread \in [Clients -> {"none", "greet", "recv", "reply", "died", "spin"}]
  /\ left \subseteq Clients
  /\ waiting \subseteq Clients \ left
  /\ pending \in [Clients -> 0 .. 2] /\ answers \in [Clients -> Seq(0 .. MaxReal)]
  /\ \A c \in Clients :
       pending[c] + Len(answers[c]) <= IF c \in waiting \cup left THEN 2 ELSE 1
  /\ sent \in [Clients -> 0 .. MaxReq]
  /\ asked \in [Clients -> 0 .. MaxReal] /\ before \in [Clients -> 0 .. MaxReal]

InForce == IF send_data = Undefined THEN 0 ELSE send_data

Init ==
  /\ InitProvider
  /\ link = <<>> /\ crashed = FALSE
  /\ send_data = Undefined
  /\ thread = [c \in Clients |-> "none"]
  /\ pending = [c \in Clients |-> 0] /\ waiting = {} /\ left = {}
  /\ answers = [c \in Clients |-> <<>>]
  /\ sent = [c \in Clients |-> 0]
  /\ asked = [c \in Clients |-> 0] /\ before = [c \in Clients |-> 0]

-----------------------------------------------------------------------------
(* The provider *)

(* Once the connection is lost, send raises in every round: nothing leaves, *)
(* nobody sleeps and nobody connects again.                                 *)
Provide ==
  /\ Round
  /\ \/ /\ ~crashed /\ real' > real /\ Len(link) < MaxLink
        /\ link' = Append(link, real')
     \/ crashed /\ UNCHANGED link
  /\ UNCHANGED <<crashed, relay, pending, answers, client>>

(* The thread of the provider, known by its address. *)
Store ==
  \E n \in 1 .. Len(link) :
    /\ send_data' = link[n]
    /\ link' = SubSeq(link, n + 1, Len(link))
    /\ UNCHANGED <<provider, crashed, thread, pending, answers, client>>

-----------------------------------------------------------------------------
(* The threads of the clients *)

At(c, from, to) == thread[c] = from /\ thread' = [thread EXCEPT ![c] = to]

(* What is told to a client that has left is lost. *)
Say(c) ==
  answers' = [answers EXCEPT ![c] = IF c \in left THEN @ ELSE Append(@, InForce)]

(* Mutant: the NameError of the greeting is not caught. *)
Greet_Raises(c) ==
  /\ IF send_data = Undefined THEN At(c, "greet", "died") /\ UNCHANGED answers
     ELSE At(c, "greet", "recv") /\ Say(c)
  /\ UNCHANGED <<supply, send_data, pending, client>>

(* The greeting; without data its NameError is swallowed. *)
Greet(c) ==
  /\ At(c, "greet", "recv")
  /\ IF send_data = Undefined THEN UNCHANGED answers ELSE Say(c)
  /\ UNCHANGED <<supply, send_data, pending, client>>

(* Mutant: the request stays in the connection. *)
Recv_Peeks(c) ==
  /\ pending[c] > 0
  /\ At(c, "recv", "reply")
  /\ UNCHANGED <<supply, send_data, pending, answers, client>>

(* recv gives one request or several: one answer either way. *)
Recv(c) ==
  /\ At(c, "recv", "reply")
  /\ \E n \in 1 .. pending[c] : pending' = [pending EXCEPT ![c] = @ - n]
  /\ UNCHANGED <<supply, send_data, answers, client>>

(* The client has left: recv returns nothing, again and again, unless it    *)
(* raises because the connection was reset.                                 *)
RecvNothing(c) ==
  /\ c \in left /\ pending[c] = 0
  /\ At(c, "recv", "spin") \/ At(c, "recv", "died")
  /\ UNCHANGED <<supply, send_data, pending, answers, client>>

(* Mutant: the greeting is part of the loop. *)
Reply_Greets(c) ==
  /\ At(c, "reply", "greet")
  /\ send_data # Undefined
  /\ Say(c)
  /\ UNCHANGED <<supply, send_data, pending, client>>

(* Mutant: whoever sends is taken for the provider. *)
Reply_Stores(c) ==
  /\ At(c, "reply", "recv")
  /\ UNCHANGED <<supply, send_data, pending, answers, client>>

(* An exception ends the thread and leaves the connection as it is: without *)
(* data the NameError, and sendall to a client that has left may raise.     *)
Reply(c) ==
  /\ \/ send_data # Undefined /\ At(c, "reply", "recv") /\ Say(c)
     \/ send_data = Undefined /\ At(c, "reply", "died") /\ UNCHANGED answers
     \/ c \in left /\ At(c, "reply", "died") /\ UNCHANGED answers
  /\ UNCHANGED <<supply, send_data, pending, client>>

(* The process ends, and is started anew: its clients find their            *)
(* connections broken and may connect again; the provider does not.         *)
Crash ==
  /\ ~crashed /\ crashed' = TRUE
  /\ send_data' = Undefined
  /\ link' = <<>>
  /\ thread' = [c \in Clients |-> "none"]
  /\ pending' = [c \in Clients |-> 0]
  /\ answers' = [c \in Clients |-> <<>>]
  /\ left' = {} /\ waiting' = {}
  /\ before' = [c \in Clients |-> 0]
  /\ UNCHANGED <<provider, sent, asked>>

-----------------------------------------------------------------------------
(* The clients *)

(* accept starts the thread that greets. *)
Connect(c) ==
  /\ At(c, "none", "greet")
  /\ asked' = [asked EXCEPT ![c] = InForce]
  /\ UNCHANGED <<supply, send_data, pending, answers, left, waiting, sent, before>>

Request(c) ==
  /\ thread[c] # "none"
  /\ c \notin waiting \cup left /\ sent[c] < MaxReq
  /\ waiting' = waiting \cup {c}
  /\ pending' = [pending EXCEPT ![c] = @ + 1]
  /\ sent' = [sent EXCEPT ![c] = @ + 1]
  /\ before' = [before EXCEPT ![c] = asked[c]]
  /\ asked' = [asked EXCEPT ![c] = InForce]
  /\ UNCHANGED <<supply, relay, answers, left>>

(* recv gives everything that has come, or only the first. *)
Read(c) ==
  /\ c \in waiting
  /\ \E n \in 1 .. Len(answers[c]) :
       answers' = [answers EXCEPT ![c] = SubSeq(@, n + 1, Len(@))]
  /\ waiting' = waiting \ {c}
  /\ before' = [before EXCEPT ![c] = 0]
  /\ UNCHANGED <<supply, relay, pending, left, sent, asked>>

Leave(c) ==
  /\ thread[c] # "none" /\ c \notin left
  /\ left' = left \cup {c}
  /\ waiting' = waiting \ {c}
  /\ answers' = [answers EXCEPT ![c] = <<>>]
  /\ before' = [before EXCEPT ![c] = 0]
  /\ UNCHANGED <<supply, relay, pending, sent, asked>>

Client(c) == Connect(c) \/ Request(c) \/ Read(c) \/ Leave(c)

-----------------------------------------------------------------------------
Thread(c) == Greet(c) \/ Recv(c) \/ RecvNothing(c) \/ Reply(c)

Next == Provide \/ Store \/ Crash \/ \E c \in Clients : Thread(c) \/ Client(c)

Spec == Init /\ [][Next]_vars

(* Threads go on, and a client that waits reads what comes. *)
Fairness == \A c \in Clients : WF_vars(Thread(c)) /\ WF_vars(Read(c))

FairSpec == Spec /\ Fairness

-----------------------------------------------------------------------------
(* Properties *)

(* What a client may read is at most one request behind, because of the     *)
(* greeting nobody waits for, and what comes later is never older           *)
(* (server.py:17-23, 26-31).                                                *)
OneBehind ==
  \A c \in Clients : \A i \in 1 .. Len(answers[c]) :
    /\ answers[c][i] >= before[c]
    /\ answers[c][i] <= IF i = Len(answers[c]) THEN InForce ELSE answers[c][i + 1]

(* A client that found data when it connected, or an answer to its last     *)
(* request, is answered again unless the relay crashes; only a request that *)
(* comes before any data kills its thread (server.py:20-31).                *)
ServedWithData == \A c \in Clients : c \in waiting /\ before[c] > 0 ~> c \notin waiting

(* Whom the relay may forget: a client that waits has a live thread and     *)
(* something under way, unless it asked when there was no data and its      *)
(* thread died of it.  A greeting that fails for want of data, a message    *)
(* that overtakes a request or two requests received as one cost nobody an  *)
(* answer (server.py:20-33).                                                *)
Expects(c) == pending[c] > 0 \/ thread[c] = "reply" \/ answers[c] # <<>>

OnlyTooEarlyIsForgotten ==
  \A c \in waiting :
    \/ thread[c] \in {"greet", "recv", "reply"} /\ Expects(c)
    \/ thread[c] = "died" /\ asked[c] = 0 /\ answers[c] = <<>>
=============================================================================
