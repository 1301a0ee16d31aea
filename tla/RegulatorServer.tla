--------------------------- MODULE RegulatorServer ---------------------------
(***************************************************************************)
(* The regulator's data server (Server.cpp): the main thread binds a new   *)
(* state each round, a listening thread accepts connections and leaves     *)
(* each to a detached worker, and the worker answers what it receives with *)
(* a copy of the state.                                                    *)
(*                                                                         *)
(* Abstractions.  A state is its number; a Json is copied in two parts.    *)
(* The heat exchanger waits for its answers, building KS never reads them. *)
(* After the destructor the members are what their memory happens to hold. *)
(***************************************************************************)
EXTENDS Naturals, Sequences

CONSTANTS
  Conns,       \* the connections
  Deaf,        \* those whose client neither waits for answers nor reads them
  Main, Free,  \* owners of the mutex beside the workers
  Nothing,     \* no request is waiting, no answer has been read
  Wreck,       \* what is no state
  MaxReq,      \* requests each client sends
  OutCap,      \* answers a connection buffers
  MaxVersion   \* rounds of the main loop

ASSUME ServerAssumption ==
  /\ Deaf \subseteq Conns
  /\ Main # Free /\ {Main, Free} \cap Conns = {}
  /\ Nothing \notin Nat /\ Wreck \notin Nat
  /\ MaxReq \in [Conns -> Nat] /\ OutCap \in Nat \ {0} /\ MaxVersion \in Nat

VARIABLES
  main,       \* where the main thread is: in its round, bindData or ~Server
  published,  \* states bound since the start
  data,       \* the two parts of Server::data
  mutex,      \* the owner of Server::mutex
  alive,      \* Server::alive
  listener,   \* where the listening thread is
  worker,     \* where the worker of each connection is
  copy,       \* its dataOut
  conn,       \* "idle", "open" or "left" by the client
  sent,       \* requests the client has sent
  requests,   \* those the worker has not received
  answers,    \* answers in the connection, oldest first
  asked,      \* ghost: the state in force when the waiting request was sent
  got         \* the last answer the client read

server == <<main, published, data, mutex, alive>>
client == <<conn, sent, asked, got>>
vars   == <<server, listener, worker, copy, client, requests, answers>>

Patient == Conns \ Deaf

Gone == main = "gone"

Part == 0 .. MaxVersion \cup {Wreck}

Json == [first : Part, second : Part]

State(n) == [first |-> n, second |-> n]

Whole(json) == IF json.first = json.second THEN json.first ELSE Wreck

(* Where bindData and getData hold the mutex. *)
Holding == {"first", "second", "unlock"}

WorkerStates == {"none", "loop", "recv", "lock", "send", "ended"} \cup Holding

TypeOK ==
  /\ main \in {"run", "join", "gone"} \cup Holding
  /\ published \in 0 .. MaxVersion
  /\ data \in Json
  /\ mutex \in Conns \cup {Main, Free}
  /\ alive \in BOOLEAN
  /\ listener \in {"loop", "accept", "ended"}
  /\ worker \in [Conns -> WorkerStates]
  /\ copy \in [Conns -> Json]
  /\ conn \in [Conns -> {"idle", "open", "left"}]
  /\ sent \in [Conns -> Nat] /\ requests \in [Conns -> Nat]
  /\ \A c \in Conns : requests[c] <= sent[c] /\ sent[c] <= MaxReq[c]
  /\ answers \in [Conns -> Seq(Json)]
  /\ \A c \in Conns : Len(answers[c]) <= IF c \in Deaf THEN OutCap ELSE 1
  /\ asked \in [Conns -> 0 .. MaxVersion \cup {Nothing}]
  /\ got \in [Conns -> 0 .. MaxVersion \cup {Nothing, Wreck}]

(* start binds the default state before it creates the listening thread. *)
Init ==
  /\ main = "run" /\ published = 0 /\ data = State(0) /\ mutex = Free
  /\ alive = TRUE /\ listener = "loop"
  /\ worker = [c \in Conns |-> "none"]
  /\ copy = [c \in Conns |-> State(0)]
  /\ conn = [c \in Conns |-> "idle"]
  /\ sent = [c \in Conns |-> 0]
  /\ requests = [c \in Conns |-> 0]
  /\ answers = [c \in Conns |-> <<>>]
  /\ asked = [c \in Conns |-> Nothing]
  /\ got = [c \in Conns |-> Nothing]

-----------------------------------------------------------------------------
(* The main thread *)

(* Mutant: bindData does not lock. *)
BindLock_Forgotten ==
  /\ main = "run"
  /\ published < MaxVersion
  /\ main' = "first"
  /\ UNCHANGED <<published, data, mutex, alive, listener, worker, copy, client,
                 requests, answers>>

BindLock ==
  /\ main = "run"
  /\ published < MaxVersion
  /\ mutex = Free
  /\ mutex' = Main
  /\ main' = "first"
  /\ UNCHANGED <<published, data, alive, listener, worker, copy, client,
                 requests, answers>>

BindFirst ==
  /\ main = "first"
  /\ data' = [data EXCEPT !.first = published + 1]
  /\ main' = "second"
  /\ UNCHANGED <<published, mutex, alive, listener, worker, copy, client,
                 requests, answers>>

BindSecond ==
  /\ main = "second"
  /\ data' = [data EXCEPT !.second = published + 1]
  /\ main' = "unlock"
  /\ UNCHANGED <<published, mutex, alive, listener, worker, copy, client,
                 requests, answers>>

BindUnlock ==
  /\ main = "unlock"
  /\ mutex' = Free
  /\ published' = published + 1
  /\ main' = "run"
  /\ UNCHANGED <<data, alive, listener, worker, copy, client, requests, answers>>

(* An exception leaves the round; ~Server waits for the listening thread. *)
Stop ==
  /\ main = "run"
  /\ alive' = FALSE
  /\ main' = "join"
  /\ UNCHANGED <<published, data, mutex, listener, worker, copy, client,
                 requests, answers>>

Destroy ==
  /\ main = "join"
  /\ listener = "ended"
  /\ main' = "gone"
  /\ UNCHANGED <<published, data, mutex, alive, listener, worker, copy, client,
                 requests, answers>>

MainThread == \/ BindLock \/ BindFirst \/ BindSecond \/ BindUnlock
              \/ Stop \/ Destroy

-----------------------------------------------------------------------------
(* The listening thread *)

(* Mutant: the thread listens for ever. *)
Listen_Forever ==
  /\ listener = "loop"
  /\ listener' = "accept"
  /\ UNCHANGED <<server, worker, copy, client, requests, answers>>

Listen ==
  /\ listener = "loop"
  /\ listener' = IF alive THEN "accept" ELSE "ended"
  /\ UNCHANGED <<server, worker, copy, client, requests, answers>>

Waits(c) == conn[c] # "idle" /\ worker[c] = "none"

(* The socket does not block: accept fails when nobody waits. *)
Accept ==
  /\ listener = "accept"
  /\ listener' = "loop"
  /\ \/ \E c \in Conns : Waits(c) /\ worker' = [worker EXCEPT ![c] = "loop"]
     \/ (\A c \in Conns : ~Waits(c)) /\ UNCHANGED worker
  /\ UNCHANGED <<server, copy, client, requests, answers>>

ListeningThread == Listen \/ Accept

-----------------------------------------------------------------------------
(* The workers *)

Goto(c, from, to) ==
  /\ worker[c] = from
  /\ worker' = [worker EXCEPT ![c] = to]

(* After the destructor, alive is whatever its memory holds. *)
Loop(c) ==
  /\ \/ (alive \/ Gone) /\ Goto(c, "loop", "recv")
     \/ ~alive /\ Goto(c, "loop", "ended")
  /\ UNCHANGED <<server, listener, copy, client, requests, answers>>

(* Mutant: the request stays in the connection. *)
Recv_Peeks(c) ==
  /\ requests[c] > 0
  /\ Goto(c, "recv", "lock")
  /\ UNCHANGED <<server, listener, copy, client, requests, answers>>

(* Up to 256 bytes, one request or several, are answered once. *)
Recv(c) ==
  /\ \E n \in 1 .. requests[c] : requests' = [requests EXCEPT ![c] = @ - n]
  /\ Goto(c, "recv", "lock")
  /\ UNCHANGED <<server, listener, copy, client, answers>>

(* Nothing has come, or the client has left: the worker goes round. *)
RecvNothing(c) ==
  /\ requests[c] = 0
  /\ Goto(c, "recv", "loop")
  /\ UNCHANGED <<server, listener, copy, client, requests, answers>>

Lock(c) ==
  /\ mutex = Free \/ Gone
  /\ Goto(c, "lock", "first")
  /\ mutex' = c
  /\ UNCHANGED <<main, published, data, alive, listener, copy, client, requests,
                 answers>>

Memory(v) == IF Gone THEN {v, Wreck} ELSE {v}

CopyFirst(c) ==
  /\ Goto(c, "first", "second")
  /\ \E v \in Memory(data.first) : copy' = [copy EXCEPT ![c].first = v]
  /\ UNCHANGED <<server, listener, client, requests, answers>>

CopySecond(c) ==
  /\ Goto(c, "second", "unlock")
  /\ \E v \in Memory(data.second) : copy' = [copy EXCEPT ![c].second = v]
  /\ UNCHANGED <<server, listener, client, requests, answers>>

(* Mutant: getData returns without unlocking. *)
Unlock_Forgotten(c) ==
  /\ Goto(c, "unlock", "send")
  /\ UNCHANGED <<server, listener, copy, client, requests, answers>>

Unlock(c) ==
  /\ Goto(c, "unlock", "send")
  /\ mutex' = Free
  /\ UNCHANGED <<main, published, data, alive, listener, copy, client, requests,
                 answers>>

(* sendJson ignores what cannot be sent: a full buffer, a client that left. *)
Send(c) ==
  /\ Goto(c, "send", "loop")
  /\ answers' = IF conn[c] = "open" /\ Len(answers[c]) < OutCap
                THEN [answers EXCEPT ![c] = Append(@, copy[c])]
                ELSE answers
  /\ UNCHANGED <<server, listener, copy, client, requests>>

Worker(c) == \/ Loop(c) \/ Recv(c) \/ RecvNothing(c)
             \/ Lock(c) \/ CopyFirst(c) \/ CopySecond(c) \/ Unlock(c) \/ Send(c)

-----------------------------------------------------------------------------
(* The clients *)

Connect(c) ==
  /\ conn[c] = "idle" /\ ~Gone
  /\ conn' = [conn EXCEPT ![c] = "open"]
  /\ UNCHANGED <<server, listener, worker, copy, sent, asked, got, requests, answers>>

Request(c) ==
  /\ conn[c] = "open"
  /\ sent[c] < MaxReq[c]
  /\ asked[c] = Nothing
  /\ sent' = [sent EXCEPT ![c] = @ + 1]
  /\ requests' = [requests EXCEPT ![c] = @ + 1]
  /\ asked' = IF c \in Deaf THEN asked ELSE [asked EXCEPT ![c] = published]
  /\ UNCHANGED <<server, listener, worker, copy, conn, got, answers>>

Read(c) ==
  /\ conn[c] = "open" /\ c \in Patient /\ answers[c] # <<>>
  /\ got' = [got EXCEPT ![c] = Whole(Head(answers[c]))]
  /\ answers' = [answers EXCEPT ![c] = Tail(@)]
  /\ asked' = [asked EXCEPT ![c] = Nothing]
  /\ UNCHANGED <<server, listener, worker, copy, conn, sent, requests>>

Leave(c) ==
  /\ conn[c] = "open"
  /\ conn' = [conn EXCEPT ![c] = "left"]
  /\ asked' = [asked EXCEPT ![c] = Nothing]
  /\ UNCHANGED <<server, listener, worker, copy, sent, got, requests, answers>>

Client(c) == Connect(c) \/ Request(c) \/ Read(c) \/ Leave(c)

-----------------------------------------------------------------------------
Next == \/ MainThread \/ ListeningThread
        \/ \E c \in Conns : Worker(c) \/ Client(c)

Spec == Init /\ [][Next]_vars

(* Every thread that can go on does; an exception, and what a client does   *)
(* beside reading, may never come.                                          *)
Fairness ==
  /\ WF_vars(BindLock) /\ WF_vars(BindFirst \/ BindSecond \/ BindUnlock)
  /\ WF_vars(Destroy)
  /\ WF_vars(ListeningThread)
  /\ \A c \in Conns : WF_vars(Worker(c)) /\ WF_vars(Read(c))

FairSpec == Spec /\ Fairness

-----------------------------------------------------------------------------
(* Properties *)

(* Nobody copies data while bindData replaces it, nor do two workers hold   *)
(* the mutex at once (Server.cpp:26-32, 44-50).                             *)
MutualExclusion ==
  ~Gone =>
    \A c \in Conns : worker[c] \in Holding =>
      main \notin Holding /\ \A d \in Conns \ {c} : worker[d] \notin Holding

(* A client that waits gets one bound state, whole, that was in force after *)
(* it asked, however its worker, the main thread and the other workers      *)
(* interleave: the server implements Snapshot (Server.cpp:26-50, 69-88).    *)
Promise == INSTANCE Snapshot
             WITH Clients <- Patient, open <- ~Gone,
                  asked <- [c \in Patient |-> asked[c]],
                  got <- [c \in Patient |-> got[c]]
SnapshotSpec == Promise!Spec

(* ~Server never hangs: the listening thread does not block in accept       *)
(* (Server.cpp:34-42, 52-67, Socket.cpp:80).                                *)
StopTerminates == main = "join" ~> Gone

(* A client that waits is answered unless the server stops first, although  *)
(* another one sends and never reads (Server.cpp:69-88).                    *)
PatientServed ==
  \A c \in Conns : asked[c] # Nothing ~> (asked[c] = Nothing \/ ~alive)
=============================================================================
