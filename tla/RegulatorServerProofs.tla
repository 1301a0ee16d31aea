------------------------ MODULE RegulatorServerProofs ------------------------
(* Theorems about RegulatorServer, for every set of connections and every   *)
(* bound.                                                                   *)
EXTENDS RegulatorServer, TLAPS

Busy == {"lock", "send"} \cup Holding

Typed ==
  /\ main \in {"run", "join", "gone"} \cup Holding
  /\ published \in 0 .. MaxVersion
  /\ main \in Holding => published < MaxVersion
  /\ data \in Json
  /\ mutex \in Conns \cup {Main, Free}
  /\ alive \in BOOLEAN
  /\ listener \in {"loop", "accept", "ended"}
  /\ worker \in [Conns -> WorkerStates]
  /\ copy \in [Conns -> Json]
  /\ conn \in [Conns -> {"idle", "open", "left"}]
  /\ sent \in [Conns -> Nat] /\ requests \in [Conns -> Nat]
  /\ answers \in [Conns -> Seq(Json)]
  /\ asked \in [Conns -> 0 .. MaxVersion \cup {Nothing}]
  /\ got \in [Conns -> 0 .. MaxVersion \cup {Nothing, Wreck}]
  /\ \A c \in Conns : /\ requests[c] <= sent[c] /\ sent[c] <= MaxReq[c]
                      /\ Len(answers[c]) <= OutCap

(* Of a client that waits there is one request, one worker busy with it, or *)
(* one answer; of one that does not, nothing.                               *)
OneOutstanding ==
  \A c \in Patient :
    /\ requests[c] <= 1 /\ Len(answers[c]) <= 1
    /\ requests[c] = 1 => worker[c] \notin Busy /\ Len(answers[c]) = 0
    /\ worker[c] \in Busy => Len(answers[c]) = 0
    /\ conn[c] # "left" /\ asked[c] = Nothing =>
         requests[c] = 0 /\ worker[c] \notin Busy /\ Len(answers[c]) = 0

NothingFromDeaf == \A c \in Deaf : asked[c] = Nothing

Locked ==
  ~Gone =>
    /\ main \in Holding => mutex = Main
    /\ \A c \in Conns : worker[c] \in Holding => mutex = c

(* The parts of data while bindData replaces them. *)
Bound ==
  ~Gone =>
    /\ data.first = IF main \in {"second", "unlock"} THEN published + 1
                    ELSE published
    /\ data.second = IF main = "unlock" THEN published + 1 ELSE published

Fresh(c, json) ==
  /\ json.first = json.second
  /\ json.first \in 0 .. published
  /\ c \in Patient /\ asked[c] # Nothing => asked[c] <= json.first

Copied ==
  ~Gone =>
    \A c \in Conns :
      /\ asked[c] # Nothing => asked[c] <= published
      /\ worker[c] \in {"second", "unlock"} => copy[c].first = published
      /\ worker[c] = "unlock" => copy[c].second = published
      /\ worker[c] = "send" => Fresh(c, copy[c])
      /\ c \in Patient /\ answers[c] # <<>> => Fresh(c, Head(answers[c]))

IInv == Typed /\ OneOutstanding /\ NothingFromDeaf /\ Locked /\ Bound /\ Copied

-----------------------------------------------------------------------------
LEMMA Queue ==
  ASSUME NEW s \in Seq(Json)
  PROVE  /\ Len(s) \in Nat
         /\ s # <<>> => Head(s) \in Json /\ Tail(s) \in Seq(Json)
                        /\ Len(Tail(s)) = Len(s) - 1 /\ Len(s) >= 1
         /\ \A x \in Json : Append(s, x) \in Seq(Json) /\ Len(Append(s, x)) = Len(s) + 1
                            /\ Append(s, x) # <<>>
                            /\ (s = <<>> => Head(Append(s, x)) = x)
         /\ Len(s) = 0 <=> s = <<>>
<1>1. Len(s) \in Nat /\ (Len(s) = 0 <=> s = <<>>)
  OBVIOUS
<1>2. ASSUME s # <<>>
      PROVE  /\ Head(s) \in Json /\ Tail(s) \in Seq(Json)
             /\ Len(Tail(s)) = Len(s) - 1 /\ Len(s) >= 1
  BY <1>2
<1>3. ASSUME NEW x \in Json
      PROVE  /\ Append(s, x) \in Seq(Json) /\ Len(Append(s, x)) = Len(s) + 1
             /\ Append(s, x) # <<>>
             /\ (s = <<>> => Head(Append(s, x)) = x)
  OBVIOUS
<1> QED BY <1>1, <1>2, <1>3

LEMMA StateType == \A n \in 0 .. MaxVersion : State(n) \in Json
  BY DEF State, Json, Part

LEMMA Whole0 ==
  ASSUME NEW j \in Json
  PROVE  Whole(j) \in 0 .. MaxVersion \cup {Nothing, Wreck}
  BY DEF Whole, Json, Part

LEMMA Initially == Init => IInv
<1> SUFFICES ASSUME Init PROVE IInv
  OBVIOUS
<1>0. State(0) \in Json
  BY StateType, ServerAssumption
<1>1. Typed
  BY <1>0, ServerAssumption DEF Init, Typed, WorkerStates, Holding
<1>2. OneOutstanding /\ NothingFromDeaf /\ Locked
  BY ServerAssumption DEF Init, OneOutstanding, NothingFromDeaf, Patient, Busy, Locked, Holding
<1>3. Bound /\ Copied
  BY ServerAssumption DEF Init, Bound, Copied, State, Holding, Patient
<1> QED BY <1>1, <1>2, <1>3 DEF IInv

LEMMA TypedInductive == Typed /\ [Next]_vars => Typed'
<1> SUFFICES ASSUME Typed, [Next]_vars PROVE Typed'
  OBVIOUS
<1> USE ServerAssumption DEF Holding, server, client
<1>1. CASE MainThread
  <2> USE <1>1 DEF Typed
  <2>1. CASE BindLock BY <2>1 DEF BindLock
  <2>2. CASE BindFirst
    <3>0. published + 1 \in Part
      BY <2>2 DEF BindFirst, Part
    <3>1. data' \in Json
      BY <2>2, <3>0 DEF BindFirst, Json
    <3> QED BY <2>2, <3>1 DEF BindFirst
  <2>3. CASE BindSecond
    <3>0. published + 1 \in Part
      BY <2>3 DEF BindSecond, Part
    <3>1. data' \in Json
      BY <2>3, <3>0 DEF BindSecond, Json
    <3> QED BY <2>3, <3>1 DEF BindSecond
  <2>4. CASE BindUnlock BY <2>4 DEF BindUnlock
  <2>5. CASE Stop BY <2>5 DEF Stop
  <2>6. CASE Destroy BY <2>6 DEF Destroy
  <2> QED BY <2>1, <2>2, <2>3, <2>4, <2>5, <2>6 DEF MainThread
<1>2. CASE ListeningThread
  BY <1>2 DEF ListeningThread, Listen, Accept, Typed, WorkerStates
<1>3. ASSUME NEW c \in Conns, Worker(c) PROVE Typed'
  <2> USE DEF Typed, Goto, WorkerStates
  <2>1. CASE Loop(c) BY <2>1 DEF Loop
  <2>2. CASE Recv(c) BY <2>2 DEF Recv
  <2>3. CASE RecvNothing(c) BY <2>3 DEF RecvNothing
  <2>4. CASE Lock(c) BY <2>4 DEF Lock
  <2>5. CASE CopyFirst(c)
    <3>1. PICK v \in Part : copy' = [copy EXCEPT ![c].first = v]
      BY <2>5 DEF CopyFirst, Memory, Json, Part
    <3>2. [copy[c] EXCEPT !.first = v] \in Json
      BY <3>1 DEF Json
    <3>3. copy' \in [Conns -> Json]
      BY <3>1, <3>2
    <3> QED BY <2>5, <3>3 DEF CopyFirst
  <2>6. CASE CopySecond(c)
    <3>1. PICK v \in Part : copy' = [copy EXCEPT ![c].second = v]
      BY <2>6 DEF CopySecond, Memory, Json, Part
    <3>2. [copy[c] EXCEPT !.second = v] \in Json
      BY <3>1 DEF Json
    <3>3. copy' \in [Conns -> Json]
      BY <3>1, <3>2
    <3> QED BY <2>6, <3>3 DEF CopySecond
  <2>7. CASE Unlock(c) BY <2>7 DEF Unlock
  <2>8. CASE Send(c)
    <3>1. answers' \in [Conns -> Seq(Json)] /\ \A d \in Conns : Len(answers'[d]) <= OutCap
      BY <2>8, Queue DEF Send
    <3> QED BY <2>8, <3>1 DEF Send
  <2> QED BY <1>3, <2>1, <2>2, <2>3, <2>4, <2>5, <2>6, <2>7, <2>8 DEF Worker
<1>4. ASSUME NEW c \in Conns, Client(c) PROVE Typed'
  <2> USE DEF Typed
  <2>1. CASE Connect(c) BY <2>1 DEF Connect
  <2>2. CASE Request(c)
    <3>1. /\ sent' \in [Conns -> Nat] /\ requests' \in [Conns -> Nat]
          /\ \A d \in Conns : requests'[d] <= sent'[d] /\ sent'[d] <= MaxReq[d]
      BY <2>2 DEF Request
    <3>2. asked' \in [Conns -> 0 .. MaxVersion \cup {Nothing}]
      BY <2>2 DEF Request
    <3> QED BY <2>2, <3>1, <3>2 DEF Request
  <2>3. CASE Read(c)
    <3>1. Whole(Head(answers[c])) \in 0 .. MaxVersion \cup {Nothing, Wreck}
      BY <2>3, Queue, Whole0 DEF Read
    <3>2. answers' \in [Conns -> Seq(Json)] /\ \A d \in Conns : Len(answers'[d]) <= OutCap
      BY <2>3, Queue DEF Read
    <3> QED BY <2>3, <3>1, <3>2 DEF Read
  <2>4. CASE Leave(c) BY <2>4 DEF Leave
  <2> QED BY <1>4, <2>1, <2>2, <2>3, <2>4 DEF Client
<1>5. CASE UNCHANGED vars
  BY <1>5 DEF vars, Typed
<1> QED BY <1>1, <1>2, <1>3, <1>4, <1>5 DEF Next

LEMMA OutstandingInductive ==
  Typed /\ OneOutstanding /\ [Next]_vars => OneOutstanding'
<1> SUFFICES ASSUME Typed, OneOutstanding, [Next]_vars PROVE OneOutstanding'
  OBVIOUS
<1> USE ServerAssumption DEF OneOutstanding, server, client, Patient
<1>0. \A c \in Conns : Len(answers[c]) \in Nat /\ requests[c] \in Nat
  BY Queue DEF Typed
<1>1. CASE MainThread
  BY <1>1 DEF MainThread, BindLock, BindFirst, BindSecond, BindUnlock, Stop, Destroy
<1>2. CASE ListeningThread
  BY <1>2 DEF ListeningThread, Listen, Accept, Typed, Waits, Busy, Holding
<1>3. ASSUME NEW c \in Conns, Worker(c) PROVE OneOutstanding'
  <2> USE DEF Goto, Busy, Holding
  <2>1. CASE Loop(c) \/ RecvNothing(c)
    BY <2>1 DEF Loop, RecvNothing, Typed
  <2>2. CASE Recv(c)
    BY <1>0, <2>2 DEF Recv, Typed
  <2>3. CASE Lock(c) \/ CopyFirst(c) \/ CopySecond(c) \/ Unlock(c)
    BY <2>3 DEF Lock, CopyFirst, CopySecond, Unlock, Typed
  <2>4. CASE Send(c)
    <3>1. \A d \in Conns : d # c => answers'[d] = answers[d] /\ worker'[d] = worker[d]
      BY <2>4 DEF Send, Typed
    <3>2. Len(answers'[c]) \in {Len(answers[c]), Len(answers[c]) + 1}
          /\ (conn[c] # "open" => answers'[c] = answers[c])
      BY <2>4, Queue DEF Send, Typed
    <3>3. worker[c] = "send" /\ worker'[c] = "loop" /\ requests' = requests
          /\ conn' = conn /\ asked' = asked
      BY <2>4 DEF Send, Typed
    <3> QED BY <1>0, <3>1, <3>2, <3>3
  <2> QED BY <1>3, <2>1, <2>2, <2>3, <2>4 DEF Worker
<1>4. ASSUME NEW c \in Conns, Client(c) PROVE OneOutstanding'
  <2>1. CASE Connect(c)
    BY <2>1 DEF Connect, Typed
  <2>2. CASE Request(c)
    BY <1>0, <2>2 DEF Request, Typed
  <2>3. CASE Read(c)
    <3>1. \A d \in Conns : d # c => answers'[d] = answers[d] /\ asked'[d] = asked[d]
      BY <2>3 DEF Read, Typed
    <3>2. Len(answers'[c]) = Len(answers[c]) - 1 /\ Len(answers[c]) >= 1
      BY <2>3, Queue DEF Read, Typed
    <3>3. worker' = worker /\ requests' = requests /\ conn' = conn
      BY <2>3 DEF Read
    <3> QED BY <1>0, <3>1, <3>2, <3>3
  <2>4. CASE Leave(c)
    BY <2>4 DEF Leave, Typed
  <2> QED BY <1>4, <2>1, <2>2, <2>3, <2>4 DEF Client
<1>5. CASE UNCHANGED vars
  BY <1>5 DEF vars
<1> QED BY <1>1, <1>2, <1>3, <1>4, <1>5 DEF Next

LEMMA DeafInductive == Typed /\ NothingFromDeaf /\ [Next]_vars => NothingFromDeaf'
<1> SUFFICES ASSUME Typed, NothingFromDeaf, [Next]_vars PROVE NothingFromDeaf'
  OBVIOUS
<1>1. asked' = asked \/ \E c \in Conns : \/ Request(c) \/ Read(c) \/ Leave(c)
  BY DEF Next, vars, MainThread, BindLock, BindFirst, BindSecond, BindUnlock, Stop,
         Destroy, ListeningThread, Listen, Accept, Worker, Loop, Recv, RecvNothing,
         Lock, CopyFirst, CopySecond, Unlock, Send, Client, Connect, client, server
<1> QED BY <1>1, ServerAssumption DEF NothingFromDeaf, Request, Read, Leave, Typed

LEMMA LockedInductive == Typed /\ Locked /\ [Next]_vars => Locked'
<1> SUFFICES ASSUME Typed, Locked, [Next]_vars PROVE Locked'
  OBVIOUS
<1> USE ServerAssumption DEF Locked, Gone, server, client, Holding
<1>1. CASE MainThread
  BY <1>1 DEF MainThread, BindLock, BindFirst, BindSecond, BindUnlock, Stop, Destroy, Typed
<1>2. CASE ListeningThread
  BY <1>2 DEF ListeningThread, Listen, Accept, Typed
<1>3. ASSUME NEW c \in Conns, Worker(c) PROVE Locked'
  BY <1>3 DEF Worker, Loop, Recv, RecvNothing, Lock, CopyFirst, CopySecond, Unlock, Send,
              Goto, Typed
<1>4. ASSUME NEW c \in Conns, Client(c) PROVE Locked'
  BY <1>4 DEF Client, Connect, Request, Read, Leave
<1>5. CASE UNCHANGED vars
  BY <1>5 DEF vars
<1> QED BY <1>1, <1>2, <1>3, <1>4, <1>5 DEF Next

LEMMA BoundInductive == Typed /\ Bound /\ [Next]_vars => Bound'
<1> SUFFICES ASSUME Typed, Bound, [Next]_vars PROVE Bound'
  OBVIOUS
<1> USE DEF Bound, Gone, server, client
<1>1. CASE MainThread
  BY <1>1 DEF MainThread, BindLock, BindFirst, BindSecond, BindUnlock, Stop, Destroy,
              Typed, Json
<1>2. CASE ListeningThread
  BY <1>2 DEF ListeningThread, Listen, Accept
<1>3. ASSUME NEW c \in Conns, Worker(c) PROVE Bound'
  BY <1>3 DEF Worker, Loop, Recv, RecvNothing, Lock, CopyFirst, CopySecond, Unlock, Send
<1>4. ASSUME NEW c \in Conns, Client(c) PROVE Bound'
  BY <1>4 DEF Client, Connect, Request, Read, Leave
<1>5. CASE UNCHANGED vars
  BY <1>5 DEF vars
<1> QED BY <1>1, <1>2, <1>3, <1>4, <1>5 DEF Next

(* Whoever holds the mutex finds the published state, whole. *)
LEMMA HeldState ==
  ASSUME Typed, Locked, Bound, ~Gone, NEW c \in Conns, worker[c] \in Holding
  PROVE  data.first = published /\ data.second = published /\ main \notin Holding
<1>1. mutex = c /\ c # Main
  BY ServerAssumption DEF Locked
<1>2. main \notin Holding
  BY <1>1 DEF Locked
<1> QED BY <1>2 DEF Bound, Holding

LEMMA CopiedInductive == IInv /\ [Next]_vars => Copied'
<1> SUFFICES ASSUME IInv, [Next]_vars, ~Gone' PROVE Copied'
  BY DEF Copied
<1> USE ServerAssumption
<1>0. /\ Typed /\ OneOutstanding /\ NothingFromDeaf /\ Locked /\ Bound /\ Copied
      /\ ~Gone
  <2>1. ~Gone
    BY DEF Gone, Next, vars, MainThread, BindLock, BindFirst, BindSecond, BindUnlock,
           Stop, Destroy, ListeningThread, Listen, Accept, Worker, Loop, Recv,
           RecvNothing, Lock, CopyFirst, CopySecond, Unlock, Send, Client, Connect,
           Request, Read, Leave, server, client
  <2> QED BY <2>1 DEF IInv
<1>a. \A c \in Conns : asked[c] \in Nat \cup {Nothing} /\ published \in Nat
  BY <1>0 DEF Typed
<1>1. CASE MainThread
  <2>1. CASE BindUnlock
    <3>1. \A c \in Conns : worker[c] \notin Holding
      BY <1>0, <2>1, HeldState DEF BindUnlock, Holding
    <3>2. published' = published + 1 /\ UNCHANGED <<worker, copy, asked, answers>>
      BY <2>1 DEF BindUnlock, client
    <3>3. \A c \in Conns : \A j : Fresh(c, j) => Fresh(c, j)'
      BY <1>a, <3>2 DEF Fresh
    <3> QED BY <1>0, <1>a, <3>1, <3>2, <3>3 DEF Copied, Holding
  <2>2. CASE BindLock \/ BindFirst \/ BindSecond \/ Stop \/ Destroy
    <3>1. UNCHANGED <<published, worker, copy, asked, answers>>
      BY <2>2 DEF BindLock, BindFirst, BindSecond, Stop, Destroy, client
    <3> QED BY <1>0, <3>1 DEF Copied, Fresh
  <2> QED BY <1>1, <2>1, <2>2 DEF MainThread
<1>2. CASE ListeningThread
  BY <1>0, <1>2 DEF ListeningThread, Listen, Accept, Copied, Fresh, client, server, Typed
<1>3. ASSUME NEW c \in Conns, Worker(c) PROVE Copied'
  <2>1. CASE Loop(c) \/ Recv(c) \/ RecvNothing(c) \/ Lock(c)
    <3>1. UNCHANGED <<published, copy, asked, answers>>
          /\ \A d \in Conns : worker'[d] = worker[d]
                             \/ worker'[d] \in {"loop", "recv", "lock", "first", "ended"}
      BY <1>0, <2>1 DEF Loop, Recv, RecvNothing, Lock, Goto, Typed, server, client
    <3> QED BY <1>0, <3>1 DEF Copied, Fresh
  <2>2. CASE CopyFirst(c)
    <3>1. copy' = [copy EXCEPT ![c].first = published]
      BY <1>0, <2>2, HeldState DEF CopyFirst, Memory, Goto, Holding
    <3>2. copy[c] \in Json
      BY <1>0 DEF Typed
    <3>3. copy'[c].first = published /\ \A d \in Conns : d # c => copy'[d] = copy[d]
      BY <1>0, <3>1, <3>2 DEF Typed, Json
    <3>4. worker'[c] = "second" /\ \A d \in Conns : d # c => worker'[d] = worker[d]
      BY <1>0, <2>2 DEF CopyFirst, Goto, Typed
    <3>5. UNCHANGED <<published, asked, answers>>
      BY <2>2 DEF CopyFirst, server, client
    <3> QED BY <1>0, <3>3, <3>4, <3>5 DEF Copied, Fresh
  <2>3. CASE CopySecond(c)
    <3>1. copy' = [copy EXCEPT ![c].second = published]
      BY <1>0, <2>3, HeldState DEF CopySecond, Memory, Goto, Holding
    <3>2. copy[c] \in Json
      BY <1>0 DEF Typed
    <3>3. /\ copy'[c].second = published /\ copy'[c].first = copy[c].first
          /\ \A d \in Conns : d # c => copy'[d] = copy[d]
      BY <1>0, <3>1, <3>2 DEF Typed, Json
    <3>4. /\ worker[c] = "second" /\ worker'[c] = "unlock"
          /\ \A d \in Conns : d # c => worker'[d] = worker[d]
      BY <1>0, <2>3 DEF CopySecond, Goto, Typed
    <3>5. UNCHANGED <<published, asked, answers>>
      BY <2>3 DEF CopySecond, server, client
    <3> QED BY <1>0, <3>3, <3>4, <3>5 DEF Copied, Fresh
  <2>4. CASE Unlock(c)
    <3>1. /\ worker[c] = "unlock" /\ worker'[c] = "send"
          /\ \A d \in Conns : d # c => worker'[d] = worker[d]
      BY <1>0, <2>4 DEF Unlock, Goto, Typed
    <3>2. UNCHANGED <<published, copy, asked, answers>>
      BY <2>4 DEF Unlock, client
    <3>3. Fresh(c, copy[c])
      BY <1>0, <1>a, <3>1 DEF Copied, Fresh
    <3> QED BY <1>0, <3>1, <3>2, <3>3 DEF Copied, Fresh
  <2>5. CASE Send(c)
    <3>1. /\ worker[c] = "send" /\ worker'[c] = "loop"
          /\ \A d \in Conns : d # c => worker'[d] = worker[d] /\ answers'[d] = answers[d]
      BY <1>0, <2>5 DEF Send, Goto, Typed
    <3>2. UNCHANGED <<published, copy, asked>>
      BY <2>5 DEF Send, server, client
    <3>3. c \in Patient /\ answers'[c] # <<>> => Fresh(c, Head(answers'[c]))
      <4> SUFFICES ASSUME c \in Patient, answers'[c] # <<>>
                   PROVE  Fresh(c, Head(answers'[c]))
        OBVIOUS
      <4>1. answers[c] = <<>> /\ answers[c] \in Seq(Json) /\ copy[c] \in Json
        BY <1>0, <3>1, Queue DEF OneOutstanding, Typed, Busy
      <4>2. answers'[c] = Append(answers[c], copy[c])
        BY <1>0, <2>5, <4>1 DEF Send, Typed
      <4>3. Head(answers'[c]) = copy[c]
        BY <4>1, <4>2, Queue
      <4> QED BY <1>0, <3>1, <4>3 DEF Copied
    <3> QED BY <1>0, <3>1, <3>2, <3>3 DEF Copied, Fresh
  <2> QED BY <1>3, <2>1, <2>2, <2>3, <2>4, <2>5 DEF Worker
<1>4. ASSUME NEW c \in Conns, Client(c) PROVE Copied'
  <2>1. CASE Connect(c)
    BY <1>0, <2>1 DEF Connect, Copied, Fresh, server
  <2>2. CASE Request(c)
    <3>1. UNCHANGED <<published, worker, copy, answers>>
      BY <2>2 DEF Request, server
    <3>2. \A d \in Conns : d # c \/ d \in Deaf => asked'[d] = asked[d]
      BY <1>0, <2>2 DEF Request, Typed
    <3>3. CASE c \in Deaf
      BY <1>0, <3>1, <3>2, <3>3 DEF Copied, Fresh
    <3>4. CASE c \in Patient
      <4>1. /\ worker[c] \notin Busy /\ answers[c] = <<>>
            /\ asked'[c] = published
        BY <1>0, <2>2, <3>4, Queue DEF OneOutstanding, Request, Patient, Typed
      <4> QED BY <1>0, <1>a, <3>1, <3>2, <4>1 DEF Copied, Fresh, Busy, Holding
    <3> QED BY <3>3, <3>4 DEF Patient
  <2>3. CASE Read(c)
    <3>1. UNCHANGED <<published, worker, copy>>
      BY <2>3 DEF Read, server
    <3>2. /\ asked'[c] = Nothing
          /\ \A d \in Conns : d # c => asked'[d] = asked[d] /\ answers'[d] = answers[d]
      BY <1>0, <2>3 DEF Read, Typed
    <3>3. answers'[c] = <<>>
      BY <1>0, <2>3, Queue DEF Read, OneOutstanding, Typed
    <3> QED BY <1>0, <3>1, <3>2, <3>3 DEF Copied, Fresh
  <2>4. CASE Leave(c)
    <3>1. UNCHANGED <<published, worker, copy, answers>> /\ asked'[c] = Nothing
          /\ \A d \in Conns : d # c => asked'[d] = asked[d]
      BY <1>0, <2>4 DEF Leave, server, Typed
    <3> QED BY <1>0, <3>1 DEF Copied, Fresh
  <2> QED BY <1>4, <2>1, <2>2, <2>3, <2>4 DEF Client
<1>5. CASE UNCHANGED vars
  BY <1>0, <1>5 DEF vars, server, client, Copied, Fresh
<1> QED BY <1>1, <1>2, <1>3, <1>4, <1>5 DEF Next

(* The mutex is held by whoever replaces or copies the data, and what is    *)
(* copied under it is the published state; between the request of a client  *)
(* that waits and its answer there is one state copied, and no older one.   *)
THEOREM Invariant == Spec => []IInv
<1>1. Init => IInv
  BY Initially
<1>2. IInv /\ [Next]_vars => IInv'
  BY TypedInductive, OutstandingInductive, DeafInductive, LockedInductive,
     BoundInductive, CopiedInductive DEF IInv
<1> QED BY <1>1, <1>2, PTL DEF Spec

(* Every reachable state is well typed; no more than one answer waits for a *)
(* client that waits for its answers.                                       *)
THEOREM TypeCorrect == Spec => []TypeOK
<1>1. IInv => TypeOK
  BY DEF IInv, Typed, OneOutstanding, TypeOK, Patient
<1> QED BY <1>1, Invariant, PTL

(* Nobody copies the data while bindData replaces it (Server.cpp:26-50).    *)
THEOREM MutualExclusionHolds == Spec => []MutualExclusion
<1>1. IInv => MutualExclusion
  BY ServerAssumption DEF IInv, Locked, MutualExclusion
<1> QED BY <1>1, Invariant, PTL

-----------------------------------------------------------------------------
(* Nothing that is waited for is lost: the safety of PatientServed. *)

Released ==
  ~Gone => \/ mutex = Free
           \/ mutex = Main /\ main \in Holding
           \/ mutex \in Conns /\ worker[mutex] \in Holding

LEMMA ReleasedInductive == Typed /\ Locked /\ Released /\ [Next]_vars => Released'
<1> SUFFICES ASSUME Typed, Locked, Released, [Next]_vars PROVE Released'
  OBVIOUS
<1> USE ServerAssumption DEF Released, Gone, server, client, Holding
<1>1. CASE MainThread
  BY <1>1 DEF MainThread, BindLock, BindFirst, BindSecond, BindUnlock, Stop, Destroy, Typed
<1>2. CASE ListeningThread
  BY <1>2 DEF ListeningThread, Listen, Accept, Waits, Typed
<1>3. ASSUME NEW c \in Conns, Worker(c) PROVE Released'
  <2>1. CASE Loop(c) \/ Recv(c) \/ RecvNothing(c) \/ Send(c)
    BY <2>1 DEF Loop, Recv, RecvNothing, Send, Goto, Typed
  <2>2. CASE Lock(c) \/ CopyFirst(c) \/ CopySecond(c) \/ Unlock(c)
    BY <2>2 DEF Lock, CopyFirst, CopySecond, Unlock, Goto, Typed
  <2> QED BY <1>3, <2>1, <2>2 DEF Worker
<1>4. ASSUME NEW c \in Conns, Client(c) PROVE Released'
  BY <1>4 DEF Client, Connect, Request, Read, Leave
<1>5. CASE UNCHANGED vars
  BY <1>5 DEF vars
<1> QED BY <1>1, <1>2, <1>3, <1>4, <1>5 DEF Next

(* The mutex is never left taken: whoever owns it is bindData or getData on *)
(* its way to the unlock (Server.cpp:26-32, 44-50).                         *)
THEOREM MutexIsReleased == Spec => []Released
<1>1. Init => Released
  BY DEF Init, Released
<1>2. IInv => Typed /\ Locked
  BY DEF IInv
<1> QED BY <1>1, <1>2, ReleasedInductive, Invariant, PTL DEF Spec

(* The request of a client that waits is in the connection, with its worker *)
(* or answered.                                                             *)
Owed(c) ==
  asked[c] # Nothing =>
    conn[c] = "open" /\ (requests[c] = 1 \/ worker[c] \in Busy \/ Len(answers[c]) = 1)

LEMMA OwedInductive ==
  Typed /\ OneOutstanding /\ (\A c \in Patient : Owed(c)) /\ [Next]_vars
    => (\A c \in Patient : Owed(c))'
<1> SUFFICES ASSUME Typed, OneOutstanding, \A c \in Patient : Owed(c), [Next]_vars,
                    NEW p \in Patient
             PROVE  Owed(p)'
  OBVIOUS
<1> USE ServerAssumption DEF server, client, Patient
<1>0. /\ Owed(p) /\ p \in Conns /\ p \notin Deaf
      /\ requests[p] \in Nat /\ requests[p] <= 1
      /\ answers[p] \in Seq(Json) /\ Len(answers[p]) \in Nat /\ Len(answers[p]) <= 1
  BY Queue DEF OneOutstanding, Typed
<1>a. ASSUME UNCHANGED <<asked, conn, requests, answers>>,
             worker'[p] \in Busy \/ worker[p] \notin Busy
      PROVE  Owed(p)'
  BY <1>0, <1>a DEF Owed
<1>b. ASSUME asked'[p] = asked[p], conn'[p] = conn[p], requests'[p] = requests[p],
             answers'[p] = answers[p], worker'[p] = worker[p]
      PROVE  Owed(p)'
  BY <1>0, <1>b DEF Owed
<1>1. CASE MainThread
  BY <1>1, <1>b DEF MainThread, BindLock, BindFirst, BindSecond, BindUnlock, Stop, Destroy
<1>2. CASE ListeningThread
  <2>1. UNCHANGED <<asked, conn, requests, answers>>
    BY <1>2 DEF ListeningThread, Listen, Accept
  <2>2. worker'[p] = worker[p] \/ worker[p] = "none"
    BY <1>0, <1>2 DEF ListeningThread, Listen, Accept, Waits, Typed
  <2> QED BY <1>a, <2>1, <2>2 DEF Busy, Holding
<1>3. ASSUME NEW c \in Conns, Worker(c) PROVE Owed(p)'
  <2>1. CASE c # p
    BY <1>0, <1>3, <1>b, <2>1 DEF Worker, Loop, Recv, RecvNothing, Lock, CopyFirst,
       CopySecond, Unlock, Send, Goto, Typed
  <2>2. CASE c = p /\ (Loop(c) \/ RecvNothing(c))
    BY <1>0, <1>a, <2>2 DEF Loop, RecvNothing, Goto, Typed, Busy, Holding
  <2>3. CASE c = p /\ (Lock(c) \/ CopyFirst(c) \/ CopySecond(c) \/ Unlock(c))
    BY <1>0, <1>a, <2>3 DEF Lock, CopyFirst, CopySecond, Unlock, Goto, Typed, Busy, Holding
  <2>4. CASE c = p /\ Recv(c)
    <3>1. worker'[p] \in Busy /\ UNCHANGED <<asked, conn>>
      BY <1>0, <2>4 DEF Recv, Goto, Typed, Busy
    <3>2. asked[p] # Nothing => conn[p] = "open"
      BY <1>0 DEF Owed
    <3> QED BY <3>1, <3>2 DEF Owed
  <2>5. CASE c = p /\ Send(c)
    <3>1. UNCHANGED <<asked, conn, requests>> /\ Len(answers[p]) = 0
      BY <1>0, <2>5 DEF Send, Goto, OneOutstanding, Busy
    <3>2. CASE conn[p] = "open"
      <4>1. answers'[p] = Append(answers[p], copy[p]) /\ copy[p] \in Json
        BY <1>0, <2>5, <3>1, <3>2 DEF Send, Typed
      <4>2. Len(answers'[p]) = 1
        BY <1>0, <3>1, <4>1, Queue
      <4> QED BY <3>1, <3>2, <4>2 DEF Owed
    <3>3. CASE conn[p] # "open"
      BY <1>0, <3>1, <3>3 DEF Owed
    <3> QED BY <3>2, <3>3
  <2> QED BY <1>3, <2>1, <2>2, <2>3, <2>4, <2>5 DEF Worker
<1>4. ASSUME NEW c \in Conns, Client(c) PROVE Owed(p)'
  <2>1. CASE c # p
    BY <1>0, <1>4, <1>b, <2>1 DEF Client, Connect, Request, Read, Leave, Typed
  <2>2. CASE c = p /\ Connect(c)
    BY <1>0, <2>2 DEF Connect, Owed, Typed
  <2>3. CASE c = p /\ Request(c)
    <3>1. conn'[p] = "open" /\ requests[p] = 0 /\ requests'[p] = requests[p] + 1
      BY <1>0, <2>3 DEF Request, OneOutstanding, Typed
    <3> QED BY <3>1 DEF Owed
  <2>4. CASE c = p /\ (Read(c) \/ Leave(c))
    <3>1. asked'[p] = Nothing
      BY <1>0, <2>4 DEF Read, Leave, Typed
    <3> QED BY <3>1 DEF Owed
  <2> QED BY <1>4, <2>1, <2>2, <2>3, <2>4 DEF Client
<1>5. CASE UNCHANGED vars
  BY <1>5, <1>b DEF vars
<1> QED BY <1>1, <1>2, <1>3, <1>4, <1>5 DEF Next

(* A client that waits is never forgotten: until its answer is read, its    *)
(* request or its answer is somewhere on its way, also while and after the  *)
(* server is stopped, and whoever else does not read (Server.cpp:69-88).    *)
THEOREM NeverForgotten == Spec => [](\A c \in Patient : Owed(c))
<1>1. Init => \A c \in Patient : Owed(c)
  BY DEF Init, Owed, Patient
<1>2. IInv => Typed /\ OneOutstanding
  BY DEF IInv
<1> QED BY <1>1, <1>2, OwedInductive, Invariant, PTL DEF Spec

-----------------------------------------------------------------------------
(* The server implements Snapshot. *)

LEMMA StepImplements ==
  ASSUME IInv, [Next]_vars
  PROVE  \/ Promise!Next
         \/ UNCHANGED <<~Gone, published, [c \in Patient |-> asked[c]],
                        [c \in Patient |-> got[c]]>>
<1> USE ServerAssumption DEF Patient
<1>0. Typed
  BY DEF IInv
<1>1. ASSUME BindUnlock PROVE Promise!Publish
  BY <1>1 DEF BindUnlock, Promise!Publish, client, Gone, Holding
<1>2. ASSUME Destroy PROVE Promise!Close
  BY <1>2 DEF Destroy, Promise!Close, client, Gone
<1>3. ASSUME NEW c \in Patient, Request(c) PROVE Promise!Ask(c)
  BY <1>0, <1>3 DEF Request, Promise!Ask, server, Gone, Typed
<1>4. ASSUME NEW c \in Patient, Leave(c) PROVE Promise!Leave(c)
  BY <1>0, <1>4 DEF Leave, Promise!Leave, server, Gone, Typed
<1>5. ASSUME NEW c \in Patient, Read(c) PROVE Promise!Answer(c)
  <2>1. asked[c] # Nothing
    <3>1. Len(answers[c]) # 0
      BY <1>0, <1>5, Queue DEF Read, Typed
    <3> QED BY <1>5, <3>1 DEF IInv, OneOutstanding, Read
  <2>2. UNCHANGED <<~Gone, published>>
    BY <1>5 DEF Read, server, Gone
  <2>3. got' = [got EXCEPT ![c] = got'[c]] /\ got'[c] = Whole(Head(answers[c]))
        /\ asked' = [asked EXCEPT ![c] = Nothing]
    BY <1>0, <1>5 DEF Read, Typed
  <2>4. got'[c] \in Nat \cup {Wreck}
    <3>1. Head(answers[c]) \in Json
      BY <1>0, <1>5, Queue DEF Read, Typed
    <3> QED BY <2>3, <3>1 DEF Whole, Json, Part
  <2>5. ASSUME ~Gone PROVE got'[c] \in asked[c] .. published
    <3>1. Fresh(c, Head(answers[c]))
      BY <1>5, <2>5 DEF Read, IInv, Copied
    <3> QED BY <1>0, <2>1, <2>3, <3>1 DEF Fresh, Whole, Typed
  <2> QED BY <1>0, <2>1, <2>2, <2>3, <2>4, <2>5 DEF Promise!Answer, Typed
<1>6. ASSUME NEW c \in Deaf, Request(c) \/ Leave(c)
      PROVE  UNCHANGED <<~Gone, published, [d \in Patient |-> asked[d]],
                         [d \in Patient |-> got[d]]>>
  BY <1>0, <1>6 DEF Request, Leave, server, Gone, Typed
<1>7. ASSUME UNCHANGED <<published, asked, got>>, Gone' = Gone
      PROVE  UNCHANGED <<~Gone, published, [d \in Patient |-> asked[d]],
                         [d \in Patient |-> got[d]]>>
  BY <1>7
<1>8. \/ UNCHANGED <<published, asked, got>> /\ Gone' = Gone
      \/ BindUnlock \/ Destroy
      \/ \E c \in Conns : Request(c) \/ Leave(c) \/ Read(c)
  BY DEF Next, vars, MainThread, BindLock, BindFirst, BindSecond, Stop, ListeningThread,
         Listen, Accept, Worker, Loop, Recv, RecvNothing, Lock, CopyFirst, CopySecond,
         Unlock, Send, Client, Connect, client, server, Gone
<1>9. \A c \in Conns : Read(c) => c \in Patient
  BY DEF Read
<1> QED BY <1>1, <1>2, <1>3, <1>4, <1>5, <1>6, <1>7, <1>8, <1>9 DEF Promise!Next

(* Every answer a waiting client gets is one bound state, whole, in force   *)
(* at some moment since its request, until ~Server: bindData, getData and   *)
(* startWaitingForRequests, whatever the other threads do.                  *)
THEOREM Implements == Spec => SnapshotSpec
<1>1. Init => Promise!Init
  BY DEF Init, Promise!Init, Gone, Patient
<1>2. IInv /\ [Next]_vars => [Promise!Next]_<<~Gone, published, [c \in Patient |-> asked[c]],
                                             [c \in Patient |-> got[c]]>>
  BY StepImplements
<1> QED BY <1>1, <1>2, Invariant, PTL DEF Spec, SnapshotSpec, Promise!Spec
=============================================================================
