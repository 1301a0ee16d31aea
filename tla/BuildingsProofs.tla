--------------------------- MODULE BuildingsProofs ----------------------------
(***************************************************************************)
(* The data servers of the buildings, for any clients and bounds.          *)
(*                                                                         *)
(* That an answer is a state in force after the request rests on a count:  *)
(* a client that waits has one thing under way, its request, a handler     *)
(* that works on it, or its answer.  Nothing an earlier request left       *)
(* behind can be taken for the answer, however the server's shutdown, the  *)
(* timestamp and the other clients fall between.                           *)
(***************************************************************************)
EXTENDS Buildings, TLAPS

(* The types, but for how much a client may have to read. *)
Types ==
  /\ kind \in {"RS", "JP", "KS"}
  /\ main \in {"start", "energy", "again", "time", "link", "receive", "dead"}
  /\ server \in {"bound", "listening", "shut"}
  /\ published \in 0 .. 1 /\ (main = "start" => published = 0)
  /\ lock \in Clients \cup {Nothing}
  /\ conn \in [Clients -> {"idle", "open", "left", "reset"}]
  /\ thread \in [Clients -> {"none", "recv", "lock", "send", "ended"}]
  /\ pending \in [Clients -> Nat] /\ answers \in [Clients -> Seq(0 .. 1)]
  /\ sent \in [Clients -> 0 .. MaxReq]
  /\ asked \in [Patient -> {0, 1, Nothing}] /\ got \in [Patient -> {0, 1, Nothing}]

Bounded ==
  \A c \in Clients : pending[c] <= sent[c] /\ Len(answers[c]) <= Capacity

(* What is under way between a client and its handler. *)
Busy(c) == thread[c] \in {"lock", "send"}

Idle(c)      == pending[c] = 0 /\ ~Busy(c) /\ answers[c] = <<>>
Requested(c) == pending[c] = 1 /\ ~Busy(c) /\ answers[c] = <<>>
Handled(c)   == pending[c] = 0 /\ Busy(c) /\ answers[c] = <<>>
Answered(c)  == /\ pending[c] = 0 /\ ~Busy(c) /\ Len(answers[c]) = 1
                /\ asked[c] <= answers[c][1] /\ answers[c][1] <= published

OneUnderWay(c) ==
  /\ asked[c] # Nothing => asked[c] <= published
  /\ conn[c] \in {"idle", "open"} =>
       \/ Idle(c)
       \/ asked[c] # Nothing /\ (Requested(c) \/ Handled(c) \/ Answered(c))
  /\ conn[c] \in {"left", "reset"} => answers[c] = <<>>

IInv == Types /\ Bounded /\ \A c \in Patient : OneUnderWay(c)

-----------------------------------------------------------------------------
LEMMA NoMarker == Nothing \notin Nat /\ Patient \subseteq Clients
                  /\ MaxReq \in Nat /\ Capacity \in Nat \ {0}
  BY BuildingsAssumption

LEMMA Empty ==
  ASSUME NEW s \in Seq(0 .. 1)
  PROVE  s = <<>> <=> Len(s) = 0
  OBVIOUS

LEMMA InitHolds == Init => IInv
  BY NoMarker DEF Init, IInv, Types, Bounded, OneUnderWay, Idle, Busy

(* A client none of whose affairs is touched is where it was. *)
LEMMA Bystander ==
  ASSUME NEW c \in Patient, OneUnderWay(c), published' = published,
         conn'[c] = conn[c], thread'[c] = thread[c], pending'[c] = pending[c],
         answers'[c] = answers[c], asked'[c] = asked[c]
  PROVE  OneUnderWay(c)'
  BY DEF OneUnderWay, Idle, Requested, Handled, Answered, Busy

LEMMA MainHolds == IInv /\ Main => IInv'
<1> SUFFICES ASSUME IInv, Main PROVE IInv'
  OBVIOUS
<1> USE NoMarker
<1>1. UNCHANGED <<handler, net, client>>
  BY DEF Main, Stamp, ConnectEnergy, GetTime, Link, Raise, Listen, Shutdown, Goto
<1>2. CASE Stamp
  <2>1. published = 0 /\ published' = 1 /\ main' = "energy" /\ UNCHANGED <<kind, server>>
    BY <1>2 DEF Stamp, Goto, IInv, Types
  <2>2. Types' /\ Bounded'
    BY <1>1, <2>1 DEF IInv, Types, Bounded, handler, net, client
  <2>3. ASSUME NEW c \in Patient PROVE OneUnderWay(c)'
    <3>1. OneUnderWay(c) /\ asked[c] \in {0, 1, Nothing} /\ answers[c] \in Seq(0 .. 1)
      BY DEF IInv, Types
    <3> QED BY <1>1, <2>1, <3>1 DEF OneUnderWay, Idle, Requested, Handled, Answered, Busy,
                                    handler, net, client
  <2> QED BY <2>2, <2>3 DEF IInv
<1>3. CASE ~Stamp
  <2>1. UNCHANGED published
    BY <1>3 DEF Main, ConnectEnergy, GetTime, Link, Raise, Listen, Shutdown
  <2>2. Types'
    BY <1>1, <1>3, <2>1 DEF IInv, Types, Main, ConnectEnergy, GetTime, Link, Raise, Listen,
                       Shutdown, Goto, handler, net, client
  <2>3. Bounded'
    BY <1>1 DEF IInv, Bounded, net, client
  <2>4. \A c \in Patient : OneUnderWay(c)'
    BY <1>1, <2>1, Bystander DEF IInv, handler, net, client
  <2> QED BY <2>2, <2>3, <2>4 DEF IInv
<1> QED BY <1>2, <1>3

(* Another client's affairs are its own. *)
LEMMA Others ==
  ASSUME IInv, NEW c \in Clients, published' = published,
         \A d \in Clients \ {c} :
           /\ conn'[d] = conn[d] /\ thread'[d] = thread[d]
           /\ pending'[d] = pending[d] /\ answers'[d] = answers[d],
         \A d \in Patient \ {c} : asked'[d] = asked[d],
         Types', Bounded', c \in Patient => OneUnderWay(c)'
  PROVE  IInv'
<1>1. \A d \in Patient \ {c} : OneUnderWay(d)'
  BY NoMarker, Bystander DEF IInv
<1> QED BY <1>1 DEF IInv

LEMMA AcceptHolds == ASSUME IInv, NEW c \in Clients, Accept(c) PROVE IInv'
<1> USE NoMarker
<1>1. Types' /\ Bounded'
  BY DEF Accept, At, IInv, Types, Bounded, program, net, client
<1>2. c \in Patient => OneUnderWay(c)'
  BY DEF Accept, At, IInv, Types, OneUnderWay, Idle, Requested, Handled, Answered, Busy,
         program, net, client
<1> QED BY <1>1, <1>2, Others DEF Accept, At, IInv, Types, program, net, client

LEMMA RecvHolds == ASSUME IInv, NEW c \in Clients, Recv(c) PROVE IInv'
<1> USE NoMarker
<1>1. PICK n \in 1 .. pending[c] : pending' = [pending EXCEPT ![c] = @ - n]
  BY DEF Recv
<1>2. /\ UNCHANGED <<program, lock, conn, answers, client>>
      /\ thread[c] = "recv"
      /\ \/ thread' = [thread EXCEPT ![c] = "lock"]
         \/ thread' = [thread EXCEPT ![c] = "send"]
  BY DEF Recv, At
<1>3. pending[c] \in Nat
  BY DEF IInv, Types
<1>4. Types' /\ Bounded'
  <2>1. pending'[c] \in Nat /\ pending'[c] <= pending[c]
        /\ \A d \in Clients \ {c} : pending'[d] = pending[d]
    BY <1>1, <1>3 DEF IInv, Types
  <2>2. pending' \in [Clients -> Nat]
    BY <1>1, <2>1 DEF IInv, Types
  <2>3. Types'
    BY <1>2, <2>2 DEF IInv, Types, program, client
  <2>4. \A d \in Clients : pending[d] \in Nat /\ sent[d] \in Nat
    BY DEF IInv, Types
  <2> QED BY <1>2, <1>3, <2>1, <2>3, <2>4 DEF IInv, Bounded, client
<1>5. c \in Patient => OneUnderWay(c)'
  BY <1>1, <1>2, <1>3 DEF IInv, Types, OneUnderWay, Idle, Requested, Handled, Answered,
                          Busy, program, client
<1> QED BY <1>1, <1>2, <1>4, <1>5, Others DEF IInv, Types, program, client

LEMMA RecvNothingHolds == ASSUME IInv, NEW c \in Clients, RecvNothing(c) PROVE IInv'
<1> USE NoMarker
<1>1. /\ UNCHANGED <<program, lock, net, client>>
      /\ conn[c] \in {"left", "reset"}
      /\ \/ thread' = [thread EXCEPT ![c] = "ended"]
         \/ thread' = [thread EXCEPT ![c] = "send"]
  BY DEF RecvNothing, At
<1>2. Types' /\ Bounded'
  BY <1>1 DEF IInv, Types, Bounded, program, net, client
<1>3. c \in Patient => OneUnderWay(c)'
  BY <1>1 DEF IInv, OneUnderWay, program, net, client
<1> QED BY <1>1, <1>2, <1>3, Others DEF IInv, Types, program, net, client

LEMMA LockHolds == ASSUME IInv, NEW c \in Clients, Lock(c) PROVE IInv'
<1> USE NoMarker
<1>1. /\ UNCHANGED <<program, net, client>> /\ lock' = c
      /\ thread[c] = "lock" /\ thread' = [thread EXCEPT ![c] = "send"]
  BY DEF Lock, At
<1>2. Types' /\ Bounded'
  BY <1>1 DEF IInv, Types, Bounded, program, net, client
<1>3. c \in Patient => OneUnderWay(c)'
  BY <1>1 DEF IInv, Types, OneUnderWay, Idle, Requested, Handled, Answered, Busy,
              program, net, client
<1> QED BY <1>1, <1>2, <1>3, Others DEF IInv, Types, program, net, client

LEMMA SendHolds == ASSUME IInv, NEW c \in Clients, Send(c) PROVE IInv'
<1> USE NoMarker
<1>0. /\ UNCHANGED <<program, pending, client>> /\ lock' \in {lock, Nothing}
      /\ thread[c] = "send"
  BY DEF Send, Release, At
<1>1. CASE /\ conn[c] = "open" /\ Len(answers[c]) < Capacity
           /\ thread' = [thread EXCEPT ![c] = "recv"]
           /\ answers' = [answers EXCEPT ![c] = Append(@, published)]
           /\ UNCHANGED conn
  <2>1. answers[c] \in Seq(0 .. 1) /\ published \in 0 .. 1
    BY DEF IInv, Types
  <2>2. /\ answers'[c] = Append(answers[c], published)
        /\ \A d \in Clients \ {c} : answers'[d] = answers[d]
    BY <1>1 DEF IInv, Types
  <2>3. /\ Append(answers[c], published) \in Seq(0 .. 1)
        /\ Len(Append(answers[c], published)) = Len(answers[c]) + 1
        /\ Len(answers[c]) \in Nat
        /\ Append(answers[c], published)[Len(answers[c]) + 1] = published
    BY <2>1
  <2>4. answers' \in [Clients -> Seq(0 .. 1)]
    BY <1>1, <2>3 DEF IInv, Types
  <2>5. Types'
    BY <1>0, <1>1, <2>4 DEF IInv, Types, program, client
  <2>6. Bounded'
    BY <1>0, <1>1, <2>2, <2>3 DEF IInv, Bounded, client
  <2>7. ASSUME c \in Patient PROVE OneUnderWay(c)'
    <3>1. OneUnderWay(c) /\ Busy(c) /\ conn[c] = "open"
      BY <1>0, <1>1, <2>7 DEF IInv, Busy
    <3>2. /\ asked[c] # Nothing /\ pending[c] = 0 /\ answers[c] = <<>>
          /\ asked[c] <= published
      BY <3>1 DEF OneUnderWay, Idle, Requested, Handled, Answered
    <3>3. Len(answers'[c]) = 1 /\ answers'[c][1] = published
      BY <2>2, <2>3, <3>2
    <3>4. ~Busy(c)'
      BY <1>1 DEF Busy, IInv, Types
    <3>5. published' = published /\ published <= published /\ asked' = asked
          /\ pending' = pending /\ conn' = conn
      BY <1>0, <1>1, <2>1 DEF program, client
    <3> QED BY <3>1, <3>2, <3>3, <3>4, <3>5 DEF OneUnderWay, Answered
  <2> QED BY <1>0, <1>1, <2>2, <2>5, <2>6, <2>7, Others DEF IInv, Types, program, client
<1>2. CASE /\ conn[c] \in {"left", "reset"} /\ UNCHANGED answers
           /\ conn' \in {conn, [conn EXCEPT ![c] = "reset"]}
           /\ \/ thread' = [thread EXCEPT ![c] = "recv"]
              \/ thread' = [thread EXCEPT ![c] = "ended"]
  <2>1. Types' /\ Bounded'
    BY <1>0, <1>2 DEF IInv, Types, Bounded, program, client
  <2>2. c \in Patient => OneUnderWay(c)'
    BY <1>0, <1>2 DEF IInv, Types, OneUnderWay, program, client
  <2> QED BY <1>0, <1>2, <2>1, <2>2, Others DEF IInv, Types, program, client
<1> QED BY <1>1, <1>2 DEF Send, At, State

LEMMA ConnectHolds == ASSUME IInv, NEW c \in Clients, Connect(c) PROVE IInv'
<1> USE NoMarker
<1>1. Types' /\ Bounded'
  BY DEF Connect, IInv, Types, Bounded, program, handler, client
<1>2. c \in Patient => OneUnderWay(c)'
  BY DEF Connect, IInv, Types, OneUnderWay, Idle, Requested, Handled, Answered, Busy,
         program, handler, client
<1> QED BY <1>1, <1>2, Others DEF Connect, IInv, Types, program, handler, client

LEMMA RequestHolds == ASSUME IInv, NEW c \in Clients, Request(c) PROVE IInv'
<1> USE NoMarker
<1>1. /\ UNCHANGED <<program, handler, conn, answers, got>> /\ conn[c] = "open"
      /\ sent[c] < MaxReq
      /\ sent' = [sent EXCEPT ![c] = @ + 1] /\ pending' = [pending EXCEPT ![c] = @ + 1]
  BY DEF Request
<1>2. c \in Patient => asked[c] = Nothing /\ asked' = [asked EXCEPT ![c] = published]
  BY DEF Request
<1>3. c \notin Patient => asked' = asked
  BY DEF Request
<1>4. /\ \A d \in Clients : pending[d] \in Nat /\ sent[d] \in 0 .. MaxReq
      /\ sent[c] + 1 \in 0 .. MaxReq
      /\ published \in {0, 1}
  BY <1>1 DEF IInv, Types
<1>5. Types'
  <2>1. pending' \in [Clients -> Nat] /\ sent' \in [Clients -> 0 .. MaxReq]
    BY <1>1, <1>4 DEF IInv, Types
  <2>2. asked' \in [Patient -> {0, 1, Nothing}]
    BY <1>2, <1>3, <1>4 DEF IInv, Types
  <2> QED BY <1>1, <2>1, <2>2 DEF IInv, Types, program, handler
<1>6. Bounded'
  BY <1>1, <1>4 DEF IInv, Types, Bounded
<1>7. ASSUME c \in Patient PROVE OneUnderWay(c)'
  <2>1. Idle(c)
    BY <1>1, <1>2, <1>7 DEF IInv, OneUnderWay
  <2>2. Requested(c)'
    BY <1>1, <2>1 DEF Requested, Idle, Busy, handler, IInv, Types
  <2>3. asked'[c] = published /\ published' = published /\ published <= published
        /\ published # Nothing /\ conn' = conn
    BY <1>1, <1>2, <1>4, <1>7 DEF IInv, Types, program
  <2> QED BY <1>1, <2>2, <2>3 DEF OneUnderWay
<1>8. \A d \in Patient \ {c} : asked'[d] = asked[d]
  BY <1>2, <1>3 DEF IInv, Types
<1> QED BY <1>1, <1>5, <1>6, <1>7, <1>8, Others DEF IInv, Types, program, handler

LEMMA ReadHolds == ASSUME IInv, NEW c \in Clients, Read(c) PROVE IInv'
<1> USE NoMarker
<1>1. /\ c \in Patient /\ answers[c] # <<>> /\ answers[c] \in Seq(0 .. 1)
      /\ UNCHANGED <<program, handler, conn, pending, sent>>
      /\ answers' = [answers EXCEPT ![c] = Tail(@)]
      /\ asked' = [asked EXCEPT ![c] = Nothing]
      /\ got' = [got EXCEPT ![c] = Head(answers[c])]
  BY DEF Read, IInv, Types
<1>2. /\ Head(answers[c]) \in 0 .. 1 /\ Tail(answers[c]) \in Seq(0 .. 1)
      /\ Len(Tail(answers[c])) = Len(answers[c]) - 1 /\ Len(answers[c]) \in Nat
  BY <1>1
<1>3. Types'
  <2>1. answers' \in [Clients -> Seq(0 .. 1)] /\ asked' \in [Patient -> {0, 1, Nothing}]
    BY <1>1, <1>2 DEF IInv, Types
  <2>2. got' \in [Patient -> {0, 1, Nothing}]
    BY <1>1, <1>2 DEF IInv, Types
  <2> QED BY <1>1, <2>1, <2>2 DEF IInv, Types, program, handler
<1>4. Bounded'
  <2>1. /\ answers'[c] = Tail(answers[c])
        /\ \A d \in Clients \ {c} : answers'[d] = answers[d]
    BY <1>1 DEF IInv, Types
  <2> QED BY <1>1, <1>2, <2>1 DEF IInv, Bounded
<1>5. OneUnderWay(c)'
  <2>1. Answered(c) /\ conn[c] \in {"idle", "open"}
    BY <1>1 DEF IInv, Types, OneUnderWay, Idle, Requested, Handled
  <2>2. answers'[c] = <<>>
    <3>1. answers'[c] = Tail(answers[c])
      BY <1>1 DEF IInv, Types
    <3>2. Len(Tail(answers[c])) = 0
      BY <1>2, <2>1 DEF Answered
    <3> QED BY <1>2, <3>1, <3>2, Empty
  <2>3. Idle(c)'
    BY <1>1, <2>1, <2>2 DEF Answered, Idle, Busy, handler
  <2> QED BY <1>1, <2>2, <2>3 DEF OneUnderWay, IInv, Types
<1> QED BY <1>1, <1>3, <1>4, <1>5, Others DEF IInv, Types, program, handler

LEMMA LeaveHolds == ASSUME IInv, NEW c \in Clients, Leave(c) PROVE IInv'
<1> USE NoMarker
<1>1. /\ UNCHANGED <<program, handler, pending, sent, got>>
      /\ conn' = [conn EXCEPT ![c] = "left"]
      /\ answers' = [answers EXCEPT ![c] = <<>>]
      /\ asked' = [d \in Patient |-> IF d = c THEN Nothing ELSE asked[d]]
  BY DEF Leave
<1>2. Types'
  <2>1. answers' \in [Clients -> Seq(0 .. 1)] /\ asked' \in [Patient -> {0, 1, Nothing}]
    BY <1>1 DEF IInv, Types
  <2> QED BY <1>1, <2>1 DEF IInv, Types, program, handler
<1>3. Bounded'
  BY <1>1 DEF IInv, Types, Bounded
<1>4. c \in Patient => OneUnderWay(c)'
  BY <1>1 DEF IInv, Types, OneUnderWay
<1> QED BY <1>1, <1>2, <1>3, <1>4, Others DEF IInv, Types, program, handler

-----------------------------------------------------------------------------
LEMMA StepHolds == IInv /\ [Next]_vars => IInv'
<1> SUFFICES ASSUME IInv, [Next]_vars PROVE IInv'
  OBVIOUS
<1>1. CASE UNCHANGED vars
  <2>1. Types' /\ Bounded'
    BY <1>1 DEF IInv, Types, Bounded, vars, program, handler, net, client
  <2>2. \A c \in Patient : OneUnderWay(c)'
    BY <1>1, Bystander DEF IInv, vars, program, handler, net, client
  <2> QED BY <2>1, <2>2 DEF IInv
<1>2. CASE Main
  BY <1>2, MainHolds
<1>3. ASSUME NEW c \in Clients, Accept(c) \/ Handler(c) \/ Client(c) PROVE IInv'
  BY <1>3, AcceptHolds, RecvHolds, RecvNothingHolds, LockHolds, SendHolds, ConnectHolds,
     RequestHolds, ReadHolds, LeaveHolds DEF Handler, Client
<1> QED BY <1>1, <1>2, <1>3 DEF Next

THEOREM Invariant == Spec => []IInv
<1>1. Init => IInv
  BY InitHolds
<1> QED BY <1>1, StepHolds, PTL DEF Spec

(* A client that waits has one answer to read at most; no connection holds  *)
(* more than fits, whatever its handler sends (server.py:9-20,              *)
(* functions.py:45-67).                                                     *)
THEOREM TypeCorrect == Spec => []TypeOK
<1>1. IInv => TypeOK
  <2> SUFFICES ASSUME IInv PROVE TypeOK
    OBVIOUS
  <2> USE NoMarker
  <2>1. pending \in [Clients -> 0 .. MaxReq]
    <3>1. ASSUME NEW c \in Clients PROVE pending[c] \in 0 .. MaxReq
      <4>1. pending[c] \in Nat /\ sent[c] \in 0 .. MaxReq /\ pending[c] <= sent[c]
        BY DEF IInv, Types, Bounded
      <4> QED BY <4>1
    <3> QED BY <3>1 DEF IInv, Types
  <2>2. ASSUME NEW c \in Patient PROVE Len(answers[c]) <= 1
    <3>1. answers[c] = <<>> \/ Len(answers[c]) = 1
      BY DEF IInv, Types, OneUnderWay, Idle, Requested, Handled, Answered
    <3>2. answers[c] \in Seq(0 .. 1)
      BY DEF IInv, Types
    <3>3. Len(answers[c]) = 0 \/ Len(answers[c]) = 1
      BY <3>1, <3>2, Empty
    <3>4. 0 <= 1 /\ 1 <= 1
      OBVIOUS
    <3> QED BY <3>3, <3>4, Zenon
  <2> QED BY <2>1, <2>2 DEF IInv, Types, Bounded, TypeOK
<1> QED BY <1>1, Invariant, PTL

-----------------------------------------------------------------------------
(* The lock of RS, and what is waited for: the safety of PatientServed. *)

Locked ==
  /\ lock # Nothing => kind = "RS" /\ thread[lock] = "send"
  /\ \A c \in Clients :
       /\ thread[c] = "lock" => kind = "RS"
       /\ kind = "RS" /\ thread[c] = "send" => lock = c

LEMMA LockedInductive == Types /\ Locked /\ [Next]_vars => Locked'
<1> SUFFICES ASSUME Types, Locked, [Next]_vars PROVE Locked'
  OBVIOUS
<1> USE NoMarker DEF Locked
<1>0. lock = Nothing \/ lock \in Clients
  BY DEF Types
<1>1. CASE Main
  BY <1>1 DEF Main, Stamp, ConnectEnergy, GetTime, Link, Raise, Listen, Shutdown, Goto,
              handler
<1>2. ASSUME NEW c \in Clients, Accept(c) \/ Recv(c) \/ RecvNothing(c) PROVE Locked'
  BY <1>0, <1>2 DEF Accept, Recv, RecvNothing, At, Types, program
<1>3. ASSUME NEW c \in Clients, Lock(c) PROVE Locked'
  <2>1. /\ lock = Nothing /\ lock' = c /\ kind' = kind /\ thread[c] = "lock"
        /\ thread'[c] = "send" /\ \A d \in Clients \ {c} : thread'[d] = thread[d]
    BY <1>3 DEF Lock, At, Types, program
  <2>2. c # Nothing /\ kind = "RS"
    BY <2>1, BuildingsAssumption
  <2>3. \A d \in Clients : thread[d] # "send"
    BY <2>1, <2>2, BuildingsAssumption
  <2> QED BY <2>1, <2>2, <2>3
<1>4. ASSUME NEW c \in Clients, Send(c) PROVE Locked'
  <2>1. /\ lock' = (IF lock = c THEN Nothing ELSE lock) /\ kind' = kind
        /\ thread[c] = "send" /\ thread'[c] \in {"recv", "ended"}
        /\ \A d \in Clients \ {c} : thread'[d] = thread[d]
    BY <1>4 DEF Send, Release, At, Types, program
  <2> QED BY <1>0, <2>1
<1>5. ASSUME NEW c \in Clients, Client(c) PROVE Locked'
  BY <1>5 DEF Client, Connect, Request, Read, Leave, program, handler
<1>6. CASE UNCHANGED vars
  BY <1>6 DEF vars, program, handler
<1> QED BY <1>1, <1>2, <1>3, <1>4, <1>5, <1>6 DEF Next, Handler

(* The lock of RS belongs to the one handler that answers, and to nobody    *)
(* else: it is released in every way an answer can end (server.py:16-20).   *)
THEOREM LockIsReleased == Spec => []Locked
<1>1. Init => Locked
  BY DEF Init, Locked
<1>2. IInv => Types
  BY DEF IInv
<1> QED BY <1>1, <1>2, LockedInductive, Invariant, PTL DEF Spec

(* The request of a client that waits is in the connection, with its        *)
(* handler, or answered.                                                    *)
Owed(c) == asked[c] # Nothing => conn[c] = "open" /\ ~Idle(c)

LEMMA OwedInductive ==
  IInv /\ (\A c \in Patient : Owed(c)) /\ [Next]_vars => (\A c \in Patient : Owed(c))'
<1> SUFFICES ASSUME IInv, \A c \in Patient : Owed(c), [Next]_vars, NEW p \in Patient
             PROVE  Owed(p)'
  OBVIOUS
<1> USE NoMarker DEF program, handler, net, client
<1>0. /\ Owed(p) /\ OneUnderWay(p) /\ Types /\ p \in Clients
      /\ pending[p] \in Nat /\ answers[p] \in Seq(0 .. 1)
  BY DEF IInv, Types
<1>a. ASSUME asked'[p] = asked[p], conn'[p] = conn[p], pending'[p] = pending[p],
             answers'[p] = answers[p], thread'[p] = thread[p]
      PROVE  Owed(p)'
  BY <1>0, <1>a DEF Owed, Idle, Busy
<1>1. CASE Main \/ UNCHANGED vars
  BY <1>1, <1>a DEF Main, Stamp, ConnectEnergy, GetTime, Link, Raise, Listen, Shutdown,
                    Goto, vars
<1>2. ASSUME NEW c \in Clients \ {p}, Accept(c) \/ Handler(c) \/ Client(c) PROVE Owed(p)'
  <2>1. asked'[p] = asked[p]
    BY <1>0, <1>2 DEF Accept, Handler, Recv, RecvNothing, Lock, Send, Client, Connect,
                      Request, Read, Leave, Types
  <2>2. conn'[p] = conn[p] /\ pending'[p] = pending[p] /\ answers'[p] = answers[p]
    BY <1>0, <1>2 DEF Accept, Handler, Recv, RecvNothing, Lock, Send, Client, Connect,
                      Request, Read, Leave, Types
  <2>3. thread'[p] = thread[p]
    BY <1>0, <1>2 DEF Accept, Handler, Recv, RecvNothing, Lock, Send, Client, Connect,
                      Request, Read, Leave, At, Types
  <2> QED BY <1>a, <2>1, <2>2, <2>3
<1>3. CASE Accept(p) \/ RecvNothing(p) \/ Lock(p)
  BY <1>0, <1>3 DEF Accept, RecvNothing, Lock, At, Types, Owed, Idle, Busy
<1>4. CASE Recv(p)
  <2>1. Busy(p)' /\ UNCHANGED <<asked, conn>>
    BY <1>0, <1>4 DEF Recv, At, Types, Busy
  <2> QED BY <1>0, <2>1 DEF Owed, Idle
<1>5. CASE Send(p)
  <2>1. UNCHANGED <<asked, pending>>
    BY <1>5 DEF Send
  <2>2. CASE conn[p] = "open"
    <3>1. conn' = conn /\ answers'[p] = Append(answers[p], published) /\ published \in 0 .. 1
      BY <1>0, <1>5, <2>2 DEF Send, State, Types
    <3>2. answers'[p] # <<>>
      BY <1>0, <3>1
    <3> QED BY <1>0, <2>1, <2>2, <3>1, <3>2 DEF Owed, Idle
  <2>3. CASE conn[p] # "open"
    BY <1>0, <2>1, <2>3 DEF Owed
  <2> QED BY <2>2, <2>3
<1>6. CASE Connect(p)
  BY <1>0, <1>6 DEF Connect, Owed, Types
<1>7. CASE Request(p)
  <2>1. conn'[p] = "open" /\ pending'[p] = pending[p] + 1
    BY <1>0, <1>7 DEF Request, Types
  <2> QED BY <1>0, <2>1 DEF Owed, Idle
<1>8. CASE Read(p) \/ Leave(p)
  <2>1. asked'[p] = Nothing
    BY <1>0, <1>8 DEF Read, Leave, Types
  <2> QED BY <2>1 DEF Owed
<1> QED BY <1>1, <1>2, <1>3, <1>4, <1>5, <1>6, <1>7, <1>8 DEF Next, Handler, Client

(* No request of a client that waits gets lost, after the main thread's     *)
(* death and the shutdown too (server.py:9-20, functions.py:45-67).         *)
THEOREM NeverForgotten == Spec => [](\A c \in Patient : Owed(c))
<1>1. Init => \A c \in Patient : Owed(c)
  BY DEF Init, Owed
<1> QED BY <1>1, OwedInductive, Invariant, PTL DEF Spec

-----------------------------------------------------------------------------
(* The servers implement Snapshot. *)

LEMMA StepImplements ==
  ASSUME IInv, [Next]_vars
  PROVE  [Promise!Next]_<<TRUE, published, asked, got>>
<1> USE NoMarker
<1>1. ASSUME Stamp PROVE Promise!Publish
  BY <1>1 DEF Stamp, Goto, Promise!Publish, client, IInv, Types
<1>2. ASSUME NEW c \in Patient, Request(c) PROVE Promise!Ask(c)
  BY <1>2 DEF Request, Promise!Ask, program
<1>3. ASSUME NEW c \in Patient, Leave(c) PROVE Promise!Leave(c)
  BY <1>3 DEF Leave, Promise!Leave, program, IInv, Types
<1>4. ASSUME NEW c \in Patient, Read(c) PROVE Promise!Answer(c)
  <2>1. /\ answers[c] # <<>> /\ answers[c] \in Seq(0 .. 1) /\ published \in 0 .. 1
        /\ asked[c] \in {0, 1, Nothing}
    BY <1>4 DEF Read, IInv, Types
  <2>2. Answered(c) /\ asked[c] # Nothing
    BY <1>4, <2>1 DEF IInv, Types, OneUnderWay, Idle, Requested, Handled
  <2>3. Head(answers[c]) \in asked[c] .. published
    BY <2>1, <2>2 DEF Answered
  <2>4. /\ got' = [got EXCEPT ![c] = got'[c]] /\ got'[c] = Head(answers[c])
        /\ asked' = [asked EXCEPT ![c] = Nothing] /\ UNCHANGED published
    BY <1>4 DEF Read, IInv, Types, program
  <2> QED BY <2>2, <2>3, <2>4 DEF Promise!Answer
<1>5. ASSUME NEW c \in Clients \ Patient, Request(c) \/ Leave(c)
      PROVE  UNCHANGED <<published, asked, got>>
  BY <1>5 DEF Request, Leave, program, IInv, Types
<1>6. \/ UNCHANGED <<published, asked, got>>
      \/ Stamp
      \/ \E c \in Clients : Request(c) \/ Leave(c) \/ (Read(c) /\ c \in Patient)
  BY DEF Next, Main, ConnectEnergy, GetTime, Link, Raise, Listen, Shutdown, Goto, Accept,
         Handler, Recv, RecvNothing, Lock, Send, Client, Connect, Read, vars, program,
         client
<1> QED BY <1>1, <1>2, <1>3, <1>4, <1>5, <1>6 DEF Promise!Next

(* Every answer a waiting client of RS or JP gets is a state in force since *)
(* its request: connection_handler and Server.run, beside the main thread's *)
(* timestamp and its death (main.py:46-51, 66-79).                          *)
THEOREM Implements == Spec => SnapshotSpec
<1>1. Init => Promise!Init
  BY DEF Init, Promise!Init
<1>2. IInv /\ [Next]_vars => [Promise!Next]_<<TRUE, published, asked, got>>
  BY StepImplements
<1> QED BY <1>1, <1>2, Invariant, PTL DEF Spec, SnapshotSpec, Promise!Spec
=============================================================================
