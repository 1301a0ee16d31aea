--------------------------- MODULE RegulatorClock ---------------------------
(***************************************************************************)
(* The plant's clock as the regulator sees it: the time server (sntp_      *)
(* server/main.cpp) in its two modes, the datagrams between the two, the   *)
(* regulator's time client (Client.cpp, requestTimeFromSerever) and what   *)
(* main.cpp and RegulatorPID.cpp do with a reading.                        *)
(*                                                                         *)
(* Abstractions.  A datagram is the seconds its reference_timestamp holds. *)
(* The acceleration is a whole number.  The accumulators of the PID are    *)
(* the sum of the intervals they integrate over.                           *)
(***************************************************************************)
EXTENDS Integers, SequencesExt

CONSTANTS
  W,             \* 2^64: the width of unsigned long long
  Era,           \* 2^32: the seconds an NTP timestamp counts
  Num, Den,      \* 2^32 and 10^10: recieveTime divides one by the other
  Accel,         \* the option acceleration of the time server
  Origin,        \* the server's clock when it and the regulator start
  LocalTime,     \* time(0) of the regulator's host, in seconds
  Garbage,       \* what the uninitialised timeData may hold
  Capacity,      \* datagrams the network and each socket keep
  MaxNow,        \* time is followed up to this second
  MaxOwed        \* the ghost owed is counted up to this number

ASSUME ClockAssumption ==
  /\ Num \in Nat \ {0} /\ Den \in Nat \ {0} /\ Era \in Nat \ {0}
  /\ Accel \in Nat \ {0}
  /\ Origin \in Nat /\ Origin < Era
  /\ MaxNow \in Nat /\ Origin <= MaxNow
  /\ W \in Nat \ {0} /\ LocalTime \in 0 .. W - 1
  /\ (Era * Num) \div Den < W
  /\ Garbage \subseteq 0 .. W - 1
  /\ Capacity \in Nat \ {0}
  /\ MaxOwed \in Nat

VARIABLES
  mode,        \* the server's mode, "udp" or "broadcast"
  now,         \* std::time(nullptr) of the server's host
  base,        \* the time the server process started
  due,         \* expiry of the broadcast timer
  asked,       \* requests in the network or the server's socket
  flight,      \* datagrams of the server in the network, oldest first
  inbox,       \* datagrams in the regulator's socket
  pc,          \* where the regulator is in its round
  timeData,    \* the last reading
  timeResult,  \* "success" or "failed" (any other Result)
  prevTime,    \* the reading the last interval ended at
  dt,          \* the interval of the round
  stepped,     \* the PID has a previous value
  integrated,  \* ghost: the time the PID has integrated over, while calm
  calm,        \* ghost: no time shown twice, overtaking, failed or unanswered
               \* start
  owed         \* ghost: rounds without an answer, duplicates, broadcasts

server == <<mode, now, base, due>>
net    == <<asked, flight, inbox>>
round  == <<timeData, timeResult, prevTime, dt, stepped, integrated>>
vars   == <<server, net, pc, round, calm, owed>>

Reading(s) == ((s % Era) * Num) \div Den

AccelerateTime(t) == base + (t - base) * Accel

Shown == AccelerateTime(now)

TypeOK ==
  /\ mode \in {"udp", "broadcast"}
  /\ now \in Origin .. MaxNow /\ base \in Origin .. now
  /\ due \in Nat
  /\ asked \in 0 .. Capacity
  /\ flight \in Seq(0 .. Era - 1) /\ Len(flight) <= Capacity
  /\ inbox \in Seq(0 .. Era - 1) /\ Len(inbox) <= Capacity
  /\ pc \in {"ask", "wait", "use"}
  /\ timeResult \in {"success", "failed"}
  /\ timeData \in 0 .. W - 1 /\ prevTime \in 0 .. W - 1 /\ dt \in 0 .. W - 1
  /\ stepped \in BOOLEAN /\ calm \in BOOLEAN
  /\ integrated \in Nat
  /\ owed \in 0 .. MaxOwed

Init ==
  /\ mode \in {"udp", "broadcast"}
  /\ now = Origin /\ base = Origin /\ due = Origin + 1
  /\ asked = 0 /\ flight = <<>> /\ inbox = <<>>
  /\ pc = "ask"
  /\ timeData \in Garbage
  /\ timeResult = "success"
  /\ prevTime = LocalTime
  /\ dt = 300 % W
  /\ stepped = FALSE /\ integrated = 0 /\ calm = TRUE /\ owed = 0

Owe == owed' = IF owed < MaxOwed THEN owed + 1 ELSE owed

-----------------------------------------------------------------------------
(* The regulator: one request per round *)

(* sendTo: the request leaves; where nobody listens it is lost. *)
Ask ==
  /\ pc = "ask"
  /\ pc' = "wait"
  /\ \/ mode = "udp" /\ asked < Capacity /\ asked' = asked + 1
     \/ UNCHANGED asked
  /\ UNCHANGED <<server, flight, inbox, round, calm, owed>>

AskFails ==
  /\ pc = "ask"
  /\ pc' = "use"
  /\ timeResult' = "failed"
  /\ calm' = FALSE
  /\ Owe
  /\ UNCHANGED <<server, net, timeData, prevTime, dt, stepped, integrated>>

(* recieveTime takes one datagram, whichever request it answers. *)
Recv ==
  /\ pc = "wait" /\ inbox # <<>>
  /\ timeData' = Reading(Head(inbox))
  /\ inbox' = Tail(inbox)
  /\ timeResult' = "success"
  /\ pc' = "use"
  /\ UNCHANGED <<server, asked, flight, prevTime, dt, stepped, integrated,
                 calm, owed>>

(* The timeout, or an error after it, is a success: timeData is unchanged. *)
Timeout ==
  /\ pc = "wait"
  /\ timeResult' = "success"
  /\ pc' = "use"
  /\ calm' = (calm /\ stepped)
  /\ Owe
  /\ UNCHANGED <<server, net, timeData, prevTime, dt, stepped, integrated>>

RecvError ==
  /\ pc = "wait"
  /\ timeResult' = "failed"
  /\ pc' = "use"
  /\ calm' = FALSE
  /\ Owe
  /\ UNCHANGED <<server, net, timeData, prevTime, dt, stepped, integrated>>

(* Mutant: the first interval is integrated over as well. *)
Integrate_First(d) ==
  /\ stepped' = TRUE
  /\ integrated' = IF calm THEN integrated + d ELSE integrated

(* The PID integrates its previous value over dt; there is none at first. *)
Integrate(d) ==
  /\ stepped' = TRUE
  /\ integrated' = IF calm /\ stepped THEN integrated + d ELSE integrated

(* Mutant: the difference is signed. *)
Use_Signed ==
  /\ pc = "use"
  /\ IF timeResult = "success"
     THEN dt' = timeData - prevTime /\ prevTime' = timeData
     ELSE UNCHANGED <<dt, prevTime>>
  /\ Integrate(dt')
  /\ pc' = "ask"
  /\ UNCHANGED <<server, net, timeData, timeResult, calm, owed>>

(* Mutant: prevTime is moved before the difference is taken. *)
Use_PrevFirst ==
  /\ pc = "use"
  /\ IF timeResult = "success"
     THEN prevTime' = timeData /\ dt' = (W + timeData - prevTime') % W
     ELSE UNCHANGED <<dt, prevTime>>
  /\ Integrate(dt')
  /\ pc' = "ask"
  /\ UNCHANGED <<server, net, timeData, timeResult, calm, owed>>

(* The difference is unsigned; after a failure dt keeps its value. *)
Use ==
  /\ pc = "use"
  /\ IF timeResult = "success"
     THEN dt' = (W + timeData - prevTime) % W /\ prevTime' = timeData
     ELSE UNCHANGED <<dt, prevTime>>
  /\ Integrate(dt')
  /\ pc' = "ask"
  /\ UNCHANGED <<server, net, timeData, timeResult, calm, owed>>

Regulate == Ask \/ AskFails \/ Recv \/ Timeout \/ RecvError \/ Use

-----------------------------------------------------------------------------
(* The time server *)

Tick ==
  /\ now < MaxNow
  /\ now' = now + 1
  /\ UNCHANGED <<mode, base, due, net, pc, round, calm, owed>>

Post == /\ Len(flight) < Capacity
        /\ flight' = Append(flight, Shown % Era)

(* Mutant: the handler sends and waits for no further request. *)
SendTimeUdp_Again ==
  /\ asked > 0
  /\ Post
  /\ UNCHANGED <<server, asked, inbox, pc, round, calm, owed>>

(* udp mode: one answer to each request, at the time it is handled. *)
SendTimeUdp ==
  /\ asked > 0
  /\ asked' = asked - 1
  /\ Post
  /\ UNCHANGED <<server, inbox, pc, round, calm, owed>>

(* broadcast mode: one datagram per expiry, which moves on by the period. *)
SendTimeBroadcast ==
  /\ mode = "broadcast"
  /\ due <= now
  /\ due' = due + 1
  /\ Post
  /\ Owe
  /\ UNCHANGED <<mode, now, base, asked, inbox, pc, round, calm>>

(* The process starts again: its base is the present, not the time shown,   *)
(* which goes back unless time was not accelerated or has not passed.       *)
Restart ==
  /\ base' = now /\ due' = now + 1
  /\ asked' = 0
  /\ UNCHANGED <<mode, now, flight, inbox, pc, round, owed>>
  /\ calm' = (calm /\ Shown' = Shown)

-----------------------------------------------------------------------------
(* UDP *)

Arrive(i) ==
  /\ Len(inbox) < Capacity
  /\ inbox' = Append(inbox, flight[i])
  /\ calm' = (calm /\ i = 1)

Deliver(i) ==
  /\ Arrive(i)
  /\ flight' = RemoveAt(flight, i)
  /\ UNCHANGED <<server, asked, pc, round, owed>>

Duplicate(i) ==
  /\ Arrive(i)
  /\ Owe
  /\ UNCHANGED <<server, asked, flight, pc, round>>

Lose(i) ==
  /\ flight' = RemoveAt(flight, i)
  /\ UNCHANGED <<server, asked, inbox, pc, round, calm, owed>>

LoseRequest ==
  /\ asked > 0
  /\ asked' = asked - 1
  /\ UNCHANGED <<server, flight, inbox, pc, round, calm, owed>>

Network ==
  \/ \E i \in 1 .. Len(flight) : Deliver(i) \/ Duplicate(i) \/ Lose(i)
  \/ LoseRequest

-----------------------------------------------------------------------------
Next == \/ Regulate
        \/ Tick \/ SendTimeUdp \/ SendTimeBroadcast \/ Restart
        \/ Network

Spec == Init /\ [][Next]_vars

-----------------------------------------------------------------------------
(* Properties *)

(* However many requests time out, and whichever of their answers are lost, *)
(* late or doubled, the PID never integrates over more time than the plant  *)
(* has lived through (main.cpp:115-119, RegulatorPID.cpp:11-12): provided   *)
(* that the first request is answered, none fails, no datagram overtakes    *)
(* another and the server neither goes back, when it is started again, nor  *)
(* runs past the NTP era.                                                   *)
NoTimeInvented ==
  calm /\ Shown < Era => integrated <= Reading(Shown) - Reading(Origin)

(* ... nor does it lose any: the time integrated over grows with the        *)
(* reading used, through rounds that got an old reading or none.            *)
NoTimeLost ==
  [][calm' /\ stepped /\ Shown' < Era =>
       integrated' - integrated = prevTime' - prevTime]_vars

(* A reading is late by no more answers than there were rounds without one, *)
(* datagrams doubled and broadcasts nobody asked for: the answers unread    *)
(* when a round begins were each put there by one of these (Socket.cpp:     *)
(* 264-277 takes one datagram per round and never catches up).              *)
LagIsOwed ==
  owed < MaxOwed =>
    asked + Len(flight) + Len(inbox) <= owed + (IF pc = "wait" THEN 1 ELSE 0)
=============================================================================
