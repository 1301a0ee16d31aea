------------------------ MODULE RegulatorClockProofs ------------------------
(***************************************************************************)
(* Proofs about RegulatorClock, for every width, era, acceleration and     *)
(* capacity: the readings that wait are in order as long as nothing        *)
(* disturbs them, and therefore the PID integrates over no more time than  *)
(* the time server has counted.                                            *)
(***************************************************************************)
EXTENDS RegulatorClock, SequenceTheorems, TLAPS

(* The constants' types, without the bound on the readings. *)
LEMMA Constants ==
  /\ Era \in Nat /\ Era > 0
  /\ Num \in Nat /\ Den \in Nat \ {0}
  /\ Accel \in Nat /\ Accel > 0
  /\ W \in Nat /\ W > 0 /\ LocalTime \in 0 .. W - 1
  /\ Garbage \subseteq 0 .. W - 1
  /\ Origin \in Nat /\ MaxNow \in Nat /\ Origin <= MaxNow /\ Origin < Era
  /\ Capacity \in Nat /\ Capacity > 0
  /\ MaxOwed \in Nat
BY ClockAssumption

(* A product with a natural number keeps the order. *)
LEMMA ProductMonotone ==
  ASSUME NEW x \in Nat, NEW y \in Nat, x <= y, NEW n \in Nat
  PROVE  x * n \in Nat /\ y * n \in Nat /\ x * n <= y * n
BY SMT

(* Integer division keeps the order of what it divides. *)
LEMMA DivisionMonotone ==
  ASSUME NEW x \in Nat, NEW y \in Nat, x <= y, NEW n \in Nat,
         NEW d \in Nat \ {0}
  PROVE  /\ (x * n) \div d \in Nat
         /\ (x * n) \div d <= (y * n) \div d
<1>1. x * n \in Nat /\ y * n \in Nat /\ x * n <= y * n
  BY ProductMonotone
<1> QED BY <1>1, SMT

(* The unsigned difference of two readings in order is their difference. *)
LEMMA DifferenceInOrder ==
  ASSUME NEW w \in Nat \ {0}, NEW a \in 0 .. w - 1, NEW b \in 0 .. w - 1
  PROVE  /\ (w + a - b) % w \in 0 .. w - 1
         /\ b <= a => (w + a - b) % w = a - b
<1>1. (w + a - b) % w \in 0 .. w - 1
  BY SMT
<1>2. ASSUME b <= a PROVE (w + a - b) % w = a - b
  <2>1. PICK k \in Nat : k = a - b /\ k < w
    BY <1>2, SMT
  <2>2. (w + k) % w = k
    BY <2>1, SMT
  <2> QED BY <2>1, <2>2, SMT
<1> QED BY <1>1, <1>2

(* Removing a datagram leaves the others as they are, in their order. *)
LEMMA RemoveAtProperties ==
  ASSUME NEW S, NEW s \in Seq(S), NEW i \in 1 .. Len(s)
  PROVE  /\ RemoveAt(s, i) \in Seq(S)
         /\ Len(RemoveAt(s, i)) = Len(s) - 1
         /\ \A j \in 1 .. Len(s) - 1 :
              RemoveAt(s, i)[j] = IF j < i THEN s[j] ELSE s[j + 1]
<1> DEFINE a == SubSeq(s, 1, i - 1)
           b == SubSeq(s, i + 1, Len(s))
<1>1. /\ a \in Seq(S)
      /\ Len(a) = i - 1
      /\ \A j \in 1 .. i - 1 : a[j] = s[j]
  <2>1. \A j \in 1 .. i - 1 : s[j] \in S
    BY ElementOfSeq, LenProperties, SMT
  <2>2. /\ a \in Seq(S)
        /\ Len(a) = IF 1 <= i - 1 THEN (i - 1) - 1 + 1 ELSE 0
        /\ \A j \in 1 .. (i - 1) - 1 + 1 : a[j] = s[1 + j - 1]
    BY <2>1, SubSeqProperties, LenProperties, SMT
  <2> QED BY <2>2, LenProperties, SMT
<1>2. /\ b \in Seq(S)
      /\ Len(b) = Len(s) - i
      /\ \A j \in 1 .. Len(s) - i : b[j] = s[j + i]
  <2>1. \A j \in i + 1 .. Len(s) : s[j] \in S
    BY ElementOfSeq, LenProperties, SMT
  <2>2. /\ b \in Seq(S)
        /\ Len(b) = IF i + 1 <= Len(s) THEN Len(s) - (i + 1) + 1 ELSE 0
        /\ \A j \in 1 .. Len(s) - (i + 1) + 1 : b[j] = s[(i + 1) + j - 1]
    BY <2>1, SubSeqProperties, LenProperties, SMT
  <2> QED BY <2>2, LenProperties, SMT
<1> HIDE DEF a, b
<1>3. /\ a \o b \in Seq(S)
      /\ Len(a \o b) = Len(a) + Len(b)
      /\ \A j \in 1 .. Len(a) + Len(b) :
           (a \o b)[j] = IF j <= Len(a) THEN a[j] ELSE b[j - Len(a)]
  BY <1>1, <1>2, ConcatProperties
<1>4. RemoveAt(s, i) = a \o b
  BY DEF RemoveAt, a, b
<1>5. Len(RemoveAt(s, i)) = Len(s) - 1
  <2>1. Len(s) \in Nat /\ i \in Int
    BY LenProperties, SMT
  <2>2. /\ Len(RemoveAt(s, i)) = Len(a) + Len(b)
        /\ Len(a) = i - 1 /\ Len(b) = Len(s) - i
    BY <1>1, <1>2, <1>3, <1>4
  <2> QED BY <2>1, <2>2, SMT
<1>6. ASSUME NEW j \in 1 .. Len(s) - 1
      PROVE  RemoveAt(s, i)[j] = IF j < i THEN s[j] ELSE s[j + 1]
  <2>1. CASE j < i
    BY <1>1, <1>2, <1>3, <1>4, <2>1, LenProperties, SMT
  <2>2. CASE ~(j < i)
    <3>1. /\ j \in Int /\ i \in Int /\ j - (i - 1) \in 1 .. Len(s) - i
          /\ j - (i - 1) + i = j + 1
      BY <2>2, LenProperties, SMT
    <3>2. b[j - (i - 1)] = s[j + 1]
      BY <1>2, <3>1
    <3>3. (a \o b)[j] = b[j - (i - 1)]
      BY <1>1, <1>2, <1>3, <2>2, LenProperties, SMT
    <3> QED BY <1>4, <2>2, <3>2, <3>3
  <2> QED BY <2>1, <2>2
<1> QED BY <1>3, <1>4, <1>5, <1>6

(* A reading fits the width, and readings are in the order of the seconds. *)
LEMMA ReadingType ==
  ASSUME NEW s \in Nat
  PROVE  s % Era \in 0 .. Era - 1 /\ Reading(s) \in 0 .. W - 1
<1>1. s % Era \in 0 .. Era - 1
  BY Constants, SMT
<1>2. s % Era \in Nat /\ s % Era <= Era
  BY <1>1, Constants, SMT
<1>3. /\ Reading(s) \in Nat
      /\ Reading(s) <= (Era * Num) \div Den
  BY <1>2, DivisionMonotone, Constants DEF Reading
<1>4. (Era * Num) \div Den \in Nat /\ (Era * Num) \div Den < W
  BY DivisionMonotone, Constants, ClockAssumption
<1> HIDE DEF Reading
<1> QED BY <1>1, <1>3, <1>4, Constants, SMT

LEMMA ReadingMonotone ==
  ASSUME NEW s \in Nat, NEW t \in Nat, s <= t, t < Era
  PROVE  Reading(s) <= Reading(t)
<1>1. s % Era = s /\ t % Era = t
  BY Constants, SMT
<1> QED BY <1>1, DivisionMonotone, Constants DEF Reading

(* The time shown is never before the server's start. *)
LEMMA ShownType ==
  ASSUME TypeOK
  PROVE  Shown \in Nat /\ base <= Shown /\ Origin <= Shown
<1>1. now - base \in Nat /\ base \in Nat /\ Origin \in Nat /\ Origin <= base
  BY Constants, SMT DEF TypeOK
<1>2. (now - base) * Accel \in Nat
  BY <1>1, Constants, SMT
<1> QED BY <1>1, <1>2, SMT DEF Shown, AccelerateTime

-----------------------------------------------------------------------------
(* Type correctness *)

LEMMA TypeInitial == Init => TypeOK
<1> SUFFICES ASSUME Init PROVE TypeOK
  OBVIOUS
<1>1. 300 % W \in 0 .. W - 1
  BY Constants, SMT
<1>2. <<>> \in Seq(0 .. Era - 1) /\ Len(<<>>) = 0
  BY EmptySeq
<1>3. stepped \in BOOLEAN /\ calm \in BOOLEAN
  BY DEF Init
<1> QED BY <1>1, <1>2, <1>3, Constants, SMT DEF Init, TypeOK

LEMMA TypeInductive == TypeOK /\ [Next]_vars => TypeOK'
<1> SUFFICES ASSUME TypeOK, [Next]_vars PROVE TypeOK'
  OBVIOUS
<1> USE Constants
<1>1. CASE Ask
  BY <1>1, SMT DEF Ask, TypeOK, server, round
<1>2. CASE AskFails
  <2>1. calm' \in BOOLEAN
    BY <1>2 DEF AskFails
  <2> QED BY <1>2, <2>1, SMT DEF AskFails, Owe, TypeOK, server, net
<1>3. CASE Recv
  <2>1. /\ Head(inbox) \in 0 .. Era - 1
        /\ Tail(inbox) \in Seq(0 .. Era - 1)
        /\ Len(Tail(inbox)) = Len(inbox) - 1
    BY <1>3, HeadTailProperties DEF Recv, TypeOK
  <2>2. Reading(Head(inbox)) \in 0 .. W - 1
    BY <2>1, ReadingType, SMT
  <2> QED BY <1>3, <2>1, <2>2, SMT DEF Recv, TypeOK, server
<1>4. CASE Timeout
  BY <1>4, SMT DEF Timeout, Owe, TypeOK, server, net
<1>5. CASE RecvError
  <2>1. calm' \in BOOLEAN
    BY <1>5 DEF RecvError
  <2> QED BY <1>5, <2>1, SMT DEF RecvError, Owe, TypeOK, server, net
<1>6. CASE Use
  <2>1. {dt', prevTime'} \subseteq 0 .. W - 1
    BY <1>6, DifferenceInOrder, SMT DEF Use, TypeOK
  <2>2. integrated' \in Nat /\ stepped' = TRUE
    BY <1>6, <2>1, SMT DEF Use, Integrate, TypeOK
  <2> QED BY <1>6, <2>1, <2>2, SMT DEF Use, TypeOK, server, net
<1>7. CASE Tick
  BY <1>7, SMT DEF Tick, TypeOK, net, round
<1>8. CASE SendTimeUdp \/ SendTimeBroadcast
  <2>1. Shown % Era \in 0 .. Era - 1
    BY ShownType, ReadingType
  <2>2. /\ flight' \in Seq(0 .. Era - 1)
        /\ Len(flight') = Len(flight) + 1
        /\ Len(flight) < Capacity
    <3>1. Post
      BY <1>8 DEF SendTimeUdp, SendTimeBroadcast
    <3>2. flight \in Seq(0 .. Era - 1)
      BY DEF TypeOK
    <3> QED BY <2>1, <3>1, <3>2, AppendProperties DEF Post
  <2>3. CASE SendTimeUdp
    BY <2>2, <2>3, LenProperties, SMT
       DEF SendTimeUdp, TypeOK, server, round
  <2>4. CASE SendTimeBroadcast
    BY <2>2, <2>4, LenProperties, SMT
       DEF SendTimeBroadcast, Owe, TypeOK, round
  <2> QED BY <1>8, <2>3, <2>4
<1>9. CASE Restart
  <2>1. calm' \in BOOLEAN
    BY <1>9 DEF Restart
  <2> QED BY <1>9, <2>1, SMT DEF Restart, TypeOK, round
<1>10. ASSUME NEW i \in 1 .. Len(flight), Deliver(i) \/ Duplicate(i) \/ Lose(i)
       PROVE  TypeOK'
  <2>1. /\ RemoveAt(flight, i) \in Seq(0 .. Era - 1)
        /\ Len(RemoveAt(flight, i)) = Len(flight) - 1
    BY RemoveAtProperties DEF TypeOK
  <2>2. /\ Append(inbox, flight[i]) \in Seq(0 .. Era - 1)
        /\ Len(Append(inbox, flight[i])) = Len(inbox) + 1
    BY AppendProperties, ElementOfSeq DEF TypeOK
  <2>3. CASE Deliver(i)
    BY <2>1, <2>2, <2>3, LenProperties, SMT
       DEF Deliver, Arrive, TypeOK, server, round
  <2>4. CASE Duplicate(i)
    BY <2>2, <2>4, LenProperties, SMT
       DEF Duplicate, Arrive, Owe, TypeOK, server, round
  <2>5. CASE Lose(i)
    BY <2>1, <2>5, LenProperties, SMT DEF Lose, TypeOK, server, round
  <2> QED BY <1>10, <2>3, <2>4, <2>5
<1>11. CASE LoseRequest
  BY <1>11, SMT DEF LoseRequest, TypeOK, server, round
<1>12. CASE UNCHANGED vars
  BY <1>12 DEF vars, server, net, round, TypeOK
<1> QED BY <1>1, <1>2, <1>3, <1>4, <1>5, <1>6, <1>7, <1>8, <1>9, <1>10,
           <1>11, <1>12 DEF Next, Regulate, Network

(* Every reading, difference and datagram keeps to its width, for every     *)
(* acceleration and however often the server restarts.                      *)
THEOREM TypeCorrect == Spec => []TypeOK
<1> QED BY TypeInitial, TypeInductive, PTL DEF Spec

-----------------------------------------------------------------------------
(* The lag *)

LEMMA LagInitial == Init => LagIsOwed
<1> QED BY EmptySeq, Constants, SMT DEF Init, LagIsOwed

LEMMA LagInductive == TypeOK /\ LagIsOwed /\ [Next]_vars => LagIsOwed'
<1> SUFFICES ASSUME TypeOK, LagIsOwed, [Next]_vars PROVE LagIsOwed'
  OBVIOUS
<1> USE Constants
<1>0. Len(flight) \in Nat /\ Len(inbox) \in Nat /\ asked \in Nat /\ owed \in Nat
  BY LenProperties, SMT DEF TypeOK
<1>1. CASE Ask
  BY <1>0, <1>1, SMT DEF Ask, LagIsOwed
<1>2. CASE AskFails \/ Timeout \/ RecvError
  BY <1>0, <1>2, SMT DEF AskFails, Timeout, RecvError, Owe, LagIsOwed, net
<1>3. CASE Recv
  <2>1. Len(inbox') = Len(inbox) - 1
    BY <1>3, HeadTailProperties DEF Recv, TypeOK
  <2> QED BY <1>0, <1>3, <2>1, SMT DEF Recv, LagIsOwed
<1>4. CASE Use
  BY <1>0, <1>4, SMT DEF Use, LagIsOwed, net
<1>5. CASE Tick \/ Restart
  BY <1>0, <1>5, SMT DEF Tick, Restart, LagIsOwed, net
<1>6. CASE SendTimeUdp \/ SendTimeBroadcast
  <2>1. Shown % Era \in 0 .. Era - 1
    BY ShownType, ReadingType
  <2>2. Post /\ flight \in Seq(0 .. Era - 1)
    BY <1>6 DEF SendTimeUdp, SendTimeBroadcast, TypeOK
  <2>3. Len(flight') = Len(flight) + 1
    BY <2>1, <2>2, AppendProperties DEF Post
  <2>4. CASE SendTimeUdp
    BY <1>0, <2>3, <2>4, SMT DEF SendTimeUdp, LagIsOwed
  <2>5. CASE SendTimeBroadcast
    BY <1>0, <2>3, <2>5, SMT DEF SendTimeBroadcast, Owe, LagIsOwed
  <2> QED BY <1>6, <2>4, <2>5
<1>7. ASSUME NEW i \in 1 .. Len(flight), Deliver(i) \/ Duplicate(i) \/ Lose(i)
      PROVE  LagIsOwed'
  <2>1. Len(RemoveAt(flight, i)) = Len(flight) - 1
    BY RemoveAtProperties DEF TypeOK
  <2>2. Len(Append(inbox, flight[i])) = Len(inbox) + 1
    BY AppendProperties, ElementOfSeq DEF TypeOK
  <2>3. CASE Deliver(i)
    BY <1>0, <2>1, <2>2, <2>3, SMT DEF Deliver, Arrive, LagIsOwed
  <2>4. CASE Duplicate(i)
    BY <1>0, <2>2, <2>4, SMT DEF Duplicate, Arrive, Owe, LagIsOwed
  <2>5. CASE Lose(i)
    BY <1>0, <2>1, <2>5, SMT DEF Lose, LagIsOwed
  <2> QED BY <1>7, <2>3, <2>4, <2>5
<1>8. CASE LoseRequest
  BY <1>0, <1>8, SMT DEF LoseRequest, LagIsOwed
<1>9. CASE UNCHANGED vars
  BY <1>9 DEF vars, net, LagIsOwed
<1> QED BY <1>1, <1>2, <1>3, <1>4, <1>5, <1>6, <1>7, <1>8, <1>9
        DEF Next, Regulate, Network

(* The answers that wait are all owed to an earlier round without one, to   *)
(* a duplicate or to a broadcast: for every capacity of the sockets.        *)
THEOREM LagIsOwedHolds == Spec => []LagIsOwed
<1> QED BY TypeInitial, TypeInductive, LagInitial, LagInductive, PTL DEF Spec
-----------------------------------------------------------------------------
(* The order of the readings *)

(* While nothing disturbs them, the datagrams that wait are in the order    *)
(* they were sent in, none from before the start or from the future.        *)
InOrder ==
  /\ \A i \in 1 .. Len(inbox) : Origin <= inbox[i] /\ inbox[i] <= Shown
  /\ \A i \in 1 .. Len(flight) : Origin <= flight[i] /\ flight[i] <= Shown
  /\ \A i, j \in 1 .. Len(inbox) : i <= j => inbox[i] <= inbox[j]
  /\ \A i, j \in 1 .. Len(flight) : i <= j => flight[i] <= flight[j]
  /\ \A i \in 1 .. Len(inbox), j \in 1 .. Len(flight) : inbox[i] <= flight[j]

(* A reading has been received. *)
Heard == stepped \/ pc = "use"

(* The last reading is older than every datagram that waits. *)
ReadInOrder ==
  Heard => /\ Reading(Origin) <= timeData /\ timeData <= Reading(Shown)
           /\ \A i \in 1 .. Len(inbox) : timeData <= Reading(inbox[i])
           /\ \A i \in 1 .. Len(flight) : timeData <= Reading(flight[i])

(* The PID has integrated over what lies between the first reading, not     *)
(* before the start's, and prevTime.                                        *)
Summed ==
  IF stepped
  THEN /\ Reading(Origin) + integrated <= prevTime
       /\ prevTime <= timeData
       /\ pc # "use" => prevTime = timeData
  ELSE integrated = 0

Undisturbed == calm /\ Shown < Era

IInv ==
  /\ calm /\ pc = "use" => timeResult = "success"
  /\ Undisturbed => InOrder /\ ReadInOrder /\ Summed

(* Time only grows while the server is not restarted. *)
LEMMA ShownGrows ==
  ASSUME TypeOK, [Next]_vars, calm'
  PROVE  /\ calm
         /\ Shown \in Nat /\ Shown' \in Nat /\ Shown <= Shown'
         /\ Shown' < Era => Shown < Era
<1>1. calm
  BY DEF Next, Regulate, Network, Ask, AskFails, Recv, Timeout, RecvError, Use,
         Tick, SendTimeUdp, SendTimeBroadcast, Restart, Deliver, Duplicate,
         Arrive, Lose, LoseRequest, vars
<1>2. CASE Restart
  <2>1. Shown' = Shown /\ Shown \in Nat
    BY <1>2, ShownType DEF Restart
  <2> HIDE DEF Shown
  <2> QED BY <1>1, <2>1, SMT
<1>3. CASE ~Restart
  <2>1. base' = base /\ (now' = now \/ now' = now + 1)
    BY <1>3 DEF Next, Regulate, Network, Ask, AskFails, Recv, Timeout, RecvError,
           Use, Tick, SendTimeUdp, SendTimeBroadcast, Deliver, Duplicate,
           Arrive, Lose, LoseRequest, vars, server
  <2>2. /\ now - base \in Nat /\ now' - base' \in Nat
        /\ now - base <= now' - base'
    BY <2>1, Constants, SMT DEF TypeOK
  <2>3. /\ (now - base) * Accel \in Nat /\ (now' - base') * Accel \in Nat
        /\ (now - base) * Accel <= (now' - base') * Accel
    BY <2>2, ProductMonotone, Constants
  <2>4. /\ Shown = base + (now - base) * Accel
        /\ Shown' = base' + (now' - base') * Accel
    BY DEF Shown, AccelerateTime
  <2>5. base \in Nat
    BY Constants, SMT DEF TypeOK
  <2>6. Shown \in Nat /\ Shown' \in Nat /\ Shown <= Shown'
    BY <2>1, <2>3, <2>4, <2>5, SMT
  <2> QED BY <1>1, <2>6, Constants, SMT
<1> QED BY <1>2, <1>3


LEMMA IInvInitial == Init => IInv
<1> SUFFICES ASSUME Init PROVE IInv
  OBVIOUS
<1>1. inbox = <<>> /\ flight = <<>> /\ Len(<<>>) = 0
  BY EmptySeq DEF Init
<1>2. InOrder
  BY <1>1, SMT DEF InOrder
<1>3. ReadInOrder /\ Summed
  BY DEF Init, ReadInOrder, Heard, Summed
<1>4. pc # "use"
  BY DEF Init
<1> QED BY <1>2, <1>3, <1>4 DEF IInv

(* What is not disturbed was not before, and ends with a reading. *)
LEMMA UndisturbedBefore ==
  ASSUME TypeOK, IInv, [Next]_vars, calm'
  PROVE  pc' = "use" => timeResult' = "success"
<1>1. calm /\ (pc = "use" => timeResult = "success")
  BY ShownGrows DEF IInv
<1>2. ~AskFails /\ ~RecvError
  BY DEF AskFails, RecvError
<1>3. pc' = "use" => timeResult' = "success"
  <2>1. Recv \/ Timeout \/ pc' # "use" \/ (pc' = pc /\ timeResult' = timeResult)
    BY <1>2 DEF Next, Regulate, Network, Ask, Use, Tick, SendTimeUdp,
       SendTimeBroadcast, Restart, Deliver, Duplicate, Arrive, Lose, LoseRequest,
       vars, round
  <2> QED BY <1>1, <2>1 DEF Recv, Timeout
<1> QED BY <1>1, <1>3

(* The datagrams that wait stay in order. *)
LEMMA InOrderInductive ==
  ASSUME TypeOK, [Next]_vars, calm, calm', InOrder,
         Shown' < Era, Shown < Era
  PROVE  InOrder'
<1> USE Constants
<1>0. /\ Shown \in Nat /\ Shown' \in Nat /\ Shown <= Shown' /\ Origin <= Shown
      /\ Origin \in Nat /\ Era \in Nat
      /\ Len(inbox) \in Nat /\ Len(flight) \in Nat
  <2>1. Shown \in Nat /\ Shown' \in Nat /\ Shown <= Shown' /\ Origin <= Shown
    BY ShownGrows, ShownType
  <2>2. Len(inbox) \in Nat /\ Len(flight) \in Nat /\ base \in Nat
    BY LenProperties, SMT DEF TypeOK
  <2> HIDE DEF Shown
  <2> QED BY <2>1, <2>2, SMT
<1>a. /\ \A i \in 1 .. Len(inbox) : inbox[i] \in Nat
      /\ \A i \in 1 .. Len(flight) : flight[i] \in Nat
  BY ElementOfSeq, SMT DEF TypeOK
<1> HIDE DEF Shown
<1>b. /\ \A i \in 1 .. Len(inbox) : Origin <= inbox[i] /\ inbox[i] <= Shown'
      /\ \A i \in 1 .. Len(flight) : Origin <= flight[i] /\ flight[i] <= Shown'
  <2>1. ASSUME NEW i \in 1 .. Len(inbox)
        PROVE  Origin <= inbox[i] /\ inbox[i] <= Shown'
    <3>1. Origin <= inbox[i] /\ inbox[i] <= Shown /\ inbox[i] \in Nat
      BY <1>a DEF InOrder
    <3> QED BY <1>0, <3>1, SMT
  <2>2. ASSUME NEW i \in 1 .. Len(flight)
        PROVE  Origin <= flight[i] /\ flight[i] <= Shown'
    <3>1. Origin <= flight[i] /\ flight[i] <= Shown /\ flight[i] \in Nat
      BY <1>a DEF InOrder
    <3> QED BY <1>0, <3>1, SMT
  <2> QED BY <2>1, <2>2
<1>1. CASE inbox' = inbox /\ flight' = flight
  <2>aa. \A i \in 1 .. Len(inbox') : Origin <= inbox'[i] /\ inbox'[i] <= Shown'
    BY <1>0, <1>a, <1>b, <1>1, SMT
  <2>bb. \A i \in 1 .. Len(flight') : Origin <= flight'[i] /\ flight'[i] <= Shown'
    BY <1>0, <1>a, <1>b, <1>1, SMT
  <2>cc. \A i, j \in 1 .. Len(inbox') : i <= j => inbox'[i] <= inbox'[j]
    BY <1>0, <1>a, <1>1, SMT DEF InOrder
  <2>dd. \A i, j \in 1 .. Len(flight') : i <= j => flight'[i] <= flight'[j]
    BY <1>0, <1>a, <1>1, SMT DEF InOrder
  <2>ee. \A i \in 1 .. Len(inbox'), j \in 1 .. Len(flight') : inbox'[i] <= flight'[j]
    BY <1>0, <1>a, <1>1, SMT DEF InOrder
  <2> QED BY <2>aa, <2>bb, <2>cc, <2>dd, <2>ee DEF InOrder
<1>2. CASE Recv
  <2>1. /\ Len(inbox') = Len(inbox) - 1 /\ flight' = flight
        /\ \A i \in 1 .. Len(inbox) - 1 : inbox'[i] = inbox[i + 1]
    BY <1>2, HeadTailProperties DEF Recv, TypeOK
  <2>2. \A i \in 1 .. Len(inbox') :
           /\ i \in 1 .. Len(inbox) /\ i + 1 \in 1 .. Len(inbox)
           /\ inbox'[i] = inbox[i + 1]
    BY <1>0, <2>1, SMT
  <2>aa. \A i \in 1 .. Len(inbox') : Origin <= inbox'[i] /\ inbox'[i] <= Shown'
    <3>1. ASSUME NEW i \in 1 .. Len(inbox') PROVE Origin <= inbox'[i] /\ inbox'[i] <= Shown'
      <4>1. inbox'[i] = inbox[i + 1] /\ i + 1 \in 1 .. Len(inbox)
        BY <2>2
      <4> QED BY <1>b, <4>1
    <3> QED BY <3>1
  <2>bb. \A i \in 1 .. Len(flight') : Origin <= flight'[i] /\ flight'[i] <= Shown'
    BY <1>b, <2>1
  <2>cc. \A i, j \in 1 .. Len(inbox') : i <= j => inbox'[i] <= inbox'[j]
    <3> SUFFICES ASSUME NEW i \in 1 .. Len(inbox'), NEW j \in 1 .. Len(inbox'), i <= j
                 PROVE  inbox'[i] <= inbox'[j]
      OBVIOUS
    <3>1. i + 1 \in 1 .. Len(inbox) /\ j + 1 \in 1 .. Len(inbox) /\ i + 1 <= j + 1
      BY <2>2, SMT
    <3>2. inbox'[i] = inbox[i + 1] /\ inbox'[j] = inbox[j + 1]
      BY <2>2
    <3> QED BY <3>1, <3>2 DEF InOrder
  <2>dd. \A i, j \in 1 .. Len(flight') : i <= j => flight'[i] <= flight'[j]
    BY <1>0, <1>a, <2>1, <2>2, SMT DEF InOrder
  <2>ee. \A i \in 1 .. Len(inbox'), j \in 1 .. Len(flight') : inbox'[i] <= flight'[j]
    <3>1. ASSUME NEW i \in 1 .. Len(inbox'), NEW j \in 1 .. Len(flight')
          PROVE  inbox'[i] <= flight'[j]
      <4>1. inbox'[i] = inbox[i + 1] /\ i + 1 \in 1 .. Len(inbox)
        BY <2>2
      <4>2. j \in 1 .. Len(flight) /\ flight'[j] = flight[j]
        BY <2>1
      <4> QED BY <4>1, <4>2 DEF InOrder
    <3> QED BY <3>1
  <2> QED BY <2>aa, <2>bb, <2>cc, <2>dd, <2>ee DEF InOrder
<1>3. CASE SendTimeUdp \/ SendTimeBroadcast
  <2>1. Shown % Era = Shown /\ inbox' = inbox
    BY <1>0, <1>3, SMT DEF SendTimeUdp, SendTimeBroadcast
  <2>2. Post /\ flight \in Seq(Nat)
    BY <1>3, SeqDef, SMT DEF SendTimeUdp, SendTimeBroadcast, TypeOK
  <2>3. flight' = Append(flight, Shown)
    BY <2>1, <2>2 DEF Post
  <2>4. /\ Len(flight') = Len(flight) + 1
        /\ flight'[Len(flight) + 1] = Shown
        /\ \A i \in 1 .. Len(flight) : flight'[i] = flight[i]
    BY <1>0, <2>2, <2>3, AppendProperties
  <2>5. \A i \in 1 .. Len(flight') :
           IF i = Len(flight) + 1 THEN flight'[i] = Shown
           ELSE i \in 1 .. Len(flight) /\ flight'[i] = flight[i]
    BY <1>0, <2>4, SMT
  <2>aa. \A i \in 1 .. Len(inbox') : Origin <= inbox'[i] /\ inbox'[i] <= Shown'
    BY <1>0, <1>a, <1>b, <2>1, <2>4, <2>5, SMT
  <2>bb. \A i \in 1 .. Len(flight') : Origin <= flight'[i] /\ flight'[i] <= Shown'
    <3>1. ASSUME NEW i \in 1 .. Len(flight') PROVE Origin <= flight'[i] /\ flight'[i] <= Shown'
      <4>1. CASE i = Len(flight) + 1
        <5>1. flight'[i] = Shown
          BY <2>5, <4>1
        <5> HIDE DEF Shown
        <5> QED BY <1>0, <5>1, SMT
      <4>2. CASE i # Len(flight) + 1
        BY <1>b, <2>5, <4>2
      <4> QED BY <4>1, <4>2
    <3> QED BY <3>1
  <2>cc. \A i, j \in 1 .. Len(inbox') : i <= j => inbox'[i] <= inbox'[j]
    BY <1>0, <1>a, <2>1, <2>4, <2>5, SMT DEF InOrder
  <2>dd. \A i, j \in 1 .. Len(flight') : i <= j => flight'[i] <= flight'[j]
    BY <1>0, <1>a, <2>1, <2>4, <2>5, SMT DEF InOrder
  <2>ee. \A i \in 1 .. Len(inbox'), j \in 1 .. Len(flight') : inbox'[i] <= flight'[j]
    BY <1>0, <1>a, <2>1, <2>4, <2>5, SMT DEF InOrder
  <2> QED BY <2>aa, <2>bb, <2>cc, <2>dd, <2>ee DEF InOrder
<1>4. ASSUME NEW k \in 1 .. Len(flight), Deliver(k) \/ Duplicate(k) \/ Lose(k)
      PROVE  InOrder'
  <2>1. /\ Len(RemoveAt(flight, k)) = Len(flight) - 1
        /\ \A j \in 1 .. Len(flight) - 1 :
             RemoveAt(flight, k)[j] = IF j < k THEN flight[j] ELSE flight[j + 1]
    <3>1. flight \in Seq(0 .. Era - 1)
      BY DEF TypeOK
    <3> QED BY <3>1, RemoveAtProperties
  <2>2. CASE Lose(k)
    <3>1. inbox' = inbox /\ flight' = RemoveAt(flight, k)
      BY <2>2 DEF Lose
    <3>2. \A j \in 1 .. Len(flight') :
            /\ j \in 1 .. Len(flight) /\ j + 1 \in 1 .. Len(flight)
            /\ flight'[j] = IF j < k THEN flight[j] ELSE flight[j + 1]
      BY <1>0, <2>1, <3>1, SMT
    <3>3. Len(flight') \in Nat
      BY <1>0, <2>1, <3>1, SMT
    <3>aa. \A i \in 1 .. Len(inbox') : Origin <= inbox'[i] /\ inbox'[i] <= Shown'
      BY <1>0, <1>a, <1>b, <3>1, <3>2, <3>3, SMT
    <3>bb. \A i \in 1 .. Len(flight') : Origin <= flight'[i] /\ flight'[i] <= Shown'
      BY <1>0, <1>a, <1>b, <3>1, <3>2, <3>3, SMT
    <3>cc. \A i, j \in 1 .. Len(inbox') : i <= j => inbox'[i] <= inbox'[j]
      BY <1>0, <1>a, <3>1, <3>2, <3>3, SMT DEF InOrder
    <3>dd. \A i, j \in 1 .. Len(flight') : i <= j => flight'[i] <= flight'[j]
      BY <1>0, <1>a, <3>1, <3>2, <3>3, SMT DEF InOrder
    <3>ee. \A i \in 1 .. Len(inbox'), j \in 1 .. Len(flight') : inbox'[i] <= flight'[j]
      BY <1>0, <1>a, <3>1, <3>2, <3>3, SMT DEF InOrder
    <3> QED BY <3>aa, <3>bb, <3>cc, <3>dd, <3>ee DEF InOrder
  <2>3. ASSUME Arrive(k)
        PROVE  /\ k = 1 /\ flight[1] \in Nat
               /\ Len(inbox') = Len(inbox) + 1
               /\ \A i \in 1 .. Len(inbox') :
                    IF i = Len(inbox) + 1 THEN inbox'[i] = flight[1]
                    ELSE i \in 1 .. Len(inbox) /\ inbox'[i] = inbox[i]
    <3>1. k = 1 /\ inbox' = Append(inbox, flight[k])
      BY <2>3 DEF Arrive
    <3>2. /\ Len(inbox') = Len(inbox) + 1
          /\ inbox'[Len(inbox) + 1] = flight[1]
          /\ \A i \in 1 .. Len(inbox) : inbox'[i] = inbox[i]
      BY <1>0, <1>a, <3>1, AppendProperties, ElementOfSeq DEF TypeOK
    <3> QED BY <1>0, <1>a, <3>1, <3>2, SMT
  <2>4. CASE Duplicate(k)
    <3>1. Arrive(k) /\ flight' = flight
      BY <2>4 DEF Duplicate
    <3>2. 1 \in 1 .. Len(flight)
      BY <1>0, SMT
    <3>3. /\ \A i \in 1 .. Len(inbox) : inbox[i] <= flight[1]
          /\ \A j \in 1 .. Len(flight) : flight[1] <= flight[j]
          /\ Origin <= flight[1] /\ flight[1] <= Shown
      BY <1>0, <3>2, SMT DEF InOrder
    <3>aa. \A i \in 1 .. Len(inbox') : Origin <= inbox'[i] /\ inbox'[i] <= Shown'
      <4>1. ASSUME NEW i \in 1 .. Len(inbox') PROVE Origin <= inbox'[i] /\ inbox'[i] <= Shown'
        <5>1. CASE i = Len(inbox) + 1
          <6>1. inbox'[i] = flight[1]
            BY <2>3, <3>1, <5>1
          <6> QED BY <1>b, <3>2, <6>1
        <5>2. CASE i # Len(inbox) + 1
          BY <1>b, <2>3, <3>1, <5>2
        <5> QED BY <5>1, <5>2
      <4> QED BY <4>1
    <3>bb. \A i \in 1 .. Len(flight') : Origin <= flight'[i] /\ flight'[i] <= Shown'
      BY <1>0, <1>a, <1>b, <2>3, <3>1, <3>3, SMT
    <3>cc. \A i, j \in 1 .. Len(inbox') : i <= j => inbox'[i] <= inbox'[j]
      <4>1. ASSUME NEW i \in 1 .. Len(inbox'), NEW j \in 1 .. Len(inbox'), i <= j
            PROVE  inbox'[i] <= inbox'[j]
        <5>1. CASE i = Len(inbox) + 1
          <6>1. j = i /\ inbox'[i] \in Nat
            BY <1>0, <2>3, <3>1, <4>1, <5>1, SMT
          <6> QED BY <6>1, SMT
        <5>2. CASE i # Len(inbox) + 1 /\ j = Len(inbox) + 1
          BY <2>3, <3>1, <3>3, <5>2
        <5>3. CASE i # Len(inbox) + 1 /\ j # Len(inbox) + 1
          BY <2>3, <3>1, <4>1, <5>3 DEF InOrder
        <5> QED BY <5>1, <5>2, <5>3
      <4> QED BY <4>1
    <3>dd. \A i, j \in 1 .. Len(flight') : i <= j => flight'[i] <= flight'[j]
      BY <1>0, <1>a, <2>3, <3>1, <3>3, SMT DEF InOrder
    <3>ee. \A i \in 1 .. Len(inbox'), j \in 1 .. Len(flight') : inbox'[i] <= flight'[j]
      BY <1>0, <1>a, <2>3, <3>1, <3>3, SMT DEF InOrder
    <3> QED BY <3>aa, <3>bb, <3>cc, <3>dd, <3>ee DEF InOrder
  <2>5. CASE Deliver(k)
    <3>1. Arrive(k) /\ flight' = RemoveAt(flight, k)
      BY <2>5 DEF Deliver
    <3>2. 1 \in 1 .. Len(flight)
      BY <1>0, SMT
    <3>3. /\ \A i \in 1 .. Len(inbox) : inbox[i] <= flight[1]
          /\ \A j \in 1 .. Len(flight) : flight[1] <= flight[j]
          /\ Origin <= flight[1] /\ flight[1] <= Shown
      BY <1>0, <3>2, SMT DEF InOrder
    <3>4. \A j \in 1 .. Len(flight') :
            /\ j \in 1 .. Len(flight) /\ j + 1 \in 1 .. Len(flight)
            /\ flight'[j] = flight[j + 1]
      BY <1>0, <2>1, <2>3, <3>1, SMT
    <3>5. Len(flight') \in Nat
      BY <1>0, <2>1, <3>1, SMT
    <3>aa. \A i \in 1 .. Len(inbox') : Origin <= inbox'[i] /\ inbox'[i] <= Shown'
      <4>1. ASSUME NEW i \in 1 .. Len(inbox') PROVE Origin <= inbox'[i] /\ inbox'[i] <= Shown'
        <5>1. CASE i = Len(inbox) + 1
          <6>1. inbox'[i] = flight[1]
            BY <2>3, <3>1, <5>1
          <6> QED BY <1>b, <3>2, <6>1
        <5>2. CASE i # Len(inbox) + 1
          BY <1>b, <2>3, <3>1, <5>2
        <5> QED BY <5>1, <5>2
      <4> QED BY <4>1
    <3>bb. \A i \in 1 .. Len(flight') : Origin <= flight'[i] /\ flight'[i] <= Shown'
      BY <1>0, <1>a, <1>b, <2>3, <3>1, <3>3, <3>4, <3>5, SMT
    <3>cc. \A i, j \in 1 .. Len(inbox') : i <= j => inbox'[i] <= inbox'[j]
      BY <1>0, <1>a, <2>3, <3>1, <3>3, <3>4, <3>5, SMT DEF InOrder
    <3>dd. \A i, j \in 1 .. Len(flight') : i <= j => flight'[i] <= flight'[j]
      BY <1>0, <1>a, <2>3, <3>1, <3>3, <3>4, <3>5, SMT DEF InOrder
    <3>ee. \A i \in 1 .. Len(inbox'), j \in 1 .. Len(flight') : inbox'[i] <= flight'[j]
      <4>1. ASSUME NEW i \in 1 .. Len(inbox'), NEW j \in 1 .. Len(flight')
            PROVE  inbox'[i] <= flight'[j]
        <5>1. flight'[j] = flight[j + 1] /\ j + 1 \in 1 .. Len(flight)
          BY <3>4
        <5>2. CASE i = Len(inbox) + 1
          <6>1. inbox'[i] = flight[1]
            BY <2>3, <3>1, <5>2
          <6> QED BY <3>3, <5>1, <6>1
        <5>3. CASE i # Len(inbox) + 1
          BY <2>3, <3>1, <5>1, <5>3 DEF InOrder
        <5> QED BY <5>2, <5>3
      <4> QED BY <4>1
    <3> QED BY <3>aa, <3>bb, <3>cc, <3>dd, <3>ee DEF InOrder
  <2> QED BY <1>4, <2>2, <2>4, <2>5
<1> QED BY <1>1, <1>2, <1>3, <1>4
        DEF Next, Regulate, Network, Ask, AskFails, Timeout, RecvError, Use,
            Tick, Restart, LoseRequest, vars, net

(* What waits, and what is shown, is read in the order of its seconds. *)
LEMMA ReadingsInOrder ==
  ASSUME TypeOK, InOrder, Shown < Era
  PROVE  /\ Reading(Origin) <= Reading(Shown)
         /\ \A i \in 1 .. Len(inbox) :
              /\ Reading(Origin) <= Reading(inbox[i])
              /\ Reading(inbox[i]) <= Reading(Shown)
         /\ \A i, j \in 1 .. Len(inbox) :
              i <= j => Reading(inbox[i]) <= Reading(inbox[j])
         /\ \A i \in 1 .. Len(inbox), j \in 1 .. Len(flight) :
              Reading(inbox[i]) <= Reading(flight[j])
<1>1. Shown \in Nat /\ Origin \in Nat /\ Era \in Nat /\ Origin <= Shown
  BY ShownType, Constants
<1>2. /\ \A i \in 1 .. Len(inbox) : inbox[i] \in Nat /\ inbox[i] < Era
      /\ \A i \in 1 .. Len(flight) : flight[i] \in Nat /\ flight[i] < Era
  BY ElementOfSeq, Constants, SMT DEF TypeOK
<1> HIDE DEF Shown, Reading
<1>3. Reading(Origin) <= Reading(Shown)
  BY <1>1, ReadingMonotone
<1>4. ASSUME NEW i \in 1 .. Len(inbox)
      PROVE  /\ Reading(Origin) <= Reading(inbox[i])
             /\ Reading(inbox[i]) <= Reading(Shown)
  <2>1. Origin <= inbox[i] /\ inbox[i] <= Shown
    BY DEF InOrder
  <2> QED BY <1>1, <1>2, <2>1, ReadingMonotone
<1>5. ASSUME NEW i \in 1 .. Len(inbox), NEW j \in 1 .. Len(inbox), i <= j
      PROVE  Reading(inbox[i]) <= Reading(inbox[j])
  BY <1>2, <1>5, ReadingMonotone DEF InOrder
<1>6. ASSUME NEW i \in 1 .. Len(inbox), NEW j \in 1 .. Len(flight)
      PROVE  Reading(inbox[i]) <= Reading(flight[j])
  BY <1>2, <1>6, ReadingMonotone DEF InOrder
<1> QED BY <1>3, <1>4, <1>5, <1>6

(* The last reading stays behind what waits. *)
LEMMA ReadInOrderInductive ==
  ASSUME TypeOK, [Next]_vars, calm, calm', InOrder, ReadInOrder,
         Shown' < Era, Shown < Era
  PROVE  ReadInOrder'
<1> USE Constants
<1>0. /\ Shown \in Nat /\ Shown' \in Nat /\ Shown <= Shown' /\ Origin \in Nat
      /\ Origin <= Shown
  BY ShownGrows, ShownType
<1>1. /\ Reading(Shown) \in Nat /\ Reading(Shown') \in Nat
      /\ Reading(Origin) \in Nat /\ Reading(Shown) <= Reading(Shown')
      /\ timeData \in Nat
  <2>1. Reading(Shown) <= Reading(Shown')
    BY <1>0, ReadingMonotone
  <2>2. timeData \in Nat
    BY SMT DEF TypeOK
  <2>3. /\ Reading(Shown) \in 0 .. W - 1 /\ Reading(Shown') \in 0 .. W - 1
        /\ Reading(Origin) \in 0 .. W - 1
    BY <1>0, ReadingType
  <2> HIDE DEF Reading, Shown
  <2> QED BY <2>1, <2>2, <2>3, SMT
<1>2. Len(inbox) \in Nat /\ Len(flight) \in Nat
  BY LenProperties DEF TypeOK
<1> HIDE DEF Shown, Reading
<1>3. SUFFICES ASSUME Heard'
      PROVE  /\ Reading(Origin) <= timeData' /\ timeData' <= Reading(Shown')
             /\ \A i \in 1 .. Len(inbox') : timeData' <= Reading(inbox'[i])
             /\ \A i \in 1 .. Len(flight') : timeData' <= Reading(flight'[i])
  BY DEF ReadInOrder, Reading
<1>4. CASE Recv
  <2>1. /\ Len(inbox') = Len(inbox) - 1 /\ Head(inbox) = inbox[1]
        /\ \A i \in 1 .. Len(inbox) - 1 : inbox'[i] = inbox[i + 1]
    BY <1>4, HeadTailProperties DEF Recv, TypeOK
  <2>2. timeData' = Reading(inbox[1]) /\ flight' = flight /\ inbox # <<>>
    BY <1>4, <2>1 DEF Recv
  <2>3. 1 \in 1 .. Len(inbox)
    BY <1>2, <2>2, EmptySeq, SMT DEF TypeOK
  <2>4. /\ Reading(Origin) <= Reading(inbox[1])
        /\ Reading(inbox[1]) <= Reading(Shown)
        /\ Reading(inbox[1]) \in 0 .. W - 1
    <3>1. inbox[1] \in 0 .. Era - 1
      BY <2>3, ElementOfSeq DEF TypeOK
    <3>2. inbox[1] \in Nat
      BY <3>1, SMT
    <3> QED BY <2>3, <3>2, ReadingsInOrder, ReadingType
  <2>5. timeData' <= Reading(Shown')
    BY <1>1, <2>2, <2>4, SMT
  <2>6. ASSUME NEW i \in 1 .. Len(inbox')
        PROVE  timeData' <= Reading(inbox'[i])
    <3>1. /\ i + 1 \in 1 .. Len(inbox) /\ 1 <= i + 1
          /\ inbox'[i] = inbox[i + 1]
      BY <1>2, <2>1, SMT
    <3> QED BY <2>2, <2>3, <3>1, ReadingsInOrder
  <2> QED BY <2>2, <2>3, <2>4, <2>5, <2>6, ReadingsInOrder
<1>5. CASE ~Recv
  <2>1. timeData' = timeData
    BY <1>5 DEF Next, Regulate, Network, Ask, AskFails, Timeout, RecvError, Use,
       Tick, SendTimeUdp, SendTimeBroadcast, Restart, Deliver, Duplicate,
       Arrive, Lose, LoseRequest, vars, round
  <2>2. Heard
    <3>1. ~AskFails /\ ~RecvError
      BY DEF AskFails, RecvError
    <3>2. CASE Timeout
      BY <3>2 DEF Timeout, Heard
    <3>3. CASE Use
      BY <3>3 DEF Use, Heard
    <3>4. CASE Ask
      BY <1>3, <3>4 DEF Ask, Heard, round
    <3>5. CASE pc' = pc /\ stepped' = stepped
      BY <1>3, <3>5 DEF Heard
    <3> QED BY <1>5, <3>1, <3>2, <3>3, <3>4, <3>5 DEF Next, Regulate, Network,
          Tick, SendTimeUdp, SendTimeBroadcast, Restart, Deliver, Duplicate,
          Arrive, Lose, LoseRequest, vars, round
  <2>3. /\ Reading(Origin) <= timeData /\ timeData <= Reading(Shown)
        /\ \A i \in 1 .. Len(inbox) : timeData <= Reading(inbox[i])
        /\ \A i \in 1 .. Len(flight) : timeData <= Reading(flight[i])
    BY <2>2 DEF ReadInOrder
  <2>4. timeData <= Reading(Shown')
    BY <1>1, <2>3, SMT
  <2>5. CASE inbox' = inbox /\ flight' = flight
    BY <2>1, <2>3, <2>4, <2>5
  <2>6. CASE SendTimeUdp \/ SendTimeBroadcast
    <3>1. Shown % Era = Shown /\ inbox' = inbox
      BY <1>0, <2>6, SMT DEF SendTimeUdp, SendTimeBroadcast
    <3>2. Post /\ flight \in Seq(Nat)
      BY <2>6, SeqDef, SMT DEF SendTimeUdp, SendTimeBroadcast, TypeOK
    <3>3. flight' = Append(flight, Shown)
      BY <3>1, <3>2 DEF Post
    <3>4. /\ Len(flight') = Len(flight) + 1
          /\ flight'[Len(flight) + 1] = Shown
          /\ \A i \in 1 .. Len(flight) : flight'[i] = flight[i]
      BY <1>0, <3>2, <3>3, AppendProperties
    <3>5. ASSUME NEW i \in 1 .. Len(flight')
          PROVE  timeData <= Reading(flight'[i])
      <4>1. CASE i = Len(flight) + 1
        BY <2>3, <3>4, <4>1
      <4>2. CASE i # Len(flight) + 1
        <5>1. i \in 1 .. Len(flight)
          BY <1>2, <3>4, <4>2, SMT
        <5> QED BY <2>3, <3>4, <5>1
      <4> QED BY <4>1, <4>2
    <3> QED BY <2>1, <2>3, <2>4, <3>1, <3>5
  <2>7. ASSUME NEW k \in 1 .. Len(flight), Deliver(k) \/ Duplicate(k) \/ Lose(k)
        PROVE  /\ \A i \in 1 .. Len(inbox') : timeData <= Reading(inbox'[i])
               /\ \A i \in 1 .. Len(flight') : timeData <= Reading(flight'[i])
    <3>1. /\ Len(RemoveAt(flight, k)) = Len(flight) - 1
          /\ \A j \in 1 .. Len(flight) - 1 :
               RemoveAt(flight, k)[j] = IF j < k THEN flight[j] ELSE flight[j + 1]
      <4>1. flight \in Seq(0 .. Era - 1)
        BY DEF TypeOK
      <4> QED BY <4>1, RemoveAtProperties
    <3>2. ASSUME NEW i \in 1 .. Len(RemoveAt(flight, k))
          PROVE  timeData <= Reading(RemoveAt(flight, k)[i])
      <4>1. /\ i \in 1 .. Len(flight) /\ i + 1 \in 1 .. Len(flight)
            /\ i \in 1 .. Len(flight) - 1
        BY <1>2, <3>1, SMT
      <4> QED BY <2>3, <3>1, <4>1
    <3>3. ASSUME Arrive(k), NEW i \in 1 .. Len(inbox')
          PROVE  timeData <= Reading(inbox'[i])
      <4>1. /\ inbox \in Seq(0 .. Era - 1) /\ flight[k] \in 0 .. Era - 1
            /\ inbox' = Append(inbox, flight[k])
        BY <3>3, ElementOfSeq DEF Arrive, TypeOK
      <4>2. /\ Len(inbox') = Len(inbox) + 1
            /\ inbox'[Len(inbox) + 1] = flight[k]
            /\ \A j \in 1 .. Len(inbox) : inbox'[j] = inbox[j]
        BY <4>1, AppendProperties
      <4>3. CASE i = Len(inbox) + 1
        BY <2>3, <4>2, <4>3
      <4>4. CASE i # Len(inbox) + 1
        <5>1. i \in 1 .. Len(inbox)
          BY <1>2, <4>2, <4>4, SMT
        <5> QED BY <2>3, <4>2, <5>1
      <4> QED BY <4>3, <4>4
    <3>4. CASE Deliver(k)
      BY <3>2, <3>3, <3>4 DEF Deliver
    <3>5. CASE Duplicate(k)
      BY <2>3, <3>3, <3>5 DEF Duplicate
    <3>6. CASE Lose(k)
      BY <2>3, <3>2, <3>6 DEF Lose
    <3> QED BY <2>7, <3>4, <3>5, <3>6
  <2> QED BY <1>5, <2>1, <2>3, <2>4, <2>5, <2>6, <2>7
          DEF Next, Regulate, Network, Ask, AskFails, Timeout, RecvError, Use,
              Tick, Restart, LoseRequest, vars, net
<1> QED BY <1>4, <1>5

(* Using a reading in order adds the time since the last one. *)
LEMMA UseInOrder ==
  ASSUME TypeOK, IInv, Undisturbed, Use
  PROVE  /\ dt' = (W + timeData - prevTime) % W /\ prevTime' = timeData
         /\ dt' \in Nat
         /\ stepped => dt' = timeData - prevTime
<1>1. timeResult = "success" /\ pc = "use" /\ Summed
  BY DEF Use, IInv, Undisturbed
<1>2. /\ dt' = (W + timeData - prevTime) % W /\ prevTime' = timeData
  BY <1>1 DEF Use
<1>3. timeData \in 0 .. W - 1 /\ prevTime \in 0 .. W - 1
  BY DEF TypeOK
<1>4. /\ (W + timeData - prevTime) % W \in 0 .. W - 1
      /\ prevTime <= timeData =>
           (W + timeData - prevTime) % W = timeData - prevTime
  BY <1>3, DifferenceInOrder, ClockAssumption
<1>5. stepped => prevTime <= timeData
  BY <1>1 DEF Summed
<1>6. dt' \in Nat
  BY <1>2, <1>4, Constants, SMT
<1> QED BY <1>2, <1>4, <1>5, <1>6

(* ... and keeps the sum. *)
LEMMA SummedInductive ==
  ASSUME TypeOK, [Next]_vars, IInv, Undisturbed, calm', Shown' < Era
  PROVE  Summed'
<1>1. Summed /\ ReadInOrder /\ InOrder
  BY DEF IInv
<1>2. /\ timeData \in Nat /\ prevTime \in Nat /\ integrated \in Nat
      /\ Reading(Origin) \in Nat
  <2>1. Reading(Origin) \in 0 .. W - 1
    BY ReadingType, Constants
  <2> HIDE DEF Reading
  <2> QED BY <2>1, Constants, SMT DEF TypeOK
<1> HIDE DEF Reading
<1>3. CASE Use
  <2>1. /\ dt' \in Nat /\ prevTime' = timeData /\ pc' = "ask"
        /\ timeData' = timeData /\ stepped' = TRUE
        /\ integrated' = IF stepped THEN integrated + dt' ELSE integrated
        /\ Reading(Origin) <= timeData
    BY <1>1, <1>3, UseInOrder DEF Use, Integrate, Undisturbed, ReadInOrder, Heard
  <2>2. Reading(Origin) + integrated' <= prevTime'
    <3>1. CASE stepped
      <4>1. dt' = timeData - prevTime /\ Reading(Origin) + integrated <= prevTime
        BY <1>1, <1>3, <3>1, UseInOrder DEF Summed
      <4> QED BY <1>2, <2>1, <3>1, <4>1, SMT
    <3>2. CASE ~stepped
      <4>1. integrated' = 0
        BY <1>1, <2>1, <3>2 DEF Summed
      <4>2. Reading(Origin) <= timeData /\ prevTime' = timeData
        BY <2>1
      <4>3. Reading(Origin) + 0 = Reading(Origin)
        BY <1>2, SMT
      <4> QED BY <4>1, <4>2, <4>3
    <3> QED BY <3>1, <3>2
  <2>3. prevTime' <= timeData'
    BY <1>2, <2>1, SMT
  <2> QED BY <2>1, <2>2, <2>3 DEF Summed, Reading
<1>4. CASE Recv
  <2>1. /\ timeData' = Reading(inbox[1]) /\ pc' = "use" /\ inbox # <<>>
        /\ stepped' = stepped /\ prevTime' = prevTime /\ integrated' = integrated
        /\ pc = "wait"
    BY <1>4, HeadTailProperties DEF Recv, Reading, TypeOK
  <2>2. CASE stepped
    <3>1. 1 \in 1 .. Len(inbox)
      BY <2>1, LenProperties, EmptySeq, SMT DEF TypeOK
    <3>2. prevTime = timeData /\ timeData <= Reading(inbox[1])
      BY <1>1, <2>1, <2>2, <3>1 DEF Summed, ReadInOrder, Heard
    <3> QED BY <1>1, <2>1, <2>2, <3>2 DEF Summed, Reading
  <2>3. CASE ~stepped
    BY <1>1, <2>1, <2>3 DEF Summed
  <2> QED BY <2>2, <2>3
<1>5. CASE ~Use /\ ~Recv
  <2>1. /\ timeData' = timeData /\ prevTime' = prevTime
        /\ stepped' = stepped /\ integrated' = integrated
        /\ pc' # "use" => pc # "use"
    BY <1>5 DEF Next, Regulate, Network, Ask, AskFails, Timeout, RecvError,
       Tick, SendTimeUdp, SendTimeBroadcast, Restart, Deliver, Duplicate,
       Arrive, Lose, LoseRequest, vars, round
  <2> QED BY <1>1, <2>1 DEF Summed, Reading
<1> QED BY <1>3, <1>4, <1>5

LEMMA IInvInductive == TypeOK /\ IInv /\ [Next]_vars => IInv'
<1> SUFFICES ASSUME TypeOK, IInv, [Next]_vars PROVE IInv'
  OBVIOUS
<1>1. calm' => (pc' = "use" => timeResult' = "success")
  BY UndisturbedBefore
<1>2. ASSUME Undisturbed'
      PROVE  InOrder' /\ ReadInOrder' /\ Summed'
  <2>1. calm' /\ Shown' < Era
    BY <1>2 DEF Undisturbed
  <2>2. calm /\ Shown < Era
    BY <2>1, ShownGrows DEF IInv
  <2>3. Undisturbed /\ InOrder /\ ReadInOrder /\ Summed
    BY <2>2 DEF IInv, Undisturbed
  <2> QED BY <2>1, <2>2, <2>3, InOrderInductive, ReadInOrderInductive,
             SummedInductive
<1> QED BY <1>1, <1>2 DEF IInv

(* The PID integrates over at most the time the server has shown to pass,   *)
(* however requests and answers are delayed, lost and doubled.              *)
THEOREM NoTimeInventedHolds == Spec => []NoTimeInvented
<1>1. TypeOK /\ IInv => NoTimeInvented
  <2> SUFFICES ASSUME TypeOK, IInv, calm, Shown < Era
               PROVE  integrated <= Reading(Shown) - Reading(Origin)
    BY DEF NoTimeInvented
  <2>1. InOrder /\ ReadInOrder /\ Summed
    BY DEF IInv, Undisturbed
  <2>2. /\ Reading(Origin) <= Reading(Shown)
        /\ Reading(Origin) \in 0 .. W - 1 /\ Reading(Shown) \in 0 .. W - 1
    BY <2>1, ReadingsInOrder, ReadingType, ShownType, Constants
  <2>3. timeData \in Nat /\ prevTime \in Nat /\ integrated \in Nat
    BY SMT DEF TypeOK
  <2> HIDE DEF Reading, Shown
  <2>4. CASE stepped
    <3>1. /\ Reading(Origin) + integrated <= prevTime /\ prevTime <= timeData
          /\ timeData <= Reading(Shown)
      BY <2>1, <2>4 DEF Summed, ReadInOrder, Heard
    <3> QED BY <2>2, <2>3, <3>1, SMT
  <2>5. CASE ~stepped
    <3>1. integrated = 0
      BY <2>1, <2>5 DEF Summed
    <3> QED BY <2>2, <3>1, SMT
  <2> QED BY <2>4, <2>5
<1> QED BY <1>1, TypeInitial, TypeInductive, IInvInitial, IInvInductive, PTL
        DEF Spec

(* ... and no round loses any of it. *)
THEOREM NoTimeLostHolds == Spec => NoTimeLost
<1>1. TypeOK /\ IInv /\ [Next]_vars =>
        [calm' /\ stepped /\ Shown' < Era =>
           integrated' - integrated = prevTime' - prevTime]_vars
  <2> SUFFICES ASSUME TypeOK, IInv, Next, calm', stepped, Shown' < Era
               PROVE  integrated' - integrated = prevTime' - prevTime
    OBVIOUS
  <2>1. Undisturbed
    BY ShownGrows DEF Undisturbed
  <2>2. timeData \in Nat /\ prevTime \in Nat /\ integrated \in Nat
    BY SMT DEF TypeOK
  <2>3. CASE Use
    <3>1. /\ prevTime' = timeData /\ dt' = timeData - prevTime
          /\ integrated' = integrated + dt'
      BY <2>1, <2>3, UseInOrder DEF Use, Integrate, Undisturbed
    <3> QED BY <2>2, <3>1, SMT
  <2>4. CASE ~Use
    <3>1. prevTime' = prevTime /\ integrated' = integrated
      BY <2>4 DEF Next, Regulate, Network, Ask, AskFails, Recv, Timeout,
         RecvError, Tick, SendTimeUdp, SendTimeBroadcast, Restart, Deliver,
         Duplicate, Arrive, Lose, LoseRequest, vars, round
    <3> QED BY <2>2, <3>1, SMT
  <2> QED BY <2>3, <2>4
<1> QED BY <1>1, TypeInitial, TypeInductive, IInvInitial, IInvInductive, PTL
        DEF Spec, NoTimeLost
=============================================================================
