-------------------------- MODULE EnergyRelayProofs ---------------------------
(***************************************************************************)
(* The energy provider and its relay, for all temperatures, periods,       *)
(* durations of a failure, jumps of the local time, clients and bounds.    *)
(*                                                                         *)
(* The provider's properties speak of the seconds that pass, its code of   *)
(* local times.  ProviderInv ties them: the local time has jumped once at  *)
(* most, so that a local time kept is that of its second, give or take the *)
(* jump.                                                                   *)
(*                                                                         *)
(* OneBehind rests on the order of the messages: what the provider sends,  *)
(* what is stored and what clients are told only grows.  What a client has *)
(* still to read, or to be told, is one thing at most when it does not     *)
(* wait, and two when it does: the older one, if there are two, was due to *)
(* it before its last request.                                             *)
(***************************************************************************)
EXTENDS EnergyRelay, TLAPS

-----------------------------------------------------------------------------
(* The provider *)

(* The local time kept of a second. *)
Kept(time, second) == time = second \/ time = second + jump

ProviderInv ==
  /\ real \in Nat /\ checked_at \in Nat /\ failed_at \in Nat
  /\ date = real + jump
  /\ jump \in Int /\ (jump = 0 \/ jump = Jump \/ jump = -Jump)
  /\ failure \in BOOLEAN
  /\ Kept(date0, checked_at)
  /\ date - date0 < Period
  /\ To \in Int
  /\ WaterFollowsAir
  /\ failure => /\ Kept(failure_time, failed_at)
                /\ date0 - failure_time <= failure_duration

LEMMA ProviderConstants == /\ Period \in Int /\ Period > 0
                   /\ failure_duration \in Int /\ failure_duration >= 0
                   /\ Jump \in Int /\ Jump >= 0
BY ProviderAssumption DEF ProviderAssumption

USE ProviderConstants

(* A jump shortens a duration by no more than itself. *)
LEMMA Jumped ==
  ASSUME NEW j \in Int, NEW r \in Int, NEW t \in Int, NEW at \in Int, j <= Jump,
         t = at \/ t = at + j, (r + j) - t > failure_duration
  PROVE  r - at > failure_duration - Jump
OBVIOUS

LEMMA Nought == \A n \in Int : n - n = 0
OBVIOUS

(* The curve the code computes piece by piece is the line cut at both ends  *)
(* (WaterTemperature.py:13-19).                                             *)
LEMMA CurveIsWater == \A t \in Int : WaterTemperature(t) = Curve(t)
  BY DEF WaterTemperature, Curve

LEMMA ProviderInit == InitProvider => ProviderInv
<1> SUFFICES ASSUME InitProvider PROVE ProviderInv
  OBVIOUS
<1>1. Tzm = Curve(To)
  BY DEF InitProvider, Curve
<1>2. date - date0 < Period /\ Kept(date0, checked_at)
  BY DEF InitProvider, Kept
<1>3. ~failure /\ failure \in BOOLEAN
  BY DEF InitProvider
<1> QED BY <1>1, <1>2, <1>3 DEF InitProvider, ProviderInv, WaterFollowsAir

(* A local time that was kept stays that of its round when time jumps. *)
LEMMA KeptLonger ==
  ASSUME ProviderInv, Now
  PROVE  /\ real' \in Nat /\ date' = real' + jump'
         /\ jump' \in Int /\ (jump' = 0 \/ jump' = Jump \/ jump' = -Jump)
         /\ date0 = checked_at \/ date0 = checked_at + jump'
         /\ failure => failure_time = failed_at \/ failure_time = failed_at + jump'
<1>1. jump' \in {0, Jump, -Jump} /\ (jump = 0 \/ jump' = jump)
  BY DEF ProviderInv, Now
<1> QED BY <1>1 DEF ProviderInv, Now, Kept

LEMMA ProviderRound == ProviderInv /\ Round => ProviderInv'
<1> SUFFICES ASSUME ProviderInv, Round PROVE ProviderInv'
  OBVIOUS
<1>1. /\ real' \in Nat /\ date' = real' + jump'
      /\ jump' \in Int /\ (jump' = 0 \/ jump' = Jump \/ jump' = -Jump)
  BY KeptLonger DEF Round
<1>2. CASE Within
  <2>1. Kept(date0, checked_at)' /\ (failure => Kept(failure_time, failed_at))'
    BY <1>2, KeptLonger DEF Round, Within, period, breakage, Kept
  <2>2. (date - date0 < Period)'
    BY <1>1, <1>2, KeptLonger DEF ProviderInv, Kept, Round, Within, check_period, period
  <2> QED BY <1>1, <1>2, <2>1, <2>2 DEF ProviderInv, Within, period, weather, breakage,
             WaterFollowsAir, Curve
<1>3. CASE Compute
  <2>1. To' \in Int /\ WaterFollowsAir'
    BY <1>3, CurveIsWater, ProviderAssumption DEF ProviderAssumption, Compute, WaterFollowsAir
  <2>2. failure' \in BOOLEAN /\ failed_at' \in Nat
    BY <1>1, <1>3 DEF ProviderInv, Compute
  <2>3. failure_time' = date' /\ date0' = date' /\ checked_at' = real'
    BY <1>3 DEF Compute, NewPeriod
  <2>4. failure' => failed_at' = real'
    BY <1>3, Zenon DEF Compute
  <2>5. date' \in Int
    BY <1>1
  <2>6. Kept(date0, checked_at)' /\ (failure => Kept(failure_time, failed_at))'
    BY <1>1, <2>3, <2>4 DEF Kept
  <2>7. (date - date0)' = 0 /\ (date0 - failure_time)' = 0
    <3>1. date' - date' = 0
      BY <2>5, Nought, Zenon
    <3> QED BY <2>3, <3>1
  <2> QED BY <1>1, <2>1, <2>2, <2>3, <2>6, <2>7, ProviderConstants DEF ProviderInv
<1>4. CASE Failing
  <2>1. failure_time' = failed_at' \/ failure_time' = failed_at' + jump'
    BY <1>4, KeptLonger DEF Round, Failing
  <2>2. failure' \in BOOLEAN /\ (failure' => ~(date' - failure_time > failure_duration))
    BY <1>4, Zenon DEF Failing
  <2>3. failure_time' \in Int /\ failure_time' = failure_time /\ date0' = date'
    BY <1>1, <1>4, <2>1 DEF ProviderInv, Failing, NewPeriod
  <2>4. (failure => date0 - failure_time <= failure_duration)'
    <3> SUFFICES ASSUME failure' PROVE (date0 - failure_time <= failure_duration)'
      OBVIOUS
    <3>1. ~(date' - failure_time > failure_duration)
      BY <2>2
    <3>2. date' - failure_time \in Int
      BY <1>1, <2>3
    <3>3. date' - failure_time <= failure_duration
      BY <3>1, <3>2
    <3> QED BY <2>3, <3>3
  <2> QED BY <1>1, <1>4, <2>1, <2>2, <2>4 DEF ProviderInv, Failing, NewPeriod, Kept, weather,
             WaterFollowsAir, Curve
<1> QED BY <1>2, <1>3, <1>4 DEF Round

(* The relay and the clients leave the provider alone. *)
LEMMA ProviderStep == ProviderInv /\ [Next]_vars => ProviderInv'
  <1> SUFFICES ASSUME ProviderInv, [Next]_vars PROVE ProviderInv'
    OBVIOUS
  <1>1. Round \/ UNCHANGED provider
    BY DEF Next, vars, supply, Provide, Store, Crash, Thread, Greet, Recv, RecvNothing,
           Reply, Client, Connect, Request, Read, Leave
  <1>2. CASE UNCHANGED provider
    BY <1>2 DEF ProviderInv, Kept, provider, wall, period, weather, breakage, WaterFollowsAir, Curve
  <1> QED BY <1>1, <1>2, ProviderRound

THEOREM ProviderInvariant == Spec => []ProviderInv
  <1>1. Init => ProviderInv
    BY ProviderInit DEF Init
  <1> QED BY <1>1, ProviderStep, PTL DEF Spec

(* The water follows the heating curve whatever the temperature outdoors    *)
(* does (WaterTemperature.py:13-19, EnergyProvider.py:50-52).               *)
THEOREM WaterFollows == Spec => []WaterFollowsAir
  <1>1. ProviderInv => WaterFollowsAir
    BY DEF ProviderInv
  <1> QED BY <1>1, ProviderInvariant, PTL

(* A failure is over within its duration, a period and a jump of the local  *)
(* time, and every period ends, at most a jump late (EnergyProvider.py:     *)
(* 48-56, ActualTime.py:25-30).                                             *)
THEOREM OnTimeHolds == Spec => []OnTime
  <1>1. ProviderInv => OnTime
    BY DEF ProviderInv, Kept, OnTime
  <1> QED BY <1>1, ProviderInvariant, PTL

(* No failure ends before its duration, less a jump of the local time       *)
(* (EnergyProvider.py:56).                                                  *)
THEOREM FailureIsLong == Spec => FailureLasts
  <1>1. ProviderInv /\ [Next]_vars
          => [failure /\ ~failure' => real' - failed_at > failure_duration - Jump]_provider
    <2> SUFFICES ASSUME ProviderInv, [Next]_vars, failure, ~failure'
                 PROVE  real' - failed_at > failure_duration - Jump
      OBVIOUS
    <2>1. Round
      BY DEF Next, vars, supply, Provide, Store, Crash, Thread, Greet, Recv, RecvNothing,
             Reply, Client, Connect, Request, Read, Leave, provider, breakage
    <2>2. Failing
      BY <2>1 DEF Round, Within, Compute, breakage
    <2>3. /\ failure_time = failed_at \/ failure_time = failed_at + jump'
          /\ date' = real' + jump' /\ real' \in Nat
          /\ jump' \in Int /\ (jump' = 0 \/ jump' = Jump \/ jump' = -Jump)
      BY <2>1, KeptLonger DEF Round
    <2>4. date' - failure_time > failure_duration
      BY <2>2, Zenon DEF Failing
    <2>5. failed_at \in Nat /\ failed_at' = failed_at
      BY <2>2 DEF ProviderInv, Failing
    <2>6. real' \in Int /\ failed_at \in Int /\ failure_time \in Int /\ jump' <= Jump
      BY <2>3, <2>5
    <2>7. (real' + jump') - failure_time > failure_duration
      BY <2>3, <2>4
    <2> QED BY <2>3, <2>6, <2>7, Jumped, Zenon
  <1> QED BY <1>1, ProviderInvariant, PTL DEF Spec, FailureLasts

HIDE ProviderConstants

-----------------------------------------------------------------------------
(* The relay *)


(* The types, but for how much a client may have to read. *)
Types ==
  /\ real \in 0 .. MaxReal /\ date \in Int /\ date0 \in Int /\ jump \in Int
  /\ failure \in BOOLEAN
  /\ link \in Seq(0 .. MaxReal) /\ Len(link) <= MaxLink
  /\ send_data \in (0 .. MaxReal) \cup {Undefined}
  /\ crashed \in BOOLEAN
  /\ thread \in [Clients -> {"none", "greet", "recv", "reply", "died", "spin"}]
  /\ left \subseteq Clients
  /\ waiting \subseteq Clients \ left
  /\ pending \in [Clients -> 0 .. 2] /\ answers \in [Clients -> Seq(0 .. MaxReal)]
  /\ sent \in [Clients -> 0 .. MaxReq]
  /\ asked \in [Clients -> 0 .. MaxReal] /\ before \in [Clients -> 0 .. MaxReal]

(* The provider's messages come in the order they were sent. *)
Order ==
  /\ \A i, j \in 1 .. Len(link) : i <= j => link[i] <= link[j]
  /\ \A i \in 1 .. Len(link) : InForce <= link[i] /\ link[i] <= real
  /\ InForce <= real

Cut == crashed => link = <<>> /\ send_data = Undefined

(* What c has still to read or to be told. *)
Busy(c) == IF thread[c] \in {"greet", "reply"} THEN 1 ELSE 0

Outstanding(c) == pending[c] + Len(answers[c]) + Busy(c)

Due(c) ==
  /\ Outstanding(c) <= IF c \in waiting \cup left THEN 2 ELSE 1
  /\ thread[c] = "none" => pending[c] = 0 /\ answers[c] = <<>> /\ c \notin waiting \cup left

Known(c) ==
  /\ before[c] <= asked[c]
  /\ thread[c] # "none" => asked[c] <= InForce
  /\ c \notin waiting => before[c] = 0

(* What a client may read came after its request, but for the first, which  *)
(* may be due to the one before.                                            *)
After(c) ==
  /\ \A i \in 1 .. Len(answers[c]) :
       /\ answers[c][i] <= InForce
       /\ answers[c][i] >= IF c \in waiting /\ i = 1 THEN before[c] ELSE asked[c]
  /\ \A i, j \in 1 .. Len(answers[c]) : i <= j => answers[c][i] <= answers[c][j]
  /\ crashed => answers[c] = <<>>

Served(c) == Due(c) /\ Known(c) /\ After(c)

IInv == Types /\ Order /\ Cut /\ \A c \in Clients : Served(c)

LEMMA Constants == /\ Undefined \notin Nat /\ MaxReq \in Nat /\ MaxLink \in Nat \ {0}
                   /\ Jump \in Nat /\ MaxReal \in Nat
BY RelayAssumption, ProviderAssumption DEF RelayAssumption, ProviderAssumption

USE Constants

LEMMA InForceType == Types => InForce \in 0 .. MaxReal
BY DEF Types, InForce

LEMMA OutstandingType ==
  ASSUME Types, NEW c \in Clients
  PROVE  Busy(c) \in {0, 1} /\ Outstanding(c) \in Nat
<1>1. pending[c] \in 0 .. 2 /\ answers[c] \in Seq(0 .. MaxReal)
  BY DEF Types
<1>2. Busy(c) \in {0, 1} /\ Len(answers[c]) \in Nat
  BY <1>1 DEF Busy
<1> QED BY <1>1, <1>2 DEF Outstanding

LEMMA InitHolds == Init => IInv
<1> SUFFICES ASSUME Init PROVE IInv
  OBVIOUS
<1>1. Types
  <2>1. /\ real = 0 /\ date = 0 /\ date0 = 0 /\ jump = 0 /\ failure = FALSE
        /\ link = <<>> /\ crashed = FALSE /\ send_data = Undefined
    BY DEF Init, InitProvider
  <2>2. /\ thread \in [Clients -> {"none", "greet", "recv", "reply", "died", "spin"}]
        /\ left \subseteq Clients /\ waiting \subseteq Clients \ left
        /\ sent \in [Clients -> 0 .. MaxReq]
        /\ asked \in [Clients -> 0 .. MaxReal] /\ before \in [Clients -> 0 .. MaxReal]
    BY DEF Init
  <2>3. pending \in [Clients -> 0 .. 2] /\ answers \in [Clients -> Seq(0 .. MaxReal)]
    BY DEF Init
  <2>4. link \in Seq(0 .. MaxReal) /\ Len(link) = 0
    BY <2>1
  <2>5. failure \in BOOLEAN /\ crashed \in BOOLEAN
    BY <2>1, Zenon
  <2> QED BY <2>1, <2>2, <2>3, <2>4, <2>5 DEF Types
<1>2. InForce = 0 /\ link = <<>> /\ real = 0
  BY DEF Init, InitProvider, InForce
<1>3. Order /\ Cut
  BY <1>2 DEF Init, Order, Cut
<1>4. ASSUME NEW c \in Clients PROVE Served(c)
  <2>1. /\ pending[c] = 0 /\ answers[c] = <<>> /\ c \notin waiting \cup left
        /\ thread[c] = "none" /\ asked[c] = 0 /\ before[c] = 0
    BY DEF Init
  <2>2. Len(answers[c]) = 0
    BY <2>1
  <2> QED BY <2>1, <2>2 DEF Served, Due, Known, After, Outstanding, Busy
<1> QED BY <1>1, <1>3, <1>4 DEF IInv

-----------------------------------------------------------------------------
(* What happens to a client's variables *)

(* Clients that nothing happens to stay served while what is in force only  *)
(* gets newer.                                                              *)
LEMMA Bystander ==
  ASSUME IInv, NEW c \in Clients, InForce <= InForce', InForce' \in Nat,
         crashed' = crashed, pending'[c] = pending[c], answers'[c] = answers[c],
         thread'[c] = thread[c], asked'[c] = asked[c], before'[c] = before[c],
         c \in waiting' <=> c \in waiting, c \in left' <=> c \in left
  PROVE  Served(c)'
<1>1. Served(c) /\ InForce \in Nat
  BY InForceType DEF IInv
<1>2. Due(c)'
  BY <1>1 DEF Served, Due, Outstanding, Busy
<1>3. Known(c)'
  <2>1. asked[c] \in Nat
    BY DEF IInv, Types
  <2> QED BY <1>1, <2>1 DEF Served, Known
<1>4. After(c)'
  <2>1. \A i \in 1 .. Len(answers[c]) : answers[c][i] \in Nat
    BY DEF IInv, Types
  <2> QED BY <1>1, <2>1 DEF Served, After
<1> QED BY <1>2, <1>3, <1>4 DEF Served

(* A client is told what is in force, if it is still there. *)
LEMMA Told ==
  ASSUME IInv, NEW c \in Clients, thread[c] \in {"greet", "reply"}, ~crashed, Say(c),
         thread' = [thread EXCEPT ![c] = "recv"],
         UNCHANGED <<supply, send_data, pending, client>>
  PROVE  Served(c)'
<1>1. Served(c) /\ InForce \in 0 .. MaxReal /\ InForce' = InForce
  BY InForceType DEF IInv, InForce
<1>2. answers[c] \in Seq(0 .. MaxReal) /\ thread'[c] = "recv"
  BY DEF IInv, Types
<1>3. answers'[c] = IF c \in left THEN answers[c] ELSE Append(answers[c], InForce)
  BY DEF Say, IInv, Types
<1>4. Len(answers'[c]) <= Len(answers[c]) + 1
  BY <1>2, <1>3, <1>1
<1>5. Due(c)'
  <2>1. /\ pending'[c] = pending[c] /\ pending[c] \in Nat
        /\ waiting' = waiting /\ left' = left
        /\ Len(answers[c]) \in Nat /\ Len(answers'[c]) \in Nat
    BY <1>1, <1>2, <1>3 DEF client, ghost, IInv, Types
  <2>2. Outstanding(c)' <= Outstanding(c)
    BY <1>2, <1>4, <2>1 DEF Outstanding, Busy
  <2> QED BY <1>1, <1>2, <2>1, <2>2 DEF Served, Due, Outstanding, Busy
<1>6. Known(c)'
  BY <1>1, <1>2 DEF Served, Known, client, ghost
<1>7. After(c)'
  <2>1. /\ waiting' = waiting /\ before' = before /\ asked' = asked /\ crashed' = crashed
        /\ before[c] <= asked[c] /\ asked[c] <= InForce
        /\ before[c] \in Nat /\ asked[c] \in Nat
    BY <1>1 DEF client, ghost, supply, Served, Known, IInv, Types
  <2>2. CASE c \in left
    BY <1>1, <1>3, <2>1, <2>2 DEF Served, After
  <2>3. CASE c \notin left
    <3>1. /\ Len(answers'[c]) = Len(answers[c]) + 1
          /\ \A i \in 1 .. Len(answers[c]) : answers'[c][i] = answers[c][i]
          /\ answers'[c][Len(answers[c]) + 1] = InForce
      BY <1>1, <1>2, <1>3, <2>3
    <3>2. /\ Len(answers[c]) \in Nat
          /\ \A i \in 1 .. Len(answers[c]) : answers[c][i] \in Nat
      BY <1>2
    <3>3. /\ \A i \in 1 .. Len(answers'[c]) :
               i \in 1 .. Len(answers[c]) \/ answers'[c][i] = InForce
          /\ \A i, j \in 1 .. Len(answers'[c]) :
               j \in 1 .. Len(answers[c]) /\ i <= j => i \in 1 .. Len(answers[c])
      BY <3>1, <3>2
    <3>4. After(c)
      BY <1>1 DEF Served
    <3>5. \A i \in 1 .. Len(answers'[c]) :
            /\ answers'[c][i] <= InForce
            /\ answers'[c][i] >= IF c \in waiting /\ i = 1 THEN before[c] ELSE asked[c]
      <4> SUFFICES ASSUME NEW i \in 1 .. Len(answers'[c])
                   PROVE  /\ answers'[c][i] <= InForce
                          /\ answers'[c][i] >= IF c \in waiting /\ i = 1
                                               THEN before[c] ELSE asked[c]
        OBVIOUS
      <4>1. CASE i \in 1 .. Len(answers[c])
        BY <3>1, <3>4, <4>1 DEF After
      <4>2. CASE answers'[c][i] = InForce
        <5>1. InForce \in Int /\ before[c] \in Int /\ asked[c] \in Int
          BY <1>1, <2>1
        <5> QED BY <2>1, <4>2, <5>1
      <4> QED BY <3>3, <4>1, <4>2
    <3>6. \A i, j \in 1 .. Len(answers'[c]) : i <= j => answers'[c][i] <= answers'[c][j]
      <4> SUFFICES ASSUME NEW i \in 1 .. Len(answers'[c]), NEW j \in 1 .. Len(answers'[c]), i <= j
                   PROVE  answers'[c][i] <= answers'[c][j]
        OBVIOUS
      <4>1. CASE j \in 1 .. Len(answers[c])
        <5>1. i \in 1 .. Len(answers[c])
          BY <3>3, <4>1
        <5> QED BY <3>1, <3>4, <4>1, <5>1 DEF After
      <4>2. CASE answers'[c][j] = InForce
        BY <3>5, <4>2
      <4> QED BY <3>3, <4>1, <4>2
    <3> QED BY <1>1, <2>1, <3>5, <3>6 DEF After
  <2> QED BY <2>2, <2>3
<1> QED BY <1>5, <1>6, <1>7 DEF Served

(* A thread goes on without a word. *)
LEMMA Quiet ==
  ASSUME IInv, NEW c \in Clients, thread[c] # "none", thread'[c] # "none",
         UNCHANGED <<supply, send_data, answers, client>>,
         pending'[c] \in Nat, Outstanding(c)' <= Outstanding(c)
  PROVE  Served(c)'
<1>1. Served(c) /\ InForce \in 0 .. MaxReal /\ InForce' = InForce
  BY InForceType DEF IInv, InForce
<1>2. /\ answers' = answers /\ waiting' = waiting /\ left' = left /\ before' = before
      /\ asked' = asked /\ crashed' = crashed
  BY DEF client, ghost, supply
<1>3. Due(c)'
  <2>1. Outstanding(c) \in Nat /\ Outstanding(c)' \in Nat
    <3>1. Len(answers[c]) \in Nat /\ Len(answers'[c]) \in Nat /\ pending[c] \in Nat
      <4>1. answers[c] \in Seq(0 .. MaxReal) /\ pending[c] \in 0 .. 2
        BY DEF IInv, Types
      <4>2. answers'[c] = answers[c]
        BY <1>2
      <4> QED BY <4>1, <4>2
    <3>2. Outstanding(c) \in Nat
      BY <3>1 DEF Outstanding, Busy
    <3>3. CASE thread'[c] \in {"greet", "reply"}
      BY <3>1, <3>3 DEF Outstanding, Busy
    <3>4. CASE thread'[c] \notin {"greet", "reply"}
      BY <3>1, <3>4 DEF Outstanding, Busy
    <3> QED BY <3>2, <3>3, <3>4
  <2> QED BY <1>1, <1>2, <2>1 DEF Served, Due
<1>4. Known(c)' /\ After(c)'
  BY <1>1, <1>2 DEF Served, Known, After
<1> QED BY <1>3, <1>4 DEF Served

-----------------------------------------------------------------------------
(* The steps *)

(* What a round of the provider leaves to its relay. *)
LEMMA RoundTypes ==
  ASSUME Types, Round
  PROVE  /\ real' \in 0 .. MaxReal /\ real <= real'
         /\ date' \in Int /\ date0' \in Int /\ jump' \in Int /\ failure' \in BOOLEAN
<1>1. /\ real' \in 0 .. MaxReal /\ real <= real'
      /\ date' \in Int /\ jump' \in Int
  BY DEF Round, Now, Types
<1>2. date0' \in Int
  BY <1>1 DEF Round, Within, Compute, Failing, NewPeriod, period, Types
<1>3. failure' \in BOOLEAN
  BY Zenon DEF Round, Within, Compute, Failing, breakage, Types
<1> QED BY <1>1, <1>2, <1>3

LEMMA ProvideHolds ==
  ASSUME IInv, Provide
  PROVE  IInv'
<1>1. /\ real' \in 0 .. MaxReal /\ real <= real'
      /\ date' \in Int /\ date0' \in Int /\ jump' \in Int /\ failure' \in BOOLEAN
  BY RoundTypes DEF Provide, IInv
<1>2. /\ crashed' = crashed /\ send_data' = send_data /\ InForce' = InForce
      /\ InForce \in 0 .. MaxReal /\ thread' = thread /\ pending' = pending
      /\ answers' = answers /\ waiting' = waiting /\ left' = left /\ before' = before
      /\ asked' = asked /\ sent' = sent
  BY InForceType DEF Provide, relay, client, ghost, InForce, IInv
<1>3. (~crashed /\ Len(link) < MaxLink /\ link' = Append(link, real')) \/ link' = link
  BY DEF Provide
<1>4. link' \in Seq(0 .. MaxReal) /\ Len(link') <= MaxLink
  <2>1. link \in Seq(0 .. MaxReal) /\ Len(link) \in Nat /\ Len(link) <= MaxLink
    BY DEF IInv, Types
  <2>2. CASE link' = Append(link, real') /\ Len(link) < MaxLink
    <3>1. link' \in Seq(0 .. MaxReal) /\ Len(link') = Len(link) + 1
      BY <1>1, <2>1, <2>2
    <3> QED BY <2>1, <2>2, <3>1
  <2>3. CASE link' = link
    BY <2>1, <2>3
  <2> QED BY <1>3, <2>2, <2>3
<1>5. Types'
  BY <1>1, <1>2, <1>4 DEF IInv, Types
<1>6. Order'
  <2>1. CASE link' = link
    BY <1>1, <1>2, <2>1 DEF IInv, Types, Order
  <2>2. CASE link' = Append(link, real')
    <3>1. /\ Len(link') = Len(link) + 1 /\ Len(link) \in Nat
          /\ \A i \in 1 .. Len(link) : link'[i] = link[i] /\ link[i] \in Nat
          /\ link'[Len(link) + 1] = real'
      BY <1>1, <2>2 DEF IInv, Types
    <3>2. Order /\ real \in Nat /\ real' \in Nat /\ InForce \in Nat
      BY <1>1, <1>2 DEF IInv, Types
    <3>3. \A i \in 1 .. Len(link') :
            /\ i \in 1 .. Len(link) \/ i = Len(link) + 1
            /\ InForce <= link'[i] /\ link'[i] <= real'
      BY <1>1, <3>1, <3>2 DEF Order
    <3>4. \A i, j \in 1 .. Len(link') : i <= j => link'[i] <= link'[j]
      <4> SUFFICES ASSUME NEW i \in 1 .. Len(link'), NEW j \in 1 .. Len(link'), i <= j
                   PROVE  link'[i] <= link'[j]
        OBVIOUS
      <4>1. CASE j \in 1 .. Len(link)
        <5>1. i \in 1 .. Len(link)
          BY <3>1, <4>1
        <5> QED BY <3>1, <3>2, <4>1, <5>1 DEF Order
      <4>2. CASE j = Len(link) + 1
        BY <3>1, <3>3, <4>2
      <4> QED BY <3>3, <4>1, <4>2
    <3> QED BY <1>1, <1>2, <3>2, <3>3, <3>4 DEF Order
  <2> QED BY <1>3, <2>1, <2>2
<1>7. Cut'
  BY <1>2, <1>3 DEF IInv, Cut, Provide
<1>8. ASSUME NEW c \in Clients PROVE Served(c)'
  BY <1>2, Bystander
<1> QED BY <1>5, <1>6, <1>7, <1>8 DEF IInv

LEMMA StoreHolds ==
  ASSUME IInv, Store
  PROVE  IInv'
<1> PICK n \in 1 .. Len(link) :
      /\ send_data' = link[n] /\ link' = SubSeq(link, n + 1, Len(link))
      /\ UNCHANGED <<provider, crashed, thread, pending, answers, client>>
  BY DEF Store
<1>1. /\ link \in Seq(0 .. MaxReal) /\ n \in 1 .. Len(link) /\ link[n] \in 0 .. MaxReal
      /\ Len(link) \in Nat
  BY DEF IInv, Types
<1>2. /\ link' \in Seq(0 .. MaxReal) /\ Len(link') = Len(link) - n
      /\ \A i \in 1 .. Len(link') : link'[i] = link[n + i] /\ n + i \in 1 .. Len(link)
  BY <1>1
<1>3. ~crashed
  BY <1>1 DEF IInv, Cut
<1>4. InForce' = link[n] /\ InForce \in 0 .. MaxReal /\ InForce <= InForce' /\ link[n] <= real
  BY <1>1, InForceType DEF IInv, InForce, Order
<1>5. Types'
  <2>1. /\ real' = real /\ date' = date /\ date0' = date0 /\ jump' = jump
        /\ failure' = failure /\ sent' = sent /\ asked' = asked /\ before' = before
        /\ thread' = thread /\ pending' = pending /\ answers' = answers
        /\ left' = left /\ waiting' = waiting /\ crashed' = crashed
    BY DEF provider, wall, period, breakage, client, ghost
  <2>2. link' \in Seq(0 .. MaxReal) /\ Len(link') <= MaxLink
    BY <1>1, <1>2 DEF IInv, Types
  <2> QED BY <1>1, <2>1, <2>2 DEF IInv, Types
<1>6. Order'
  <2>1. ASSUME NEW i \in 1 .. Len(link'), NEW j \in 1 .. Len(link'), i <= j
        PROVE  link'[i] <= link'[j]
    <3>1. /\ n + i \in 1 .. Len(link) /\ link'[i] = link[n + i]
          /\ n + j \in 1 .. Len(link) /\ link'[j] = link[n + j]
      BY <1>2
    <3>2. i \in Nat /\ j \in Nat /\ n + i <= n + j
      BY <1>1, <2>1
    <3> QED BY <3>1, <3>2 DEF IInv, Order
  <2>2. ASSUME NEW i \in 1 .. Len(link') PROVE link[n] <= link'[i] /\ link'[i] <= real
    <3>1. n + i \in 1 .. Len(link) /\ link'[i] = link[n + i]
      BY <1>2
    <3>2. i \in Nat /\ n <= n + i
      BY <1>1
    <3> QED BY <3>1, <3>2 DEF IInv, Order
  <2> QED BY <1>4, <2>1, <2>2 DEF Order, provider, wall
<1>7. Cut'
  BY <1>3 DEF Cut
<1>8. ASSUME NEW c \in Clients PROVE Served(c)'
  <2>1. InForce' \in Nat
    BY <1>1, <1>4
  <2> QED BY <1>4, <2>1, Bystander DEF client, ghost
<1> QED BY <1>5, <1>6, <1>7, <1>8 DEF IInv

LEMMA CrashHolds ==
  ASSUME IInv, Crash
  PROVE  IInv'
<1>1. /\ send_data' = Undefined /\ link' = <<>> /\ crashed' = TRUE /\ InForce' = 0
      /\ real' = real /\ real \in 0 .. MaxReal
  BY DEF Crash, InForce, provider, wall, IInv, Types
<1>2. Types'
  <2>1. /\ real' = real /\ date' = date /\ date0' = date0 /\ jump' = jump
        /\ failure' = failure /\ sent' = sent /\ asked' = asked
    BY DEF Crash, provider, wall, period, breakage
  <2>2. /\ thread' \in [Clients -> {"none", "greet", "recv", "reply", "died", "spin"}]
        /\ left' \subseteq Clients /\ waiting' \subseteq Clients \ left'
        /\ before' \in [Clients -> 0 .. MaxReal]
    BY DEF Crash
  <2>3. pending' \in [Clients -> 0 .. 2] /\ answers' \in [Clients -> Seq(0 .. MaxReal)]
    BY DEF Crash
  <2>4. link' \in Seq(0 .. MaxReal) /\ Len(link') = 0
    BY <1>1
  <2>5. crashed' \in BOOLEAN
    BY <1>1, Zenon
  <2> QED BY <1>1, <2>1, <2>2, <2>3, <2>4, <2>5 DEF IInv, Types
<1>3. Order' /\ Cut'
  BY <1>1 DEF Order, Cut
<1>4. ASSUME NEW c \in Clients PROVE Served(c)'
  <2>1. /\ pending'[c] = 0 /\ answers'[c] = <<>> /\ c \notin waiting' \cup left'
        /\ thread'[c] = "none" /\ before'[c] = 0 /\ asked'[c] \in Nat
    BY DEF Crash, IInv, Types
  <2>2. Len(answers'[c]) = 0
    BY <2>1
  <2> QED BY <2>1, <2>2 DEF Served, Due, Known, After, Outstanding, Busy
<1> QED BY <1>2, <1>3, <1>4 DEF IInv

(* An action of one client, or of its thread, is nothing to the others. *)
LEMMA Others ==
  ASSUME IInv, NEW c \in Clients, Served(c)', UNCHANGED <<supply, send_data>>,
         \A d \in Clients \ {c} :
           /\ pending'[d] = pending[d] /\ answers'[d] = answers[d] /\ thread'[d] = thread[d]
           /\ asked'[d] = asked[d] /\ before'[d] = before[d]
           /\ (d \in waiting' <=> d \in waiting) /\ (d \in left' <=> d \in left),
         thread' \in [Clients -> {"none", "greet", "recv", "reply", "died", "spin"}],
         left' \subseteq Clients, waiting' \subseteq Clients \ left',
         pending' \in [Clients -> 0 .. 2], answers' \in [Clients -> Seq(0 .. MaxReal)],
         sent' \in [Clients -> 0 .. MaxReq],
         asked' \in [Clients -> 0 .. MaxReal], before' \in [Clients -> 0 .. MaxReal]
  PROVE  IInv'
<1>1. /\ real' = real /\ date' = date /\ date0' = date0 /\ jump' = jump /\ failure' = failure
      /\ link' = link /\ crashed' = crashed /\ send_data' = send_data
  BY DEF supply, provider, wall, period, breakage
<1>2. InForce' = InForce /\ InForce \in 0 .. MaxReal
  BY <1>1, InForceType DEF IInv, InForce
<1>3. Types' /\ Cut'
  BY <1>1 DEF IInv, Types, Cut
<1>4. Order'
  BY <1>1, <1>2 DEF IInv, Order
<1>5. ASSUME NEW d \in Clients, d # c PROVE Served(d)'
  BY <1>1, <1>2, <1>5, Bystander
<1> QED BY <1>3, <1>4, <1>5 DEF IInv

LEMMA SayTypes ==
  ASSUME IInv, NEW c \in Clients, Say(c)
  PROVE  /\ answers' \in [Clients -> Seq(0 .. MaxReal)]
         /\ \A d \in Clients \ {c} : answers'[d] = answers[d]
<1>1. answers \in [Clients -> Seq(0 .. MaxReal)] /\ InForce \in 0 .. MaxReal
  BY InForceType DEF IInv, Types
<1>2. Append(answers[c], InForce) \in Seq(0 .. MaxReal)
  BY <1>1
<1>3. \E a \in Seq(0 .. MaxReal) : answers' = [answers EXCEPT ![c] = a]
  BY <1>1, <1>2 DEF Say
<1> QED BY <1>1, <1>3

LEMMA GreetHolds ==
  ASSUME IInv, NEW c \in Clients, Greet(c)
  PROVE  IInv'
<1>1. /\ thread[c] = "greet" /\ thread' = [thread EXCEPT ![c] = "recv"]
      /\ thread'[c] = "recv"
      /\ UNCHANGED <<supply, send_data, pending, client>>
  BY DEF Greet, At, IInv, Types
<1>2. Served(c)' /\ answers' \in [Clients -> Seq(0 .. MaxReal)]
      /\ \A d \in Clients \ {c} : answers'[d] = answers[d]
  <2>1. CASE send_data = Undefined
    <3>1. answers' = answers
      BY <2>1 DEF Greet
    <3>2. pending'[c] \in Nat /\ Outstanding(c)' <= Outstanding(c)
      <4>1. pending[c] \in 0 .. 2 /\ Len(answers[c]) \in Nat
        BY DEF IInv, Types
      <4> QED BY <1>1, <3>1, <4>1 DEF Outstanding, Busy
    <3> QED BY <1>1, <3>1, <3>2, Quiet DEF IInv, Types
  <2>2. CASE send_data # Undefined
    <3>1. Say(c) /\ ~crashed
      BY <2>2 DEF Greet, IInv, Cut
    <3>2. Served(c)'
      BY <1>1, <3>1, Told
    <3> QED BY <3>1, <3>2, SayTypes
  <2> QED BY <2>1, <2>2
<1> QED BY <1>1, <1>2, Others DEF IInv, Types, client, ghost

LEMMA RecvHolds ==
  ASSUME IInv, NEW c \in Clients, Recv(c)
  PROVE  IInv'
<1>1. /\ thread[c] = "recv" /\ thread' = [thread EXCEPT ![c] = "reply"]
      /\ thread'[c] = "reply"
      /\ UNCHANGED <<supply, send_data, answers, client>>
  BY DEF Recv, At, IInv, Types
<1>2. PICK n \in 1 .. pending[c] : pending' = [pending EXCEPT ![c] = @ - n]
  BY DEF Recv
<1>3. pending[c] \in 0 .. 2 /\ pending'[c] = pending[c] - n /\ pending'[c] \in 0 .. 2
  BY <1>2 DEF IInv, Types
<1>4. Outstanding(c)' <= Outstanding(c)
  <2>1. Len(answers[c]) \in Nat /\ Len(answers'[c]) = Len(answers[c])
    BY <1>1 DEF IInv, Types
  <2> QED BY <1>1, <1>2, <1>3, <2>1 DEF Outstanding, Busy
<1>5. Served(c)'
  BY <1>1, <1>3, <1>4, Quiet
<1> QED BY <1>1, <1>2, <1>3, <1>5, Others DEF IInv, Types, client, ghost

LEMMA RecvNothingHolds ==
  ASSUME IInv, NEW c \in Clients, RecvNothing(c)
  PROVE  IInv'
<1>1. PICK to \in {"spin", "died"} : thread[c] = "recv" /\ thread' = [thread EXCEPT ![c] = to]
  BY DEF RecvNothing, At
<1>2. thread'[c] = to /\ UNCHANGED <<supply, send_data, pending, answers, client>>
  BY <1>1 DEF RecvNothing, IInv, Types
<1>3. Outstanding(c)' <= Outstanding(c)
  <2>1. Len(answers[c]) \in Nat /\ pending[c] \in Nat
    BY DEF IInv, Types
  <2> QED BY <1>1, <1>2, <2>1 DEF Outstanding, Busy
<1>4. Served(c)'
  <2>1. pending'[c] \in Nat /\ thread[c] # "none" /\ thread'[c] # "none"
    <3>1. pending'[c] = pending[c] /\ pending[c] \in 0 .. 2
      BY <1>2 DEF IInv, Types
    <3>2. thread[c] = "recv" /\ thread'[c] \in {"spin", "died"}
      BY <1>1, <1>2
    <3> QED BY <3>1, <3>2
  <2> QED BY <1>2, <1>3, <2>1, Quiet
<1> QED BY <1>1, <1>2, <1>4, Others DEF IInv, Types, client, ghost

LEMMA ReplyHolds ==
  ASSUME IInv, NEW c \in Clients, Reply(c)
  PROVE  IInv'
<1>1. UNCHANGED <<supply, send_data, pending, client>>
  BY DEF Reply
<1>2. CASE send_data # Undefined /\ At(c, "reply", "recv") /\ Say(c)
  <2>1. /\ thread[c] = "reply" /\ thread' = [thread EXCEPT ![c] = "recv"] /\ ~crashed
    BY <1>2 DEF At, IInv, Cut
  <2>2. Served(c)'
    BY <1>1, <1>2, <2>1, Told
  <2>3. /\ answers' \in [Clients -> Seq(0 .. MaxReal)]
        /\ \A d \in Clients \ {c} : answers'[d] = answers[d]
    BY <1>2, SayTypes
  <2> QED BY <1>1, <2>1, <2>2, <2>3, Others DEF IInv, Types, client, ghost
<1>3. CASE At(c, "reply", "died") /\ UNCHANGED answers
  <2>1. /\ thread[c] = "reply" /\ thread' = [thread EXCEPT ![c] = "died"]
        /\ thread'[c] = "died"
    BY <1>3 DEF At, IInv, Types
  <2>2. Outstanding(c)' <= Outstanding(c)
    <3>1. Len(answers[c]) \in Nat /\ pending[c] \in Nat
      BY DEF IInv, Types
    <3> QED BY <1>1, <1>3, <2>1, <3>1 DEF Outstanding, Busy
  <2>3. Served(c)'
    <3>1. pending'[c] \in Nat /\ thread[c] # "none" /\ thread'[c] # "none"
      <4>1. pending'[c] = pending[c] /\ pending[c] \in 0 .. 2
        BY <1>1 DEF IInv, Types
      <4> QED BY <2>1, <4>1
    <3> QED BY <1>1, <1>3, <2>2, <3>1, Quiet
  <2> QED BY <1>1, <1>3, <2>1, <2>3, Others DEF IInv, Types, client, ghost
<1> QED BY <1>2, <1>3 DEF Reply

LEMMA ConnectHolds ==
  ASSUME IInv, NEW c \in Clients, Connect(c)
  PROVE  IInv'
<1>1. /\ thread[c] = "none" /\ thread' = [thread EXCEPT ![c] = "greet"]
      /\ thread'[c] = "greet"
      /\ asked' = [asked EXCEPT ![c] = InForce] /\ asked'[c] = InForce
      /\ UNCHANGED <<supply, send_data, pending, answers, left, waiting, sent, before>>
  BY DEF Connect, At, IInv, Types
<1>2. InForce \in 0 .. MaxReal /\ InForce' = InForce
  BY <1>1, InForceType DEF IInv, InForce
<1>3. /\ pending[c] = 0 /\ answers[c] = <<>> /\ c \notin waiting \cup left /\ before[c] = 0
  BY <1>1 DEF IInv, Served, Due, Known
<1>4. Len(answers[c]) = 0
  BY <1>3
<1>5. Served(c)'
  BY <1>1, <1>2, <1>3, <1>4 DEF Served, Due, Known, After, Outstanding, Busy
<1> QED BY <1>1, <1>2, <1>5, Others DEF IInv, Types

LEMMA RequestHolds ==
  ASSUME IInv, NEW c \in Clients, Request(c)
  PROVE  IInv'
<1>1. /\ thread[c] # "none" /\ c \notin waiting \cup left
      /\ sent[c] < MaxReq /\ sent' = [sent EXCEPT ![c] = @ + 1]
      /\ waiting' = waiting \cup {c}
      /\ pending' = [pending EXCEPT ![c] = @ + 1] /\ pending'[c] = pending[c] + 1
      /\ asked' = [asked EXCEPT ![c] = InForce] /\ asked'[c] = InForce
      /\ before' = [before EXCEPT ![c] = asked[c]] /\ before'[c] = asked[c]
      /\ UNCHANGED <<supply, relay, answers, left>>
  BY DEF Request, IInv, Types
<1>2. InForce \in 0 .. MaxReal /\ InForce' = InForce /\ asked[c] \in 0 .. MaxReal
  BY <1>1, InForceType DEF IInv, InForce, relay, Types
<1>3. /\ pending[c] \in 0 .. 2 /\ answers[c] \in Seq(0 .. MaxReal) /\ Len(answers[c]) \in Nat
      /\ \A i \in 1 .. Len(answers[c]) : answers[c][i] \in Nat
  BY DEF IInv, Types
<1>4. /\ Outstanding(c) <= 1 /\ asked[c] <= InForce /\ After(c)
  BY <1>1 DEF IInv, Served, Due, Known
<1>5. Outstanding(c)' = Outstanding(c) + 1 /\ pending[c] + Len(answers[c]) <= 1
  BY <1>1, <1>3, <1>4 DEF Outstanding, Busy, relay
<1>6. Due(c)' /\ Known(c)'
  <2>1. Outstanding(c)' <= 2
    BY <1>1, <1>3, <1>4 DEF Outstanding, Busy, relay
  <2> QED BY <1>1, <1>2, <1>4, <2>1 DEF Due, Known, relay
<1>7. After(c)'
  <2>1. \A i \in 1 .. Len(answers[c]) : i = 1 /\ answers[c][i] >= asked[c]
    BY <1>1, <1>3, <1>4, <1>5 DEF After
  <2> QED BY <1>1, <1>2, <1>4, <2>1 DEF After, supply
<1>8. Served(c)'
  BY <1>6, <1>7 DEF Served
<1>9. pending' \in [Clients -> 0 .. 2] /\ sent' \in [Clients -> 0 .. MaxReq]
  BY <1>1, <1>3, <1>5 DEF IInv, Types
<1> QED BY <1>1, <1>2, <1>8, <1>9, Others DEF IInv, Types, relay

LEMMA Suffix ==
  ASSUME NEW S, NEW s \in Seq(S), NEW n \in 1 .. Len(s), NEW t, t = SubSeq(s, n + 1, Len(s))
  PROVE  /\ t \in Seq(S) /\ Len(t) = Len(s) - n
         /\ \A i \in 1 .. Len(t) : n + i \in 1 .. Len(s) /\ n + i # 1 /\ t[i] = s[n + i]
<1>1. Len(s) \in Nat /\ t \in Seq(S) /\ Len(t) = Len(s) - n
  OBVIOUS
<1>2. ASSUME NEW i \in 1 .. Len(t) PROVE n + i \in 1 .. Len(s) /\ n + i # 1
  BY <1>1
<1>3. ASSUME NEW i \in 1 .. Len(t) PROVE t[i] = s[n + i]
  BY <1>1
<1> QED BY <1>1, <1>2, <1>3

LEMMA Unread ==
  ASSUME NEW c \in Clients, answers[c] \in Seq(0 .. MaxReal), NEW n \in 1 .. Len(answers[c])
  PROVE  LET t == SubSeq(answers[c], n + 1, Len(answers[c]))
         IN  /\ t \in Seq(0 .. MaxReal) /\ Len(t) = Len(answers[c]) - n
             /\ \A i \in 1 .. Len(t) :
                  n + i \in 1 .. Len(answers[c]) /\ n + i # 1 /\ t[i] = answers[c][n + i]
<1> DEFINE t == SubSeq(answers[c], n + 1, Len(answers[c]))
<1> HIDE DEF t
<1>1. t = SubSeq(answers[c], n + 1, Len(answers[c]))
  BY DEF t
<1> QED BY <1>1, Suffix DEF t

LEMMA ReadHolds ==
  ASSUME IInv, NEW c \in Clients, Read(c)
  PROVE  IInv'
<1>1. PICK n \in 1 .. Len(answers[c]) :
        answers' = [answers EXCEPT ![c] = SubSeq(@, n + 1, Len(@))]
  BY DEF Read
<1>2. /\ c \in waiting /\ waiting' = waiting \ {c}
      /\ before' = [before EXCEPT ![c] = 0] /\ before'[c] = 0
      /\ UNCHANGED <<supply, relay, pending, left, sent, asked>>
  BY DEF Read, IInv, Types
<1>3. /\ answers[c] \in Seq(0 .. MaxReal) /\ Len(answers[c]) \in Nat /\ pending[c] \in 0 .. 2
      /\ asked[c] \in Nat /\ c \notin left /\ before[c] \in Nat
  BY <1>2 DEF IInv, Types
<1>4. /\ answers'[c] \in Seq(0 .. MaxReal) /\ Len(answers'[c]) = Len(answers[c]) - n
      /\ \A i \in 1 .. Len(answers'[c]) :
           /\ n + i \in 1 .. Len(answers[c]) /\ n + i # 1
           /\ answers'[c][i] = answers[c][n + i]
  <2>1. answers'[c] = SubSeq(answers[c], n + 1, Len(answers[c]))
    BY <1>1 DEF IInv, Types
  <2> DEFINE t == SubSeq(answers[c], n + 1, Len(answers[c]))
  <2>2. /\ t \in Seq(0 .. MaxReal) /\ Len(t) = Len(answers[c]) - n
        /\ \A i \in 1 .. Len(t) :
             n + i \in 1 .. Len(answers[c]) /\ n + i # 1 /\ t[i] = answers[c][n + i]
    BY <1>3, Unread
  <2>3. answers'[c] = t
    BY <2>1
  <2> HIDE DEF t
  <2> QED BY <2>2, <2>3
<1>5. Served(c) /\ InForce' = InForce
  BY <1>2 DEF IInv, InForce, relay
<1>6. Due(c)'
  <2>1. Outstanding(c) <= 2 /\ thread'[c] = thread[c] /\ thread[c] # "none"
    BY <1>2, <1>3, <1>5 DEF Served, Due, relay
  <2>2. Busy(c)' = Busy(c) /\ Busy(c) \in {0, 1}
    BY <2>1, OutstandingType DEF Busy, IInv
  <2>3. Outstanding(c)' <= 1
    <3>1. pending'[c] = pending[c] /\ Len(answers'[c]) = Len(answers[c]) - n /\ n >= 1
      BY <1>2, <1>3, <1>4
    <3>2. Outstanding(c)' = Outstanding(c) - n /\ n \in Int /\ Outstanding(c) \in Nat
      <4>1. /\ pending[c] \in Int /\ Len(answers[c]) \in Int /\ Busy(c) \in Int /\ n \in Int
            /\ Outstanding(c) \in Nat
        BY <1>3, <2>2, OutstandingType DEF IInv
      <4>2. Outstanding(c)' = pending[c] + (Len(answers[c]) - n) + Busy(c)
        BY <2>2, <3>1 DEF Outstanding
      <4> QED BY <4>1, <4>2 DEF Outstanding
    <3> QED BY <2>1, <3>1, <3>2
  <2> QED BY <1>2, <1>3, <2>1, <2>3 DEF Due
<1>7. Known(c)'
  BY <1>2, <1>3, <1>5 DEF Served, Known, relay
<1>8. After(c)'
  <2>1. \A i \in 1 .. Len(answers'[c]) : answers'[c][i] <= InForce /\ answers'[c][i] >= asked[c]
    <3> SUFFICES ASSUME NEW i \in 1 .. Len(answers'[c])
                 PROVE  answers'[c][i] <= InForce /\ answers'[c][i] >= asked[c]
      OBVIOUS
    <3>1. n + i \in 1 .. Len(answers[c]) /\ n + i # 1 /\ answers'[c][i] = answers[c][n + i]
      BY <1>4
    <3> QED BY <1>5, <3>1 DEF Served, After
  <2>2. \A i, j \in 1 .. Len(answers'[c]) : i <= j => answers'[c][i] <= answers'[c][j]
    <3> SUFFICES ASSUME NEW i \in 1 .. Len(answers'[c]), NEW j \in 1 .. Len(answers'[c]), i <= j
                 PROVE  answers'[c][i] <= answers'[c][j]
      OBVIOUS
    <3>1. n + i \in 1 .. Len(answers[c]) /\ n + j \in 1 .. Len(answers[c])
      BY <1>4
    <3>2. n + i <= n + j
      <4>1. Len(answers'[c]) \in Nat
        BY <1>4
      <4> QED BY <1>3, <4>1
    <3> QED BY <1>4, <1>5, <3>1, <3>2 DEF Served, After
  <2>3. ~crashed
    BY <1>1, <1>3, <1>5 DEF Served, After
  <2> QED BY <1>2, <1>5, <2>1, <2>2, <2>3 DEF After, supply
<1>9. Served(c)'
  BY <1>6, <1>7, <1>8 DEF Served
<1>10. answers' \in [Clients -> Seq(0 .. MaxReal)]
  BY <1>1, <1>4 DEF IInv, Types
<1>11. /\ thread' = thread /\ left' = left /\ sent' = sent /\ asked' = asked
       /\ waiting' \subseteq Clients \ left' /\ before' \in [Clients -> 0 .. MaxReal]
  BY <1>2 DEF IInv, Types, relay
<1>12. \A d \in Clients \ {c} :
         answers'[d] = answers[d] /\ before'[d] = before[d] /\ (d \in waiting' <=> d \in waiting)
  BY <1>1, <1>2 DEF IInv, Types
<1> QED BY <1>2, <1>9, <1>10, <1>11, <1>12, Others DEF IInv, Types, relay

LEMMA LeaveHolds ==
  ASSUME IInv, NEW c \in Clients, Leave(c)
  PROVE  IInv'
<1>1. /\ thread[c] # "none" /\ left' = left \cup {c} /\ waiting' = waiting \ {c}
      /\ answers' = [answers EXCEPT ![c] = <<>>] /\ answers'[c] = <<>>
      /\ before' = [before EXCEPT ![c] = 0] /\ before'[c] = 0
      /\ UNCHANGED <<supply, relay, pending, sent, asked>>
  BY DEF Leave, IInv, Types
<1>2. Served(c) /\ InForce' = InForce /\ asked[c] \in Nat /\ pending[c] \in Nat
      /\ Len(answers[c]) \in Nat
  BY <1>1 DEF IInv, InForce, relay, Types
<1>3. Len(answers'[c]) = 0
  BY <1>1
<1>4. Due(c)'
  <2>1. Outstanding(c) <= 2 /\ thread'[c] = thread[c]
    BY <1>1, <1>2, OutstandingType DEF Served, Due, relay, IInv
  <2>2. Busy(c)' = Busy(c) /\ Busy(c) \in {0, 1}
    BY <2>1, OutstandingType DEF Busy, IInv
  <2>3. Outstanding(c)' <= 2
    BY <1>1, <1>2, <1>3, <2>1, <2>2 DEF Outstanding
  <2> QED BY <1>1, <2>1, <2>3 DEF Due
<1>5. Known(c)' /\ After(c)'
  BY <1>1, <1>2, <1>3 DEF Served, Known, After, relay
<1>6. Served(c)'
  BY <1>4, <1>5 DEF Served
<1>7. answers' \in [Clients -> Seq(0 .. MaxReal)]
  BY <1>1 DEF IInv, Types
<1>8. /\ thread' = thread /\ sent' = sent /\ asked' = asked
      /\ left' \subseteq Clients /\ waiting' \subseteq Clients \ left'
      /\ before' \in [Clients -> 0 .. MaxReal]
  BY <1>1 DEF IInv, Types, relay
<1>9. \A d \in Clients \ {c} :
        /\ answers'[d] = answers[d] /\ before'[d] = before[d]
        /\ (d \in waiting' <=> d \in waiting) /\ (d \in left' <=> d \in left)
  BY <1>1 DEF IInv, Types
<1> QED BY <1>1, <1>6, <1>7, <1>8, <1>9, Others DEF IInv, Types, relay

-----------------------------------------------------------------------------
LEMMA StepHolds == IInv /\ [Next]_vars => IInv'
  <1> SUFFICES ASSUME IInv, [Next]_vars PROVE IInv'
    OBVIOUS
  <1>1. CASE UNCHANGED vars
    <2>1. InForce' = InForce /\ InForce \in Nat
      BY <1>1, InForceType DEF InForce, vars, relay, IInv
    <2>2. \A c \in Clients : Served(c)'
      BY <1>1, <2>1, Bystander DEF vars, supply, relay, client, ghost
    <2>3. Types' /\ Cut'
      BY <1>1 DEF IInv, Types, Cut, vars, supply, provider, wall, period, breakage, relay,
                  client, ghost
    <2>4. Order'
      BY <1>1, <2>1 DEF IInv, Order, vars, supply, provider, wall
    <2> QED BY <2>2, <2>3, <2>4 DEF IInv
  <1>2. CASE Provide
    BY <1>2, ProvideHolds
  <1>3. CASE Store
    BY <1>3, StoreHolds
  <1>4. CASE Crash
    BY <1>4, CrashHolds
  <1>5. ASSUME NEW c \in Clients, Thread(c) PROVE IInv'
    BY <1>5, GreetHolds, RecvHolds, RecvNothingHolds, ReplyHolds DEF Thread
  <1>6. ASSUME NEW c \in Clients, Client(c) PROVE IInv'
    BY <1>6, ConnectHolds, RequestHolds, ReadHolds, LeaveHolds DEF Client
  <1> QED BY <1>1, <1>2, <1>3, <1>4, <1>5, <1>6 DEF Next

THEOREM Invariant == Spec => []IInv
  <1>1. Init => IInv
    BY InitHolds
  <1> QED BY <1>1, StepHolds, PTL DEF Spec

(* Two requests or answers at most are on their way between a client and    *)
(* its thread, and one when the client does not wait (server.py:17-31).     *)
THEOREM TypeCorrect == Spec => []TypeOK
  <1>1. IInv => TypeOK
    <2> SUFFICES ASSUME IInv PROVE TypeOK
      OBVIOUS
    <2>1. ASSUME NEW c \in Clients
          PROVE  pending[c] + Len(answers[c]) <= IF c \in waiting \cup left THEN 2 ELSE 1
      <3>1. pending[c] \in Nat /\ Len(answers[c]) \in Nat
        BY DEF IInv, Types
      <3> QED BY <3>1 DEF IInv, Served, Due, Outstanding, Busy
    <2> QED BY <2>1 DEF IInv, Types, TypeOK
  <1> QED BY <1>1, Invariant, PTL

(* An answer is never more than one request behind, and answers never go    *)
(* back in time, whatever number of clients (server.py:17-31).              *)
THEOREM OneBehindHolds == Spec => []OneBehind
  <1>1. IInv => OneBehind
    <2> SUFFICES ASSUME IInv, NEW c \in Clients, NEW i \in 1 .. Len(answers[c])
                 PROVE  /\ answers[c][i] >= before[c]
                        /\ answers[c][i] <= IF i = Len(answers[c]) THEN InForce
                                            ELSE answers[c][i + 1]
      BY DEF OneBehind
    <2>1. /\ Len(answers[c]) \in Nat /\ answers[c][i] \in Nat
          /\ before[c] \in Nat /\ asked[c] \in Nat /\ before[c] <= asked[c] /\ After(c)
      BY DEF IInv, Types, Served, Known
    <2>2. i # Len(answers[c]) => i + 1 \in 1 .. Len(answers[c]) /\ i <= i + 1
      BY <2>1
    <2> QED BY <2>1, <2>2 DEF After
  <1> QED BY <1>1, Invariant, PTL

(* What the except clause of the provider costs: since it hides the lost    *)
(* connection, a relay that was started again tells nobody anything for     *)
(* ever, although the provider goes on (EnergyProvider.py:58-62,            *)
(* server.py:20-31).  This describes a defect and is no requirement: a      *)
(* provider that connected again would break it.                            *)
SilentAfterCrash == crashed => \A c \in Clients : answers[c] = <<>>

THEOREM SilentAfterCrashHolds == Spec => []SilentAfterCrash
  <1>1. IInv => SilentAfterCrash
    BY DEF IInv, Served, After, SilentAfterCrash
  <1> QED BY <1>1, Invariant, PTL

-----------------------------------------------------------------------------
(* Whom the relay forgets: the safety of ServedWithData. *)

(* Before there is data nobody is told anything, so that who has asked is   *)
(* still waiting when its thread dies of it.                                *)
Unheard(c) ==
  c \notin left =>
    /\ thread[c] # "spin"
    /\ thread[c] = "died" => c \in waiting /\ asked[c] = 0 /\ answers[c] = <<>>
    /\ send_data = Undefined =>
         answers[c] = <<>> /\ (pending[c] > 0 \/ thread[c] = "reply" => c \in waiting)
    /\ c \in waiting => thread[c] # "none" /\ (Expects(c) \/ thread[c] = "died")

LEMMA Longer ==
  ASSUME NEW S, NEW s \in Seq(S), NEW x \in S
  PROVE  Append(s, x) # <<>>
  OBVIOUS

LEMMA TellingHolds ==
  ASSUME IInv, NEW c \in Clients, Unheard(c), c \notin left, Say(c), send_data # Undefined,
         thread[c] \in {"greet", "reply"}, thread' = [thread EXCEPT ![c] = "recv"],
         UNCHANGED <<supply, send_data, pending, client>>
  PROVE  Unheard(c)'
<1>1. answers[c] \in Seq(0 .. MaxReal) /\ InForce \in 0 .. MaxReal
  BY InForceType DEF IInv, Types
<1>2. answers'[c] = Append(answers[c], InForce) /\ thread'[c] = "recv"
  BY DEF Say, IInv, Types
<1>3. answers'[c] # <<>>
  BY <1>1, <1>2, Longer
<1> QED BY <1>2, <1>3 DEF Unheard, Expects, client, ghost

LEMMA UnheardInductive ==
  IInv /\ (\A c \in Clients : Unheard(c)) /\ [Next]_vars => (\A c \in Clients : Unheard(c))'
<1> SUFFICES ASSUME IInv, \A c \in Clients : Unheard(c), [Next]_vars, NEW p \in Clients
             PROVE  Unheard(p)'
  OBVIOUS
<1> USE DEF supply, relay, client, ghost
<1>0. /\ Unheard(p) /\ Served(p) /\ Types /\ pending[p] \in Nat
      /\ answers[p] \in Seq(0 .. MaxReal)
  BY DEF IInv, Types
<1>a. ASSUME thread'[p] = thread[p], pending'[p] = pending[p], answers'[p] = answers[p],
             asked'[p] = asked[p], p \in waiting' <=> p \in waiting,
             p \in left' <=> p \in left, send_data' \in {send_data} \cup (0 .. MaxReal)
      PROVE  Unheard(p)'
  <2>1. Expects(p)' <=> Expects(p)
    BY <1>a DEF Expects
  <2>2. send_data' = Undefined => send_data = Undefined
    BY <1>a
  <2> QED BY <1>0, <1>a, <2>1, <2>2 DEF Unheard
<1>1. CASE Provide \/ UNCHANGED vars
  BY <1>1, <1>a DEF Provide, vars
<1>2. CASE Store
  <2>1. send_data' \in 0 .. MaxReal
    BY <1>0, <1>2 DEF Store, Types
  <2> QED BY <1>2, <1>a, <2>1 DEF Store
<1>3. CASE Crash
  <2>1. /\ thread'[p] = "none" /\ pending'[p] = 0 /\ answers'[p] = <<>>
        /\ waiting' = {}
    BY <1>3 DEF Crash
  <2> QED BY <2>1 DEF Unheard, Expects
<1>4. ASSUME NEW c \in Clients \ {p}, Thread(c) \/ Client(c) PROVE Unheard(p)'
  <2>1. answers'[p] = answers[p]
    BY <1>0, <1>4 DEF Thread, Greet, Recv, RecvNothing, Reply, Say, Client, Connect,
                      Request, Read, Leave, Types
  <2>2. thread'[p] = thread[p]
    BY <1>0, <1>4 DEF Thread, Greet, Recv, RecvNothing, Reply, At, Client, Connect,
                      Request, Read, Leave, Types
  <2>3. pending'[p] = pending[p] /\ asked'[p] = asked[p] /\ send_data' = send_data
    BY <1>0, <1>4 DEF Thread, Greet, Recv, RecvNothing, Reply, Client, Connect,
                      Request, Read, Leave, Types
  <2>4. (p \in waiting' <=> p \in waiting) /\ (p \in left' <=> p \in left)
    BY <1>0, <1>4 DEF Thread, Greet, Recv, RecvNothing, Reply, Client, Connect,
                      Request, Read, Leave, Types
  <2> QED BY <1>a, <2>1, <2>2, <2>3, <2>4
<1>5. CASE Greet(p)
  <2>1. /\ thread[p] = "greet" /\ thread' = [thread EXCEPT ![p] = "recv"]
        /\ thread'[p] = "recv" /\ UNCHANGED <<supply, send_data, pending, client>>
    BY <1>0, <1>5 DEF Greet, At, Types
  <2>2. CASE send_data = Undefined
    BY <1>0, <1>5, <2>1, <2>2 DEF Greet, Unheard, Expects
  <2>3. CASE send_data # Undefined /\ p \notin left
    BY <1>0, <1>5, <2>1, <2>3, TellingHolds DEF Greet
  <2>4. CASE p \in left
    BY <2>1, <2>4 DEF Unheard
  <2> QED BY <2>2, <2>3, <2>4
<1>6. CASE Recv(p)
  <2>1. /\ thread'[p] = "reply" /\ pending[p] > 0
        /\ UNCHANGED <<answers, send_data, client>>
    BY <1>0, <1>6 DEF Recv, At, Types
  <2> QED BY <1>0, <2>1 DEF Unheard, Expects
<1>7. CASE RecvNothing(p)
  BY <1>7 DEF RecvNothing, Unheard
<1>8. CASE Reply(p)
  <2>1. thread[p] = "reply" /\ UNCHANGED <<supply, send_data, pending, client>>
    BY <1>8 DEF Reply, At
  <2>2. CASE p \in left
    BY <2>1, <2>2 DEF Unheard
  <2>3. CASE p \notin left /\ send_data # Undefined
    BY <1>0, <1>8, <2>1, <2>3, TellingHolds DEF Reply, At
  <2>4. CASE p \notin left /\ send_data = Undefined
    <3>1. thread'[p] = "died" /\ answers' = answers
      BY <1>0, <1>8, <2>4 DEF Reply, At, Types
    <3>2. p \in waiting /\ answers[p] = <<>>
      BY <1>0, <2>1, <2>4 DEF Unheard
    <3>3. asked[p] = 0
      <4>1. asked[p] <= 0
        BY <1>0, <2>1, <2>4 DEF Served, Known, InForce
      <4>2. asked[p] \in Nat
        BY <1>0 DEF Types
      <4> QED BY <4>1, <4>2
    <3> QED BY <2>1, <3>1, <3>2, <3>3 DEF Unheard
  <2> QED BY <2>2, <2>3, <2>4
<1>9. CASE Connect(p)
  <2>1. /\ thread'[p] = "greet" /\ UNCHANGED <<send_data, pending, answers, left, waiting>>
        /\ pending[p] = 0 /\ answers[p] = <<>> /\ p \notin waiting
    BY <1>0, <1>9 DEF Connect, At, Types, Served, Due
  <2> QED BY <2>1 DEF Unheard
<1>10. CASE Request(p)
  <2>1. /\ thread[p] # "none" /\ thread' = thread /\ pending'[p] > 0 /\ p \in waiting'
        /\ p \notin waiting /\ p \notin left /\ UNCHANGED <<send_data, answers>>
    BY <1>0, <1>10 DEF Request, Types
  <2> QED BY <1>0, <2>1 DEF Unheard, Expects
<1>11. CASE Read(p)
  <2>1. /\ answers[p] # <<>> /\ p \notin waiting' /\ UNCHANGED <<send_data, thread, left>>
    BY <1>0, <1>11 DEF Read
  <2> QED BY <1>0, <2>1 DEF Unheard
<1>12. CASE Leave(p)
  BY <1>12 DEF Leave, Unheard
<1> QED BY <1>1, <1>2, <1>3, <1>4, <1>5, <1>6, <1>7, <1>8, <1>9, <1>10, <1>11, <1>12
        DEF Next, Thread, Client

(* For any clients: one that waits has a live thread and something under    *)
(* way, unless it asked when there was no data (server.py:20-33).           *)
THEOREM OnlyTooEarlyIsForgottenHolds == Spec => []OnlyTooEarlyIsForgotten
<1>1. Init => \A c \in Clients : Unheard(c)
  BY DEF Init, Unheard
<1>2. IInv /\ (\A c \in Clients : Unheard(c)) => OnlyTooEarlyIsForgotten
  BY DEF IInv, Types, Unheard, OnlyTooEarlyIsForgotten
<1> QED BY <1>1, <1>2, UnheardInductive, Invariant, PTL DEF Spec
=============================================================================
