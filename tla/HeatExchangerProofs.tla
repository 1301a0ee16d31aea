------------------------- MODULE HeatExchangerProofs --------------------------
(***************************************************************************)
(* The heat exchanger, for any connections and bounds.                     *)
(*                                                                         *)
(* Two arguments that meet in one invariant.  The loop: the temperatures   *)
(* are ahead of the published state by what the round has computed, and    *)
(* every step, the one in progress included, has used up a change of the   *)
(* time shown.  The server: a client that waits has one thing under way,   *)
(* its request, a thread that works on it, or its answer.                  *)
(***************************************************************************)
EXTENDS HeatExchanger, TLAPS

States == [Tpm : Nat, Tzco : Nat, Time : Nat]

(* The types, but for how much a client may have to read. *)
Types ==
  /\ now \in 1 .. MaxNow /\ changes \in 0 .. MaxNow - 1 /\ now <= changes + 1
  /\ pc \in {"ask", "again", "check", "Tpm", "Tzco", "publish", "dead"}
  /\ current \in 0 .. MaxNow /\ time \in 0 .. MaxNow /\ delta \in -MaxNow .. MaxNow
  /\ swallowed \in BOOLEAN
  /\ x0 \in [Tpm : Nat, Tzco : Nat]
  /\ state \in [Tpm : Nat, Tzco : Nat, Time : 0 .. MaxNow]
  /\ published \in Nat /\ repeated \in 0 .. published
  /\ conn \in [Conns -> {"idle", "open", "closed", "left"}]
  /\ thread \in [Conns -> {"none", "recv", "reply", "closing", "ended"}]
  /\ sent \in [Conns -> 0 .. MaxReq]
  /\ pending \subseteq Conns
  /\ answers \in [Conns -> Seq(States)]
  /\ asked \in [Conns -> Nat \cup {Nothing}]
  /\ got \in [Conns -> Nat \cup {Nothing, Wreck}]

(* What is published is whole, and how far the round is ahead of it. *)
Ahead ==
  /\ state.Tpm = published /\ state.Tzco = published
  /\ x0.Tpm = IF pc \in {"Tzco", "publish"} THEN published + 1 ELSE published
  /\ x0.Tzco = IF pc = "publish" THEN published + 1 ELSE published

(* The step of a round with a new reading, and a reading to come that       *)
(* differs from the last one.                                               *)
Pending ==
  IF /\ ~swallowed
     /\ \/ pc = "check" /\ delta # 0
        \/ pc \in {"Tpm", "Tzco", "publish"}
  THEN 1 ELSE 0

Unread == IF current # 0 /\ current # now THEN 1 ELSE 0

Counted ==
  /\ current = 0 => delta = 0
  /\ published + Pending + Unread <= changes + repeated

(* What is under way between a client and its thread. *)
Busy(c) == thread[c] = "reply"

Idle(c)      == c \notin pending /\ ~Busy(c) /\ answers[c] = <<>>
Requested(c) == c \in pending /\ ~Busy(c) /\ answers[c] = <<>>
Handled(c)   == c \notin pending /\ Busy(c) /\ answers[c] = <<>>
Answered(c)  == /\ c \notin pending /\ ~Busy(c) /\ Len(answers[c]) = 1
                /\ answers[c][1].Tpm = answers[c][1].Tzco
                /\ asked[c] <= answers[c][1].Tpm /\ answers[c][1].Tpm <= published

OneUnderWay(c) ==
  /\ asked[c] # Nothing => asked[c] <= published
  /\ conn[c] # "left" =>
       \/ Idle(c)
       \/ asked[c] # Nothing /\ (Requested(c) \/ Handled(c) \/ Answered(c))
  /\ answers[c] = <<>> \/ Len(answers[c]) = 1

IInv == Types /\ Ahead /\ Counted /\ \A c \in Conns : OneUnderWay(c)

-----------------------------------------------------------------------------
LEMMA Constants ==
  Nothing \notin Nat /\ MaxReq \in Nat /\ MaxNow \in Nat \ {0}
  BY ExchangerAssumption

LEMMA Empty ==
  ASSUME NEW S, NEW s \in Seq(S), Len(s) = 0
  PROVE  s = <<>>
  OBVIOUS

LEMMA InitHolds == Init => IInv
<1> SUFFICES ASSUME Init PROVE IInv
  OBVIOUS
<1>1. Types
  <2>1. /\ now \in 1 .. MaxNow /\ changes \in 0 .. MaxNow - 1 /\ now <= changes + 1
        /\ 0 \in 0 .. MaxNow /\ 0 \in -MaxNow .. MaxNow /\ 0 \in 0 .. MaxReq
        /\ repeated \in 0 .. published
    BY Constants DEF Init
  <2>2. /\ state \in [Tpm : Nat, Tzco : Nat, Time : 0 .. MaxNow]
        /\ x0 \in [Tpm : Nat, Tzco : Nat]
        /\ current \in 0 .. MaxNow /\ time \in 0 .. MaxNow /\ delta \in -MaxNow .. MaxNow
    BY <2>1 DEF Init
  <2>3. /\ sent \in [Conns -> 0 .. MaxReq] /\ answers \in [Conns -> Seq(States)]
        /\ asked \in [Conns -> Nat \cup {Nothing}]
        /\ got \in [Conns -> Nat \cup {Nothing, Wreck}]
    BY <2>1 DEF Init
  <2> QED BY <2>1, <2>2, <2>3 DEF Init, Types
<1>2. Ahead /\ Counted
  BY DEF Init, Ahead, Counted, Pending, Unread
<1>3. \A c \in Conns : OneUnderWay(c)
  BY DEF Init, OneUnderWay, Idle, Busy
<1> QED BY <1>1, <1>2, <1>3 DEF IInv

(* A client none of whose affairs is touched is where it was. *)
LEMMA Bystander ==
  ASSUME Types, NEW c \in Conns, OneUnderWay(c), published' \in Nat, published' >= published,
         conn'[c] = conn[c], thread'[c] = thread[c], c \in pending' <=> c \in pending,
         answers'[c] = answers[c], asked'[c] = asked[c]
  PROVE  OneUnderWay(c)'
<1>1. /\ published \in Nat /\ published' \in Nat
      /\ asked[c] # Nothing => asked[c] \in Nat
  BY DEF Types
<1>2. asked'[c] # Nothing => asked'[c] <= published'
  BY <1>1 DEF OneUnderWay
<1>3. ASSUME asked[c] # Nothing, Answered(c) PROVE Answered(c)'
  <2>1. answers[c][1].Tpm \in Nat
    <3>1. answers[c] \in Seq(States) /\ Len(answers[c]) = 1
      BY <1>3 DEF Types, Answered
    <3>2. answers[c][1] \in States
      BY <3>1
    <3> QED BY <3>2 DEF States
  <2> QED BY <1>1, <1>3, <2>1 DEF Answered, Busy
<1> QED BY <1>1, <1>2, <1>3 DEF OneUnderWay, Idle, Requested, Handled, Busy

(* Steps that leave the connections alone. *)
LEMMA LoopHolds ==
  ASSUME IInv, UNCHANGED <<client, net>>, published' \in Nat, published' >= published,
         Types', Ahead', Counted'
  PROVE  IInv'
<1>1. \A c \in Conns : OneUnderWay(c)'
  BY Bystander DEF IInv, client, net
<1> QED BY <1>1 DEF IInv

(* The sums of Counted. *)
LEMMA OneMore ==
  ASSUME NEW p \in Nat, NEW a \in Nat, NEW u \in 0 .. 1, NEW v \in 0 .. 1,
         NEW n \in Nat, NEW r \in Nat, p + a + u <= n + r
  PROVE  p + a + v <= n + 1 + r
  OBVIOUS

LEMMA NoMore ==
  ASSUME NEW p \in Nat, NEW a \in Nat, NEW b \in Nat, NEW u \in Nat, NEW v \in Nat,
         NEW n \in Nat, b <= a, v <= u, p + a + u <= n
  PROVE  p + b + v <= n
  OBVIOUS

LEMMA ServerHolds == ASSUME IInv, Tick \/ Restart PROVE IInv'
<1>1. /\ UNCHANGED <<loop, client, net>> /\ changes' = changes + 1
      /\ changes' \in 0 .. MaxNow - 1 /\ now' \in 1 .. MaxNow /\ now' <= changes' + 1
  BY Constants DEF Tick, Restart, IInv, Types
<1>2. Types'
  BY <1>1 DEF IInv, Types, loop, clock, client, net
<1>3. Ahead' /\ published' = published /\ published \in Nat
  BY <1>1 DEF IInv, Ahead, Types, loop
<1>4. Counted'
  <2>1. Pending' = Pending /\ Pending \in Nat /\ Unread \in 0 .. 1 /\ Unread' \in 0 .. 1
    BY <1>1 DEF Pending, Unread, loop, clock
  <2>2. published + Pending + Unread <= changes + repeated
    BY DEF IInv, Counted
  <2>3. published \in Nat /\ changes \in Nat /\ repeated \in Nat
    BY Constants DEF IInv, Types
  <2>4. published + Pending + Unread' <= changes + 1 + repeated
    BY <2>1, <2>2, <2>3, OneMore
  <2>5. published' + Pending' + Unread' <= changes' + repeated'
    <3>1. published' = published /\ repeated' = repeated /\ changes' = changes + 1
      BY <1>1 DEF loop
    <3> QED BY <2>1, <2>4, <3>1
  <2>6. current' = 0 => delta' = 0
    BY <1>1 DEF IInv, Counted, loop, clock
  <2> QED BY <2>5, <2>6 DEF Counted
<1> QED BY <1>1, <1>2, <1>3, <1>4, LoopHolds

(* A reading uses up the change that it shows; without a second reading of  *)
(* the same time object there is nothing to step over.                      *)
LEMMA GetTimeCounts ==
  ASSUME IInv, GetTime
  PROVE  Counted'
<1>1. /\ pc \in {"ask", "again"} /\ pc' = "check"
      /\ delta' = IF current = 0 THEN delta ELSE now - current
      /\ current' = now /\ swallowed' = FALSE
      /\ UNCHANGED <<server, published, repeated>>
  BY DEF GetTime
<1>2. /\ now \in Nat /\ now # 0 /\ current \in Nat /\ published \in Nat /\ changes \in Nat
      /\ repeated \in Nat
  BY Constants DEF IInv, Types
<1>3. Unread' = 0 /\ Pending = 0 /\ Unread \in 0 .. 1
  BY <1>1 DEF Unread, Pending, server
<1>4. Pending' = Unread
  <2>1. CASE current = 0
    BY <1>1, <2>1 DEF Pending, Unread, IInv, Counted
  <2>2. CASE current # 0
    <3>1. delta' # 0 <=> now # current
      BY <1>1, <1>2, <2>2
    <3> QED BY <1>1, <2>2, <3>1 DEF Pending, Unread
  <2> QED BY <2>1, <2>2
<1>5. published + Unread <= changes + repeated
  BY <1>2, <1>3 DEF IInv, Counted
<1>6. current' # 0
  BY <1>1, <1>2
<1> QED BY <1>1, <1>2, <1>3, <1>4, <1>5, <1>6 DEF Counted, server

LEMMA SimulationHolds == ASSUME IInv, Simulation PROVE IInv'
<1>0. /\ UNCHANGED <<server, client, net>> /\ published \in Nat /\ repeated \in 0 .. published
      /\ changes \in Nat
  BY Constants DEF Simulation, GetTime, GetTimeSwallows, TimeLost, TimeFails, Check,
     SimulateTpm, SimulateTzco, Publish, IInv, Types
<1>a. /\ published + Pending + Unread <= changes + repeated
      /\ Pending \in 0 .. 1 /\ Unread \in 0 .. 1
  BY DEF IInv, Counted, Pending, Unread
<1>1. CASE GetTime
  <2>1. UNCHANGED <<x0, state, published, repeated>>
    BY <1>1 DEF GetTime
  <2>2. /\ now \in 1 .. MaxNow /\ current \in 0 .. MaxNow /\ delta \in -MaxNow .. MaxNow
    BY DEF IInv, Types
  <2>3. /\ delta' \in -MaxNow .. MaxNow /\ current' \in 0 .. MaxNow /\ time' \in 0 .. MaxNow
        /\ pc' = "check" /\ swallowed' = FALSE
    BY <1>1, <2>2, Constants DEF GetTime
  <2>4. Types'
    BY <1>0, <2>1, <2>3 DEF IInv, Types, server, client, net
  <2>5. Ahead'
    BY <1>1, <2>1 DEF GetTime, IInv, Ahead
  <2> QED BY <1>0, <1>1, <2>1, <2>4, <2>5, GetTimeCounts, LoopHolds
<1>2. CASE GetTimeSwallows \/ TimeLost \/ TimeFails \/ Check
  <2>1. UNCHANGED <<x0, state, published, repeated>>
    BY <1>2 DEF GetTimeSwallows, TimeLost, TimeFails, Check, clock
  <2>2. Types'
    <3>1. current \in 0 .. MaxNow /\ time \in 0 .. MaxNow /\ delta \in -MaxNow .. MaxNow
          /\ 0 \in 0 .. MaxNow /\ 0 \in -MaxNow .. MaxNow
      BY Constants DEF IInv, Types
    <3>2. /\ current' \in 0 .. MaxNow /\ time' \in 0 .. MaxNow /\ delta' \in -MaxNow .. MaxNow
          /\ pc' \in {"ask", "again", "check", "Tpm", "Tzco", "publish", "dead"}
          /\ swallowed' \in BOOLEAN
      BY <1>2, <3>1 DEF GetTimeSwallows, TimeLost, TimeFails, Check, Goto, clock, IInv,
                        Types
    <3> QED BY <1>0, <2>1, <3>2 DEF IInv, Types, server, client, net
  <2>3. Ahead'
    BY <1>2, <2>1 DEF GetTimeSwallows, TimeLost, TimeFails, Check, Goto, IInv, Ahead
  <2>4. Counted'
    <3>1. (current = 0 => delta = 0) /\ (current' = 0 => delta' = 0)
      BY <1>2 DEF GetTimeSwallows, TimeLost, TimeFails, Check, clock, IInv, Counted
    <3>2. Unread' \in 0 .. Unread
      BY <1>0, <1>2 DEF GetTimeSwallows, TimeLost, TimeFails, Check, clock, server, Unread
    <3>3. Pending' \in 0 .. Pending
      BY <1>2 DEF GetTimeSwallows, TimeLost, TimeFails, Check, Goto, clock, Pending
    <3>4. Pending' <= Pending /\ Unread' <= Unread /\ Pending' \in Nat /\ Unread' \in Nat
      BY <1>a, <3>2, <3>3
    <3>5. published + Pending' + Unread' <= changes + repeated
      <4>1. changes + repeated \in Nat /\ Pending \in Nat /\ Unread \in Nat
        BY <1>0, <1>a
      <4> QED BY <1>0, <1>a, <3>4, <4>1, NoMore
    <3>6. published' + Pending' + Unread' <= changes' + repeated'
      <4>1. changes' = changes /\ published' = published /\ repeated' = repeated
        BY <1>0, <2>1 DEF server
      <4> QED BY <3>5, <4>1
    <3> QED BY <3>1, <3>6 DEF Counted
  <2> QED BY <1>0, <2>1, <2>2, <2>3, <2>4, LoopHolds
<1>3. CASE SimulateTpm \/ SimulateTzco
  <2>1. UNCHANGED <<clock, state, published, repeated>>
    BY <1>3 DEF SimulateTpm, SimulateTzco
  <2>2. x0 \in [Tpm : Nat, Tzco : Nat] /\ x0' \in [Tpm : Nat, Tzco : Nat]
    BY <1>3 DEF SimulateTpm, SimulateTzco, IInv, Types
  <2>3. Types'
    BY <1>0, <1>3, <2>1, <2>2 DEF SimulateTpm, SimulateTzco, Goto, clock, IInv, Types,
                                  server, client, net
  <2>4. Ahead'
    BY <1>3, <2>1, <2>2 DEF SimulateTpm, SimulateTzco, Goto, IInv, Ahead
  <2>5. Counted'
    BY <1>0, <1>3, <2>1 DEF SimulateTpm, SimulateTzco, Goto, clock, server, IInv, Counted,
                            Pending, Unread
  <2> QED BY <1>0, <2>1, <2>3, <2>4, <2>5, LoopHolds
<1>4. CASE Publish
  <2>1. /\ pc = "publish" /\ pc' = "ask" /\ published' = published + 1
        /\ repeated' = IF swallowed THEN repeated + 1 ELSE repeated
        /\ state' = [Tpm |-> x0.Tpm, Tzco |-> x0.Tzco, Time |-> time]
        /\ UNCHANGED <<clock, x0>>
    BY <1>4 DEF Publish, Goto
  <2>2. x0.Tpm \in Nat /\ x0.Tzco \in Nat /\ time \in 0 .. MaxNow
    BY DEF IInv, Types
  <2>3. Types'
    <3>1. published' \in Nat /\ repeated' \in 0 .. published'
      BY <1>0, <2>1
    <3> QED BY <1>0, <2>1, <2>2, <3>1 DEF IInv, Types, clock, server, client, net
  <2>4. Ahead'
    BY <2>1 DEF IInv, Ahead
  <2>5. Counted'
    <3>1. Pending' = 0 /\ Unread' = Unread /\ (current' = 0 => delta' = 0)
      BY <1>0, <2>1 DEF Pending, Unread, clock, server, IInv, Counted
    <3>2. Pending = IF swallowed THEN 0 ELSE 1
      BY <2>1 DEF Pending, IInv, Types
    <3> QED BY <1>0, <1>a, <2>1, <3>1, <3>2 DEF Counted, server
  <2> QED BY <1>0, <2>1, <2>3, <2>4, <2>5, LoopHolds
<1> QED BY <1>1, <1>2, <1>3, <1>4 DEF Simulation

-----------------------------------------------------------------------------
(* Another client's affairs are its own. *)
LEMMA Others ==
  ASSUME IInv, NEW c \in Conns, UNCHANGED <<server, loop>>,
         \A d \in Conns \ {c} :
           /\ conn'[d] = conn[d] /\ thread'[d] = thread[d]
           /\ (d \in pending' <=> d \in pending)
           /\ answers'[d] = answers[d] /\ asked'[d] = asked[d],
         Types', OneUnderWay(c)'
  PROVE  IInv'
<1>1. Ahead' /\ Counted' /\ published' = published /\ published \in Nat
  BY DEF IInv, Types, Ahead, Counted, Pending, Unread, server, loop, clock
<1>2. \A d \in Conns \ {c} : OneUnderWay(d)'
  BY <1>1, Bystander DEF IInv
<1> QED BY <1>1, <1>2 DEF IInv

LEMMA AcceptHolds == ASSUME IInv, NEW c \in Conns, Accept(c) PROVE IInv'
<1>1. /\ UNCHANGED <<server, loop, client, conn, pending, answers>>
      /\ thread[c] = "none" /\ thread' = [thread EXCEPT ![c] = "recv"]
  BY DEF Accept, At
<1>2. Types'
  BY <1>1 DEF IInv, Types, server, loop, clock, client
<1>3. OneUnderWay(c)'
  BY <1>1 DEF IInv, Types, OneUnderWay, Idle, Requested, Handled, Answered, Busy, loop,
              client
<1> QED BY <1>1, <1>2, <1>3, Others DEF IInv, Types, client

LEMMA RecvHolds == ASSUME IInv, NEW c \in Conns, Recv(c) PROVE IInv'
<1>1. /\ UNCHANGED <<server, loop, client, conn, answers>> /\ c \in pending
      /\ thread[c] = "recv" /\ thread' = [thread EXCEPT ![c] = "reply"]
      /\ pending' = pending \ {c}
  BY DEF Recv, At
<1>2. Types'
  BY <1>1 DEF IInv, Types, server, loop, clock, client
<1>3. OneUnderWay(c)'
  BY <1>1 DEF IInv, Types, OneUnderWay, Idle, Requested, Handled, Answered, Busy, loop,
              client
<1> QED BY <1>1, <1>2, <1>3, Others DEF IInv, Types, client

LEMMA RecvFailsHolds == ASSUME IInv, NEW c \in Conns, RecvFails(c) PROVE IInv'
<1>1. /\ UNCHANGED <<server, loop, client, conn, pending, answers>>
      /\ thread[c] = "recv" /\ thread' = [thread EXCEPT ![c] = "closing"]
  BY DEF RecvFails, At
<1>2. Types'
  BY <1>1 DEF IInv, Types, server, loop, clock, client
<1>3. OneUnderWay(c)'
  BY <1>1 DEF IInv, Types, OneUnderWay, Idle, Requested, Handled, Answered, Busy, loop,
              client
<1> QED BY <1>1, <1>2, <1>3, Others DEF IInv, Types, client

LEMMA ReplyHolds == ASSUME IInv, NEW c \in Conns, Reply(c) PROVE IInv'
<1>0. /\ UNCHANGED <<server, loop, client, conn, pending>> /\ thread[c] = "reply"
  BY DEF Reply, At
<1>1. CASE /\ conn[c] = "open" /\ thread' = [thread EXCEPT ![c] = "recv"]
           /\ answers' = [answers EXCEPT ![c] = Append(@, state)]
  <2>1. answers[c] \in Seq(States) /\ state \in States
    BY DEF IInv, Types, States
  <2>2. /\ answers'[c] = Append(answers[c], state)
        /\ \A d \in Conns \ {c} : answers'[d] = answers[d]
    BY <1>1 DEF IInv, Types
  <2>3. /\ Append(answers[c], state) \in Seq(States)
        /\ Len(Append(answers[c], state)) = Len(answers[c]) + 1
        /\ Append(answers[c], state)[Len(answers[c]) + 1] = state
    BY <2>1
  <2>4. answers' \in [Conns -> Seq(States)]
    BY <1>1, <2>3 DEF IInv, Types
  <2>5. Types'
    BY <1>0, <1>1, <2>4 DEF IInv, Types, server, loop, clock, client
  <2>6. OneUnderWay(c)'
    <3>1. asked[c] # Nothing /\ c \notin pending /\ answers[c] = <<>> /\ asked[c] <= published
      BY <1>0, <1>1 DEF IInv, OneUnderWay, Idle, Requested, Handled, Answered, Busy
    <3>2. Len(answers'[c]) = 1 /\ answers'[c][1] = state
      BY <2>2, <2>3, <3>1
    <3>3. state.Tpm = published /\ state.Tzco = published /\ published <= published
      BY DEF IInv, Ahead, Types
    <3>4. ~Busy(c)' /\ asked' = asked /\ published' = published /\ conn' = conn
          /\ pending' = pending
      BY <1>0, <1>1 DEF Busy, IInv, Types, loop, client
    <3> QED BY <3>1, <3>2, <3>3, <3>4 DEF OneUnderWay, Answered
  <2> QED BY <1>0, <1>1, <2>2, <2>5, <2>6, Others DEF IInv, Types, client
<1>2. CASE /\ conn[c] = "left" /\ UNCHANGED answers
           /\ \/ thread' = [thread EXCEPT ![c] = "recv"]
              \/ thread' = [thread EXCEPT ![c] = "closing"]
  <2>1. Types'
    BY <1>0, <1>2 DEF IInv, Types, server, loop, clock, client
  <2>2. OneUnderWay(c)'
    BY <1>0, <1>2 DEF IInv, OneUnderWay, loop, client
  <2> QED BY <1>0, <1>2, <2>1, <2>2, Others DEF IInv, Types, client
<1> QED BY <1>1, <1>2 DEF Reply, At

LEMMA CloseHolds == ASSUME IInv, NEW c \in Conns, Close(c) PROVE IInv'
<1>1. /\ UNCHANGED <<server, loop, client, answers>>
      /\ thread[c] = "closing" /\ thread' = [thread EXCEPT ![c] = "ended"]
      /\ conn' = [conn EXCEPT ![c] = IF @ = "open" THEN "closed" ELSE @]
      /\ pending' = pending \ {c}
  BY DEF Close, At
<1>2. Types'
  BY <1>1 DEF IInv, Types, server, loop, clock, client
<1>3. OneUnderWay(c)'
  BY <1>1 DEF IInv, Types, OneUnderWay, Idle, Requested, Handled, Answered, Busy, loop,
              client
<1> QED BY <1>1, <1>2, <1>3, Others DEF IInv, Types, client

LEMMA ConnectHolds == ASSUME IInv, NEW c \in Conns, Connect(c) PROVE IInv'
<1>1. /\ UNCHANGED <<server, loop, client, thread, pending, answers>> /\ conn[c] = "idle"
      /\ conn' = [conn EXCEPT ![c] = "open"]
  BY DEF Connect
<1>2. Types'
  BY <1>1 DEF IInv, Types, server, loop, clock, client
<1>3. OneUnderWay(c)'
  BY <1>1 DEF IInv, Types, OneUnderWay, Idle, Requested, Handled, Answered, Busy, loop,
              client
<1> QED BY <1>1, <1>2, <1>3, Others DEF IInv, Types, client

LEMMA RequestHolds == ASSUME IInv, NEW c \in Conns, Request(c) PROVE IInv'
<1>1. /\ UNCHANGED <<server, loop, got, conn, thread, answers>>
      /\ conn[c] \in {"open", "closed"} /\ sent[c] < MaxReq /\ asked[c] = Nothing
      /\ sent' = [sent EXCEPT ![c] = @ + 1]
      /\ asked' = [asked EXCEPT ![c] = published]
      /\ pending' \in {pending, pending \cup {c}}
  BY DEF Request
<1>2. published \in Nat /\ sent[c] + 1 \in 0 .. MaxReq
  BY <1>1, Constants DEF IInv, Types
<1>3. Types'
  BY <1>1, <1>2 DEF IInv, Types, server, loop, clock
<1>4. OneUnderWay(c)'
  <2>1. Idle(c)
    BY <1>1 DEF IInv, OneUnderWay
  <2>2. Idle(c)' \/ Requested(c)'
    BY <1>1, <2>1 DEF Idle, Requested, Busy
  <2>3. /\ asked'[c] = published /\ published' = published /\ published <= published
        /\ published # Nothing /\ answers'[c] = <<>>
    BY <1>1, <1>2, <2>1, Constants DEF IInv, Types, loop, Idle
  <2> QED BY <2>2, <2>3 DEF OneUnderWay
<1> QED BY <1>1, <1>3, <1>4, Others DEF IInv, Types

(* What a waiting client reads is whole and was in force after its request. *)
LEMMA ReadEffect ==
  ASSUME IInv, NEW c \in Conns, Read(c)
  PROVE  /\ asked[c] # Nothing /\ c \notin pending /\ ~Busy(c) /\ answers'[c] = <<>>
         /\ Tail(answers[c]) \in Seq(States)
         /\ Whole(Head(answers[c])) \in asked[c] .. published
<1>1. answers[c] # <<>> /\ answers[c] \in Seq(States) /\ conn[c] # "left"
  BY DEF Read, IInv, Types
<1>2. Answered(c) /\ asked[c] # Nothing
  BY <1>1 DEF IInv, OneUnderWay, Idle, Requested, Handled
<1>3. /\ Len(answers[c]) = 1 /\ Tail(answers[c]) \in Seq(States)
      /\ Head(answers[c]) = answers[c][1] /\ answers[c][1] \in States
      /\ Len(Tail(answers[c])) = 0
  BY <1>1, <1>2 DEF Answered
<1>4. Tail(answers[c]) = <<>>
  BY <1>3, Empty
<1>5. asked[c] \in Nat /\ published \in Nat
  BY <1>2 DEF IInv, Types
<1>6. Whole(Head(answers[c])) = answers[c][1].Tpm /\ answers[c][1].Tpm \in Nat
  BY <1>2, <1>3 DEF Whole, Answered, States
<1>7. Whole(Head(answers[c])) \in asked[c] .. published
  BY <1>2, <1>5, <1>6 DEF Answered
<1>8. answers'[c] = Tail(answers[c])
  BY DEF Read, IInv, Types
<1> QED BY <1>2, <1>3, <1>4, <1>7, <1>8 DEF Answered

LEMMA ReadHolds == ASSUME IInv, NEW c \in Conns, Read(c) PROVE IInv'
<1>1. /\ UNCHANGED <<server, loop, sent, conn, thread, pending>>
      /\ answers' = [answers EXCEPT ![c] = Tail(@)]
      /\ asked' = [asked EXCEPT ![c] = Nothing]
      /\ got' = [got EXCEPT ![c] = Whole(Head(answers[c]))]
  BY DEF Read
<1>2. Whole(Head(answers[c])) \in Nat
  <2>1. asked[c] \in Nat /\ published \in Nat
    BY ReadEffect DEF IInv, Types
  <2> QED BY <2>1, ReadEffect
<1>3. Types'
  <2>1. answers' \in [Conns -> Seq(States)]
    BY <1>1, ReadEffect DEF IInv, Types
  <2>2. got' \in [Conns -> Nat \cup {Nothing, Wreck}] /\ asked' \in [Conns -> Nat \cup {Nothing}]
    BY <1>1, <1>2 DEF IInv, Types
  <2> QED BY <1>1, <2>1, <2>2 DEF IInv, Types, server, loop, clock
<1>4. OneUnderWay(c)'
  <2>1. Idle(c)' /\ asked'[c] = Nothing
    BY <1>1, ReadEffect DEF Idle, Busy, IInv, Types
  <2> QED BY <2>1 DEF OneUnderWay, Idle
<1> QED BY <1>1, <1>3, <1>4, Others DEF IInv, Types

LEMMA LeaveHolds == ASSUME IInv, NEW c \in Conns, Leave(c) PROVE IInv'
<1>1. /\ UNCHANGED <<server, loop, sent, got, thread, pending, answers>>
      /\ conn' = [conn EXCEPT ![c] = "left"]
      /\ asked' = [asked EXCEPT ![c] = Nothing]
  BY DEF Leave
<1>2. Types'
  BY <1>1 DEF IInv, Types, server, loop, clock
<1>3. OneUnderWay(c)'
  BY <1>1 DEF IInv, Types, OneUnderWay
<1> QED BY <1>1, <1>2, <1>3, Others DEF IInv, Types

-----------------------------------------------------------------------------
LEMMA StepHolds == IInv /\ [Next]_vars => IInv'
<1> SUFFICES ASSUME IInv, [Next]_vars PROVE IInv'
  OBVIOUS
<1>1. CASE UNCHANGED vars
  <2>1. Types' /\ Ahead' /\ Counted'
    BY <1>1 DEF IInv, Types, Ahead, Counted, Pending, Unread, vars, server, loop, clock,
                client, net
  <2>2. published' = published /\ published \in Nat
    BY <1>1 DEF IInv, Types, vars, loop
  <2> QED BY <1>1, <2>1, <2>2, LoopHolds DEF vars
<1>2. CASE Tick \/ Restart \/ Simulation
  BY <1>2, ServerHolds, SimulationHolds
<1>3. ASSUME NEW c \in Conns, Accept(c) \/ Thread(c) \/ Client(c) PROVE IInv'
  BY <1>3, AcceptHolds, RecvHolds, RecvFailsHolds, ReplyHolds, CloseHolds, ConnectHolds,
     RequestHolds, ReadHolds, LeaveHolds DEF Thread, Client
<1> QED BY <1>1, <1>2, <1>3 DEF Next

THEOREM Invariant == Spec => []IInv
<1>1. Init => IInv
  BY InitHolds
<1> QED BY <1>1, StepHolds, PTL DEF Spec

(* A reading is one the server can show, and no more than one answer waits  *)
(* for a client (sntp_client_new.py:14-24, server_multithread.py:38-44).    *)
THEOREM TypeCorrect == Spec => []TypeOK
<1>1. IInv => TypeOK
  <2> SUFFICES ASSUME IInv PROVE TypeOK
    OBVIOUS
  <2>1. ASSUME NEW c \in Conns PROVE Len(answers[c]) <= 1
    <3>1. CASE answers[c] = <<>>
      BY <3>1
    <3>2. CASE Len(answers[c]) = 1
      <4>1. 1 <= 1
        OBVIOUS
      <4> QED BY <3>2, <4>1, Zenon
    <3> QED BY <3>1, <3>2 DEF IInv, OneUnderWay
  <2> QED BY <2>1 DEF IInv, Types, TypeOK
<1> QED BY <1>1, Invariant, PTL

(* The model does not run ahead of the time server, whatever requests fail  *)
(* and however often the server restarts: a step needs a change of the time *)
(* shown, unless get_time swallowed the timeout of its round                *)
(* (simulation.py:44-65, sntp_client_new.py:14-24).                         *)
THEOREM NotAheadHolds == Spec => []NotAhead
<1>1. IInv => NotAhead
  <2> SUFFICES ASSUME IInv PROVE published <= changes + repeated
    BY DEF NotAhead
  <2>1. published + Pending + Unread <= changes + repeated
    BY DEF IInv, Counted
  <2>2. Pending \in Nat /\ Unread \in Nat
    BY DEF Pending, Unread
  <2>3. published \in Nat /\ changes \in Nat /\ repeated \in Nat
    BY Constants DEF IInv, Types
  <2> QED BY <2>1, <2>2, <2>3
<1> QED BY <1>1, Invariant, PTL

-----------------------------------------------------------------------------
(* What is waited for is not lost but with its connection: the safety of    *)
(* PatientServed.                                                           *)

Owed(c) ==
  /\ conn[c] = "idle" => thread[c] = "none"
  /\ conn[c] = "open" => thread[c] # "ended"
  /\ asked[c] # Nothing => conn[c] = "closed" \/ (conn[c] = "open" /\ ~Idle(c))

LEMMA OwedInductive ==
  IInv /\ (\A c \in Conns : Owed(c)) /\ [Next]_vars => (\A c \in Conns : Owed(c))'
<1> SUFFICES ASSUME IInv, \A c \in Conns : Owed(c), [Next]_vars, NEW p \in Conns
             PROVE  Owed(p)'
  OBVIOUS
<1> USE Constants DEF loop, net, client
<1>0. /\ Owed(p) /\ OneUnderWay(p) /\ Types /\ answers[p] \in Seq(States)
  BY DEF IInv, Types
<1>a. ASSUME asked'[p] = asked[p], conn'[p] = conn[p], p \in pending' <=> p \in pending,
             answers'[p] = answers[p], thread'[p] = thread[p]
      PROVE  Owed(p)'
  BY <1>0, <1>a DEF Owed, Idle, Busy
<1>1. CASE Tick \/ Restart \/ Simulation \/ UNCHANGED vars
  BY <1>1, <1>a DEF Tick, Restart, Simulation, GetTime, GetTimeSwallows, TimeLost, TimeFails,
                    Check, SimulateTpm, SimulateTzco, Publish, vars
<1>2. ASSUME NEW c \in Conns \ {p}, Accept(c) \/ Thread(c) \/ Client(c) PROVE Owed(p)'
  <2>1. asked'[p] = asked[p] /\ conn'[p] = conn[p]
    BY <1>0, <1>2 DEF Accept, Thread, Recv, RecvFails, Reply, Close, Client, Connect,
                      Request, Read, Leave, Types
  <2>2. answers'[p] = answers[p]
    BY <1>0, <1>2 DEF Accept, Thread, Recv, RecvFails, Reply, Close, Client, Connect,
                      Request, Read, Leave, Types
  <2>3. p \in pending' <=> p \in pending
    BY <1>0, <1>2 DEF Accept, Thread, Recv, RecvFails, Reply, Close, Client, Connect,
                      Request, Read, Leave, Types
  <2>4. thread'[p] = thread[p]
    BY <1>0, <1>2 DEF Accept, Thread, Recv, RecvFails, Reply, Close, Client, Connect,
                      Request, Read, Leave, At, Types
  <2> QED BY <1>a, <2>1, <2>2, <2>3, <2>4
<1>3. CASE Accept(p) \/ RecvFails(p)
  <2>1. /\ asked' = asked /\ conn' = conn /\ answers' = answers /\ pending' = pending
        /\ thread[p] \in {"none", "recv"} /\ thread'[p] \in {"recv", "closing"}
        /\ conn[p] # "idle"
    <3>1. RecvFails(p) => conn[p] # "idle"
      BY <1>0 DEF RecvFails, At, Owed
    <3> QED BY <1>0, <1>3, <3>1 DEF Accept, RecvFails, At, Types
  <2> QED BY <1>0, <2>1 DEF Owed, Idle, Busy
<1>4. CASE Recv(p)
  <2>1. /\ thread[p] = "recv" /\ thread'[p] = "reply"
        /\ asked' = asked /\ conn' = conn
    BY <1>0, <1>4 DEF Recv, At, Types
  <2> QED BY <1>0, <2>1 DEF Owed, Idle, Busy
<1>5. CASE Reply(p)
  <2>1. asked' = asked /\ conn' = conn /\ thread'[p] # "ended" /\ conn[p] # "idle"
    BY <1>0, <1>5 DEF Reply, At, Types
  <2>2. CASE conn[p] = "open"
    <3>1. answers'[p] = Append(answers[p], state) /\ state \in States
      BY <1>0, <1>5, <2>2 DEF Reply, Types, States
    <3>2. answers'[p] # <<>>
      BY <1>0, <3>1
    <3> QED BY <1>0, <2>1, <2>2, <3>2 DEF Owed, Idle
  <2>3. CASE conn[p] # "open"
    BY <1>0, <2>1, <2>3 DEF Owed
  <2> QED BY <2>2, <2>3
<1>6. CASE Close(p)
  <2>1. /\ asked' = asked /\ thread[p] # "none"
        /\ conn'[p] = IF conn[p] = "open" THEN "closed" ELSE conn[p]
    BY <1>0, <1>6 DEF Close, At, Types
  <2> QED BY <1>0, <2>1 DEF Owed
<1>7. CASE Connect(p)
  <2>1. conn'[p] = "open" /\ asked' = asked /\ thread' = thread /\ conn[p] = "idle"
    BY <1>0, <1>7 DEF Connect, Types
  <2> QED BY <1>0, <2>1 DEF Owed
<1>8. CASE Request(p)
  <2>1. conn' = conn /\ thread' = thread /\ (conn[p] = "open" => p \in pending')
        /\ conn[p] \in {"open", "closed"}
    BY <1>8 DEF Request
  <2> QED BY <1>0, <2>1 DEF Owed, Idle
<1>9. CASE Read(p) \/ Leave(p)
  <2>1. asked'[p] = Nothing /\ thread' = thread /\ (conn' = conn \/ conn'[p] = "left")
    BY <1>0, <1>9 DEF Read, Leave, Types
  <2> QED BY <1>0, <2>1 DEF Owed
<1> QED BY <1>1, <1>2, <1>3, <1>4, <1>5, <1>6, <1>7, <1>8, <1>9 DEF Next, Thread, Client

(* A client that waits has its request, its thread or its answer to count   *)
(* on, or else finds the connection closed; the thread of an open           *)
(* connection has not ended (server_multithread.py:29, 38-49).              *)
THEOREM NeverForgotten == Spec => [](\A c \in Conns : Owed(c))
<1>1. Init => \A c \in Conns : Owed(c)
  BY DEF Init, Owed
<1> QED BY <1>1, OwedInductive, Invariant, PTL DEF Spec

-----------------------------------------------------------------------------
(* The server implements Snapshot. *)

LEMMA StepImplements ==
  ASSUME IInv, [Next]_vars
  PROVE  [Promise!Next]_<<TRUE, published, asked, got>>
<1>1. ASSUME Publish PROVE Promise!Publish
  BY <1>1 DEF Publish, Promise!Publish, client
<1>2. ASSUME NEW c \in Conns, Request(c) PROVE Promise!Ask(c)
  BY <1>2 DEF Request, Promise!Ask, loop
<1>3. ASSUME NEW c \in Conns, Leave(c) PROVE Promise!Leave(c)
  BY <1>3 DEF Leave, Promise!Leave, loop
<1>4. ASSUME NEW c \in Conns, Read(c) PROVE Promise!Answer(c)
  <2>1. /\ got' = [got EXCEPT ![c] = got'[c]] /\ got'[c] = Whole(Head(answers[c]))
        /\ asked' = [asked EXCEPT ![c] = Nothing] /\ UNCHANGED published
    BY <1>4 DEF Read, IInv, Types, loop
  <2> QED BY <1>4, <2>1, ReadEffect DEF Promise!Answer
<1>5. \/ UNCHANGED <<published, asked, got>>
      \/ Publish
      \/ \E c \in Conns : Request(c) \/ Leave(c) \/ Read(c)
  BY DEF Next, Tick, Restart, Simulation, GetTime, GetTimeSwallows, TimeLost, TimeFails, Check,
         SimulateTpm, SimulateTzco, Accept, Thread, Recv, RecvFails, Reply, Close, Client,
         Connect, vars, loop, client
<1> QED BY <1>1, <1>2, <1>3, <1>4, <1>5 DEF Promise!Next

(* Every answer is a published state, whole, and in force since the         *)
(* request, although no lock is taken: simulate changes its own             *)
(* dictionary, and the published one is replaced (simulation.py:78-82).     *)
THEOREM Implements == Spec => SnapshotSpec
<1>1. Init => Promise!Init
  BY DEF Init, Promise!Init
<1>2. IInv /\ [Next]_vars => [Promise!Next]_<<TRUE, published, asked, got>>
  BY StepImplements
<1> QED BY <1>1, <1>2, Invariant, PTL DEF Spec, SnapshotSpec, Promise!Spec
=============================================================================
