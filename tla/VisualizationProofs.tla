------------------------ MODULE VisualizationProofs -------------------------
(***************************************************************************)
(* The local visualization, for all variables, times, windows and answers. *)
(*                                                                         *)
(* What the loops over an answer compute is proved by induction over the   *)
(* records.  The library's induction theorems take a predicate, which no   *)
(* prover here can instantiate; SetInduction takes the set of the numbers  *)
(* that satisfy it.                                                        *)
(***************************************************************************)
EXTENDS Visualization, WellFoundedInduction, TLAPS

LEMMA Least ==
  ASSUME NEW T, T \subseteq Nat, T # {}
  PROVE  \E x \in T : \A y \in T : ~(y < x)
<1> DEFINE R == OpToRel(<, Nat)
<1>1. \A x, y \in Nat : y < x => <<y, x>> \in R
  BY DEF OpToRel
<1>2. IsWellFoundedOn(R, Nat)
  BY NatLessThanWellFounded
<1> HIDE DEF R
<1>3. PICK x \in T : \A y \in T : ~ (<<y, x>> \in R)
  BY <1>2, WFMin
<1> QED BY <1>1, <1>3

LEMMA SetInduction ==
  ASSUME NEW T, 0 \in T, \A n \in Nat : n \in T => n + 1 \in T
  PROVE  \A n \in Nat : n \in T
<1> DEFINE B == {n \in Nat : n \notin T}
<1> SUFFICES ASSUME B # {} PROVE FALSE
  OBVIOUS
<1>1. PICK x \in B : \A y \in B : ~(y < x)
  BY Least
<1>2. x - 1 \in Nat /\ x = (x - 1) + 1
  BY <1>1
<1> QED BY <1>1, <1>2

(* A loop that carries a value through n rounds computes a value. *)
IsRun(f, A, a, n, F) ==
  /\ f \in [0 .. n -> A]
  /\ f[0] = a
  /\ \A k \in 1 .. n : f[k] = F[k][f[k - 1]]

LEMMA Loop ==
  ASSUME NEW A, NEW a \in A, NEW n \in Nat, NEW F \in [1 .. n -> [A -> A]]
  PROVE  \E f : IsRun(f, A, a, n, F)
<1> DEFINE Runs(m) == \E f \in [0 .. m -> A] :
                        f[0] = a /\ \A k \in 1 .. m : f[k] = F[k][f[k - 1]]
           T == {m \in Nat : m <= n => Runs(m)}
<1>1. 0 \in T
  <2> DEFINE f == [k \in 0 .. 0 |-> a]
  <2>1. f \in [0 .. 0 -> A] /\ f[0] = a /\ \A k \in 1 .. 0 : f[k] = F[k][f[k - 1]]
    OBVIOUS
  <2>2. Runs(0)
    BY <2>1
  <2> QED BY <2>2
<1>2. ASSUME NEW m \in Nat, m \in T, m + 1 <= n PROVE Runs(m + 1)
  <2>1. PICK f \in [0 .. m -> A] : f[0] = a /\ \A k \in 1 .. m : f[k] = F[k][f[k - 1]]
    <3>1. Runs(m)
      BY <1>2
    <3> QED BY <3>1
  <2> DEFINE g == [k \in 0 .. m + 1 |-> IF k = m + 1 THEN F[m + 1][f[m]] ELSE f[k]]
  <2>2. F[m + 1] \in [A -> A] /\ f[m] \in A
    BY <1>2
  <2>3. F[m + 1][f[m]] \in A
    BY <2>2
  <2>4. g \in [0 .. m + 1 -> A]
    BY <2>3
  <2>5. g[0] = a
    BY <2>1
  <2>6. ASSUME NEW k \in 1 .. m + 1 PROVE g[k] = F[k][g[k - 1]]
    <3>1. CASE k = m + 1
      BY <3>1
    <3>2. CASE k # m + 1
      <4>1. k \in 1 .. m /\ k - 1 \in 0 .. m /\ k - 1 # m + 1 /\ k \in 0 .. m
        BY <2>6, <3>2
      <4>2. g[k] = f[k] /\ g[k - 1] = f[k - 1]
        BY <4>1
      <4> QED BY <2>1, <4>1, <4>2
    <3> QED BY <3>1, <3>2
  <2> HIDE DEF g
  <2> QED BY <2>4, <2>5, <2>6
<1>3. \A m \in Nat : m \in T => m + 1 \in T
  <2> SUFFICES ASSUME NEW m \in Nat, m \in T, m + 1 <= n PROVE Runs(m + 1)
    OBVIOUS
  <2> HIDE DEF T, Runs
  <2> QED BY <1>2
<1>4. n \in T
  <2> HIDE DEF T
  <2> QED BY <1>1, <1>3, SetInduction
<1> QED BY <1>4 DEF IsRun

(* What the rounds keep holds of the result. *)
LEMMA LoopKeeps ==
  ASSUME NEW n \in Nat, NEW g, NEW S, g[0] \in S[0],
         \A k \in 1 .. n : g[k - 1] \in S[k - 1] => g[k] \in S[k]
  PROVE  g[n] \in S[n]
<1> DEFINE T == {m \in Nat : m <= n => g[m] \in S[m]}
<1>1. 0 \in T
  OBVIOUS
<1>2. ASSUME NEW m \in Nat, m \in T PROVE m + 1 \in T
  <2> SUFFICES ASSUME m + 1 <= n PROVE g[m + 1] \in S[m + 1]
    OBVIOUS
  <2>1. m + 1 \in 1 .. n /\ (m + 1) - 1 = m
    OBVIOUS
  <2>2. g[m] \in S[m]
    BY <1>2
  <2> QED BY <2>1, <2>2
<1>3. n \in T
  <2> HIDE DEF T
  <2> QED BY <1>1, <1>2, SetInduction
<1> QED BY <1>3

LEMMA Appended ==
  ASSUME NEW S, NEW s \in Seq(S), NEW x \in S
  PROVE  /\ Append(s, x) \in Seq(S)
         /\ Len(Append(s, x)) = Len(s) + 1
         /\ Append(s, x)[Len(s) + 1] = x
         /\ \A k \in 1 .. Len(s) : Append(s, x)[k] = s[k]
  OBVIOUS

LEMMA Empty ==
  ASSUME NEW S, NEW s \in Seq(S), 1 .. Len(s) = {}
  PROVE  s = <<>>
<1>1. Len(s) \in Nat
  OBVIOUS
<1>2. ASSUME Len(s) # 0 PROVE FALSE
  <2>1. 1 \in 1 .. Len(s)
    BY <1>1, <1>2
  <2> QED BY <2>1
<1> QED BY <1>2

LEMMA Nothing == \A S : <<>> \in Seq(S) /\ Len(<<>>) = 0
  OBVIOUS

-----------------------------------------------------------------------------
(* The station's search gives records of the table between the two times. *)

Found(table, from, to) ==
  {s \in Seq(Point) :
     \A m \in 1 .. Len(s) :
       \E n \in 1 .. Len(table) :
         s[m] = table[n] /\ from <= table[n].timestamp /\ table[n].timestamp <= to}

LEMMA BetweenFinds ==
  ASSUME NEW table \in Seq(Point), NEW from, NEW to
  PROVE  /\ Between(table, from, to) \in Found(table, from, to)
         /\ Len(Between(table, from, to)) <= Len(table)
<1> DEFINE within(n) == from <= table[n].timestamp /\ table[n].timestamp <= to
           step(s, n) == IF within(n) THEN Append(s, table[n]) ELSE s
           F == [n \in 1 .. Len(table) |-> [s \in Seq(Point) |-> step(s, n)]]
           Data(g) == g = [n \in 0 .. Len(table) |-> IF n = 0 THEN <<>> ELSE step(g[n - 1], n)]
           data == CHOOSE g : Data(g)
<1>1. \A n \in 1 .. Len(table) : table[n] \in Point
  OBVIOUS
<1>2. F \in [1 .. Len(table) -> [Seq(Point) -> Seq(Point)]]
  BY <1>1, Appended
<1>3. PICK f \in [0 .. Len(table) -> Seq(Point)] :
        f[0] = <<>> /\ \A k \in 1 .. Len(table) : f[k] = F[k][f[k - 1]]
  <2> DEFINE A == Seq(Point)
  <2>1. <<>> \in A /\ Len(table) \in Nat /\ F \in [1 .. Len(table) -> [A -> A]]
    BY <1>2
  <2> HIDE DEF F, A
  <2>2. \E f : IsRun(f, A, <<>>, Len(table), F)
    BY <2>1, Loop
  <2> QED BY <2>2 DEF A, IsRun
<1>4. Data(f)
  <2>1. ASSUME NEW k \in 1 .. Len(table) PROVE f[k] = step(f[k - 1], k)
    <3>1. f[k - 1] \in Seq(Point)
      OBVIOUS
    <3> HIDE DEF step
    <3> QED BY <1>3, <3>1
  <2> HIDE DEF step
  <2> QED BY <1>3, <2>1
<1>5. Data(data)
  <2> HIDE DEF Data
  <2> QED BY <1>4
<1>6. /\ data[0] = <<>>
      /\ \A k \in 1 .. Len(table) : data[k] = step(data[k - 1], k)
  <2> HIDE DEF data, step
  <2> QED BY <1>5
<1>7. Between(table, from, to) = data[Len(table)]
  BY DEF Between
<1> DEFINE S == [k \in 0 .. Len(table) |-> {s \in Found(table, from, to) : Len(s) <= k}]
<1>8. data[0] \in S[0]
  BY <1>6, Nothing DEF Found
<1>9. ASSUME NEW k \in 1 .. Len(table), data[k - 1] \in S[k - 1] PROVE data[k] \in S[k]
  <2> HIDE DEF data
  <2>1. data[k - 1] \in Found(table, from, to) /\ Len(data[k - 1]) <= k - 1
    BY <1>9
  <2>2. data[k - 1] \in Seq(Point) /\ Len(data[k - 1]) \in Nat
    BY <2>1 DEF Found
  <2>3. CASE ~within(k)
    <3>1. data[k] = data[k - 1]
      BY <1>6, <2>3
    <3> QED BY <2>1, <2>2, <3>1
  <2>4. CASE within(k)
    <3>1. data[k] = Append(data[k - 1], table[k])
      BY <1>6, <2>4
    <3> DEFINE s == data[k - 1]
               t == Append(s, table[k])
    <3>2. /\ t \in Seq(Point) /\ Len(t) = Len(s) + 1 /\ t[Len(s) + 1] = table[k]
          /\ \A m \in 1 .. Len(s) : t[m] = s[m]
      BY <1>1, <2>2, Appended
    <3> HIDE DEF t
    <3>3. ASSUME NEW m \in 1 .. Len(t)
          PROVE  \E n \in 1 .. Len(table) : t[m] = table[n] /\ within(n)
      <4>1. CASE m = Len(s) + 1
        BY <2>4, <3>2, <4>1
      <4>2. CASE m # Len(s) + 1
        <5>1. m \in 1 .. Len(s) /\ t[m] = s[m]
          BY <2>2, <3>2, <3>3, <4>2
        <5> QED BY <2>1, <5>1 DEF Found
      <4> QED BY <4>1, <4>2
    <3>4. t \in Found(table, from, to) /\ Len(t) <= k
      BY <2>1, <2>2, <3>2, <3>3 DEF Found
    <3>5. data[k] = t
      BY <3>1 DEF t
    <3> QED BY <3>4, <3>5
  <2> QED BY <2>3, <2>4
<1>10. data[Len(table)] \in S[Len(table)]
  <2> HIDE DEF data, S
  <2>1. Len(table) \in Nat
    OBVIOUS
  <2> QED BY <1>8, <1>9, <2>1, LoopKeeps
<1> HIDE DEF data
<1> QED BY <1>7, <1>10

-----------------------------------------------------------------------------
(* Drawing an answer keeps the curve's times rising and adds records of the *)
(* answer only.                                                             *)

Rising(s) == \A m, n \in 1 .. Len(s) : m < n => s[m].timestamp < s[n].timestamp

Within(s, records) ==
  \A m \in 1 .. Len(s) : \E n \in 1 .. Len(records) : s[m] = records[n]

LEMMA TimesAreNat == \A p \in Point : p.timestamp \in Nat
  BY VisualizationAssumption DEF Point

(* A newer point at the end of a curve. *)
LEMMA OneMore ==
  ASSUME NEW s \in Seq(Point), s # <<>>, Rising(s), NEW r \in Point, Newer(s, r)
  PROVE  Rising(Append(s, r))
<1> DEFINE t == Append(s, r)
<1>1. /\ t \in Seq(Point) /\ Len(t) = Len(s) + 1 /\ t[Len(s) + 1] = r
      /\ \A k \in 1 .. Len(s) : t[k] = s[k]
  BY Appended
<1>2. Len(s) \in Nat \ {0} /\ s[Len(s)].timestamp < r.timestamp
  BY DEF Newer, Last
<1>3. \A k \in 1 .. Len(s) : s[k] \in Point
  OBVIOUS
<1> HIDE DEF t
<1>4. ASSUME NEW m \in 1 .. Len(t), NEW n \in 1 .. Len(t), m < n
      PROVE  t[m].timestamp < t[n].timestamp
  <2>1. m \in 1 .. Len(s) /\ t[m] = s[m] /\ s[m].timestamp \in Nat
    BY <1>1, <1>2, <1>3, <1>4, TimesAreNat
  <2>2. CASE n = Len(s) + 1
    <3>1. s[m].timestamp <= s[Len(s)].timestamp
      BY <1>2, <1>3, <2>1, TimesAreNat DEF Rising
    <3>2. s[Len(s)].timestamp \in Nat /\ r.timestamp \in Nat
      BY <1>2, <1>3, TimesAreNat
    <3> QED BY <1>1, <1>2, <2>1, <2>2, <3>1, <3>2
  <2>3. CASE n # Len(s) + 1
    <3>1. n \in 1 .. Len(s) /\ t[n] = s[n]
      BY <1>1, <1>2, <1>4, <2>3
    <3> QED BY <1>4, <2>1, <3>1 DEF Rising
  <2> QED BY <2>2, <2>3
<1> QED BY <1>4 DEF Rising, t

(* The curves that drawing may come to. *)
Drawings(tab, recs) ==
  {s \in Seq(Point) :
     /\ s # <<>> /\ Rising(s)
     /\ \A m \in 1 .. Len(s) :
          \/ \E n \in 1 .. Len(tab) : s[m] = tab[n]
          \/ \E n \in 1 .. Len(recs) : s[m] = recs[n]}

LEMMA ExtendDraws ==
  ASSUME NEW tab \in Seq(Point), tab # <<>>, Rising(tab), NEW recs \in Seq(Point)
  PROVE  Extend(tab, recs) \in Drawings(tab, recs)
<1> DEFINE step(s, n) == IF Newer(s, recs[n]) THEN Append(s, recs[n]) ELSE s
           F == [n \in 1 .. Len(recs) |-> [s \in Seq(Point) |-> step(s, n)]]
           Data(g) == g = [n \in 0 .. Len(recs) |-> IF n = 0 THEN tab ELSE step(g[n - 1], n)]
           drawn == CHOOSE g : Data(g)
<1>1. Len(recs) \in Nat /\ \A n \in 1 .. Len(recs) : recs[n] \in Point
  OBVIOUS
<1>2. PICK f : IsRun(f, Seq(Point), tab, Len(recs), F)
  <2> DEFINE A == Seq(Point)
  <2>1. tab \in A /\ F \in [1 .. Len(recs) -> [A -> A]]
    BY <1>1, Appended
  <2> HIDE DEF F, A
  <2>2. \E f : IsRun(f, A, tab, Len(recs), F)
    BY <1>1, <2>1, Loop
  <2> QED BY <2>2 DEF A
<1>3. Data(f)
  <2>1. ASSUME NEW k \in 1 .. Len(recs) PROVE f[k] = step(f[k - 1], k)
    <3>1. f[k - 1] \in Seq(Point) /\ f[k] = F[k][f[k - 1]]
      <4> HIDE DEF F
      <4>1. k - 1 \in 0 .. Len(recs)
        BY <1>1
      <4> QED BY <1>2, <4>1 DEF IsRun
    <3>2. F[k] = [s \in Seq(Point) |-> step(s, k)]
      OBVIOUS
    <3> HIDE DEF step, F
    <3> QED BY <3>1, <3>2, Zenon
  <2> HIDE DEF step
  <2> QED BY <1>2, <2>1 DEF IsRun
<1>4. Data(drawn)
  <2> HIDE DEF Data
  <2> QED BY <1>3
<1>5. drawn[0] = tab /\ \A k \in 1 .. Len(recs) : drawn[k] = step(drawn[k - 1], k)
  <2>1. drawn = [n \in 0 .. Len(recs) |-> IF n = 0 THEN tab ELSE step(drawn[n - 1], n)]
    BY <1>4
  <2>2. 0 \in 0 .. Len(recs) /\ \A k \in 1 .. Len(recs) : k \in 0 .. Len(recs) /\ k # 0
    BY <1>1
  <2> HIDE DEF drawn, step
  <2> QED BY <2>1, <2>2, Zenon
<1>6. Extend(tab, recs) = drawn[Len(recs)]
  BY DEF Extend
<1> DEFINE S == [k \in 0 .. Len(recs) |-> Drawings(tab, recs)]
<1>7. drawn[0] \in S[0]
  <2> HIDE DEF drawn
  <2>1. tab \in Drawings(tab, recs)
    BY DEF Drawings
  <2> QED BY <1>1, <1>5, <2>1
<1>8. ASSUME NEW k \in 1 .. Len(recs), drawn[k - 1] \in S[k - 1] PROVE drawn[k] \in S[k]
  <2> HIDE DEF drawn
  <2> DEFINE s == drawn[k - 1]
             r == recs[k]
  <2>1. s \in Drawings(tab, recs) /\ s \in Seq(Point) /\ s # <<>> /\ Rising(s) /\ r \in Point
    <3>1. s \in Drawings(tab, recs)
      BY <1>1, <1>8
    <3> QED BY <1>1, <3>1 DEF Drawings
  <2>2. CASE ~Newer(s, r)
    <3>1. drawn[k] = s
      BY <1>5, <2>2
    <3> QED BY <2>1, <3>1
  <2>3. CASE Newer(s, r)
    <3> DEFINE t == Append(s, r)
    <3>1. drawn[k] = t
      BY <1>5, <2>3
    <3>2. /\ t \in Seq(Point) /\ Len(t) = Len(s) + 1 /\ t[Len(s) + 1] = r
          /\ \A m \in 1 .. Len(s) : t[m] = s[m]
      BY <2>1, Appended
    <3>3. t # <<>>
      BY <2>1, <3>2
    <3>4. Rising(t)
      BY <2>1, <2>3, OneMore
    <3> HIDE DEF t
    <3>5. ASSUME NEW m \in 1 .. Len(t)
          PROVE  \/ \E n \in 1 .. Len(tab) : t[m] = tab[n]
                 \/ \E n \in 1 .. Len(recs) : t[m] = recs[n]
      <4>1. CASE m = Len(s) + 1
        BY <3>2, <4>1
      <4>2. CASE m # Len(s) + 1
        <5>1. m \in 1 .. Len(s) /\ t[m] = s[m]
          BY <2>1, <3>2, <3>5, <4>2
        <5> QED BY <2>1, <5>1 DEF Drawings
      <4> QED BY <4>1, <4>2
    <3>6. t \in Drawings(tab, recs)
      BY <3>2, <3>3, <3>4, <3>5 DEF Drawings
    <3> QED BY <3>1, <3>6
  <2> QED BY <2>2, <2>3
<1>9. drawn[Len(recs)] \in S[Len(recs)]
  <2> HIDE DEF drawn, S
  <2> QED BY <1>1, <1>7, <1>8, LoopKeeps
<1> HIDE DEF drawn
<1> QED BY <1>1, <1>6, <1>9

(* The last points of a curve. *)
LEMMA TrimKeeps ==
  ASSUME NEW s \in Seq(Point), Rising(s)
  PROVE  /\ Trim(s) \in Seq(Point) /\ Len(Trim(s)) <= Window
         /\ Rising(Trim(s)) /\ Within(Trim(s), s)
<1>1. Window \in Nat \ {0} /\ Len(s) \in Nat
  BY VisualizationAssumption
<1>2. CASE Len(s) <= Window
  BY <1>1, <1>2 DEF Trim, Within
<1>3. CASE Len(s) > Window
  <2> DEFINE d == Len(s) - Window
             t == SubSeq(s, d + 1, Len(s))
  <2>1. d \in Nat /\ d <= Len(s)
    BY <1>1, <1>3
  <2>2. /\ t \in Seq(Point) /\ Len(t) = Len(s) - d
        /\ \A m \in 1 .. Len(s) - d : t[m] = s[d + m]
    <3> HIDE DEF d
    <3> QED BY <2>1
  <2>3. Trim(s) = t
    BY <1>3 DEF Trim
  <2> HIDE DEF t
  <2>4. Len(t) = Window
    BY <1>1, <2>2
  <2>5. \A m \in 1 .. Len(t) : t[m] = s[d + m] /\ d + m \in 1 .. Len(s)
    BY <1>1, <1>3, <2>2
  <2>6. Rising(t)
    <3> SUFFICES ASSUME NEW m \in 1 .. Len(t), NEW n \in 1 .. Len(t), m < n
                 PROVE  t[m].timestamp < t[n].timestamp
      BY DEF Rising
    <3>1. d + m < d + n
      BY <1>1, <2>1, <2>4
    <3> HIDE DEF d
    <3> QED BY <2>5, <3>1 DEF Rising
  <2>7. Within(t, s)
    BY <2>5 DEF Within
  <2> QED BY <1>1, <2>2, <2>3, <2>4, <2>6, <2>7
<1> QED BY <1>1, <1>2, <1>3

-----------------------------------------------------------------------------
(* The inductive invariant.  A curve of two points or more is asked for by  *)
(* positions, which end before any time a record has: it is given nothing.  *)

Types ==
  /\ log \in [Vars -> Seq(Point)] /\ \A v \in Vars : Len(log[v]) <= MaxLog[v]
  /\ Tab \in [Curves -> Seq(Point)] /\ \A c \in Curves : Len(Tab[c]) <= Window
  /\ pc \in {"timer", "ask", "wait", "save", "plot", "raised", "exited"}
  /\ i \in Curves
  /\ query.table \in Vars /\ query.from <= Window /\ query.to <= Window + Ahead
  /\ dane \in Seq(Point) /\ \E v \in Vars : Len(dane) <= MaxLog[v]

Drawn == \A c \in Curves : Rising(Tab[c]) /\ Within(Tab[c], log[Names[c]])

Asked ==
  pc = "wait" =>
    /\ query.table = Names[i] /\ query.kind \in {"GET", "RANGE"}
    /\ Len(Tab[i]) >= 2 =>
         query.kind = "RANGE" /\ query.to \in Nat /\ query.to < Window + Ahead

Given ==
  pc = "save" =>
    /\ Within(dane, log[Names[i]])
    /\ Len(Tab[i]) >= 2 => dane = <<>>

IInv == Types /\ Drawn /\ Asked /\ Given

LEMMA Constants ==
  /\ Ahead \in Nat /\ Window \in Nat \ {0} /\ MaxLog \in [Vars -> Nat]
  /\ Curves = 1 .. Len(Names) /\ Len(Names) \in Nat \ {0}
  /\ \A c \in Curves : Names[c] \in Vars
<1>1. Names \in Seq(Vars) /\ Names # <<>>
  BY VisualizationAssumption
<1>2. DOMAIN Names = 1 .. Len(Names) /\ Len(Names) \in Nat \ {0}
  BY <1>1
<1>3. \A c \in 1 .. Len(Names) : Names[c] \in Vars
  BY <1>1
<1> QED BY <1>2, <1>3, VisualizationAssumption DEF Curves

(* In a curve whose times rise the last point's time is at its position. *)
LEMMA LastIsAtItsPosition ==
  ASSUME NEW s \in Seq(Point), s # <<>>, Rising(s)
  PROVE  LastIndex(s) = Len(s) - 1
<1>1. Len(s) \in Nat \ {0} /\ \A k \in 1 .. Len(s) : s[k] \in Point
  OBVIOUS
<1>2. \A k \in 1 .. Len(s) : s[k].timestamp = s[Len(s)].timestamp => k = Len(s)
  BY <1>1, TimesAreNat DEF Rising
<1> DEFINE I == {k \in 1 .. Len(s) : s[k].timestamp = s[Len(s)].timestamp}
<1>3. I = {Len(s)}
  BY <1>1, <1>2
<1>4. Min({Len(s)}) = Len(s)
  BY <1>1 DEF Min
<1>5. LastIndex(s) = (IF I # {} THEN Min(I) ELSE 0) - 1
  BY DEF LastIndex, SelectInSeq, Last
<1> HIDE DEF I
<1> QED BY <1>1, <1>3, <1>4, <1>5

LEMMA SearchFits ==
  ASSUME Types, Drawn, NEW c \in Curves, NEW q, q = Search(c)
  PROVE  /\ q.table = Names[c] /\ q.kind \in {"GET", "RANGE"}
         /\ q.from <= Window /\ q.to <= Window + Ahead
         /\ Len(Tab[c]) >= 2 =>
              q.kind = "RANGE" /\ q.to \in Nat /\ q.to < Window + Ahead
<1>1. Tab[c] \in Seq(Point) /\ Len(Tab[c]) \in Nat /\ Len(Tab[c]) <= Window /\ Rising(Tab[c])
  BY DEF Types, Drawn
<1>2. CASE Tab[c] = <<>> \/ LastIndex(Tab[c]) = 0
  <2>1. ~(Len(Tab[c]) >= 2)
    <3>1. CASE Tab[c] = <<>>
      BY <3>1
    <3>2. CASE Tab[c] # <<>>
      <4>1. Len(Tab[c]) - 1 = 0
        BY <1>1, <1>2, <3>2, LastIsAtItsPosition
      <4>2. \A n \in Nat : n - 1 = 0 => ~(n >= 2)
        OBVIOUS
      <4> QED BY <1>1, <4>1, <4>2, Zenon
    <3> QED BY <3>1, <3>2
  <2>2. q = [kind |-> "GET", table |-> Names[c], from |-> 0, to |-> 0]
    BY <1>2, Zenon DEF Search, Whole, jaka_zmienna
  <2> QED BY <2>1, <2>2, Constants
<1>3. CASE Tab[c] # <<>> /\ LastIndex(Tab[c]) # 0
  <2> DEFINE n == LastIndex(Tab[c])
  <2>1. n = Len(Tab[c]) - 1 /\ n \in Nat /\ n < Window
    BY <1>1, <1>3, LastIsAtItsPosition, Constants
  <2>2. q = [kind |-> "RANGE", table |-> Names[c], from |-> n, to |-> n + Ahead]
    BY <1>3, Zenon DEF Search, jaka_zmienna
  <2> HIDE DEF n
  <2> QED BY <2>1, <2>2, Constants
<1> QED BY <1>2, <1>3

(* No record is as old as a position. *)
LEMMA NothingThatOld ==
  ASSUME NEW table \in Seq(Point), NEW from, NEW to \in Nat, to < Window + Ahead
  PROVE  Between(table, from, to) = <<>>
<1> DEFINE s == Between(table, from, to)
<1>1. s \in Found(table, from, to)
  BY BetweenFinds
<1> HIDE DEF s
<1>2. s \in Seq(Point)
  BY <1>1 DEF Found
<1>3. \A n \in 1 .. Len(table) : ~(table[n].timestamp <= to)
  <2>1. \A n \in 1 .. Len(table) : table[n] \in Point
    OBVIOUS
  <2>2. \A p \in Point : p.timestamp \in Nat /\ p.timestamp >= Window + Ahead
    BY VisualizationAssumption DEF Point
  <2>3. Window + Ahead \in Nat
    BY Constants
  <2> QED BY <2>1, <2>2, <2>3
<1>4. 1 .. Len(s) = {}
  <2>1. ASSUME NEW m \in 1 .. Len(s) PROVE FALSE
    BY <1>1, <1>3 DEF Found
  <2> QED BY <2>1
<1>5. s = <<>>
  BY <1>2, <1>4, Empty
<1> QED BY <1>5 DEF s

-----------------------------------------------------------------------------
(* The steps *)

LEMMA InitHolds == Init => IInv
<1> SUFFICES ASSUME Init PROVE IInv
  OBVIOUS
<1>1. 1 \in Curves /\ Names[1] \in Vars
  BY Constants
<1>2. \A v \in Vars : log[v] = <<>> /\ 0 <= MaxLog[v]
  BY Constants DEF Init
<1>3. \A c \in Curves : Tab[c] = <<>>
  BY DEF Init
<1>4. log \in [Vars -> Seq(Point)] /\ Tab \in [Curves -> Seq(Point)]
  BY Nothing DEF Init
<1>5. /\ query.table = Names[1] /\ query.from = 0 /\ query.to = 0
      /\ pc = "timer" /\ i = 1 /\ dane = <<>>
  BY DEF Init, Whole, jaka_zmienna, Error
<1>6. Types
  <2>1. \A v \in Vars : Len(log[v]) <= MaxLog[v]
    BY <1>2, Nothing
  <2>2. \A c \in Curves : Len(Tab[c]) <= Window
    BY <1>3, Nothing, Constants
  <2>3. dane \in Seq(Point) /\ Len(dane) <= MaxLog[Names[1]]
    BY <1>1, <1>2, <1>5, Nothing
  <2> QED BY <1>1, <1>4, <1>5, <2>1, <2>2, <2>3, Constants DEF Types
<1>7. Drawn
  BY <1>3, Nothing DEF Drawn, Rising, Within
<1> QED BY <1>5, <1>6, <1>7 DEF IInv, Asked, Given

(* The steps that draw nothing and log nothing. *)
LEMMA AnimateHolds ==
  ASSUME IInv, animate \/ Plot \/ KeyError
  PROVE  IInv'
<1>1. /\ UNCHANGED <<log, Tab, i, query, dane>>
      /\ pc' \in {"timer", "ask", "raised", "exited"}
  BY DEF animate, Plot, KeyError
<1> QED BY <1>1 DEF IInv, Types, Drawn, Asked, Given, Rising, Within

LEMMA AskHolds ==
  ASSUME IInv, pobier_dane
  PROVE  IInv'
<1>1. /\ UNCHANGED <<log, Tab, i, dane>> /\ pc' = "wait" /\ query' = Search(i)
  BY DEF pobier_dane
<1>2. /\ query'.table = Names[i] /\ query'.kind \in {"GET", "RANGE"}
      /\ query'.from <= Window /\ query'.to <= Window + Ahead
      /\ Len(Tab[i]) >= 2 =>
           query'.kind = "RANGE" /\ query'.to \in Nat /\ query'.to < Window + Ahead
  BY <1>1, SearchFits DEF IInv, Types
<1>3. Names[i] \in Vars
  BY Constants DEF IInv, Types
<1>4. Types'
  BY <1>1, <1>2, <1>3 DEF IInv, Types
<1>5. Drawn'
  BY <1>1 DEF IInv, Drawn, Rising, Within
<1>6. Asked' /\ Given'
  BY <1>1, <1>2 DEF Asked, Given
<1> QED BY <1>4, <1>5, <1>6 DEF IInv

LEMMA AnswerHolds ==
  ASSUME IInv, Answer
  PROVE  IInv'
<1> DEFINE table == log[Names[i]]
<1>1. /\ UNCHANGED <<log, Tab, i, query>> /\ pc' = "save"
      /\ query.table = Names[i] /\ dane' = get_from_db(table, query)
      /\ query.kind \in {"GET", "RANGE"}
  BY DEF Answer, IInv, Asked
<1>2. Names[i] \in Vars /\ table \in Seq(Point) /\ Len(table) <= MaxLog[Names[i]]
  BY Constants DEF IInv, Types
<1>3. Len(table) \in Nat /\ MaxLog[Names[i]] \in Nat
  BY <1>2, Constants
<1> HIDE DEF table
<1>4. dane' = <<>> \/ \E from, to : dane' = Between(table, from, to)
  BY <1>1 DEF get_from_db, Error
<1>5. dane' \in Seq(Point) /\ Within(dane', table) /\ Len(dane') <= MaxLog[Names[i]]
  <2>1. CASE dane' = <<>>
    BY <1>3, <2>1, Nothing DEF Within
  <2>2. ASSUME NEW from, NEW to, dane' = Between(table, from, to)
        PROVE  dane' \in Seq(Point) /\ Within(dane', table) /\ Len(dane') <= MaxLog[Names[i]]
    <3>1. dane' \in Found(table, from, to) /\ Len(dane') <= Len(table)
      BY <1>2, <2>2, BetweenFinds
    <3>2. dane' \in Seq(Point) /\ Within(dane', table)
      BY <3>1 DEF Found, Within
    <3>3. Len(dane') \in Nat
      BY <3>2
    <3> QED BY <1>2, <1>3, <3>1, <3>2, <3>3
  <2> QED BY <1>4, <2>1, <2>2
<1>6. Len(Tab[i]) >= 2 => dane' = <<>>
  <2> SUFFICES ASSUME Len(Tab[i]) >= 2 PROVE dane' = <<>>
    OBVIOUS
  <2>1. query.kind = "RANGE" /\ query.to \in Nat /\ query.to < Window + Ahead
    BY DEF Answer, IInv, Asked
  <2>2. dane' = Between(table, query.from, query.to)
    BY <1>1, <2>1 DEF get_from_db
  <2> QED BY <1>2, <2>1, <2>2, NothingThatOld
<1>7. Types'
  BY <1>1, <1>2, <1>5 DEF IInv, Types
<1>8. Drawn'
  BY <1>1 DEF IInv, Drawn, Rising, Within
<1>9. Asked' /\ Given'
  BY <1>1, <1>5, <1>6 DEF Asked, Given, Within, table
<1> QED BY <1>7, <1>8, <1>9 DEF IInv

(* A curve that is refreshed. *)
LEMMA Refreshed ==
  ASSUME NEW tab \in Seq(Point), Rising(tab), NEW recs \in Seq(Point),
         tab # <<>> \/ Len(recs) >= 2, NEW records,
         Within(tab, records), Within(recs, records),
         NEW t, t = Trim(Extend(Start(tab, recs), recs))
  PROVE  /\ t \in Seq(Point) /\ Len(t) <= Window
         /\ Rising(t) /\ Within(t, records)
<1> DEFINE first == Start(tab, recs)
           drawn == Extend(first, recs)
<1>1. /\ first \in Seq(Point) /\ first # <<>> /\ Rising(first)
      /\ Within(first, records)
  <2>1. CASE tab # <<>>
    BY <2>1 DEF Start
  <2>2. CASE tab = <<>>
    <3>1. recs[2] \in Point /\ 2 \in 1 .. Len(recs)
      BY <2>2
    <3>2. first = <<recs[2]>>
      BY <2>2 DEF Start
    <3>3. /\ first \in Seq(Point) /\ Len(first) = 1 /\ first[1] = recs[2]
      BY <3>1, <3>2
    <3> HIDE DEF first
    <3>4. first # <<>> /\ \A m \in 1 .. Len(first) : m = 1
      <4>1. 0 # 1 /\ \A m \in 1 .. 1 : m = 1
        OBVIOUS
      <4> QED BY <3>3, <4>1, Nothing, Zenon
    <3>5. Rising(first)
      BY <3>4 DEF Rising
    <3>6. Within(first, records)
      BY <3>1, <3>3, <3>4 DEF Within
    <3> QED BY <3>3, <3>4, <3>5, <3>6
  <2> QED BY <2>1, <2>2
<1> HIDE DEF first
<1>2. drawn \in Drawings(first, recs)
  BY <1>1, ExtendDraws
<1> HIDE DEF drawn
<1>3. drawn \in Seq(Point) /\ Rising(drawn)
  BY <1>2 DEF Drawings
<1>4. Within(drawn, records)
  <2> SUFFICES ASSUME NEW m \in 1 .. Len(drawn)
               PROVE  \E n \in 1 .. Len(records) : drawn[m] = records[n]
    BY DEF Within
  <2>1. \/ \E n \in 1 .. Len(first) : drawn[m] = first[n]
        \/ \E n \in 1 .. Len(recs) : drawn[m] = recs[n]
    BY <1>2 DEF Drawings
  <2>2. CASE \E n \in 1 .. Len(first) : drawn[m] = first[n]
    BY <1>1, <2>2 DEF Within
  <2>3. CASE \E n \in 1 .. Len(recs) : drawn[m] = recs[n]
    BY <2>3 DEF Within
  <2> QED BY <2>1, <2>2, <2>3
<1>5. t = Trim(drawn)
  BY DEF drawn, first
<1>6. /\ t \in Seq(Point) /\ Len(t) <= Window /\ Rising(t) /\ Within(t, drawn)
  BY <1>3, <1>5, TrimKeeps
<1>7. Within(t, records)
  BY <1>4, <1>6 DEF Within
<1> QED BY <1>6, <1>7

(* A curve of two points or more is left alone. *)
LEMMA SaveStays ==
  ASSUME IInv, zapisz_dane, NEW c \in Curves, Len(Tab[c]) >= 2
  PROVE  Tab'[c] = Tab[c]
<1>1. CASE dane = <<>>
  BY <1>1 DEF zapisz_dane
<1>2. CASE dane # <<>>
  <2>1. c # i
    BY <1>2 DEF zapisz_dane, IInv, Given
  <2> QED BY <1>2, <2>1 DEF zapisz_dane, IInv, Types
<1> QED BY <1>1, <1>2

LEMMA SaveHolds ==
  ASSUME IInv, zapisz_dane
  PROVE  IInv'
<1>1. /\ UNCHANGED <<log, query, dane>> /\ pc = "save"
      /\ i' \in Curves /\ pc' \in {"ask", "plot"}
  BY Constants DEF zapisz_dane, NextCurve, IInv, Types
<1>2. ASSUME NEW c \in Curves
      PROVE  /\ Tab'[c] \in Seq(Point) /\ Len(Tab'[c]) <= Window
             /\ Rising(Tab'[c]) /\ Within(Tab'[c], log[Names[c]])
  <2>1. /\ Tab[c] \in Seq(Point) /\ Len(Tab[c]) <= Window
        /\ Rising(Tab[c]) /\ Within(Tab[c], log[Names[c]])
    BY DEF IInv, Types, Drawn
  <2>2. CASE dane = <<>> \/ c # i
    <3>1. Tab'[c] = Tab[c]
      BY <2>2 DEF zapisz_dane, IInv, Types
    <3> QED BY <2>1, <3>1
  <2>3. CASE dane # <<>> /\ c = i
    <3>1. /\ Tab[c] # <<>> \/ Len(dane) >= 2
          /\ Tab'[c] = Trim(Extend(Start(Tab[c], dane), dane))
      BY <2>3 DEF zapisz_dane, IInv, Types
    <3>2. dane \in Seq(Point) /\ Within(dane, log[Names[c]])
      BY <1>1, <2>3 DEF IInv, Types, Given
    <3> QED BY <2>1, <3>1, <3>2, Refreshed
  <2> QED BY <2>2, <2>3
<1>3. Tab' \in [Curves -> Seq(Point)]
  <2>1. Tab' = [c \in Curves |-> Tab'[c]]
    BY DEF zapisz_dane, IInv, Types
  <2> QED BY <1>2, <2>1
<1>4. Types'
  BY <1>1, <1>2, <1>3 DEF IInv, Types
<1>5. Drawn'
  BY <1>1, <1>2 DEF Drawn, Rising, Within
<1>6. Asked' /\ Given'
  BY <1>1 DEF Asked, Given
<1> QED BY <1>4, <1>5, <1>6 DEF IInv

LEMMA PutHolds ==
  ASSUME IInv, NEW v \in Vars, Put(v)
  PROVE  IInv'
<1>1. PICK t \in Stamps : log' = [log EXCEPT ![v] = Append(@, [timestamp |-> t, value |-> v])]
  BY DEF Put
<1>2. UNCHANGED <<Tab, pc, i, query, dane>> /\ Len(log[v]) < MaxLog[v]
  BY DEF Put
<1> DEFINE r == [timestamp |-> t, value |-> v]
<1>3. r \in Point /\ log \in [Vars -> Seq(Point)] /\ log[v] \in Seq(Point)
  BY DEF Point, IInv, Types
<1> HIDE DEF r
<1>4. /\ Append(log[v], r) \in Seq(Point) /\ Len(Append(log[v], r)) = Len(log[v]) + 1
      /\ \A k \in 1 .. Len(log[v]) : Append(log[v], r)[k] = log[v][k]
  BY <1>3, Appended
<1>5. log' = [log EXCEPT ![v] = Append(log[v], r)]
  BY <1>1 DEF r
<1>6. log'[v] = Append(log[v], r) /\ \A w \in Vars \ {v} : log'[w] = log[w]
  BY <1>3, <1>5
<1>7. \A s : \A w \in Vars : Within(s, log[w]) => Within(s, log'[w])
  <2> SUFFICES ASSUME NEW s, NEW w \in Vars, Within(s, log[w]) PROVE Within(s, log'[w])
    OBVIOUS
  <2>1. Len(log[v]) \in Nat
    BY <1>3
  <2>2. CASE w = v
    <3> DEFINE old == log[v]
               new == Append(old, r)
    <3>1. /\ Len(old) \in Nat /\ Len(new) = Len(old) + 1
          /\ \A k \in 1 .. Len(old) : new[k] = old[k]
      BY <1>4, <2>1
    <3>2. Within(s, old) /\ log'[w] = new
      BY <1>6, <2>2
    <3> HIDE DEF old, new
    <3>3. \A k \in 1 .. Len(old) : k \in 1 .. Len(new) /\ new[k] = old[k]
      BY <3>1
    <3>4. Within(s, new)
      BY <3>2, <3>3, Zenon DEF Within
    <3> QED BY <3>2, <3>4
  <2>3. CASE w # v
    BY <1>6, <2>3
  <2> QED BY <2>2, <2>3
<1>8. Types'
  <2>1. log' \in [Vars -> Seq(Point)]
    BY <1>3, <1>4, <1>5
  <2>2. \A w \in Vars : Len(log'[w]) <= MaxLog[w]
    <3>1. Len(log[v]) + 1 <= MaxLog[v]
      BY <1>2, <1>3, Constants
    <3> QED BY <1>4, <1>6, <3>1 DEF IInv, Types
  <2> QED BY <1>2, <2>1, <2>2 DEF IInv, Types
<1>9. Drawn'
  <2>1. \A c \in Curves : Rising(Tab[c]) /\ Within(Tab[c], log'[Names[c]])
    BY <1>7, Constants DEF IInv, Drawn
  <2> QED BY <1>2, <2>1 DEF Drawn, Rising, Within
<1>10. Asked' /\ Given'
  <2>1. pc = "save" => Within(dane, log'[Names[i]])
    BY <1>7, Constants DEF IInv, Types, Given
  <2> QED BY <1>2, <2>1 DEF IInv, Asked, Given, Within
<1> QED BY <1>8, <1>9, <1>10 DEF IInv

LEMMA StepHolds == IInv /\ [Next]_vars => IInv'
<1> SUFFICES ASSUME IInv, [Next]_vars PROVE IInv'
  OBVIOUS
<1>1. CASE animate \/ Plot \/ KeyError
  BY <1>1, AnimateHolds
<1>2. CASE pobier_dane
  BY <1>2, AskHolds
<1>3. CASE Answer
  BY <1>3, AnswerHolds
<1>4. CASE zapisz_dane
  BY <1>4, SaveHolds
<1>5. ASSUME NEW v \in Vars, Put(v) PROVE IInv'
  BY <1>5, PutHolds
<1>6. CASE UNCHANGED vars
  BY <1>6 DEF vars, IInv, Types, Drawn, Asked, Given, Rising, Within
<1> QED BY <1>1, <1>2, <1>3, <1>4, <1>5, <1>6 DEF Next, Refresh, Stopped

(* Curves rise and show records of their variable; a search by positions    *)
(* finds nothing (67, 84-90).                                               *)
THEOREM Invariant == Spec => []IInv
<1> QED BY InitHolds, StepHolds, PTL DEF Spec

LEMMA Bounded ==
  ASSUME NEW S, NEW n \in Nat, NEW s \in Seq(S), Len(s) <= n
  PROVE  s \in BoundedSeq(S, n)
<1>1. Len(s) \in 0 .. n /\ s \in [1 .. Len(s) -> S]
  OBVIOUS
<1> QED BY <1>1 DEF BoundedSeq, SeqOf

(* The variables keep their types; in particular no curve outgrows its      *)
(* window (88-90).                                                          *)
THEOREM TypeCorrect == Spec => []TypeOK
<1>1. IInv => TypeOK
  <2> SUFFICES ASSUME IInv PROVE TypeOK
    OBVIOUS
  <2>1. \A v \in Vars : log[v] \in BoundedSeq(Point, MaxLog[v])
    BY Bounded, Constants DEF IInv, Types
  <2>2. Tab \in [Curves -> BoundedSeq(Point, Window)]
    BY Bounded, Constants DEF IInv, Types
  <2>3. \E v \in Vars : dane \in BoundedSeq(Point, MaxLog[v])
    BY Bounded, Constants DEF IInv, Types
  <2> QED BY <2>1, <2>2, <2>3 DEF TypeOK, IInv, Types
<1> QED BY <1>1, Invariant, PTL

(* A curve shows records of its own variable only, in the order of their    *)
(* times and no time twice, in whatever order they are put (50-62, 84-87).  *)
THEOREM OwnRecordsInOrderHolds == Spec => []OwnRecordsInOrder
<1>1. IInv => OwnRecordsInOrder
  <2> SUFFICES ASSUME IInv, NEW c \in Curves
               PROVE  /\ ToSet(Tab[c]) \subseteq ToSet(log[Names[c]])
                      /\ \A m, n \in DOMAIN Tab[c] :
                           m < n => Tab[c][m].timestamp < Tab[c][n].timestamp
    BY DEF OwnRecordsInOrder
  <2>1. Tab[c] \in Seq(Point) /\ log[Names[c]] \in Seq(Point)
    BY Constants DEF IInv, Types
  <2>2. /\ DOMAIN Tab[c] = 1 .. Len(Tab[c])
        /\ DOMAIN log[Names[c]] = 1 .. Len(log[Names[c]])
    BY <2>1
  <2>3. Rising(Tab[c]) /\ Within(Tab[c], log[Names[c]])
    BY DEF IInv, Drawn
  <2> QED BY <2>2, <2>3 DEF Rising, Within, ToSet
<1> QED BY <1>1, Invariant, PTL

(* Why CurvesKeepUp fails, and how badly: a curve of two points or more     *)
(* never changes again, whatever is logged, since every later search gives  *)
(* positions in the curve where the station expects times, and no record is *)
(* that old (67).  This describes a defect and is no requirement: whoever   *)
(* repairs the search has to give it up.                                    *)
Frozen ==
  [][\A c \in Curves : Len(Tab[c]) >= 2 => Tab'[c] = Tab[c]]_vars

THEOREM FrozenForGood == Spec => Frozen
<1>1. IInv /\ [Next]_vars
        => [\A c \in Curves : Len(Tab[c]) >= 2 => Tab'[c] = Tab[c]]_vars
  <2> SUFFICES ASSUME IInv, [Next]_vars, NEW c \in Curves, Len(Tab[c]) >= 2
               PROVE  Tab'[c] = Tab[c]
    OBVIOUS
  <2>1. CASE zapisz_dane
    BY <2>1, SaveStays
  <2>2. CASE UNCHANGED Tab
    BY <2>2
  <2> QED BY <2>1, <2>2 DEF Next, Refresh, Stopped, vars, animate, Plot, KeyError,
             pobier_dane, Answer, Put
<1> QED BY <1>1, Invariant, PTL DEF Spec, Frozen
=============================================================================
