---------------------------- MODULE EnergyProvider ----------------------------
(***************************************************************************)
(* The energy provider: every second it tells the temperature outdoors and *)
(* that of the water it supplies; every period it computes them anew,      *)
(* unless it has failed, and a failure is forgotten after a while          *)
(* (EnergyProvider.py).                                                    *)
(*                                                                         *)
(* Abstractions.  Time is in seconds: a round of the loop lasts one, but   *)
(* for a round whose message cannot be sent, which does not come to sleep. *)
(* The local time of the machine, which has no time zone, may jump once,   *)
(* as at a change to or from summer time.  The random walk of the          *)
(* temperature outdoors may reach every member of Outdoors.  Temperatures  *)
(* of the water are in half degrees.                                       *)
(***************************************************************************)
EXTENDS Integers

CONSTANTS
  Outdoors,          \* temperatures outdoors, in degrees
  Period,            \* ActualTime._period
  failure_duration,
  Jump,              \* how far the local time jumps, forward or backward
  MaxReal            \* time is followed for so many seconds

ASSUME ProviderAssumption ==
  /\ Outdoors \subseteq Int
  /\ Period \in Nat \ {0} /\ failure_duration \in Nat
  /\ Jump \in Nat /\ MaxReal \in Nat

VARIABLES
  real,          \* seconds since the start
  date,          \* ActualTime._date, counted from the start
  jump,          \* how far the local time has jumped
  date0,         \* ActualTime._date0
  To, Tzm,       \* the temperatures outdoors and of the water
  failure,
  failure_time,
  checked_at,    \* ghost: the second of the last period
  failed_at      \* ghost: the second in which failure was set

wall     == <<real, date, jump>>
weather  == <<To, Tzm>>
breakage == <<failure, failure_time, failed_at>>
period   == <<date0, checked_at>>
provider == <<wall, period, weather, breakage>>

-----------------------------------------------------------------------------
WaterTemperature(outdoor) ==
  CASE outdoor < -20 -> 270
    [] outdoor > 6   -> 140
    [] OTHER         -> 140 - 5 * (outdoor - 6)

InitProvider ==
  /\ real = 0 /\ date = 0 /\ jump = 0 /\ date0 = 0 /\ checked_at = 0
  /\ To = 0 /\ Tzm = 170
  /\ failure = FALSE /\ failure_time = 0 /\ failed_at = 0

-----------------------------------------------------------------------------
(* The local time of the next round. *)
Now ==
  /\ real < MaxReal
  /\ real' \in {real, real + 1}
  /\ jump' \in IF jump = 0 THEN {0, Jump, -Jump} ELSE {jump}
  /\ date' = real' + jump'

check_period == date' - date0 >= Period

NewPeriod == date0' = date' /\ checked_at' = real'

Within ==
  /\ ~check_period
  /\ UNCHANGED <<period, weather, breakage>>

Compute ==
  /\ check_period /\ ~failure
  /\ NewPeriod
  /\ To' \in Outdoors
  /\ Tzm' = WaterTemperature(To')
  /\ failure' \in BOOLEAN
  /\ failure_time' = date'
  /\ failed_at' = IF failure' THEN real' ELSE failed_at

(* Mutant: every period of the failure starts it again. *)
Failing_Restarts ==
  /\ check_period /\ failure
  /\ NewPeriod
  /\ failure' = ~(date' - failure_time > failure_duration)
  /\ failure_time' = date'
  /\ UNCHANGED <<weather, failed_at>>

(* Mutant: one period is taken for a failure's end. *)
Failing_OnePeriod ==
  /\ check_period /\ failure
  /\ NewPeriod
  /\ failure' = ~(date' - failure_time >= Period)
  /\ UNCHANGED <<weather, failure_time, failed_at>>

Failing ==
  /\ check_period /\ failure
  /\ NewPeriod
  /\ failure' = ~(date' - failure_time > failure_duration)
  /\ UNCHANGED <<weather, failure_time, failed_at>>

Round == Now /\ (Within \/ Compute \/ Failing)

ProviderSpec == InitProvider /\ [][Round]_provider

-----------------------------------------------------------------------------
(* Properties *)

(* The water follows the heating curve, 70 degrees from 6 degrees outdoors, *)
(* 2.5 degrees more for each below, 135 at most, in every round and from    *)
(* the values the provider starts with (EnergyProvider.py:50-57,            *)
(* WaterTemperature.py:13-19).                                              *)
Curve(outdoor) ==
  LET slope == 140 + 5 * (6 - outdoor) IN
  CASE slope > 270 -> 270 [] slope < 140 -> 140 [] OTHER -> slope

WaterFollowsAir == Tzm = Curve(To)

(* A failure does not end before its time, give or take a jump of the local *)
(* time (EnergyProvider.py:48-56, ActualTime.py:25-30).                     *)
FailureLasts ==
  [][failure /\ ~failure' => real' - failed_at > failure_duration - Jump]_provider

(* A failure ends in the period after its time, and the provider looks at   *)
(* its temperatures, or at its failure, once in every period, give or take  *)
(* a jump of the local time, however often it goes round without sleeping   *)
(* (EnergyProvider.py:45-62, ActualTime.py:25-30).                          *)
OnTime ==
  /\ failure => real - failed_at <= failure_duration + Period + Jump
  /\ real - checked_at < Period + Jump
=============================================================================
