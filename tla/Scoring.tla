------------------------------- MODULE Scoring -------------------------------
(***************************************************************************)
(* The arithmetic of importance: EffectiveImportance in                    *)
(* internal/memory/types.go and its two copies in Lua, in                  *)
(* updateAccessScript (store.go) and autoForgetScript (maintenance.go).    *)
(*                                                                         *)
(* The code computes in floating point.  Here a number of points is an     *)
(* integer of units of 1/Unit point, and time passes in whole intervals,   *)
(* each of which decays the importance by DecayDividend/DecayDivisor: the  *)
(* decay factor, or that of a part of decay_interval.  An instance chooses *)
(* Unit so that no division it meets has a remainder.  A time that lies    *)
(* before last_accessed, read from another server's clock or earlier in    *)
(* the same call, gives a negative number of intervals.                    *)
(***************************************************************************)
EXTENDS Integers

CONSTANTS
  Unit,           \* units in one point
  DecayDividend,  \* config: memory.decay_factor is between 0 and 1, ...
  DecayDivisor,   \* ... here the ratio of these two for an interval
  BoostFactor,    \* config: memory.access_boost_factor, in units
  BoostCap        \* config: memory.access_boost_cap, in units

ASSUME ScoringAssumption ==
  /\ Unit \in Nat \ {0}
  /\ DecayDividend \in Nat \ {0} /\ DecayDivisor \in Nat /\ DecayDividend < DecayDivisor
  /\ BoostFactor \in Nat /\ BoostCap \in Nat

AtMost(bound, x) == IF x > bound THEN bound ELSE x
AtLeast(bound, x) == IF x < bound THEN bound ELSE x

\* importance * decay_factor ^ intervals
Decayed(importance, intervals) ==
  IF intervals >= 0
    THEN (importance * Unit * DecayDividend ^ intervals) \div (DecayDivisor ^ intervals)
    ELSE (importance * Unit * DecayDivisor ^ (-intervals)) \div (DecayDividend ^ (-intervals))

Boost(accessCount) == AtMost(BoostCap, accessCount * BoostFactor)

\* The clamp is to 1 .. 10 points.
EffectiveImportance(importance, intervals, accessCount) ==
  AtLeast(Unit, AtMost(10 * Unit, Decayed(importance, intervals) + Boost(accessCount)))

\* What updateAccessScript stores: floor(effective + 0.5), with the access that
\* it counts included.
AccessImportance(importance, intervals, accessCount) ==
  (2 * EffectiveImportance(importance, intervals, accessCount + 1) + Unit) \div (2 * Unit)
=============================================================================
