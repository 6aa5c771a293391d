--------------------------- MODULE Scoring_proofs ---------------------------
(***************************************************************************)
(* Facts about the arithmetic of importance.  The provers know nothing of  *)
(* powers but that they are integers; that they are positive is a          *)
(* hypothesis here, where it is needed.                                    *)
(***************************************************************************)
EXTENDS Scoring, TLAPS

LEMMA ClampRange ==
  ASSUME NEW x \in Int
  PROVE  AtLeast(Unit, AtMost(10 * Unit, x)) \in Unit .. 10 * Unit
BY ScoringAssumption DEF AtLeast, AtMost

\* The powers that Decayed has for these intervals.
PowersDefined(intervals) ==
  LET n == IF intervals >= 0 THEN intervals ELSE -intervals IN
    DecayDividend ^ n \in Nat \ {0} /\ DecayDivisor ^ n \in Nat \ {0}

LEMMA BoostRange ==
  ASSUME NEW accessCount \in Nat
  PROVE  Boost(accessCount) \in 0 .. BoostCap
BY ScoringAssumption DEF Boost, AtMost

LEMMA DecayedType ==
  ASSUME NEW importance \in Int, NEW intervals \in Int, PowersDefined(intervals)
  PROVE  Decayed(importance, intervals) \in Int
<1>1. importance * Unit \in Int
  BY ScoringAssumption
<1>2. CASE intervals >= 0
  BY <1>1, <1>2 DEF Decayed, PowersDefined
<1>3. CASE ~(intervals >= 0)
  BY <1>1, <1>3 DEF Decayed, PowersDefined
<1>4. QED
  BY <1>2, <1>3

\* Whatever was stored, however long ago, the effective importance is a number of
\* units from 1 to 10 points, ...
LEMMA EffectiveRange ==
  ASSUME NEW importance \in Int, NEW intervals \in Int, NEW accessCount \in Nat,
         PowersDefined(intervals)
  PROVE  EffectiveImportance(importance, intervals, accessCount) \in Unit .. 10 * Unit
BY DecayedType, BoostRange, ClampRange, ScoringAssumption DEF EffectiveImportance

\* ... and what the access script stores is one of 1 to 10 points.
LEMMA RoundedRange ==
  ASSUME NEW e \in Unit .. 10 * Unit
  PROVE  (2 * e + Unit) \div (2 * Unit) \in 1 .. 10
BY ScoringAssumption

LEMMA AccessRange ==
  ASSUME NEW importance \in Int, NEW intervals \in Int, NEW accessCount \in Nat,
         PowersDefined(intervals)
  PROVE  AccessImportance(importance, intervals, accessCount) \in 1 .. 10
<1>1. accessCount + 1 \in Nat
  OBVIOUS
<1>2. EffectiveImportance(importance, intervals, accessCount + 1) \in Unit .. 10 * Unit
  BY <1>1, EffectiveRange
<1>3. QED
  BY <1>2, RoundedRange DEF AccessImportance
=============================================================================
