---------------------------- MODULE Ranking_proofs ----------------------------
(***************************************************************************)
(* Theorems about the order in which recall returns memories, in Ranking   *)
(* and in MemoryLifecycle.                                                 *)
(***************************************************************************)
EXTENDS MemoryLifecycle_proofs, WellFoundedInduction

USE DEF At, Goto

(***************************************************************************)
(* maxScore.                                                               *)
(***************************************************************************)
\* Above, as sets, the elements with more than a score form a finite order: one of
\* them is minimal, and it is empty.
LEMMA HighestExists ==
  ASSUME NEW D, IsFiniteSet(D), D # {}, NEW s \in [D -> Int]
  PROVE  \E d \in D : \A e \in D : s[e] <= s[d]
<1> DEFINE Above(d) == {e \in D : s[e] > s[d]}
           T == {Above(d) : d \in D}
           R == StrictSubsetOrdering(D)
<1>1. IsWellFoundedOn(R, SUBSET D)
  <2>1. IsWellFoundedOn(R, FiniteSubsetsOf(D)) /\ FiniteSubsetsOf(D) = SUBSET D
    BY FS_FiniteSubsetsOfFinite, FS_StrictSubsetOrderingWellFounded
  <2>2. QED
    BY <2>1, Zenon
<1>2. T \subseteq SUBSET D /\ T # {}
  <2>1. PICK d \in D : TRUE
    OBVIOUS
  <2>2. Above(d) \in T
    OBVIOUS
  <2>3. T \subseteq SUBSET D
    OBVIOUS
  <2>4. QED
    BY <2>2, <2>3, Zenon
<1> HIDE DEF R
<1>3. \E X \in T : \A Y \in T : ~(<<Y, X>> \in R)
  BY <1>1, <1>2, WFMin
<1>4. PICK d \in D : \A e \in D : ~(<<Above(e), Above(d)>> \in R)
  BY <1>3
<1>5. Above(d) = {}
  <2>1. SUFFICES ASSUME NEW e \in Above(d) PROVE FALSE
    OBVIOUS
  <2>2. Above(e) \subseteq Above(d) /\ e \in Above(d) /\ e \notin Above(e) /\ e \in D
    OBVIOUS
  <2>3. <<Above(e), Above(d)>> \in R
    BY <2>2 DEF R, StrictSubsetOrdering
  <2>4. QED
    BY <1>4, <2>2, <2>3
<1>6. QED
  BY <1>5

LEMMA MaxScoreFacts ==
  ASSUME NEW D, IsFiniteSet(D), NEW scores \in [D -> Int]
  PROVE  /\ maxScore(scores) \in Nat /\ Divisor(scores) \in Nat \ {0}
         /\ \A d \in D : scores[d] <= maxScore(scores)
<1> DEFINE Scores == {scores[d] : d \in D} \cup {0}
<1>1. \E x \in Scores : \A t \in Scores : t <= x
  <2>1. CASE D = {}
    BY <2>1
  <2>2. CASE D # {}
    <3>1. PICK d \in D : \A e \in D : scores[e] <= scores[d]
      BY <2>2, HighestExists
    <3>2. CASE scores[d] >= 0
      BY <3>1, <3>2
    <3>3. CASE scores[d] < 0
      BY <3>1, <3>3
    <3>4. QED
      BY <3>2, <3>3
  <2>3. QED
    BY <2>1, <2>2
<1>2. maxScore(scores) = CHOOSE x \in Scores : \A t \in Scores : t <= x
  BY DEF maxScore
<1> HIDE DEF Scores
<1>3. maxScore(scores) \in Scores /\ \A t \in Scores : t <= maxScore(scores)
  BY <1>1, <1>2
<1>4. QED
  BY <1>3 DEF Scores, Divisor

(***************************************************************************)
(* FinalScore.                                                             *)
(***************************************************************************)
LEMMA Quotient ==
  ASSUME NEW a \in Nat \ {0}, NEW b \in Nat
  PROVE  (a * b) \div a = b
OBVIOUS

LEMMA Monotone ==
  ASSUME NEW p \in Nat \ {0}, NEW x \in Int, NEW y \in Int, x >= y
  PROVE  p * x \in Int /\ p * y \in Int /\ p * x >= p * y /\ (x > y => p * x > p * y)
OBVIOUS

\* The score of a memory is a sum of what its similarity, its text score and its
\* importance count, each times a factor that is the same for every memory.
Weighted(vs, fs) ==
  \E p, q, r \in Nat \ {0} :
    \A m : \A e \in Int :
      FinalScore(m, vs, fs, e) = p * Dividend(vs, m) + q * Dividend(fs, m) + r * e

\* The three scores enter the sum with positive factors that are the same for all
\* memories.
LEMMA Factors ==
  ASSUME NEW D, IsFiniteSet(D), NEW vs \in [D -> Int], NEW E, IsFiniteSet(E), NEW fs \in [E -> Int],
         VectorWeight > 0, FTSWeight > 0, ImportanceWeight > 0
  PROVE  Weighted(vs, fs)
<1> DEFINE v == Divisor(vs)
           f == Divisor(fs)
           all == v * f * 10 * Unit
           A == all \div v
           B == all \div f
           C == all \div (10 * Unit)
<1>1. v \in Nat \ {0} /\ f \in Nat \ {0} /\ Unit \in Nat \ {0} /\ 10 * Unit \in Nat \ {0}
  BY MaxScoreFacts, ScoringAssumption
<1> DEFINE a == f * 10 * Unit
           b == v * 10 * Unit
           c == v * f
<1> HIDE DEF v, f
<1>2. a \in Nat \ {0} /\ b \in Nat \ {0} /\ c \in Nat \ {0}
  <2>1. c \in Nat \ {0}
    BY <1>1
  <2>2. f * 10 \in Nat \ {0} /\ v * 10 \in Nat \ {0}
    BY <1>1
  <2>3. QED
    BY <1>1, <2>1, <2>2
<1>3. all = v * a /\ all = f * b /\ all = (10 * Unit) * c
  BY <1>1
<1> HIDE DEF a, b, c, all
<1>4. A = a /\ B = b /\ C = c
  BY <1>1, <1>2, <1>3, Quotient
<1>5. VectorWeight \in Nat \ {0} /\ FTSWeight \in Nat \ {0} /\ ImportanceWeight \in Nat \ {0}
  BY WeightAssumption DEF ValidWeights
<1> DEFINE p == a * VectorWeight
           q == b * FTSWeight
           r == c * ImportanceWeight
<1>6. p \in Nat \ {0} /\ q \in Nat \ {0} /\ r \in Nat \ {0}
  BY <1>2, <1>5
<1>7. ASSUME NEW m, NEW e \in Int
      PROVE  FinalScore(m, vs, fs, e) = p * Dividend(vs, m) + q * Dividend(fs, m) + r * e
  <2>1. Dividend(vs, m) \in Int /\ Dividend(fs, m) \in Int
    BY DEF Dividend
  <2>2. FinalScore(m, vs, fs, e)
          = A * Dividend(vs, m) * VectorWeight + B * Dividend(fs, m) * FTSWeight + C * e * ImportanceWeight
    BY DEF FinalScore, all, v, f
  <2> DEFINE x == Dividend(vs, m)
             y == Dividend(fs, m)
  <2>3. x \in Int /\ y \in Int
    BY <2>1
  <2> HIDE DEF x, y
  <2>4. a * x * VectorWeight = p * x /\ b * y * FTSWeight = q * y /\ c * e * ImportanceWeight = r * e
    BY <1>2, <1>5, <2>3
  <2>5. QED
    BY <1>4, <2>2, <2>4 DEF x, y
<1>8. QED
  BY <1>6, <1>7 DEF Weighted

LEMMA BetterScores ==
  ASSUME NEW D, IsFiniteSet(D), NEW vs \in [D -> Int], NEW E, IsFiniteSet(E), NEW fs \in [E -> Int],
         VectorWeight > 0, FTSWeight > 0, ImportanceWeight > 0,
         NEW k, NEW m, NEW ek \in Int, NEW em \in Int,
         Dividend(vs, k) >= Dividend(vs, m), Dividend(fs, k) >= Dividend(fs, m), ek >= em,
         Dividend(vs, k) > Dividend(vs, m) \/ Dividend(fs, k) > Dividend(fs, m) \/ ek > em
  PROVE  ~(FinalScore(m, vs, fs, em) >= FinalScore(k, vs, fs, ek))
<1>1. Weighted(vs, fs)
  BY Factors
<1>2. PICK p, q, r \in Nat \ {0} :
        \A d : \A e \in Int :
          FinalScore(d, vs, fs, e) = p * Dividend(vs, d) + q * Dividend(fs, d) + r * e
  BY <1>1 DEF Weighted
<1> DEFINE vk == Dividend(vs, k)
           vm == Dividend(vs, m)
           fk == Dividend(fs, k)
           fm == Dividend(fs, m)
<1>3. vk \in Int /\ vm \in Int /\ fk \in Int /\ fm \in Int
  BY DEF Dividend
<1>4. /\ FinalScore(k, vs, fs, ek) = p * vk + q * fk + r * ek
      /\ FinalScore(m, vs, fs, em) = p * vm + q * fm + r * em
  BY <1>2
<1> HIDE DEF vk, vm, fk, fm
<1>5. vk >= vm /\ fk >= fm /\ (vk > vm \/ fk > fm \/ ek > em)
  BY DEF vk, vm, fk, fm
<1>6. p * vk \in Int /\ p * vm \in Int /\ p * vk >= p * vm /\ (vk > vm => p * vk > p * vm)
  BY <1>3, <1>5, Monotone
<1>7. q * fk \in Int /\ q * fm \in Int /\ q * fk >= q * fm /\ (fk > fm => q * fk > q * fm)
  BY <1>3, <1>5, Monotone
<1>8. r * ek \in Int /\ r * em \in Int /\ r * ek >= r * em /\ (ek > em => r * ek > r * em)
  BY Monotone
<1> DEFINE x1 == p * vk
           x2 == q * fk
           x3 == r * ek
           y1 == p * vm
           y2 == q * fm
           y3 == r * em
<1>9. /\ x1 \in Int /\ x2 \in Int /\ x3 \in Int /\ y1 \in Int /\ y2 \in Int /\ y3 \in Int
      /\ x1 >= y1 /\ x2 >= y2 /\ x3 >= y3 /\ (x1 > y1 \/ x2 > y2 \/ x3 > y3)
  BY <1>5, <1>6, <1>7, <1>8
<1>10. FinalScore(k, vs, fs, ek) = x1 + x2 + x3 /\ FinalScore(m, vs, fs, em) = y1 + y2 + y3
  BY <1>4
<1> HIDE DEF x1, x2, x3, y1, y2, y3
<1>11. QED
  BY <1>9, <1>10

(***************************************************************************)
(* What a hybrid recall cuts off.                                          *)
(***************************************************************************)
LEMMA EffectiveType ==
  ASSUME IInv, NEW w \in Worker, NEW m \in Candidates(w)
  PROVE  EffectiveIn(w, m) \in Int
<1> DEFINE copy == IF m \in Ids(vec[w]) THEN vec[w].memories[m] ELSE fts[w].memories[m]
<1>1. copy \in Hash
  BY DEF Candidates, Ids, IInv, LocalsOK, Answers
<1> HIDE DEF copy
<1>2. /\ copy.importance \in Int /\ copy.count \in Nat /\ copy.last \in 0 .. ClockBound
      /\ clock \in 1 .. ClockBound /\ ClockBound \in Nat
  BY <1>1, HashFields, BoundFacts DEF IInv, SharedOK
<1> DEFINE d == clock - copy.last
<1>3. d \in Int /\ (IF d >= 0 THEN d ELSE -d) \in 0 .. ClockBound
  BY <1>2
<1> HIDE DEF d
<1>4. PowersDefined(d)
  BY <1>3, PowerAssumption DEF PowersDefined
<1>5. EffectiveImportance(copy.importance, d, copy.count) \in Unit .. 10 * Unit
  BY <1>2, <1>3, <1>4, EffectiveRange
<1>6. EffectiveIn(w, m) = EffectiveImportance(copy.importance, d, copy.count)
  BY DEF EffectiveIn, copy, d
<1>7. QED
  BY <1>5, <1>6, ScoringAssumption

\* Whatever a hybrid recall finds and however its scores are normalised, it cuts off no
\* memory that is as good as one it returns in similarity, text score and importance,
\* and better in one of them: if every weight is positive.
THEOREM KeepsBest ==
  ASSUME VectorWeight > 0, FTSWeight > 0, ImportanceWeight > 0
  PROVE  Spec => []KeepsTheBest
<1>1. ASSUME IInv, NEW w \in Worker, vec[w].state = "found", fts[w].state = "found",
             NEW vs \in VectorScores(w), NEW fs \in FTSScores(w),
             NEW T \in Best(RankedBy(w, vs, fs), RecallLimit), NEW m \in T, NEW k \in Candidates(w) \ T,
             (IF k \in Ids(vec[w]) THEN vs[k] ELSE 0) >= (IF m \in Ids(vec[w]) THEN vs[m] ELSE 0),
             (IF k \in Ids(fts[w]) THEN fs[k] ELSE 0) >= (IF m \in Ids(fts[w]) THEN fs[m] ELSE 0),
             EffectiveIn(w, k) >= EffectiveIn(w, m),
             \/ (IF k \in Ids(vec[w]) THEN vs[k] ELSE 0) > (IF m \in Ids(vec[w]) THEN vs[m] ELSE 0)
                  /\ maxScore(vs) > 0
             \/ (IF k \in Ids(fts[w]) THEN fs[k] ELSE 0) > (IF m \in Ids(fts[w]) THEN fs[m] ELSE 0)
             \/ EffectiveIn(w, k) > EffectiveIn(w, m)
      PROVE  FALSE
  <2> DEFINE D == Ids(vec[w])
             E == Ids(fts[w])
  <2>1. IsFiniteSet(D) /\ IsFiniteSet(E)
    <3>1. D \subseteq Memory /\ E \subseteq Memory
      BY <1>1 DEF IInv, LocalsOK, Answers, Ids
    <3>2. QED
      BY <3>1, FiniteAssumption, FS_Subset
  <2>2. vs \in [D -> Int] /\ fs \in [E -> Nat] /\ fs \in [E -> Int]
    <3>1. VectorScore \subseteq Int /\ FTSScore \subseteq Nat /\ FTSScore \subseteq Int
      BY BoundAssumption
    <3>2. vs \in [D -> VectorScore] /\ fs \in [E -> FTSScore]
      BY <1>1 DEF VectorScores, FTSScores
    <3> HIDE DEF D, E
    <3>3. QED
      BY <3>1, <3>2
  <2>3. /\ maxScore(vs) \in Nat /\ maxScore(fs) \in Nat
        /\ \A d \in E : fs[d] <= maxScore(fs)
    BY <2>1, <2>2, MaxScoreFacts
  <2>4. m \in Candidates(w)
    BY <1>1, RankedAreFound
  <2>5. RankedBy(w, vs, fs) = MergedScore(w, vs, fs)
    BY <1>1 DEF RankedBy
  <2>6. /\ MergedScore(w, vs, fs)[m] = FinalScore(m, vs, fs, EffectiveIn(w, m))
        /\ MergedScore(w, vs, fs)[k] = FinalScore(k, vs, fs, EffectiveIn(w, k))
        /\ DOMAIN MergedScore(w, vs, fs) = Candidates(w)
    BY <1>1, <2>4 DEF MergedScore
  <2>7. FinalScore(m, vs, fs, EffectiveIn(w, m)) >= FinalScore(k, vs, fs, EffectiveIn(w, k))
    BY <1>1, <2>5, <2>6 DEF Best
  <2>8. EffectiveIn(w, m) \in Int /\ EffectiveIn(w, k) \in Int
    BY <1>1, <2>4, EffectiveType
  <2>9. /\ DOMAIN vs = D /\ DOMAIN fs = E
        /\ \A d \in D : vs[d] \in Int
        /\ \A d \in E : fs[d] \in Nat
    BY <2>2
  <2> HIDE DEF D, E
  <2>10. Dividend(vs, k) >= Dividend(vs, m)
    BY <1>1, <2>3, <2>9 DEF Dividend, D
  <2>11. Dividend(fs, k) >= Dividend(fs, m)
    BY <1>1, <2>3, <2>9 DEF Dividend, E
  <2>12. \/ Dividend(vs, k) > Dividend(vs, m) \/ Dividend(fs, k) > Dividend(fs, m)
         \/ EffectiveIn(w, k) > EffectiveIn(w, m)
    <3>1. ASSUME (IF k \in Ids(vec[w]) THEN vs[k] ELSE 0) > (IF m \in Ids(vec[w]) THEN vs[m] ELSE 0),
                 maxScore(vs) > 0
          PROVE  Dividend(vs, k) > Dividend(vs, m)
      BY <2>9, <3>1 DEF Dividend, D
    <3>2. ASSUME (IF k \in Ids(fts[w]) THEN fs[k] ELSE 0) > (IF m \in Ids(fts[w]) THEN fs[m] ELSE 0)
          PROVE  Dividend(fs, k) > Dividend(fs, m)
      <4>1. maxScore(fs) > 0
        BY <2>3, <2>9, <3>2 DEF E
      <4>2. QED
        BY <2>9, <3>2, <4>1 DEF Dividend, E
    <3>3. QED
      BY <1>1, <3>1, <3>2
  <2>13. QED
    BY <1>1, <2>1, <2>2, <2>7, <2>8, <2>10, <2>11, <2>12, BetterScores
<1>2. IInv => KeepsTheBest
  BY <1>1 DEF KeepsTheBest
<1>3. QED
  BY <1>2, InvariantHolds, PTL
=============================================================================
