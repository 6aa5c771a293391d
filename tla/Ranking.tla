------------------------------- MODULE Ranking -------------------------------
(***************************************************************************)
(* The order in which recall returns memories: mergeResults, maxScore and  *)
(* truncate in internal/memory/search.go.                                  *)
(*                                                                         *)
(* The answer of a search is a function from the memories it found to      *)
(* their scores: a similarity, which is 1 minus a cosine distance and may  *)
(* be negative, or a text score, which is not.  The code divides both by   *)
(* their maximum, effective importance by 10, and adds them up with        *)
(* weights; here the sum is multiplied by the three divisors, which leaves *)
(* the order as it is and the numbers integers.                            *)
(***************************************************************************)
EXTENDS Scoring, FiniteSets

CONSTANTS
  VectorWeight,     \* config: memory.vector_weight, in percent
  FTSWeight,        \* config: memory.fts_weight, in percent
  ImportanceWeight  \* config: memory.importance_weight, in percent

\* Validate looks at the sum of the weights only.
ValidWeights ==
  /\ VectorWeight \in Int /\ FTSWeight \in Int /\ ImportanceWeight \in Int
  /\ VectorWeight + FTSWeight + ImportanceWeight \in 90 .. 110

ASSUME WeightAssumption == ValidWeights

AtMostOf(S, n) == {T \in SUBSET S : Cardinality(T) <= n}
FirstOf(S, n) == {T \in AtMostOf(S, n) : Cardinality(T) = n \/ T = S}

\* The highest score, 0 when none is positive.
maxScore(scores) ==
  LET Scores == {scores[m] : m \in DOMAIN scores} \cup {0} IN
    CHOOSE s \in Scores : \A t \in Scores : t <= s

Divisor(scores) == IF maxScore(scores) > 0 THEN maxScore(scores) ELSE 1
Dividend(scores, m) == IF m \in DOMAIN scores /\ maxScore(scores) > 0 THEN scores[m] ELSE 0

\* Faulty variant of FinalScore: a text score takes the place of the vector
\* score of the same memory.
FinalScoreReplaced(m, vs, fs, effective) ==
  LET both == Divisor(vs) * Divisor(fs) * 10 * Unit IN
    IF m \in DOMAIN fs
      THEN (both \div Divisor(fs)) * Dividend(fs, m) * FTSWeight
             + (both \div (10 * Unit)) * effective * ImportanceWeight
      ELSE (both \div Divisor(vs)) * Dividend(vs, m) * VectorWeight
             + (both \div (10 * Unit)) * effective * ImportanceWeight

\* The score of memory m, times the three divisors.
FinalScore(m, vs, fs, effective) ==
  LET all == Divisor(vs) * Divisor(fs) * 10 * Unit IN
      (all \div Divisor(vs)) * Dividend(vs, m) * VectorWeight
    + (all \div Divisor(fs)) * Dividend(fs, m) * FTSWeight
    + (all \div (10 * Unit)) * effective * ImportanceWeight

\* The first n of the memories of a ranking; ties come in any order.
Best(score, n) ==
  {T \in FirstOf(DOMAIN score, n) :
     \A m \in T, k \in DOMAIN score \ T : score[m] >= score[k]}
=============================================================================
