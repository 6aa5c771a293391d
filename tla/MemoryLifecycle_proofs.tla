----------------------- MODULE MemoryLifecycle_proofs -----------------------
(***************************************************************************)
(* Theorems about MemoryLifecycle, for any workers, memories, assignment   *)
(* of calls to workers, configuration and bounds.                          *)
(***************************************************************************)
EXTENDS MemoryLifecycle, Scoring_proofs, FiniteSetTheorems

(***************************************************************************)
(* The inductive invariant.                                                *)
(***************************************************************************)
Hash ==
  [there : BOOLEAN, full : BOOLEAN, importance : Int, last : 0 .. ClockBound,
   count : 0 .. RecallBound, created : 0 .. ClockBound]

Answers ==
  [state : {"waiting", "failed", "unused", "found"},
   memories : UNION {[S -> Hash] : S \in SUBSET Memory}]

\* The part of TypeOK about what all share, ...
SharedOK ==
  /\ clock \in 1 .. ClockBound
  /\ hash \in [Memory -> Hash]
  /\ \A m \in Full : Exists(m) /\ hash[m].created >= 1 /\ hash[m].last >= 1
  /\ \A m \in Memory : hash[m].count > 0 => hash[m].importance \in 1 .. 10
  /\ known \subseteq Memory /\ orphaned \subseteq Memory

\* ... and the types of the local variables of the calls.
LocalsOK ==
  /\ pc \in [Worker -> Label]
  /\ vec \in [Worker -> Answers] /\ fts \in [Worker -> Answers]
  /\ keys \in [Worker -> SUBSET Memory] /\ accessed \in [Worker -> SUBSET Memory]
  /\ value \in [Worker -> Int]
  /\ now \in [Worker -> 0 .. ClockBound] /\ cutoff \in [Worker -> Int]
  /\ round \in [Worker -> 0 .. MaxIterations]

\* What a call has at the place where it is.
CallOK(w) ==
  /\ pc[w] # "idle" => now[w] >= 1
  /\ pc[w] \in {"update_check", "update_write"} => value[w] <= 10
  /\ pc[w] \in {"store", "update_check", "update_write", "delete"} => \E m \in Memory : keys[w] = {m}
  /\ pc[w] = "search" => keys[w] = {}
  /\ pc[w] # "search" => Ids(vec[w]) = {} /\ Ids(fts[w]) = {}

\* It is one that this worker serves.
Permitted(w) ==
  /\ pc[w] \in {"update_check", "update_write"} => "update" \in Can[w]
  /\ pc[w] \in {"search", "track"} => "recall" \in Can[w]
  /\ pc[w] \in {"delete", "forget_search", "forget_del"} => "forget" \in Can[w]
  /\ pc[w] \in {"stale_search", "stale_script"} => "maintain" \in Can[w]

Calls == \A w \in Worker : CallOK(w) /\ Permitted(w)

\* An access is still to be counted for each answer that is being tracked, and
\* each search that is out may return the memory once more.
Trackers(m) == {w \in Worker : At(w, "track") /\ m \in keys[w]}
Searchers == {w \in Worker : At(w, "search")}

Counted ==
  /\ returned \in [Memory -> Nat]
  /\ \A m \in Memory :
       /\ hash[m].count + Cardinality(Trackers(m)) <= returned[m]
       /\ returned[m] + Cardinality(Searchers) <= RecallBound

\* A memory that has no hash yet.
Pending(w, m) == pc[w] \in {"store", "extract"} /\ m \in keys[w]
Unborn(m) == m \notin known \/ \E w \in Worker : Pending(w, m)

\* Nobody knows of it but the one call that stores it.
Births ==
  \A m \in Memory :
    /\ Unborn(m) =>
         /\ ~Exists(m) /\ returned[m] = 0
         /\ \A w \in Worker :
              /\ m \notin Candidates(w)
              /\ pc[w] \in {"update_write", "track"} => m \notin keys[w]
    /\ \A w \in Worker : Pending(w, m) =>
         m \in known /\ \A u \in Worker \ {w} : ~Pending(u, m)

IInv == SharedOK /\ LocalsOK /\ Calls /\ Counted /\ Births

USE DEF At, Goto

(***************************************************************************)
(* Local steps.                                                            *)
(***************************************************************************)
LEMMA BoundFacts ==
  /\ ClockBound \in Nat /\ ClockBound >= 1 /\ RecallBound \in Nat /\ RecallLimit \in Nat
  /\ MaxIterations \in Nat /\ ForgetInactive \in Nat /\ Importance \subseteq Int
BY BoundAssumption

LEMMA AnswerType ==
  ASSUME hash \in [Memory -> Hash], NEW S \in SUBSET Memory,
         NEW state \in {"waiting", "failed", "unused", "found"}
  PROVE  Answer(state, S) \in Answers /\ Ids(Answer(state, S)) = S
BY DEF Answer, Answers, Ids

\* A step of a worker leaves the others where they are.
Apart(w) ==
  \A u \in Worker \ {w} :
    /\ pc'[u] = pc[u] /\ vec'[u] = vec[u] /\ fts'[u] = fts[u] /\ keys'[u] = keys[u]
    /\ value'[u] = value[u] /\ now'[u] = now[u] /\ cutoff'[u] = cutoff[u] /\ round'[u] = round[u]

LEMMA ReturnLocals ==
  ASSUME LocalsOK, hash \in [Memory -> Hash], NEW w \in Worker, Return(w)
  PROVE  LocalsOK' /\ (CallOK(w) /\ Permitted(w))' /\ Apart(w)
<1>1. Unused \in Answers /\ Ids(Unused) = {}
  BY AnswerType DEF Unused
<1> HIDE DEF Unused
<1>2. LocalsOK'
  <2>1. /\ pc' \in [Worker -> Label] /\ keys' \in [Worker -> SUBSET Memory]
        /\ accessed' \in [Worker -> SUBSET Memory]
    BY DEF Return, LocalsOK, Label
  <2>2. vec' \in [Worker -> Answers] /\ fts' \in [Worker -> Answers]
    BY <1>1 DEF Return, LocalsOK
  <2>3. value' \in [Worker -> Int] /\ cutoff' \in [Worker -> Int]
    BY DEF Return, LocalsOK, Missing
  <2>4. now' \in [Worker -> 0 .. ClockBound] /\ round' \in [Worker -> 0 .. MaxIterations]
    BY BoundFacts DEF Return, LocalsOK, Missing
  <2>5. QED
    BY <2>1, <2>2, <2>3, <2>4 DEF LocalsOK
<1>3. (CallOK(w) /\ Permitted(w))'
  BY <1>1 DEF Return, LocalsOK, CallOK, Permitted
<1>4. Apart(w)
  BY DEF Return, LocalsOK, Apart
<1>5. QED
  BY <1>2, <1>3, <1>4

\* What each call starts with.
Starts(w, call, label, S, importance) ==
  \/ call = "store" /\ label = "store" /\ importance \in Int /\ \E m \in Memory : S = {m}
  \/ call = "extract" /\ label = "extract" /\ importance \in Int
  \/ call = "update" /\ label = "update_check" /\ importance \in Int /\ importance <= 10 /\ \E m \in Memory : S = {m}
  \/ call = "recall" /\ label = "search" /\ importance = Missing /\ S = {}
  \/ call = "forget" /\ label = "delete" /\ importance = Missing /\ \E m \in Memory : S = {m}
  \/ call = "forget" /\ label = "forget_search" /\ importance = Missing
  \/ call = "maintain" /\ label = "stale_search" /\ importance = Missing

LEMMA BeginLocals ==
  ASSUME LocalsOK, Calls, clock \in 1 .. ClockBound, NEW w \in Worker, NEW call, NEW label,
         NEW S \in SUBSET Memory, NEW importance, NEW bound \in Int,
         Begin(w, call, label, S, importance, bound), Starts(w, call, label, S, importance),
         vec' \in [Worker -> Answers], fts' \in [Worker -> Answers], UNCHANGED <<round, accessed>>,
         \A u \in Worker : u # w \/ label # "search" => vec'[u] = vec[u] /\ fts'[u] = fts[u]
  PROVE  LocalsOK' /\ (CallOK(w) /\ Permitted(w))' /\ Apart(w)
<1>1. importance \in Int /\ label \in Label
  BY DEF Starts, Missing, Label
<1>2. LocalsOK'
  <2>1. pc' \in [Worker -> Label] /\ keys' \in [Worker -> SUBSET Memory]
    BY <1>1 DEF Begin, LocalsOK
  <2>2. value' \in [Worker -> Int]
    BY <1>1 DEF Begin, LocalsOK
  <2>3. cutoff' \in [Worker -> Int]
    BY DEF Begin, LocalsOK
  <2>4. now' \in [Worker -> 0 .. ClockBound]
    BY DEF Begin, LocalsOK
  <2>5. QED
    BY <2>1, <2>2, <2>3, <2>4 DEF LocalsOK
<1>3. /\ pc[w] = "idle" /\ pc'[w] = label /\ keys'[w] = S /\ value'[w] = importance /\ now'[w] = clock
      /\ call \in Can[w]
  BY DEF Begin, LocalsOK
<1>4. CallOK(w)'
  BY <1>3 DEF Starts, Calls, CallOK
<1>5. Permitted(w)'
  BY <1>3 DEF Starts, Permitted
<1>6. Apart(w)
  BY DEF Begin, LocalsOK, Apart
<1>7. QED
  BY <1>2, <1>4, <1>5, <1>6

LEMMA BeginsLocals ==
  ASSUME IInv, NEW w \in Worker, Begins(w)
  PROVE  LocalsOK' /\ (CallOK(w) /\ Permitted(w))' /\ Apart(w)
<1> USE BoundFacts DEF IInv, SharedOK
<1> DEFINE Goal == LocalsOK' /\ (CallOK(w) /\ Permitted(w))' /\ Apart(w)
<1>1. UNCHANGED <<vec, fts>> => vec' \in [Worker -> Answers] /\ fts' \in [Worker -> Answers]
  BY DEF LocalsOK
<1>2. ASSUME NEW m \in Memory, NEW i \in Importance, Store(w, m, i) PROVE Goal
  BY <1>1, <1>2, BeginLocals DEF Store, Starts, Missing
<1>3. ASSUME NEW S \in SUBSET Memory, NEW i \in Importance, Extract(w, S, i) PROVE Goal
  BY <1>1, <1>3, BeginLocals DEF Extract, Starts, Missing
<1>4. ASSUME NEW m \in Memory, NEW i \in Importance \cup {0}, UpdateMemory(w, m, i) PROVE Goal
  <2>1. AtMost(10, i) \in Int /\ AtMost(10, i) <= 10
    BY DEF AtMost
  <2>2. QED
    BY <1>1, <1>4, <2>1, BeginLocals DEF UpdateMemory, Starts, Missing
<1>5. ASSUME NEW v \in Answers, NEW f \in Answers, Recall(w, v, f) PROVE Goal
  <2>1. /\ Begin(w, "recall", "search", {}, Missing, Missing) /\ UNCHANGED <<round, accessed>>
        /\ vec' = [vec EXCEPT ![w] = v] /\ fts' = [fts EXCEPT ![w] = f]
    BY <1>5 DEF Recall
  <2>2. /\ vec' \in [Worker -> Answers] /\ fts' \in [Worker -> Answers]
        /\ \A u \in Worker \ {w} : vec'[u] = vec[u] /\ fts'[u] = fts[u]
    BY <2>1 DEF LocalsOK
  <2>3. Starts(w, "recall", "search", {}, Missing) /\ {} \in SUBSET Memory /\ Missing \in Int
    BY DEF Starts, Missing
  <2> HIDE DEF Missing
  <2>4. QED
    BY <2>1, <2>2, <2>3, BeginLocals
<1>6. ASSUME NEW m \in Memory, ForgetId(w, m) PROVE Goal
  BY <1>1, <1>6, BeginLocals DEF ForgetId, Starts, Missing
<1>7. ASSUME NEW age \in Age, ForgetFilter(w, age) PROVE Goal
  <2>1. CreatedBefore(age) \in Int
    BY DEF CreatedBefore, Age
  <2>2. QED
    BY <1>1, <1>7, <2>1, BeginLocals DEF ForgetFilter, Starts
<1>8. CASE AutoForget(w)
  <2>1. clock - ForgetInactive \in Int
    OBVIOUS
  <2>2. QED
    BY <1>1, <1>8, <2>1, BeginLocals DEF AutoForget, Starts
<1>9. Waiting \in Answers /\ Unused \in Answers
  BY AnswerType DEF Waiting, Unused
<1>10. QED
  BY <1>2, <1>3, <1>4, <1>5, <1>6, <1>7, <1>8, <1>9
     DEF Begins, VectorRecall, FullTextRecall, HybridRecall

LEMMA FirstOfSubset ==
  ASSUME NEW S, NEW n, NEW T \in FirstOf(S, n) \cup AtMostOf(S, n)
  PROVE  T \subseteq S
BY DEF FirstOf, AtMostOf

\* A call that goes on with what it has.
LEMMA GotoLocals ==
  ASSUME LocalsOK, Calls, NEW w \in Worker, NEW label, Goto(w, label), UNCHANGED locals,
         \/ pc[w] = "update_check" /\ label = "update_write"
         \/ pc[w] = "forget_del" /\ label = "forget_search"
         \/ pc[w] = "stale_script" /\ label = "stale_search"
  PROVE  LocalsOK' /\ (CallOK(w) /\ Permitted(w))' /\ Apart(w)
<1>1. LocalsOK' /\ Apart(w)
  BY DEF LocalsOK, Apart, locals, Label
<1>2. CallOK(w)' /\ Permitted(w)'
  BY DEF LocalsOK, Calls, CallOK, Permitted, locals
<1>3. QED
  BY <1>1, <1>2

\* A call that goes through its keys.
LEMMA KeyLocals ==
  ASSUME LocalsOK, Calls, NEW w \in Worker, NEW m \in Memory,
         pc[w] \in {"extract", "track", "forget_del"}, keys' = [keys EXCEPT ![w] = @ \ {m}],
         UNCHANGED <<pc, vec, fts, now, cutoff, round>>, accessed' \in [Worker -> SUBSET Memory],
         value' \in [Worker -> Int],
         \A u \in Worker : u # w \/ pc[w] # "forget_del" => value'[u] = value[u]
  PROVE  LocalsOK' /\ (CallOK(w) /\ Permitted(w))' /\ Apart(w)
<1>1. LocalsOK' /\ Apart(w)
  BY DEF LocalsOK, Apart
<1>2. CallOK(w)' /\ Permitted(w)'
  BY DEF LocalsOK, Calls, CallOK, Permitted
<1>3. QED
  BY <1>1, <1>2

\* A search that comes back.
LEMMA SearchLocals ==
  ASSUME LocalsOK, Calls, NEW w \in Worker, pc[w] = "search", NEW v \in Answers, NEW f \in Answers,
         vec' = [vec EXCEPT ![w] = v], fts' = [fts EXCEPT ![w] = f],
         UNCHANGED <<pc, keys, value, now, cutoff, round, accessed>>
  PROVE  LocalsOK' /\ (CallOK(w) /\ Permitted(w))' /\ Apart(w)
<1>1. LocalsOK' /\ Apart(w)
  BY DEF LocalsOK, Apart
<1>2. CallOK(w)' /\ Permitted(w)'
  BY DEF LocalsOK, Calls, CallOK, Permitted
<1>3. QED
  BY <1>1, <1>2

\* A call that takes the keys of its next batch.
LEMMA BatchLocals ==
  ASSUME LocalsOK, Calls, NEW w \in Worker, NEW label, Goto(w, label), NEW S \in SUBSET Memory,
         \/ pc[w] = "forget_search" /\ label = "forget_del"
         \/ pc[w] = "stale_search" /\ label = "stale_script",
         keys' = [keys EXCEPT ![w] = S], round' = [round EXCEPT ![w] = @ + 1],
         round[w] # MaxIterations, UNCHANGED <<vec, fts, now, cutoff>>, value' \in [Worker -> Int],
         accessed' \in [Worker -> SUBSET Memory],
         \A u \in Worker \ {w} : value'[u] = value[u]
  PROVE  LocalsOK' /\ (CallOK(w) /\ Permitted(w))' /\ Apart(w)
<1>1. LocalsOK'
  <2>1. round' \in [Worker -> 0 .. MaxIterations]
    BY BoundFacts DEF LocalsOK
  <2>2. pc' \in [Worker -> Label] /\ keys' \in [Worker -> SUBSET Memory]
    BY DEF LocalsOK, Label
  <2>3. QED
    BY <2>1, <2>2 DEF LocalsOK
<1>2. Apart(w)
  BY DEF LocalsOK, Apart
<1>3. CallOK(w)' /\ Permitted(w)'
  BY DEF LocalsOK, Calls, CallOK, Permitted
<1>4. QED
  BY <1>1, <1>2, <1>3

\* What a recall returns has been found by one of its searches.
LEMMA RankedAreFound ==
  ASSUME NEW w \in Worker, NEW vs \in VectorScores(w), NEW fs \in FTSScores(w), NEW n,
         NEW T \in Best(RankedBy(w, vs, fs), n)
  PROVE  T \subseteq Candidates(w)
<1>1. DOMAIN vs = Ids(vec[w]) /\ DOMAIN fs = Ids(fts[w])
  BY DEF VectorScores, FTSScores
<1>2. DOMAIN MergedScore(w, vs, fs) = Candidates(w)
  BY DEF MergedScore
<1>3. DOMAIN RankedBy(w, vs, fs) \subseteq Candidates(w)
  <2>1. CASE vec[w].state # "found"
    <3>1. CASE fts[w].state # "found"
      BY <1>1, <2>1, <3>1 DEF RankedBy, Candidates
    <3>2. CASE fts[w].state = "found"
      BY <1>1, <2>1, <3>2 DEF RankedBy, Candidates
    <3>3. QED
      BY <3>1, <3>2
  <2>2. CASE vec[w].state = "found" /\ fts[w].state # "found"
    BY <1>1, <2>2 DEF RankedBy, Candidates
  <2>3. CASE vec[w].state = "found" /\ fts[w].state = "found"
    BY <1>2, <2>3 DEF RankedBy
  <2>4. QED
    BY <2>1, <2>2, <2>3
<1>4. T \subseteq DOMAIN RankedBy(w, vs, fs)
  BY DEF Best, FirstOf, AtMostOf
<1>5. QED
  BY <1>3, <1>4

LEMMA MergeFacts ==
  ASSUME NEW w \in Worker, MergeResults(w)
  PROVE  /\ pc[w] = "search" /\ UNCHANGED <<clock, hash, known, orphaned>>
         /\ \/ Return(w) /\ returned' = returned
            \/ \E T \in SUBSET Candidates(w) :
                 /\ pc' = [pc EXCEPT ![w] = "track"] /\ keys' = [keys EXCEPT ![w] = T]
                 /\ returned' = [m \in Memory |-> IF m \in T THEN returned[m] + 1 ELSE returned[m]]
                 /\ now' = [now EXCEPT ![w] = clock]
                 /\ vec' = [vec EXCEPT ![w] = Unused] /\ fts' = [fts EXCEPT ![w] = Unused]
                 /\ UNCHANGED <<value, cutoff, round, accessed>>
<1>1. pc[w] = "search" /\ UNCHANGED <<clock, hash, known, orphaned>>
  BY DEF MergeResults
<1>2. PICK vs \in VectorScores(w), fs \in FTSScores(w) :
        \E T \in Best(RankedBy(w, vs, fs), RecallLimit) :
         IF T = {}
           THEN Return(w) /\ UNCHANGED returned
           ELSE /\ Goto(w, "track")
                /\ keys' = [keys EXCEPT ![w] = T]
                /\ returned' = [m \in Memory |-> IF m \in T THEN returned[m] + 1 ELSE returned[m]]
                /\ now' = [now EXCEPT ![w] = clock]
                /\ vec' = [vec EXCEPT ![w] = Unused] /\ fts' = [fts EXCEPT ![w] = Unused]
                /\ UNCHANGED <<value, cutoff, round, accessed>>
  BY Zenon DEF MergeResults
<1>3. \A T \in Best(RankedBy(w, vs, fs), RecallLimit) : T \in SUBSET Candidates(w)
  BY RankedAreFound
<1>4. QED
  BY <1>1, <1>2, <1>3, Zenon DEF Goto

LEMMA MergeLocals ==
  ASSUME IInv, NEW w \in Worker, MergeResults(w)
  PROVE  LocalsOK' /\ (CallOK(w) /\ Permitted(w))' /\ Apart(w)
<1> LocalsOK /\ Calls /\ SharedOK
  BY DEF IInv
<1>1. CASE Return(w)
  BY <1>1, ReturnLocals DEF SharedOK
<1>2. CASE ~Return(w)
  <2>1. PICK T \in SUBSET Candidates(w) :
          /\ pc' = [pc EXCEPT ![w] = "track"] /\ keys' = [keys EXCEPT ![w] = T]
          /\ now' = [now EXCEPT ![w] = clock]
          /\ vec' = [vec EXCEPT ![w] = Unused] /\ fts' = [fts EXCEPT ![w] = Unused]
          /\ UNCHANGED <<value, cutoff, round, accessed>>
    BY <1>2, MergeFacts, Zenon
  <2>2. T \subseteq Memory
    BY DEF Candidates, LocalsOK, Answers, Ids
  <2>3. Unused \in Answers /\ Ids(Unused) = {}
    BY AnswerType DEF Unused, SharedOK
  <2> HIDE DEF Unused
  <2>4. pc[w] = "search"
    BY DEF MergeResults
  <2>5. LocalsOK'
    BY <2>1, <2>2, <2>3 DEF LocalsOK, SharedOK, Label
  <2>6. Apart(w)
    BY <2>1 DEF Apart, LocalsOK
  <2>7. CallOK(w)' /\ Permitted(w)'
    BY <2>1, <2>3, <2>4 DEF LocalsOK, Calls, CallOK, Permitted, SharedOK
  <2>8. QED
    BY <2>5, <2>6, <2>7
<1>3. QED
  BY <1>1, <1>2

LEMMA ProceedLocals ==
  ASSUME IInv, NEW w \in Worker, Proceed(w)
  PROVE  LocalsOK' /\ (CallOK(w) /\ Permitted(w))' /\ Apart(w)
<1> DEFINE Goal == LocalsOK' /\ (CallOK(w) /\ Permitted(w))' /\ Apart(w)
<1> LocalsOK /\ Calls /\ SharedOK
  BY DEF IInv
<1>1. CASE Return(w)
  BY <1>1, ReturnLocals DEF SharedOK
<1>2. CASE ~Return(w) /\ (UpdateCheck(w) \/ ForgetDeleted(w) \/ StaleScript(w))
  <2>1. PICK label \in {"update_write", "forget_search", "stale_search"} :
          /\ Goto(w, label) /\ UNCHANGED locals
          /\ \/ pc[w] = "update_check" /\ label = "update_write"
             \/ pc[w] = "forget_del" /\ label = "forget_search"
             \/ pc[w] = "stale_script" /\ label = "stale_search"
    BY <1>2 DEF UpdateCheck, ForgetDeleted, StaleScript
  <2>2. QED
    BY <2>1, GotoLocals
<1>3. CASE ExtractSave(w) \/ ExtractFails(w) \/ TrackAccess(w)
  <2>1. PICK m \in keys[w] : keys' = [keys EXCEPT ![w] = @ \ {m}]
    BY <1>3, Zenon DEF ExtractSave, ExtractFails, TrackAccess
  <2>2. UNCHANGED <<pc, vec, fts, value, now, cutoff, round>> /\ pc[w] \in {"extract", "track"}
    BY <1>3 DEF ExtractSave, ExtractFails, TrackAccess
  <2>3. m \in Memory /\ value' \in [Worker -> Int]
    BY <2>2 DEF LocalsOK
  <2>4. accessed' \in [Worker -> SUBSET Memory]
    <3>1. CASE TrackAccess(w)
      <4>1. PICK k \in keys[w] :
              accessed' = [v \in Worker |-> IF At(v, "stale_script") /\ k \in keys[v]
                                            THEN accessed[v] \cup {k} ELSE accessed[v]]
        BY <3>1, Zenon DEF TrackAccess
      <4>2. QED
        BY <4>1 DEF LocalsOK
    <3>2. CASE ~TrackAccess(w)
      BY <1>3, <3>2 DEF ExtractSave, ExtractFails, LocalsOK
    <3>3. QED
      BY <3>1, <3>2
  <2>5. QED
    BY <2>1, <2>2, <2>3, <2>4, KeyLocals
<1>4. CASE ForgetDel(w)
  <2>1. PICK m \in keys[w] : /\ keys' = [keys EXCEPT ![w] = @ \ {m}]
                             /\ value' = [value EXCEPT ![w] = IF Exists(m) THEN @ + 1 ELSE @]
    BY <1>4 DEF ForgetDel
  <2>2. /\ m \in Memory /\ value' \in [Worker -> Int] /\ \A u \in Worker \ {w} : value'[u] = value[u]
        /\ accessed' \in [Worker -> SUBSET Memory]
    BY <1>4, <2>1 DEF LocalsOK, ForgetDel
  <2>3. QED
    BY <1>4, <2>1, <2>2, KeyLocals DEF ForgetDel
<1>5. CASE VectorSearch(w) \/ FullTextSearch(w) \/ SearchFails(w)
  <2>1. \A T \in SUBSET Memory : Found(T) \in Answers
    BY AnswerType DEF Found, SharedOK
  <2>2. Failed \in Answers
    BY AnswerType DEF Failed, SharedOK
  <2>3. \A n : \A T \in FirstOf(Full, n) \cup AtMostOf(Full, n) : T \in SUBSET Memory
    BY FirstOfSubset DEF Full
  <2> HIDE DEF Failed, Found
  <2>4. \E v, f \in Answers : vec' = [vec EXCEPT ![w] = v] /\ fts' = [fts EXCEPT ![w] = f]
    <3>1. vec = [vec EXCEPT ![w] = vec[w]] /\ fts = [fts EXCEPT ![w] = fts[w]]
          /\ vec[w] \in Answers /\ fts[w] \in Answers
      BY DEF LocalsOK
    <3>2. CASE VectorSearch(w)
      BY <2>1, <2>3, <3>1, <3>2 DEF VectorSearch
    <3>3. CASE FullTextSearch(w)
      BY <2>1, <2>3, <3>1, <3>3 DEF FullTextSearch
    <3>4. CASE SearchFails(w)
      BY <2>2, <3>1, <3>4 DEF SearchFails
    <3>5. QED
      BY <1>5, <3>2, <3>3, <3>4
  <2>5. pc[w] = "search" /\ UNCHANGED <<pc, keys, value, now, cutoff, round, accessed>>
    BY <1>5 DEF VectorSearch, FullTextSearch, SearchFails
  <2>6. QED
    BY <2>4, <2>5, SearchLocals
<1>6. CASE ~Return(w) /\ Delete(w)
  <2>1. PICK age \in Age : cutoff' = [cutoff EXCEPT ![w] = CreatedBefore(age)]
    BY <1>6 DEF Delete
  <2>2. CreatedBefore(age) \in Int
    BY BoundFacts DEF CreatedBefore, Age, SharedOK
  <2>3. /\ pc' = [pc EXCEPT ![w] = "forget_search"] /\ pc[w] = "delete"
        /\ UNCHANGED <<vec, fts, keys, value, now, round, accessed>>
    BY <1>6 DEF Delete
  <2> HIDE DEF CreatedBefore
  <2>4. LocalsOK'
    BY <2>1, <2>2, <2>3 DEF LocalsOK, Label
  <2>5. Apart(w)
    BY <2>1, <2>3 DEF LocalsOK, Apart
  <2>6. CallOK(w)' /\ Permitted(w)'
    BY <2>3 DEF LocalsOK, Calls, CallOK, Permitted
  <2>7. QED
    BY <2>4, <2>5, <2>6
<1>7. CASE ~Return(w) /\ ForgetSearch(w)
  <2>1. PICK B \in FirstOf(Matching(w), DeleteBatch) :
          /\ round[w] # MaxIterations
          /\ pc' = [pc EXCEPT ![w] = "forget_del"] /\ keys' = [keys EXCEPT ![w] = B]
          /\ value' = [value EXCEPT ![w] = Missing]
          /\ round' = [round EXCEPT ![w] = @ + 1]
          /\ UNCHANGED <<vec, fts, now, cutoff, accessed>>
    BY <1>7 DEF ForgetSearch
  <2>2. /\ B \in SUBSET Memory /\ value' \in [Worker -> Int] /\ \A u \in Worker \ {w} : value'[u] = value[u]
        /\ accessed' \in [Worker -> SUBSET Memory]
    BY <2>1, FirstOfSubset DEF LocalsOK, Missing, Matching, Full
  <2>3. QED
    BY <1>7, <2>1, <2>2, BatchLocals DEF ForgetSearch
<1>8. CASE ~Return(w) /\ StaleSearch(w)
  <2>1. PICK B \in FirstOf(Stale(w), StaleBatch) :
          /\ round[w] # MaxIterations
          /\ pc' = [pc EXCEPT ![w] = "stale_script"] /\ keys' = [keys EXCEPT ![w] = B]
          /\ round' = [round EXCEPT ![w] = @ + 1]
          /\ accessed' = [accessed EXCEPT ![w] = {}]
          /\ UNCHANGED <<vec, fts, value, now, cutoff>>
    BY <1>8 DEF StaleSearch
  <2>2. /\ B \in SUBSET Memory /\ value' \in [Worker -> Int] /\ \A u \in Worker \ {w} : value'[u] = value[u]
        /\ accessed' \in [Worker -> SUBSET Memory]
    BY <2>1, FirstOfSubset DEF LocalsOK, Stale, Full
  <2>3. QED
    BY <1>8, <2>1, <2>2, BatchLocals DEF StaleSearch
<1>9. CASE ~Return(w) /\ (StoreHash(w) \/ Extracted(w) \/ UpdateWrite(w) \/ Tracked(w) \/ RedisFails(w) \/ Crash(w))
  BY <1>9, Zenon DEF StoreHash, Extracted, UpdateWrite, Tracked, RedisFails, Crash
<1>10. QED
  BY <1>1, <1>2, <1>3, <1>4, <1>5, <1>6, <1>7, <1>8, <1>9, MergeLocals DEF Proceed

(***************************************************************************)
(* The hashes.                                                             *)
(***************************************************************************)
\* The script has an importance, a time difference for which powers are known, and
\* a count to start with.
LEMMA ArgsType ==
  ASSUME hash \in [Memory -> Hash], NEW m \in Memory, NEW time \in 0 .. ClockBound
  PROVE  LET a == ScoreArgs(m, time) IN
           /\ a.importance \in Int /\ a.intervals \in Int /\ a.count = hash[m].count
           /\ a.count \in Nat /\ PowersDefined(a.intervals)
<1> DEFINE a == ScoreArgs(m, time)
<1>1. hash[m].importance \in Int /\ hash[m].last \in 0 .. ClockBound /\ hash[m].count \in Nat
  BY BoundFacts DEF Hash
<1>2. /\ a.importance = hash[m].importance
      /\ a.intervals = IF hash[m].last = 0 THEN 0 ELSE time - hash[m].last
      /\ a.count = hash[m].count
  BY DEF ScoreArgs, Missing
<1> HIDE DEF a
<1>3. a.intervals \in -ClockBound .. ClockBound
  BY <1>1, <1>2, BoundFacts
<1>4. (IF a.intervals >= 0 THEN a.intervals ELSE -a.intervals) \in 0 .. ClockBound
  BY <1>3, BoundFacts
<1>5. PowersDefined(a.intervals)
  BY <1>4, PowerAssumption DEF PowersDefined
<1>6. QED
  BY <1>1, <1>2, <1>3, <1>5, BoundFacts DEF a

LEMMA HashFields ==
  ASSUME NEW r \in Hash
  PROVE  /\ r.full \in BOOLEAN /\ r.there \in BOOLEAN /\ r.created \in 0 .. ClockBound
         /\ r.importance \in Int /\ r.last \in 0 .. ClockBound /\ r.count \in 0 .. RecallBound
BY DEF Hash

LEMMA AccessFacts ==
  ASSUME hash \in [Memory -> Hash], NEW m \in Memory, NEW time \in 0 .. ClockBound,
         hash[m].count < RecallBound
  PROVE  /\ UpdateAccess(m, time) \in Hash
         /\ UpdateAccess(m, time).importance \in 1 .. 10
         /\ UpdateAccess(m, time).there /\ UpdateAccess(m, time).last = time
         /\ UpdateAccess(m, time).full = hash[m].full
         /\ UpdateAccess(m, time).created = hash[m].created
         /\ UpdateAccess(m, time).count = hash[m].count + 1
<1> DEFINE a == ScoreArgs(m, time)
           i == AccessImportance(a.importance, a.intervals, a.count)
           r == UpdateAccess(m, time)
           there == TRUE
           n == a.count + 1
           r1 == [hash[m] EXCEPT !.there = there]
           r2 == [r1 EXCEPT !.importance = i]
           r3 == [r2 EXCEPT !.last = time]
           r4 == [r3 EXCEPT !.count = n]
<1>1. /\ a.importance \in Int /\ a.intervals \in Int /\ a.count = hash[m].count
      /\ a.count \in Nat /\ PowersDefined(a.intervals)
  BY ArgsType
<1>2. r = r4
  BY DEF UpdateAccess
<1>3. there \in BOOLEAN /\ (there <=> TRUE)
  OBVIOUS
<1> HIDE DEF a, r, there, n
<1>4. i \in 1 .. 10
  BY <1>1, AccessRange
<1> HIDE DEF i, r4
<1>5. hash[m] \in Hash
  OBVIOUS
<1>6. r = [there |-> there, full |-> hash[m].full, importance |-> i, last |-> time,
           count |-> n, created |-> hash[m].created]
  <2>1. r1 = [there |-> there, full |-> hash[m].full, importance |-> hash[m].importance,
              last |-> hash[m].last, count |-> hash[m].count, created |-> hash[m].created]
    BY <1>5 DEF Hash
  <2> HIDE DEF r1
  <2>2. r2 = [there |-> there, full |-> hash[m].full, importance |-> i,
              last |-> hash[m].last, count |-> hash[m].count, created |-> hash[m].created]
    BY <2>1
  <2> HIDE DEF r2
  <2>3. r3 = [there |-> there, full |-> hash[m].full, importance |-> i,
              last |-> time, count |-> hash[m].count, created |-> hash[m].created]
    BY <2>2
  <2> HIDE DEF r3
  <2>4. r4 = [there |-> there, full |-> hash[m].full, importance |-> i,
              last |-> time, count |-> n, created |-> hash[m].created]
    BY <2>3 DEF r4
  <2>5. QED
    BY <1>2, <2>4
<1>7. n \in 0 .. RecallBound /\ n = hash[m].count + 1 /\ i \in Int
  BY <1>1, <1>4, <1>5, BoundFacts, HashFields DEF n
<1>8. hash[m].full \in BOOLEAN /\ hash[m].created \in 0 .. ClockBound
  BY <1>5, HashFields
<1>9. r \in Hash
  BY <1>3, <1>6, <1>7, <1>8 DEF Hash
<1>10. r.importance \in 1 .. 10 /\ r.last = time /\ r.full = hash[m].full
       /\ r.created = hash[m].created /\ r.count = hash[m].count + 1
  BY <1>4, <1>6, <1>7
<1>11. r.there = there
  BY <1>6
<1>12. r.there
  BY <1>11 DEF there
<1>13. QED
  BY <1>9, <1>10, <1>12 DEF r

\* What a step of a worker does to a hash, if anything.
Erased(w, m) ==
  /\ pc[w] \in {"delete", "forget_del", "stale_script"} /\ m \in keys[w]
  /\ hash'[m] = Absent
  /\ \A u \in Worker : m \in InHand(u) => m \in orphaned'

Saved(w, m) ==
  /\ Pending(w, m) /\ ~Pending(w, m)'
  /\ hash'[m] = [there |-> TRUE, full |-> TRUE, importance |-> value[w], last |-> now[w],
                 count |-> 0, created |-> now[w]]

Updated(w, m) ==
  /\ pc[w] = "update_write" /\ m \in keys[w]
  /\ hash'[m] = [there |-> TRUE, full |-> hash[m].full, last |-> hash[m].last,
                 count |-> hash[m].count, created |-> hash[m].created,
                 importance |-> IF value[w] > 0 THEN value[w] ELSE hash[m].importance]

Accessed(w, m) ==
  /\ pc[w] = "track" /\ m \in keys[w] /\ keys' = [keys EXCEPT ![w] = @ \ {m}] /\ UNCHANGED pc
  /\ hash'[m] = UpdateAccess(m, now[w])

Written(w, m) ==
  \/ hash'[m] = hash[m]
  \/ Erased(w, m) \/ Saved(w, m) \/ Updated(w, m) \/ Accessed(w, m)

LEMMA UpdateWriteFacts ==
  ASSUME IInv, NEW w \in Worker, UpdateWrite(w)
  PROVE  \E m \in keys[w] : m \in Memory /\ Updated(w, m) /\ hash' = [hash EXCEPT ![m] = hash'[m]]
<1> LocalsOK /\ hash \in [Memory -> Hash]
  BY DEF IInv, SharedOK
<1> DEFINE there == TRUE
           i(m) == IF value[w] > 0 THEN value[w] ELSE hash[m].importance
<1>1. PICK m \in keys[w] :
       hash' = [hash EXCEPT ![m].there = there,
                            ![m].importance = IF value[w] > 0 THEN value[w] ELSE @]
  BY DEF UpdateWrite
<1> HIDE DEF there
<1>2. m \in Memory /\ pc[w] = "update_write" /\ hash[m] \in Hash
  BY DEF UpdateWrite, LocalsOK
<1>3. hash'[m] = [there |-> there, full |-> hash[m].full, last |-> hash[m].last,
                  count |-> hash[m].count, created |-> hash[m].created, importance |-> i(m)]
  <2> DEFINE r == [hash[m] EXCEPT !.there = there]
  <2>1. r = [there |-> there, full |-> hash[m].full, importance |-> hash[m].importance,
             last |-> hash[m].last, count |-> hash[m].count, created |-> hash[m].created]
    BY <1>2 DEF Hash
  <2>2. hash'[m] = [r EXCEPT !.importance = IF value[w] > 0 THEN value[w] ELSE @]
    BY <1>1, <1>2
  <2> HIDE DEF r
  <2>3. r.importance = hash[m].importance
    BY <2>1
  <2>4. hash'[m] = [r EXCEPT !.importance = i(m)]
    BY <2>2, <2>3
  <2> HIDE DEF i
  <2>5. QED
    BY <2>1, <2>4
<1>4. hash' = [hash EXCEPT ![m] = hash'[m]]
  BY <1>1, <1>2
<1>5. Updated(w, m)
  BY <1>2, <1>3, Zenon DEF Updated, there, i
<1>6. QED
  BY <1>2, <1>4, <1>5, Zenon

LEMMA RemovedKeys ==
  ASSUME NEW w \in Worker, Delete(w) \/ ForgetDel(w) \/ StaleScript(w)
  PROVE  \E S \in SUBSET keys[w] : Remove(S)
<1>1. CASE Delete(w)
  BY <1>1, Zenon DEF Delete
<1>2. CASE ForgetDel(w)
  BY <1>2 DEF ForgetDel
<1>3. CASE StaleScript(w)
  <2>1. {m \in keys[w] : Faded(m, now[w])} \in SUBSET keys[w]
    OBVIOUS
  <2>2. QED
    BY <1>3, <2>1, Zenon DEF StaleScript
<1>4. QED
  BY <1>1, <1>2, <1>3

LEMMA WrittenBy ==
  ASSUME IInv, NEW w \in Worker, Begins(w) \/ Proceed(w)
  PROVE  /\ hash' = [m \in Memory |-> hash'[m]]
         /\ \A m \in Memory : Written(w, m)
<1> LocalsOK /\ hash \in [Memory -> Hash]
  BY DEF IInv, SharedOK
<1> DEFINE Goal == /\ hash' = [m \in Memory |-> hash'[m]]
                   /\ \A m \in Memory : Written(w, m)
<1>1. ASSUME hash' = hash PROVE Goal
  <2>1. \A m \in Memory : hash'[m] = hash[m]
    BY <1>1
  <2>2. QED
    BY <1>1, <2>1 DEF Written
<1>2. ASSUME NEW m \in Memory, hash' = [hash EXCEPT ![m] = hash'[m]], Written(w, m) PROVE Goal
  <2>1. \A k \in Memory \ {m} : hash'[k] = hash[k]
    BY <1>2
  <2>2. hash' = [k \in Memory |-> hash'[k]]
    BY <1>2
  <2>3. QED
    BY <1>2, <2>1, <2>2, Zenon DEF Written
<1>3. ASSUME NEW m \in keys[w], Save(w, m), pc[w] \in {"store", "extract"},
             Return(w) \/ keys' = [keys EXCEPT ![w] = @ \ {m}]
      PROVE  Goal
  <2>1. m \in Memory
    BY DEF LocalsOK
  <2>2. ~Pending(w, m)' /\ Pending(w, m)
    BY <1>3 DEF Pending, LocalsOK, Return
  <2>3. hash'[m] = [there |-> TRUE, full |-> TRUE, importance |-> value[w], last |-> now[w],
                    count |-> 0, created |-> now[w]]
    BY <1>3, <2>1, Zenon DEF Save
  <2>4. hash' = [hash EXCEPT ![m] = hash'[m]]
    BY <1>3, <2>3, Zenon DEF Save
  <2>5. QED
    BY <1>2, <2>1, <2>2, <2>3, <2>4, Zenon DEF Written, Saved
<1>4. CASE UpdateWrite(w)
  BY <1>2, <1>4, UpdateWriteFacts DEF Written
<1>5. CASE TrackAccess(w)
  <2>1. PICK m \in keys[w] : hash' = [hash EXCEPT ![m] = UpdateAccess(m, now[w])]
                             /\ keys' = [keys EXCEPT ![w] = @ \ {m}]
    BY <1>5, Zenon DEF TrackAccess
  <2>2. pc[w] = "track" /\ UNCHANGED pc /\ m \in Memory
    BY <1>5 DEF TrackAccess, LocalsOK
  <2>3. hash'[m] = UpdateAccess(m, now[w]) /\ hash' = [hash EXCEPT ![m] = hash'[m]]
    BY <2>1, <2>2
  <2>4. QED
    BY <1>2, <2>1, <2>2, <2>3, Zenon DEF Written, Accessed
<1>6. CASE Delete(w) \/ ForgetDel(w) \/ StaleScript(w)
  <2>1. PICK S \in SUBSET keys[w] : Remove(S)
    BY <1>6, RemovedKeys
  <2>2. hash' = [m \in Memory |-> hash'[m]]
    BY <2>1 DEF Remove
  <2>3. \A m \in Memory : hash'[m] = IF m \in S THEN Absent ELSE hash[m]
    BY <2>1 DEF Remove
  <2>4. \A m \in S, u \in Worker : m \in InHand(u) => m \in orphaned'
    BY <2>1 DEF Remove
  <2>5. pc[w] \in {"delete", "forget_del", "stale_script"}
    BY <1>6 DEF Delete, ForgetDel, StaleScript
  <2>6. QED
    BY <2>2, <2>3, <2>4, <2>5 DEF Written, Erased
<1>7. CASE StoreHash(w) \/ ExtractSave(w) \/ ExtractFails(w)
  BY <1>1, <1>3, <1>7, Zenon DEF StoreHash, ExtractSave, ExtractFails
<1>8. CASE Begins(w)
  <2>1. hash' = hash
    BY <1>8 DEF Begins, Store, Extract, UpdateMemory, VectorRecall, FullTextRecall, HybridRecall, Recall,
       ForgetId, ForgetFilter, AutoForget
  <2>2. QED
    BY <1>1, <2>1
<1>9. CASE Extracted(w) \/ UpdateCheck(w) \/ VectorSearch(w) \/ FullTextSearch(w) \/ SearchFails(w)
           \/ MergeResults(w) \/ Tracked(w) \/ ForgetSearch(w) \/ ForgetDeleted(w) \/ StaleSearch(w)
           \/ RedisFails(w) \/ Crash(w)
  <2>1. hash' = hash
    BY <1>9 DEF Extracted, UpdateCheck, VectorSearch, FullTextSearch, SearchFails, MergeResults, Tracked,
       ForgetSearch, ForgetDeleted, StaleSearch, RedisFails, Crash
  <2>2. QED
    BY <1>1, <2>1
<1>10. QED
  BY <1>4, <1>5, <1>6, <1>7, <1>8, <1>9 DEF Proceed

(***************************************************************************)
(* The calls.                                                              *)
(***************************************************************************)
\* How a worker comes to search, with what it finds, ...
Searches(w) ==
  pc'[w] = "search" =>
    \/ pc[w] = "search" /\ Candidates(w)' \subseteq Candidates(w) \cup Full
    \/ /\ pc[w] = "idle" /\ Candidates(w)' = {}
       /\ \A m \in Memory : returned[m] + Cardinality(Searchers) < RecallBound

\* ... to track what it returns, ...
Tracks(w) ==
  IF pc'[w] = "track" /\ pc[w] # "track"
    THEN /\ pc[w] = "search" /\ keys'[w] \subseteq Candidates(w) /\ now'[w] = clock
         /\ returned' = [m \in Memory |-> IF m \in keys'[w] THEN returned[m] + 1 ELSE returned[m]]
    ELSE /\ pc'[w] = "track" => keys'[w] \subseteq keys[w] /\ now'[w] = now[w]
         /\ returned' = returned

\* ... to write an update, ...
Updates(w) ==
  pc'[w] = "update_write" =>
    pc[w] = "update_check" /\ keys'[w] = keys[w] /\ \E m \in keys[w] : Exists(m)

\* ... to store memories, ...
Stores(w) ==
  /\ known \subseteq known' /\ known' \subseteq Memory
  /\ \A m \in known' \ known : Pending(w, m)'
  /\ \A m \in Memory : Pending(w, m)' => Pending(w, m) \/ m \in known' \ known

\* ... and what it does to the history of the deletes.
Orphans == orphaned \subseteq orphaned' /\ orphaned' \subseteq Memory

Moves(w) == clock' = clock /\ Searches(w) /\ Tracks(w) /\ Updates(w) /\ Stores(w) /\ Orphans

LEMMA MovesQuietly ==
  ASSUME IInv, NEW w \in Worker, UNCHANGED <<clock, known, returned>>, Orphans,
         pc'[w] \notin {"search", "track", "update_write", "store", "extract"}
  PROVE  Moves(w)
<1>1. Stores(w)
  BY DEF Stores, Pending, IInv, SharedOK
<1>2. Searches(w) /\ Tracks(w) /\ Updates(w)
  BY DEF Searches, Tracks, Updates
<1>3. QED
  BY <1>1, <1>2 DEF Moves

LEMMA BeginsMoves ==
  ASSUME IInv, NEW w \in Worker, Begins(w)
  PROVE  Moves(w)
<1> LocalsOK /\ Calls /\ SharedOK /\ hash \in [Memory -> Hash]
  BY DEF IInv, SharedOK
<1> UNCHANGED orphaned /\ Orphans
  BY DEF Begins, Store, Extract, UpdateMemory, VectorRecall, FullTextRecall, HybridRecall, Recall,
     ForgetId, ForgetFilter, AutoForget, history, Orphans, IInv, SharedOK
<1>1. ASSUME NEW call, NEW label, NEW S, NEW importance, NEW bound,
             Begin(w, call, label, S, importance, bound)
      PROVE  /\ pc[w] = "idle" /\ pc'[w] = label /\ keys'[w] = S /\ value'[w] = importance
  BY <1>1 DEF Begin, LocalsOK
<1>2. ASSUME NEW m \in Memory, NEW i \in Importance, Store(w, m, i) PROVE Moves(w)
  <2>1. pc[w] = "idle" /\ pc'[w] = "store" /\ keys'[w] = {m} /\ value'[w] = i
    BY <1>1, <1>2, Zenon DEF Store
  <2>2. m \notin known /\ known' = known \cup {m}
    BY <1>2 DEF Store
  <2>3. Stores(w)
    BY <2>1, <2>2 DEF Stores, Pending, SharedOK
  <2>4. QED
    BY <1>2, <2>1, <2>3 DEF Moves, Searches, Tracks, Updates, Store
<1>3. ASSUME NEW S \in SUBSET Memory, NEW i \in Importance, Extract(w, S, i) PROVE Moves(w)
  <2>1. pc[w] = "idle" /\ pc'[w] = "extract" /\ keys'[w] = S /\ value'[w] = i
    BY <1>1, <1>3, Zenon DEF Extract
  <2>2. S \cap known = {} /\ known' = known \cup S
    BY <1>3 DEF Extract
  <2>3. Stores(w)
    BY <2>1, <2>2 DEF Stores, Pending, SharedOK
  <2>4. QED
    BY <1>3, <2>1, <2>3 DEF Moves, Searches, Tracks, Updates, Extract
<1>4. ASSUME NEW v, NEW f, Ids(v) = {}, Ids(f) = {}, Recall(w, v, f) PROVE Moves(w)
  <2>1. pc[w] = "idle" /\ pc'[w] = "search"
    BY <1>1, <1>4, Zenon DEF Recall
  <2>2. vec'[w] = v /\ fts'[w] = f
    BY <1>4 DEF Recall, LocalsOK
  <2>3. Candidates(w)' = {}
    BY <1>4, <2>2 DEF Candidates, Ids
  <2>4. \A m \in Memory : returned[m] + Cardinality(Searchers) < RecallBound
    BY <1>4, Zenon DEF Recall, Searchers
  <2>5. UNCHANGED <<clock, known, returned>>
    BY <1>4 DEF Recall, history
  <2>6. Stores(w)
    BY <2>1, <2>5 DEF Stores, Pending, SharedOK
  <2>7. QED
    BY <2>1, <2>3, <2>4, <2>5, <2>6 DEF Moves, Searches, Tracks, Updates
<1>5. Ids(Waiting) = {} /\ Ids(Unused) = {}
  BY AnswerType DEF Waiting, Unused
<1>6. ASSUME NEW call, NEW label \in {"update_check", "delete", "forget_search", "stale_search"},
             NEW S, NEW importance, NEW bound, Begin(w, call, label, S, importance, bound),
             UNCHANGED <<clock, history>>
      PROVE  Moves(w)
  <2>1. pc'[w] = label
    BY <1>1, <1>6, Zenon
  <2>2. QED
    BY <1>6, <2>1, MovesQuietly DEF history
<1>7. QED
  <2>1. CASE (\E m \in Memory, i \in Importance : Store(w, m, i))
             \/ (\E S \in SUBSET Memory, i \in Importance : Extract(w, S, i))
             \/ VectorRecall(w) \/ FullTextRecall(w) \/ HybridRecall(w)
    BY <1>2, <1>3, <1>4, <1>5, <2>1, Zenon DEF VectorRecall, FullTextRecall, HybridRecall
  <2>2. ASSUME NEW m \in Memory, NEW i, UpdateMemory(w, m, i) PROVE Moves(w)
    BY <1>6, <2>2 DEF UpdateMemory
  <2>3. ASSUME NEW m \in Memory, ForgetId(w, m) PROVE Moves(w)
    BY <1>6, <2>3 DEF ForgetId
  <2>4. ASSUME NEW age \in Age, ForgetFilter(w, age) PROVE Moves(w)
    BY <1>6, <2>4 DEF ForgetFilter
  <2>5. CASE AutoForget(w)
    BY <1>6, <2>5 DEF AutoForget
  <2>6. QED
    BY <2>1, <2>2, <2>3, <2>4, <2>5, Zenon DEF Begins

LEMMA ProceedMoves ==
  ASSUME IInv, NEW w \in Worker, Proceed(w)
  PROVE  Moves(w)
<1> LocalsOK /\ Calls /\ SharedOK /\ hash \in [Memory -> Hash]
  BY DEF IInv, SharedOK
<1>1. ASSUME NEW label \in Label, pc' = [pc EXCEPT ![w] = label] PROVE pc'[w] = label
  BY <1>1 DEF LocalsOK
<1>2. ASSUME Return(w) PROVE pc'[w] = "idle"
  BY <1>2 DEF Return, LocalsOK
<1> UNCHANGED orphaned => Orphans
  BY DEF Orphans, SharedOK
<1>3. ASSUME Return(w), UNCHANGED <<clock, history>> PROVE Moves(w)
  BY <1>2, <1>3, MovesQuietly DEF history
<1>4. CASE StoreHash(w) \/ Extracted(w) \/ Tracked(w) \/ RedisFails(w) \/ Crash(w)
  BY <1>3, <1>4, Zenon DEF StoreHash, Extracted, Tracked, RedisFails, Crash
<1>5. CASE UpdateWrite(w)
  BY <1>3, <1>5, Zenon DEF UpdateWrite
<1>6. CASE ExtractSave(w) \/ ExtractFails(w)
  <2>1. PICK m \in keys[w] : keys' = [keys EXCEPT ![w] = @ \ {m}]
    BY <1>6, Zenon DEF ExtractSave, ExtractFails
  <2>2. UNCHANGED <<clock, known, orphaned, returned, pc, value>> /\ pc[w] = "extract"
    BY <1>6 DEF ExtractSave, ExtractFails, history
  <2>3. keys'[w] \subseteq keys[w]
    BY <2>1 DEF LocalsOK
  <2>4. Stores(w)
    BY <2>2, <2>3 DEF Stores, Pending, SharedOK
  <2>5. QED
    BY <2>2, <2>4 DEF Moves, Searches, Tracks, Updates
<1>7. CASE UpdateCheck(w)
  <2>1. UNCHANGED <<clock, known, orphaned, returned>> /\ pc[w] = "update_check"
    BY <1>7 DEF UpdateCheck, history
  <2>2. CASE \E m \in keys[w] : Exists(m)
    <3>1. pc'[w] = "update_write" /\ keys' = keys
      BY <1>7, <2>2 DEF UpdateCheck, LocalsOK, locals
    <3>2. Stores(w)
      BY <2>1, <3>1 DEF Stores, Pending, SharedOK
    <3>3. QED
      BY <2>1, <2>2, <3>1, <3>2 DEF Moves, Searches, Tracks, Updates
  <2>3. CASE ~\E m \in keys[w] : Exists(m)
    BY <1>3, <1>7, <2>3, Zenon DEF UpdateCheck
  <2>4. QED
    BY <2>2, <2>3
<1>8. CASE VectorSearch(w) \/ FullTextSearch(w) \/ SearchFails(w)
  <2>1. pc[w] = "search" /\ UNCHANGED <<pc, clock, known, orphaned, returned, keys, value>>
    BY <1>8 DEF VectorSearch, FullTextSearch, SearchFails, history
  <2>2. \A n : \A T \in FirstOf(Full, n) \cup AtMostOf(Full, n) : T \subseteq Full
    BY FirstOfSubset
  <2>3. \A T \in SUBSET Memory : Ids(Found(T)) = T
    BY AnswerType DEF Found
  <2>4. Ids(Failed) = {} /\ Full \subseteq Memory
    BY AnswerType DEF Failed, Full
  <2> HIDE DEF Failed, Found, Full, Ids
  <2>5. Ids(vec'[w]) \subseteq Ids(vec[w]) \cup Full /\ Ids(fts'[w]) \subseteq Ids(fts[w]) \cup Full
    <3>1. CASE VectorSearch(w)
      <4>1. PICK T \in FirstOf(Full, FetchLimit(w)) : vec' = [vec EXCEPT ![w] = Found(T)]
        BY <3>1 DEF VectorSearch
      <4>2. T \subseteq Full /\ T \in SUBSET Memory
        BY <2>2, <2>4
      <4>3. vec'[w] = Found(T) /\ fts'[w] = fts[w]
        BY <3>1, <4>1 DEF VectorSearch, LocalsOK
      <4>4. QED
        BY <2>3, <4>2, <4>3
    <3>2. CASE FullTextSearch(w)
      <4>1. PICK T \in AtMostOf(Full, FetchLimit(w)) : fts' = [fts EXCEPT ![w] = Found(T)]
        BY <3>2 DEF FullTextSearch
      <4>2. T \subseteq Full /\ T \in SUBSET Memory
        BY <2>2, <2>4
      <4>3. fts'[w] = Found(T) /\ vec'[w] = vec[w]
        BY <3>2, <4>1 DEF FullTextSearch, LocalsOK
      <4>4. QED
        BY <2>3, <4>2, <4>3
    <3>3. CASE SearchFails(w)
      <4>1. vec'[w] \in {vec[w], Failed} /\ fts'[w] \in {fts[w], Failed}
        BY <3>3 DEF SearchFails, LocalsOK
      <4>2. QED
        BY <2>4, <4>1
    <3>4. QED
      BY <1>8, <3>1, <3>2, <3>3
  <2>6. Candidates(w)' \subseteq Candidates(w) \cup Full
    BY <2>5 DEF Candidates, Ids
  <2>7. Stores(w)
    BY <2>1 DEF Stores, Pending, SharedOK
  <2>8. QED
    BY <2>1, <2>6, <2>7 DEF Moves, Searches, Tracks, Updates
<1>9. CASE MergeResults(w)
  <2>1. pc[w] = "search" /\ UNCHANGED <<clock, known, orphaned>>
    BY <1>9, MergeFacts
  <2>2. CASE Return(w) /\ returned' = returned
    BY <1>3, <2>1, <2>2 DEF history
  <2>3. CASE ~(Return(w) /\ returned' = returned)
    <3>1. PICK T \in SUBSET Candidates(w) :
            /\ pc' = [pc EXCEPT ![w] = "track"] /\ keys' = [keys EXCEPT ![w] = T]
            /\ returned' = [m \in Memory |-> IF m \in T THEN returned[m] + 1 ELSE returned[m]]
            /\ now' = [now EXCEPT ![w] = clock]
      BY <1>9, <2>3, MergeFacts, Zenon
    <3>2. pc'[w] = "track" /\ keys'[w] = T /\ now'[w] = clock
      BY <3>1 DEF LocalsOK
    <3>3. Stores(w)
      BY <2>1, <3>2 DEF Stores, Pending, SharedOK
    <3>4. Tracks(w)
      BY <2>1, <3>1, <3>2 DEF Tracks
    <3>5. QED
      BY <2>1, <3>2, <3>3, <3>4 DEF Moves, Searches, Updates
  <2>4. QED
    BY <2>2, <2>3
<1>10. CASE TrackAccess(w)
  <2>1. PICK m \in keys[w] : keys' = [keys EXCEPT ![w] = @ \ {m}]
    BY <1>10, Zenon DEF TrackAccess
  <2>2. UNCHANGED <<clock, known, orphaned, returned, pc, now>> /\ pc[w] = "track"
    BY <1>10 DEF TrackAccess, history
  <2>3. keys'[w] \subseteq keys[w]
    BY <2>1 DEF LocalsOK
  <2>4. Stores(w)
    BY <2>2 DEF Stores, Pending, SharedOK
  <2>5. QED
    BY <2>2, <2>3, <2>4 DEF Moves, Searches, Tracks, Updates
<1>11. CASE Delete(w) \/ ForgetSearch(w) \/ ForgetDel(w) \/ ForgetDeleted(w) \/ StaleSearch(w)
            \/ StaleScript(w)
  <2>1. UNCHANGED <<clock, known, returned>> /\ Orphans
    <3>1. CASE Delete(w) \/ ForgetDel(w) \/ StaleScript(w)
      <4>1. PICK S \in SUBSET keys[w] : Remove(S)
        BY <3>1, RemovedKeys
      <4>2. S \subseteq Memory
        BY DEF LocalsOK
      <4>3. QED
        BY <4>1, <4>2 DEF Remove, Orphans, SharedOK
    <3>2. CASE ForgetSearch(w) \/ ForgetDeleted(w) \/ StaleSearch(w)
      BY <3>2 DEF ForgetSearch, ForgetDeleted, StaleSearch, history
    <3>3. QED
      BY <1>11, <3>1, <3>2
  <2>2. pc'[w] \in {"idle", "forget_search", "forget_del", "stale_search", "stale_script"}
    BY <1>2, <1>11 DEF Delete, ForgetSearch, ForgetDel, ForgetDeleted, StaleSearch, StaleScript, LocalsOK
  <2>3. QED
    BY <2>1, <2>2, MovesQuietly
<1>12. QED
  BY <1>4, <1>5, <1>6, <1>7, <1>8, <1>9, <1>10, <1>11 DEF Proceed

LEMMA SavedFacts ==
  ASSUME IInv, NEW w \in Worker, NEW m \in Memory, Saved(w, m)
  PROVE  /\ hash'[m] \in Hash /\ hash'[m].there /\ hash'[m].full
         /\ hash'[m].last = now[w] /\ hash'[m].created = now[w] /\ now[w] \in 1 .. ClockBound
         /\ hash'[m].count = 0
<1> DEFINE yes == TRUE
<1>1. hash'[m] = [there |-> yes, full |-> yes, importance |-> value[w], last |-> now[w],
                  count |-> 0, created |-> now[w]]
  BY Zenon DEF Saved
<1>2. yes \in BOOLEAN /\ yes
  OBVIOUS
<1>3. value[w] \in Int /\ now[w] \in 1 .. ClockBound
  BY BoundFacts DEF Saved, Pending, IInv, Calls, CallOK, LocalsOK
<1> HIDE DEF yes
<1>4. hash'[m] \in Hash
  BY <1>1, <1>2, <1>3, BoundFacts DEF Hash
<1>5. hash'[m].there = yes /\ hash'[m].full = yes
  BY <1>1
<1>6. hash'[m].there /\ hash'[m].full
  BY <1>2, <1>5
<1>7. QED
  BY <1>1, <1>3, <1>4, <1>6

LEMMA UpdatedFacts ==
  ASSUME IInv, NEW w \in Worker, NEW m \in Memory, Updated(w, m)
  PROVE  /\ hash'[m] \in Hash /\ hash'[m].there /\ hash'[m].full = hash[m].full
         /\ hash'[m].importance \in {hash[m].importance} \cup 1 .. 10
         /\ hash'[m].last = hash[m].last /\ hash'[m].created = hash[m].created
         /\ hash'[m].count = hash[m].count
<1> DEFINE yes == TRUE
           i == IF value[w] > 0 THEN value[w] ELSE hash[m].importance
<1>1. hash'[m] = [there |-> yes, full |-> hash[m].full, last |-> hash[m].last,
                  count |-> hash[m].count, created |-> hash[m].created, importance |-> i]
  BY Zenon DEF Updated
<1>2. yes \in BOOLEAN /\ yes
  OBVIOUS
<1>3. value[w] \in Int /\ value[w] <= 10 /\ hash[m] \in Hash
  BY DEF Updated, IInv, SharedOK, LocalsOK, Calls, CallOK
<1>4. i \in Int /\ i \in {hash[m].importance} \cup 1 .. 10
  BY <1>3, HashFields
<1> HIDE DEF yes, i
<1>5. hash'[m] \in Hash
  BY <1>1, <1>2, <1>3, <1>4, HashFields DEF Hash
<1>6. hash'[m].there = yes /\ hash'[m].importance = i
  BY <1>1
<1>7. hash'[m].there
  BY <1>2, <1>6
<1>8. QED
  BY <1>1, <1>3, <1>4, <1>5, <1>6, <1>7

\* Among the accesses that are still to be counted is the one of this worker.
LEMMA TrackersFinite ==
  ASSUME NEW m
  PROVE  /\ IsFiniteSet(Trackers(m)) /\ Cardinality(Trackers(m)) \in Nat
         /\ IsFiniteSet(Searchers) /\ Cardinality(Searchers) \in Nat
         /\ \A w \in Trackers(m) : Cardinality(Trackers(m)) >= 1
<1>1. IsFiniteSet(Trackers(m)) /\ IsFiniteSet(Searchers)
  BY FiniteAssumption, FS_Subset DEF Trackers, Searchers
<1>2. Cardinality(Trackers(m)) \in Nat /\ Cardinality(Searchers) \in Nat
  BY <1>1, FS_CardinalityType
<1>3. ASSUME NEW w \in Trackers(m) PROVE Cardinality(Trackers(m)) >= 1
  <2>1. Cardinality(Trackers(m)) # 0
    BY <1>1, FS_EmptySet
  <2>2. QED
    BY <1>2, <2>1
<1>4. QED
  BY <1>1, <1>2, <1>3

LEMMA AccessedFacts ==
  ASSUME IInv, NEW w \in Worker, NEW m \in Memory, Accessed(w, m)
  PROVE  /\ hash'[m] \in Hash /\ hash'[m].there /\ hash'[m].full = hash[m].full
         /\ hash'[m].importance \in 1 .. 10
         /\ hash'[m].last = now[w] /\ now[w] \in 1 .. ClockBound
         /\ hash'[m].created = hash[m].created
         /\ hash'[m].count = hash[m].count + 1
         /\ w \in Trackers(m) /\ hash[m].count \in Nat
<1>1. w \in Trackers(m)
  BY DEF Accessed, Trackers
<1>2. hash[m].count + Cardinality(Trackers(m)) <= returned[m] /\ returned[m] \in Nat
      /\ returned[m] + Cardinality(Searchers) <= RecallBound
  BY DEF IInv, Counted
<1>3. hash[m].count \in Nat
  BY BoundFacts, HashFields DEF IInv, SharedOK
<1>4. hash[m].count < RecallBound
  BY <1>1, <1>2, <1>3, TrackersFinite, BoundFacts
<1>5. now[w] \in 1 .. ClockBound
  BY BoundFacts DEF Accessed, IInv, Calls, CallOK, LocalsOK
<1>6. now[w] \in 0 .. ClockBound /\ hash \in [Memory -> Hash]
  BY <1>5 DEF IInv, SharedOK
<1> DEFINE r == UpdateAccess(m, now[w])
<1>7. hash'[m] = r
  BY DEF Accessed
<1>8. /\ r \in Hash /\ r.importance \in 1 .. 10 /\ r.there /\ r.last = now[w]
      /\ r.full = hash[m].full /\ r.created = hash[m].created /\ r.count = hash[m].count + 1
  BY <1>4, <1>6, AccessFacts
<1> HIDE DEF r
<1>9. QED
  BY <1>1, <1>3, <1>5, <1>7, <1>8

LEMMA AbsentFacts ==
  /\ Absent \in Hash /\ ~Absent.full /\ ~Absent.there /\ Absent.count = 0 /\ Absent.last = 0
<1> DEFINE no == FALSE
<1>1. Absent = [there |-> no, full |-> no, importance |-> 5, last |-> 0, count |-> 0, created |-> 0]
  BY Zenon DEF Absent, Missing
<1>2. no \in BOOLEAN /\ ~no
  OBVIOUS
<1> HIDE DEF no
<1>3. Absent \in Hash
  BY <1>1, <1>2, BoundFacts DEF Hash
<1>4. Absent.full = no /\ Absent.there = no /\ Absent.count = 0 /\ Absent.last = 0
  BY <1>1
<1>5. QED
  BY <1>2, <1>3, <1>4

LEMMA SharedStep ==
  ASSUME IInv, NEW w \in Worker, Begins(w) \/ Proceed(w), Moves(w)
  PROVE  SharedOK'
<1> SharedOK
  BY DEF IInv
<1>1. hash' = [m \in Memory |-> hash'[m]] /\ \A m \in Memory : Written(w, m)
  BY WrittenBy
<1>2. ASSUME NEW m \in Memory
      PROVE  /\ hash'[m] \in Hash
             /\ hash'[m].full => hash'[m].there /\ hash'[m].created >= 1 /\ hash'[m].last >= 1
             /\ hash'[m].count > 0 => hash'[m].importance \in 1 .. 10
  <2>1. /\ hash[m] \in Hash
        /\ hash[m].full => hash[m].there /\ hash[m].created >= 1 /\ hash[m].last >= 1
        /\ hash[m].count > 0 => hash[m].importance \in 1 .. 10
    BY DEF SharedOK, Full, Exists
  <2>2. CASE hash'[m] = hash[m] \/ Erased(w, m)
    BY <2>1, <2>2, AbsentFacts DEF Erased
  <2>3. CASE Saved(w, m)
    BY <2>3, SavedFacts, BoundFacts
  <2>4. CASE Updated(w, m)
    BY <2>1, <2>4, UpdatedFacts
  <2>5. CASE Accessed(w, m)
    BY <2>1, <2>5, AccessedFacts, BoundFacts
  <2>6. QED
    BY <1>1, <2>2, <2>3, <2>4, <2>5 DEF Written
<1>3. hash' \in [Memory -> Hash]
  BY <1>1, <1>2
<1>4. \A m \in Full' : Exists(m)' /\ hash'[m].created >= 1 /\ hash'[m].last >= 1
  BY <1>2 DEF Full, Exists
<1>5. clock' = clock /\ known' \subseteq Memory /\ orphaned' \subseteq Memory
  BY DEF Moves, Stores, Orphans
<1>6. QED
  BY <1>2, <1>3, <1>4, <1>5 DEF SharedOK

LEMMA FullIsBorn ==
  ASSUME Births, NEW m \in Memory, m \in Full \/ Exists(m), SharedOK
  PROVE  ~Unborn(m)
BY DEF Births, SharedOK, Full

\* A step of a worker moves only that worker among those that search or track.
LEMMA OthersStay ==
  ASSUME IInv, NEW w \in Worker, Apart(w), Moves(w), NEW m \in Memory
  PROVE  /\ Searchers' \subseteq Searchers \cup {w} /\ Trackers(m)' \subseteq Trackers(m) \cup {w}
         /\ pc'[w] = "search" /\ pc[w] # "idle" => w \in Searchers
         /\ pc'[w] # "search" => w \notin Searchers'
         /\ w \in Trackers(m)' <=> pc'[w] = "track" /\ m \in keys'[w]
<1>1. Searchers' \subseteq Searchers \cup {w} /\ Trackers(m)' \subseteq Trackers(m) \cup {w}
  BY DEF Apart, Searchers, Trackers
<1>2. pc'[w] = "search" /\ pc[w] # "idle" => w \in Searchers
  BY DEF Moves, Searches, Searchers
<1>3. QED
  BY <1>1, <1>2 DEF Searchers, Trackers

LEMMA CountedStep ==
  ASSUME IInv, NEW w \in Worker, Begins(w) \/ Proceed(w), Moves(w), Apart(w)
  PROVE  Counted'
<1> Counted /\ SharedOK /\ LocalsOK
  BY DEF IInv
<1>1. returned \in [Memory -> Nat] /\ hash \in [Memory -> Hash]
  BY DEF Counted, SharedOK
<1>2. \A m \in Memory : returned'[m] = returned[m] \/ (returned'[m] = returned[m] + 1)
  BY <1>1 DEF Moves, Tracks
<1>3. returned' \in [Memory -> Nat]
  BY <1>1 DEF Moves, Tracks
<1>4. ASSUME NEW m \in Memory
      PROVE  /\ hash'[m].count + Cardinality(Trackers(m)') <= returned'[m]
             /\ returned'[m] + Cardinality(Searchers') <= RecallBound
  <2> DEFINE T == Trackers(m)
             S == Searchers
  <2>1. /\ hash[m].count \in Nat /\ returned[m] \in Nat
        /\ hash[m].count + Cardinality(T) <= returned[m] /\ returned[m] + Cardinality(S) <= RecallBound
    BY <1>1, BoundFacts, HashFields DEF Counted
  <2>2. /\ IsFiniteSet(T) /\ Cardinality(T) \in Nat /\ IsFiniteSet(S) /\ Cardinality(S) \in Nat
    BY TrackersFinite
  <2>3. /\ S' \subseteq S \cup {w} /\ T' \subseteq T \cup {w}
        /\ pc'[w] = "search" /\ pc[w] # "idle" => w \in S
        /\ pc'[w] # "search" => w \notin S'
        /\ w \in T' <=> pc'[w] = "track" /\ m \in keys'[w]
    BY OthersStay
  <2>4. \A R : R \subseteq T => IsFiniteSet(R) /\ Cardinality(R) \in Nat /\ Cardinality(R) <= Cardinality(T)
    BY <2>2, FS_Subset, FS_CardinalityType
  <2>5. \A R : R \subseteq S => IsFiniteSet(R) /\ Cardinality(R) \in Nat /\ Cardinality(R) <= Cardinality(S)
    BY <2>2, FS_Subset, FS_CardinalityType
  <2>6. /\ IsFiniteSet(T \cup {w}) /\ IsFiniteSet(S \cup {w})
        /\ Cardinality(T \cup {w}) = (IF w \in T THEN Cardinality(T) ELSE Cardinality(T) + 1)
        /\ Cardinality(S \cup {w}) = (IF w \in S THEN Cardinality(S) ELSE Cardinality(S) + 1)
        /\ Cardinality(T \ {w}) = (IF w \in T THEN Cardinality(T) - 1 ELSE Cardinality(T))
        /\ Cardinality(S \ {w}) = (IF w \in S THEN Cardinality(S) - 1 ELSE Cardinality(S))
    BY <2>2, FS_AddElement, FS_RemoveElement
  <2>7. \A R : R \subseteq T \cup {w} => Cardinality(R) \in Nat /\ Cardinality(R) <= Cardinality(T \cup {w})
    BY <2>6, FS_Subset, FS_CardinalityType
  <2>8. \A R : R \subseteq S \cup {w} => Cardinality(R) \in Nat /\ Cardinality(R) <= Cardinality(S \cup {w})
    BY <2>6, FS_Subset, FS_CardinalityType
  <2>9. \A R : R \subseteq S \ {w} => Cardinality(R) <= Cardinality(S \ {w})
    BY <2>2, FS_RemoveElement, FS_Subset
  <2>10. \A R : R \subseteq T \ {w} => Cardinality(R) <= Cardinality(T \ {w})
    BY <2>2, FS_RemoveElement, FS_Subset
  <2>11. Cardinality(S') \in Nat /\ Cardinality(T') \in Nat
    BY <2>3, <2>7, <2>8
  <2>12. hash'[m].count \in Nat /\ (hash'[m].count <= hash[m].count \/ Accessed(w, m))
    <3>1. Written(w, m)
      BY WrittenBy
    <3>2. QED
      BY <2>1, <3>1, AbsentFacts, SavedFacts, UpdatedFacts, AccessedFacts DEF Written, Erased
  <2>13. RecallBound \in Nat
    BY BoundFacts
  <2> HIDE DEF T, S
  <2>14. returned'[m] + Cardinality(S') <= RecallBound
    <3>1. CASE pc'[w] = "search" /\ pc[w] = "idle"
      <4>1. returned'[m] = returned[m] /\ returned[m] + Cardinality(S) < RecallBound
        BY <3>1 DEF Moves, Searches, Tracks, S
      <4>2. Cardinality(S') <= Cardinality(S \cup {w}) /\ Cardinality(S \cup {w}) \in Nat
        BY <2>3, <2>8
      <4>3. Cardinality(S \cup {w}) <= Cardinality(S) + 1
        BY <2>2, <2>6
      <4>4. Cardinality(S') <= Cardinality(S) + 1
        BY <2>2, <2>11, <4>2, <4>3
      <4>5. QED
        BY <2>1, <2>2, <2>11, <2>13, <4>1, <4>4
    <3>2. CASE pc'[w] = "search" /\ pc[w] # "idle"
      <4>1. returned'[m] = returned[m]
        BY <3>2 DEF Moves, Tracks
      <4>2. S' \subseteq S
        BY <2>3, <3>2
      <4>3. QED
        BY <2>1, <2>2, <2>5, <2>11, <2>13, <4>1, <4>2
    <3>3. CASE pc'[w] # "search"
      <4>1. S' \subseteq S \ {w}
        BY <2>3, <3>3
      <4>2. CASE returned'[m] = returned[m]
        BY <2>1, <2>2, <2>5, <2>11, <2>13, <4>1, <4>2
      <4>3. CASE returned'[m] # returned[m]
        <5>1. pc[w] = "search" /\ returned'[m] = returned[m] + 1
          BY <1>2, <4>3 DEF Moves, Tracks
        <5>2. w \in S
          BY <5>1 DEF S, Searchers
        <5>3. Cardinality(S') <= Cardinality(S \ {w})
          BY <2>9, <4>1
        <5>4. Cardinality(S \ {w}) = Cardinality(S) - 1
          BY <2>6, <5>2
        <5>5. QED
          BY <2>1, <2>2, <2>11, <2>13, <5>1, <5>3, <5>4
      <4>4. QED
        BY <4>2, <4>3
    <3>4. QED
      BY <3>1, <3>2, <3>3
  <2>15. hash'[m].count + Cardinality(T') <= returned'[m]
    <3>1. CASE Accessed(w, m)
      <4>1. w \in T /\ hash'[m].count = hash[m].count + 1
        BY <3>1, AccessedFacts DEF T
      <4>2. pc'[w] = "track" /\ pc[w] = "track" /\ m \notin keys'[w]
        BY <3>1 DEF Accessed, LocalsOK
      <4>3. returned'[m] = returned[m]
        BY <4>2 DEF Moves, Tracks
      <4>4. T' \subseteq T \ {w}
        BY <2>3, <4>2
      <4>5. Cardinality(T') <= Cardinality(T) - 1
        BY <2>6, <2>10, <4>1, <4>4
      <4>6. QED
        BY <2>1, <2>2, <2>11, <4>1, <4>3, <4>5
    <3>2. CASE ~Accessed(w, m) /\ w \in T' /\ pc[w] # "track"
      <4>1. returned'[m] = returned[m] + 1
        BY <1>1, <2>3, <3>2 DEF Moves, Tracks
      <4>2. Cardinality(T') <= Cardinality(T) + 1
        <5>1. Cardinality(T') <= Cardinality(T \cup {w}) /\ Cardinality(T \cup {w}) \in Nat
          BY <2>3, <2>7
        <5>2. Cardinality(T \cup {w}) <= Cardinality(T) + 1
          BY <2>2, <2>6
        <5>3. QED
          BY <2>2, <2>11, <5>1, <5>2
      <4>3. QED
        BY <2>1, <2>2, <2>11, <2>12, <3>2, <4>1, <4>2
    <3>3. CASE ~Accessed(w, m) /\ ~(w \in T' /\ pc[w] # "track")
      <4>1. T' \subseteq T
        <5>1. CASE w \in T'
          <6>1. pc[w] = "track" /\ m \in keys[w]
            BY <2>3, <3>3, <5>1 DEF Moves, Tracks
          <6>2. w \in T
            BY <6>1 DEF T, Trackers
          <6>3. QED
            BY <2>3, <6>2
        <5>2. CASE w \notin T'
          BY <2>3, <5>2
        <5>3. QED
          BY <5>1, <5>2
      <4>2. returned'[m] >= returned[m] /\ returned'[m] \in Nat
        BY <1>2, <2>1
      <4>3. QED
        BY <2>1, <2>2, <2>4, <2>11, <2>12, <3>3, <4>1, <4>2
    <3>4. QED
      BY <3>1, <3>2, <3>3
  <2>16. QED
    BY <2>14, <2>15 DEF T, S
<1>5. QED
  BY <1>3, <1>4 DEF Counted

LEMMA BirthsStep ==
  ASSUME IInv, NEW w \in Worker, Begins(w) \/ Proceed(w), Moves(w), Apart(w), CallOK(w)'
  PROVE  Births'
<1> SUFFICES ASSUME NEW m \in Memory
    PROVE  /\ Unborn(m)' =>
                /\ ~Exists(m)' /\ returned'[m] = 0
                /\ \A u \in Worker :
                     /\ m \notin Candidates(u)'
                     /\ pc'[u] \in {"update_write", "track"} => m \notin keys'[u]
           /\ \A u \in Worker : Pending(u, m)' =>
                m \in known' /\ \A x \in Worker \ {u} : ~Pending(x, m)'
  BY DEF Births
<1>1. /\ Unborn(m) =>
           /\ ~Exists(m) /\ returned[m] = 0
           /\ \A u \in Worker :
                /\ m \notin Candidates(u)
                /\ pc[u] \in {"update_write", "track"} => m \notin keys[u]
      /\ \A u \in Worker : Pending(u, m) =>
           /\ m \in known /\ Unborn(m)
           /\ \A x \in Worker \ {u} : ~Pending(x, m)
  BY DEF IInv, Births, Unborn
<1>2. /\ \A u \in Worker \ {w} : Pending(u, m)' <=> Pending(u, m)
      /\ \A u \in Worker \ {w} : Candidates(u)' = Candidates(u)
                                 /\ pc'[u] = pc[u] /\ keys'[u] = keys[u]
  BY DEF Apart, Pending, Candidates, Ids
<1>3. /\ m \in known => m \in known'
      /\ Pending(w, m)' => Pending(w, m) \/ m \in known' \ known
  <2>1. Stores(w)
    BY DEF Moves
  <2>2. QED
    BY <2>1 DEF Stores
<1>4. Unborn(m)' => Unborn(m)
  BY <1>2, <1>3 DEF Unborn
<1>5. ASSUME Unborn(m)' PROVE ~Exists(m)'
  <2>1. Unborn(m) /\ ~Exists(m)
    BY <1>1, <1>4, <1>5
  <2>2. ~Saved(w, m)
    <3>1. SUFFICES ASSUME Saved(w, m) PROVE FALSE
      OBVIOUS
    <3>2. Pending(w, m) /\ ~Pending(w, m)'
      BY <3>1 DEF Saved
    <3>3. QED
      BY <1>1, <1>2, <1>3, <1>5, <3>2 DEF Unborn
  <2>3. ~Updated(w, m) /\ ~Accessed(w, m)
    BY <1>1, <2>1 DEF Updated, Accessed
  <2>4. hash'[m] \in {hash[m], Absent}
    BY <2>2, <2>3, WrittenBy DEF Written, Erased
  <2>5. QED
    BY <2>1, <2>4, AbsentFacts DEF Exists
<1>6. ASSUME Unborn(m)' PROVE returned'[m] = 0
  BY <1>1, <1>4, <1>6 DEF Moves, Tracks
<1>7. ASSUME Unborn(m)', NEW u \in Worker
      PROVE  /\ m \notin Candidates(u)'
             /\ pc'[u] \in {"update_write", "track"} => m \notin keys'[u]
  <2>1. CASE u # w
    BY <1>1, <1>2, <1>4, <1>7, <2>1
  <2>2. CASE u = w
    <3>1. m \notin Candidates(w)'
      <4>1. m \notin Full
        BY <1>1, <1>4, <1>7, FullIsBorn DEF IInv
      <4>2. CASE pc'[w] = "search"
        BY <1>1, <1>4, <1>7, <4>1, <4>2 DEF Moves, Searches
      <4>3. CASE pc'[w] # "search"
        BY <4>3 DEF CallOK, Candidates
      <4>4. QED
        BY <4>2, <4>3
    <3>2. ASSUME pc'[w] = "update_write" PROVE m \notin keys'[w]
      <4>1. keys'[w] = keys[w] /\ pc[w] = "update_check" /\ \E k \in keys[w] : Exists(k)
        BY <3>2 DEF Moves, Updates
      <4>2. \E k \in Memory : keys[w] = {k}
        BY <4>1 DEF IInv, Calls, CallOK
      <4>3. QED
        BY <1>1, <1>4, <1>7, <4>1, <4>2
    <3>3. ASSUME pc'[w] = "track" PROVE m \notin keys'[w]
      BY <1>1, <1>4, <1>7, <3>3 DEF Moves, Tracks
    <3>4. QED
      BY <2>2, <3>1, <3>2, <3>3
  <2>3. QED
    BY <2>1, <2>2
<1>8. ASSUME NEW u \in Worker, Pending(u, m)'
      PROVE  m \in known' /\ \A x \in Worker \ {u} : ~Pending(x, m)'
  <2>1. CASE u # w
    BY <1>1, <1>2, <1>3, <1>8, <2>1
  <2>2. CASE u = w
    BY <1>1, <1>2, <1>3, <1>8, <2>2
  <2>3. QED
    BY <2>1, <2>2
<1>9. QED
  BY <1>5, <1>6, <1>7, <1>8

(***************************************************************************)
(* The invariant holds.                                                    *)
(***************************************************************************)
LEMMA InitIInv == Init => IInv
<1> SUFFICES ASSUME Init PROVE IInv
  OBVIOUS
<1>1. hash \in [Memory -> Hash] /\ Full = {} /\ \A m \in Memory : hash[m].count = 0 /\ ~Exists(m)
  BY AbsentFacts DEF Init, Full, Exists
<1>2. Unused \in Answers /\ Ids(Unused) = {}
  BY <1>1, AnswerType DEF Unused
<1>3. /\ clock = 1 /\ known = {} /\ orphaned = {} /\ returned = [m \in Memory |-> 0]
      /\ pc = [w \in Worker |-> "idle"] /\ vec = [w \in Worker |-> Unused] /\ fts = [w \in Worker |-> Unused]
      /\ keys = [w \in Worker |-> {}] /\ value = [w \in Worker |-> 0] /\ now = [w \in Worker |-> 0]
      /\ cutoff = [w \in Worker |-> 0] /\ round = [w \in Worker |-> 0]
      /\ accessed = [w \in Worker |-> {}]
  BY DEF Init, Missing
<1> HIDE DEF Unused
<1>4. SharedOK
  BY <1>1, <1>3, BoundFacts DEF SharedOK
<1>5. LocalsOK
  BY <1>2, <1>3, BoundFacts DEF LocalsOK, Label
<1>6. Calls
  BY <1>2, <1>3 DEF Calls, CallOK, Permitted
<1>7. Counted
  <2>1. Searchers = {} /\ \A m : Trackers(m) = {}
    BY <1>3 DEF Searchers, Trackers
  <2>2. Cardinality({}) = 0
    BY FS_EmptySet
  <2>3. ASSUME NEW m \in Memory
        PROVE  /\ hash[m].count = 0 /\ returned[m] = 0
               /\ Cardinality(Trackers(m)) = 0 /\ Cardinality(Searchers) = 0
    BY <1>1, <1>3, <2>1, <2>2
  <2>4. returned \in [Memory -> Nat]
    BY <1>3
  <2>5. QED
    BY <2>3, <2>4, BoundFacts DEF Counted
<1>8. Births
  BY <1>1, <1>2, <1>3 DEF Births, Pending, Candidates
<1>9. QED
  BY <1>4, <1>5, <1>6, <1>7, <1>8 DEF IInv

LEMMA WorkerStep ==
  ASSUME IInv, NEW w \in Worker, Begins(w) \/ Proceed(w)
  PROVE  IInv' /\ Apart(w) /\ Moves(w) /\ \A m \in Memory : Written(w, m)
<1>1. LocalsOK' /\ (CallOK(w) /\ Permitted(w))' /\ Apart(w)
  BY BeginsLocals, ProceedLocals
<1>2. Moves(w)
  BY BeginsMoves, ProceedMoves
<1>3. Calls'
  <2>1. \A u \in Worker \ {w} : (CallOK(u) /\ Permitted(u)) => (CallOK(u) /\ Permitted(u))'
    BY <1>1 DEF Apart, CallOK, Permitted, Ids
  <2>2. QED
    BY <1>1, <2>1 DEF Calls, IInv
<1>4. SharedOK' /\ Counted' /\ Births'
  BY <1>1, <1>2, SharedStep, CountedStep, BirthsStep
<1>5. \A m \in Memory : Written(w, m)
  BY WrittenBy
<1>6. QED
  BY <1>1, <1>2, <1>3, <1>4, <1>5 DEF IInv

LEMMA TickStep ==
  ASSUME IInv, Tick \/ UNCHANGED vars
  PROVE  IInv' /\ clock' \in Nat /\ clock <= clock' /\ UNCHANGED <<hash, history, pc, locals>>
<1>1. UNCHANGED <<hash, history, pc, locals>> /\ clock' \in clock .. ClockBound
  BY BoundFacts DEF Tick, vars, IInv, SharedOK
<1>2. SharedOK'
  BY <1>1, BoundFacts DEF IInv, SharedOK, Full, Exists, history
<1>3. LocalsOK' /\ Calls'
  BY <1>1 DEF IInv, LocalsOK, Calls, CallOK, Permitted, locals, Ids
<1>4. Counted'
  BY <1>1 DEF IInv, Counted, Trackers, Searchers, history, locals
<1>5. Births'
  BY <1>1 DEF IInv, Births, Unborn, Pending, Exists, Candidates, Ids, history, locals
<1>6. QED
  BY <1>1, <1>2, <1>3, <1>4, <1>5 DEF IInv, SharedOK

LEMMA NextIInv == IInv /\ [Next]_vars => IInv'
BY WorkerStep, TickStep, Zenon DEF Next

LEMMA InvariantHolds == Spec => []IInv
BY InitIInv, NextIInv, PTL DEF Spec

\* Every variable keeps its type; a memory that has been recalled has an importance
\* of 1 to 10, whatever importance it was stored with and whatever scripts, updates,
\* deletes and failures overlap.
THEOREM TypeCorrect == Spec => []TypeOK
<1>1. IInv => TypeOK
  <2> SUFFICES ASSUME IInv PROVE TypeOK
    OBVIOUS
  <2>1. \A w \in Worker : Candidates(w) \subseteq Memory
    BY DEF IInv, LocalsOK, Answers, Candidates, Ids
  <2>2. returned \in [Memory -> 0 .. RecallBound]
    <3>1. \A m \in Memory : returned[m] \in 0 .. RecallBound
      BY TrackersFinite, BoundFacts DEF IInv, Counted
    <3>2. QED
      BY <3>1 DEF IInv, Counted
  <2>3. QED
    BY <2>1, <2>2 DEF TypeOK, IInv, SharedOK, LocalsOK, Hash
<1>2. QED
  BY <1>1, InvariantHolds, PTL

(***************************************************************************)
(* No recall is lost.                                                      *)
(***************************************************************************)
Exact == \A m \in Full : hash[m].count + Cardinality(Trackers(m)) = returned[m]

\* While no command fails, an answer is tracked until all of it has been counted.
LEMMA StillTracked ==
  ASSUME IInv, Faults = {}, NEW w \in Worker, NEW m \in Memory, Begins(w) \/ Proceed(w),
         pc[w] = "track", m \in keys[w]
  PROVE  \/ pc'[w] = "track" /\ m \in keys'[w] /\ ~Accessed(w, m)
         \/ Accessed(w, m)
<1> LocalsOK /\ SharedOK
  BY DEF IInv
<1>1. TrackAccess(w)
  <2>1. ~Begins(w)
    BY DEF Begins, Begin, Store, Extract, UpdateMemory, VectorRecall, FullTextRecall, HybridRecall,
           Recall, ForgetId, ForgetFilter, AutoForget
  <2>2. /\ ~StoreHash(w) /\ ~ExtractSave(w) /\ ~ExtractFails(w) /\ ~Extracted(w) /\ ~UpdateCheck(w)
        /\ ~UpdateWrite(w) /\ ~VectorSearch(w) /\ ~FullTextSearch(w) /\ ~SearchFails(w)
        /\ ~MergeResults(w)
    BY DEF StoreHash, ExtractSave, ExtractFails, Extracted, UpdateCheck, UpdateWrite, VectorSearch,
           FullTextSearch, SearchFails, MergeResults
  <2>3. /\ ~Tracked(w) /\ ~Delete(w) /\ ~ForgetSearch(w) /\ ~ForgetDel(w) /\ ~ForgetDeleted(w)
        /\ ~StaleSearch(w) /\ ~StaleScript(w) /\ ~RedisFails(w) /\ ~Crash(w)
    BY DEF Tracked, Delete, ForgetSearch, ForgetDel, ForgetDeleted, StaleSearch, StaleScript,
           RedisFails, Crash
  <2>4. QED
    BY <2>1, <2>2, <2>3 DEF Proceed
<1>2. PICK k \in keys[w] : hash' = [hash EXCEPT ![k] = UpdateAccess(k, now[w])]
                           /\ keys' = [keys EXCEPT ![w] = @ \ {k}]
  BY <1>1, Zenon DEF TrackAccess
<1>3. UNCHANGED pc
  BY <1>1 DEF TrackAccess
<1>4. CASE k = m
  <2>1. hash'[m] = UpdateAccess(m, now[w])
    BY <1>2, <1>4 DEF SharedOK
  <2>2. QED
    BY <1>2, <1>3, <1>4, <2>1 DEF Accessed
<1>5. CASE k # m
  <2>1. m \in keys'[w]
    BY <1>2, <1>5 DEF LocalsOK
  <2>2. keys' # [keys EXCEPT ![w] = @ \ {m}]
    BY <2>1 DEF LocalsOK
  <2>3. QED
    BY <1>3, <2>1, <2>2 DEF Accessed
<1>6. QED
  BY <1>4, <1>5

LEMMA TrackersStep ==
  ASSUME IInv, Faults = {}, NEW w \in Worker, NEW m \in Memory, Begins(w) \/ Proceed(w),
         Moves(w), Apart(w)
  PROVE  LET T == Trackers(m) IN
           \/ T' = T /\ returned'[m] = returned[m] /\ ~Accessed(w, m)
           \/ T' = T \cup {w} /\ w \notin T /\ returned'[m] = returned[m] + 1 /\ ~Accessed(w, m)
           \/ T' = T \ {w} /\ w \in T /\ returned'[m] = returned[m] /\ Accessed(w, m)
<1> DEFINE T == Trackers(m)
<1>1. /\ \A u \in Worker \ {w} : u \in T' <=> u \in T
      /\ T \subseteq Worker /\ T' \subseteq Worker
  BY DEF Apart, Trackers
<1>2. /\ w \in T' <=> pc'[w] = "track" /\ m \in keys'[w]
      /\ w \in T <=> pc[w] = "track" /\ m \in keys[w]
  BY DEF Trackers
<1>3. returned \in [Memory -> Nat]
  BY DEF IInv, Counted
<1> HIDE DEF T
<1>4. CASE w \in T
  <2>1. returned'[m] = returned[m]
    BY <1>2, <1>4 DEF Moves, Tracks
  <2>2. CASE Accessed(w, m)
    <3>1. pc'[w] = "track" /\ m \notin keys'[w]
      BY <2>2 DEF Accessed, IInv, LocalsOK
    <3>2. T' = T \ {w}
      BY <1>1, <1>2, <3>1
    <3>3. QED
      BY <1>4, <2>1, <2>2, <3>2 DEF T
  <2>3. CASE ~Accessed(w, m)
    <3>1. w \in T'
      BY <1>2, <1>4, <2>3, StillTracked
    <3>2. T' = T
      BY <1>1, <1>4, <3>1
    <3>3. QED
      BY <2>1, <2>3, <3>2 DEF T
  <2>4. QED
    BY <2>2, <2>3
<1>5. CASE w \notin T
  <2>1. ~Accessed(w, m)
    BY <1>2, <1>5 DEF Accessed
  <2>2. CASE w \in T'
    <3>1. returned'[m] = returned[m] + 1
      BY <1>2, <1>3, <1>5, <2>2 DEF Moves, Tracks
    <3>2. T' = T \cup {w}
      BY <1>1, <2>2
    <3>3. QED
      BY <1>5, <2>1, <3>1, <3>2 DEF T
  <2>3. CASE w \notin T'
    <3>1. returned'[m] = returned[m]
      BY <1>2, <1>3, <2>3 DEF Moves, Tracks
    <3>2. T' = T
      BY <1>1, <1>5, <2>3
    <3>3. QED
      BY <2>1, <3>1, <3>2 DEF T
  <2>4. QED
    BY <2>2, <2>3
<1>6. QED
  BY <1>4, <1>5

LEMMA ExactStep ==
  ASSUME IInv, Exact, Faults = {}, NEW w \in Worker, Begins(w) \/ Proceed(w)
  PROVE  Exact'
<1> SUFFICES ASSUME NEW m \in Full'
    PROVE  hash'[m].count + Cardinality(Trackers(m)') = returned'[m]
  BY DEF Exact
<1>1. m \in Memory /\ hash'[m].full
  BY DEF Full
<1>2. Moves(w) /\ Apart(w) /\ Written(w, m)
  BY <1>1, WorkerStep
<1> DEFINE T == Trackers(m)
<1>3. /\ IsFiniteSet(T) /\ Cardinality(T) \in Nat
      /\ Cardinality(T \cup {w}) = (IF w \in T THEN Cardinality(T) ELSE Cardinality(T) + 1)
      /\ Cardinality(T \ {w}) = (IF w \in T THEN Cardinality(T) - 1 ELSE Cardinality(T))
  BY TrackersFinite, FS_AddElement, FS_RemoveElement
<1>4. \/ T' = T /\ returned'[m] = returned[m] /\ ~Accessed(w, m)
      \/ T' = T \cup {w} /\ w \notin T /\ returned'[m] = returned[m] + 1 /\ ~Accessed(w, m)
      \/ T' = T \ {w} /\ w \in T /\ returned'[m] = returned[m] /\ Accessed(w, m)
  BY <1>1, <1>2, TrackersStep
<1>5. hash[m].count \in Nat /\ returned[m] \in Nat
  BY <1>1, BoundFacts, HashFields DEF IInv, SharedOK, Counted
<1>6. CASE Saved(w, m)
  <2>1. Unborn(m)
    BY <1>1, <1>6 DEF Saved, Unborn
  <2>2. returned[m] = 0 /\ T = {}
    BY <1>1, <2>1 DEF IInv, Births, Trackers
  <2>3. pc[w] \in {"store", "extract"} /\ ~Accessed(w, m)
    BY <1>6 DEF Saved, Pending, Accessed
  <2>4. returned'[m] = 0 /\ T' = {}
    <3>1. w \notin T'
      BY <2>3, <1>2 DEF Moves, Tracks, Trackers
    <3>2. QED
      BY <1>4, <2>2, <2>3, <3>1
  <2>5. QED
    BY <1>1, <1>6, <2>4, SavedFacts, FS_EmptySet
<1>7. CASE ~Saved(w, m)
  <2>1. hash[m].full /\ hash'[m].count = IF Accessed(w, m) THEN hash[m].count + 1 ELSE hash[m].count
    <3>1. CASE hash'[m] = hash[m] /\ ~Accessed(w, m)
      BY <1>1, <3>1
    <3>2. CASE Updated(w, m)
      BY <1>1, <3>2, UpdatedFacts DEF Updated, Accessed
    <3>3. CASE Accessed(w, m)
      BY <1>1, <3>3, AccessedFacts
    <3>4. ~Erased(w, m)
      BY <1>1, AbsentFacts DEF Erased
    <3>5. QED
      BY <1>2, <1>7, <3>1, <3>2, <3>3, <3>4 DEF Written
  <2>2. hash[m].count + Cardinality(T) = returned[m]
    BY <1>1, <2>1 DEF Exact, Full
  <2> HIDE DEF T
  <2>3. hash'[m].count + Cardinality(T') = returned'[m]
    <3>1. CASE Accessed(w, m)
      <4>1. T' = T \ {w} /\ w \in T /\ returned'[m] = returned[m]
        BY <1>4, <3>1
      <4>2. Cardinality(T') = Cardinality(T) - 1
        BY <1>3, <4>1
      <4>3. hash'[m].count = hash[m].count + 1
        BY <2>1, <3>1
      <4>4. QED
        BY <1>3, <1>5, <2>2, <4>1, <4>2, <4>3
    <3>2. CASE ~Accessed(w, m)
      <4>1. hash'[m].count = hash[m].count
        BY <2>1, <3>2
      <4>2. CASE T' = T /\ returned'[m] = returned[m]
        BY <2>2, <4>1, <4>2
      <4>3. CASE T' = T \cup {w} /\ w \notin T /\ returned'[m] = returned[m] + 1
        <5>1. Cardinality(T') = Cardinality(T) + 1
          BY <1>3, <4>3
        <5>2. QED
          BY <1>3, <1>5, <2>2, <4>1, <4>3, <5>1
      <4>4. QED
        BY <1>4, <3>2, <4>2, <4>3
    <3>3. QED
      BY <3>1, <3>2
  <2>4. QED
    BY <2>3 DEF T
<1>8. QED
  BY <1>6, <1>7

\* When no call is under way, and as long as no command has failed, the access
\* count of each memory is the number of answers it has been in, whichever recalls,
\* updates and deletes have overlapped.
THEOREM CountsRecalls ==
  ASSUME Faults = {}
  PROVE  Spec => []CountsEveryRecall
<1>1. Init => Exact
  BY AbsentFacts DEF Init, Exact, Full
<1>2. IInv /\ Exact /\ [Next]_vars => Exact'
  <2> SUFFICES ASSUME IInv, Exact, [Next]_vars PROVE Exact'
    OBVIOUS
  <2>1. ASSUME NEW w \in Worker, Begins(w) \/ Proceed(w) PROVE Exact'
    BY <2>1, ExactStep
  <2>2. CASE Tick \/ UNCHANGED vars
    BY <2>2, TickStep DEF Exact, Full, Trackers, history, locals
  <2>3. QED
    BY <2>1, <2>2 DEF Next
<1>3. IInv /\ Exact => CountsEveryRecall
  <2> SUFFICES ASSUME IInv, Exact, \A w \in Worker : pc[w] = "idle", NEW m \in Full
      PROVE  hash[m].count = returned[m]
    BY DEF CountsEveryRecall
  <2>1. Trackers(m) = {}
    BY DEF Trackers
  <2>2. m \in Memory /\ hash[m].count \in Nat
    BY BoundFacts, HashFields DEF Full, IInv, SharedOK
  <2>3. QED
    BY <2>1, <2>2, FS_EmptySet DEF Exact
<1>4. QED
  BY <1>1, <1>2, <1>3, InvariantHolds, PTL DEF Spec

(***************************************************************************)
(* No part of a memory comes back.                                         *)
(***************************************************************************)
\* What a call has in hand exists, unless it was deleted under its hands.
Whole ==
  /\ NoRemnant
  /\ \A w \in Worker : \A m \in InHand(w) : Exists(m) \/ m \in orphaned

\* What a call takes in hand exists.
LEMMA TakesExisting ==
  ASSUME IInv, NEW w \in Worker, Begins(w) \/ Proceed(w), NEW m \in InHand(w)'
  PROVE  m \in Memory /\ (m \in InHand(w) \/ Exists(m))
<1>1. Moves(w) /\ IInv'
  BY WorkerStep
<1>2. pc'[w] \in {"update_write", "search", "track"} /\ (m \in keys'[w] \/ m \in Candidates(w)')
  BY DEF InHand, Candidates, Ids
<1>3. m \in Memory
  BY <1>1, <1>2 DEF IInv, LocalsOK, Candidates, Ids, Answers
<1>4. \A k \in Full : Exists(k)
  BY DEF IInv, SharedOK
<1>5. CASE pc'[w] = "update_write"
  <2>1. keys'[w] = keys[w] /\ pc[w] = "update_check" /\ \E k \in keys[w] : Exists(k)
    BY <1>1, <1>5 DEF Moves, Updates
  <2>2. \E k \in Memory : keys[w] = {k}
    BY <2>1 DEF IInv, Calls, CallOK
  <2>3. Candidates(w)' = {}
    BY <1>1, <1>5 DEF IInv, Calls, CallOK, Candidates
  <2>4. QED
    BY <1>2, <1>3, <2>1, <2>2, <2>3
<1>6. CASE pc'[w] = "search"
  <2>1. keys'[w] = {}
    BY <1>1, <1>6 DEF IInv, Calls, CallOK
  <2>2. m \in Candidates(w)'
    BY <1>2, <2>1
  <2>3. (pc[w] = "search" /\ m \in Candidates(w)) \/ m \in Full
    BY <1>1, <1>6, <2>2 DEF Moves, Searches
  <2>4. QED
    BY <1>3, <1>4, <2>3 DEF InHand, Candidates, Ids
<1>7. CASE pc'[w] = "track"
  <2>1. Candidates(w)' = {}
    BY <1>1, <1>7 DEF IInv, Calls, CallOK, Candidates
  <2>2. m \in keys'[w]
    BY <1>2, <2>1
  <2>3. Tracks(w)
    BY <1>1 DEF Moves
  <2>4. CASE pc[w] = "track"
    <3>1. m \in keys[w]
      BY <1>7, <2>2, <2>3, <2>4 DEF Tracks
    <3>2. QED
      BY <1>3, <2>4, <3>1 DEF InHand
  <2>5. CASE pc[w] # "track"
    <3>1. pc[w] = "search" /\ keys'[w] \subseteq Candidates(w)
      BY <1>7, <2>3, <2>5 DEF Tracks
    <3>2. QED
      BY <1>3, <2>2, <3>1 DEF InHand, Candidates, Ids
  <2>6. QED
    BY <2>4, <2>5
<1>8. QED
  BY <1>2, <1>5, <1>6, <1>7

LEMMA WholeStep ==
  ASSUME IInv, Whole, NEW w \in Worker, Begins(w) \/ Proceed(w)
  PROVE  Whole'
<1>1. Moves(w) /\ Apart(w) /\ (\A m \in Memory : Written(w, m)) /\ IInv' /\ orphaned \subseteq orphaned'
  BY WorkerStep DEF Moves, Orphans
<1>2. ASSUME NEW m \in Memory, Exists(m)' PROVE hash'[m].full \/ m \in orphaned'
  <2>1. Exists(m) => hash[m].full \/ m \in orphaned
    BY DEF Whole, NoRemnant
  <2>2. CASE hash'[m] = hash[m]
    BY <1>1, <1>2, <2>1, <2>2 DEF Exists
  <2>3. CASE Erased(w, m)
    BY <1>2, <2>3, AbsentFacts DEF Erased, Exists
  <2>4. CASE Saved(w, m)
    BY <2>4, SavedFacts
  <2>5. CASE Updated(w, m) \/ Accessed(w, m)
    <3>1. m \in InHand(w) /\ hash'[m].full = hash[m].full
      BY <2>5, UpdatedFacts, AccessedFacts DEF Updated, Accessed, InHand
    <3>2. QED
      BY <1>1, <2>1, <3>1 DEF Whole
  <2>6. QED
    BY <1>1, <2>2, <2>3, <2>4, <2>5 DEF Written
<1>3. ASSUME NEW m \in Memory, NEW u \in Worker, m \in InHand(u), Exists(m) \/ m \in orphaned
      PROVE  Exists(m)' \/ m \in orphaned'
  <2>1. CASE Erased(w, m)
    BY <1>3, <2>1 DEF Erased
  <2>2. CASE ~Erased(w, m)
    <3>1. hash'[m] = hash[m] \/ hash'[m].there
      BY <1>1, <2>2, SavedFacts, UpdatedFacts, AccessedFacts DEF Written
    <3>2. QED
      BY <1>1, <1>3, <3>1 DEF Exists
  <2>3. QED
    BY <2>1, <2>2
<1>4. ASSUME NEW u \in Worker, NEW m \in InHand(u)' PROVE Exists(m)' \/ m \in orphaned'
  <2>1. CASE u # w
    <3>1. m \in InHand(u) /\ m \in Memory
      BY <1>1, <1>4, <2>1 DEF Apart, InHand, IInv, LocalsOK, Answers, Ids
    <3>2. QED
      BY <1>3, <3>1 DEF Whole
  <2>2. CASE u = w
    <3>1. m \in Memory /\ (m \in InHand(w) \/ Exists(m))
      BY <1>4, <2>2, TakesExisting
    <3>2. CASE m \in InHand(w)
      BY <1>3, <3>1, <3>2 DEF Whole
    <3>3. CASE m \notin InHand(w)
      <4>1. pc'[w] \in {"update_write", "search", "track"}
        BY <1>4, <2>2 DEF InHand
      <4>2. ~Erased(w, m)
        BY <1>1, <4>1 DEF Erased, Moves, Searches, Tracks, Updates
      <4>3. hash'[m] = hash[m] \/ hash'[m].there
        BY <1>1, <3>1, <4>2, SavedFacts, UpdatedFacts, AccessedFacts DEF Written
      <4>4. QED
        BY <3>1, <3>3, <4>3 DEF Exists
    <3>4. QED
      BY <3>2, <3>3
  <2>3. QED
    BY <2>1, <2>2
<1>5. QED
  BY <1>2, <1>4 DEF Whole, NoRemnant

\* A hash is complete or absent, whichever calls overlap, unless a delete came
\* between the look of an update or a recall and its write: nothing else makes a
\* part of a memory anew.
THEOREM LeavesNoRemnant == Spec => []NoRemnant
<1>1. Init => Whole
  <2> SUFFICES ASSUME Init PROVE Whole
    OBVIOUS
  <2>1. \A m \in Memory : ~Exists(m)
    BY AbsentFacts DEF Init, Exists
  <2>2. \A w \in Worker : InHand(w) = {}
    BY DEF Init, InHand
  <2>3. QED
    BY <2>1, <2>2 DEF Whole, NoRemnant
<1>2. IInv /\ Whole /\ [Next]_vars => Whole'
  <2> SUFFICES ASSUME IInv, Whole, [Next]_vars PROVE Whole'
    OBVIOUS
  <2>1. ASSUME NEW w \in Worker, Begins(w) \/ Proceed(w) PROVE Whole'
    BY <2>1, WholeStep
  <2>2. CASE Tick \/ UNCHANGED vars
    BY <2>2, TickStep DEF Whole, NoRemnant, Exists, InHand, Ids, history, locals
  <2>3. QED
    BY <2>1, <2>2 DEF Next
<1>3. Whole => NoRemnant
  BY DEF Whole
<1>4. QED
  BY <1>1, <1>2, <1>3, InvariantHolds, PTL DEF Spec
=============================================================================
