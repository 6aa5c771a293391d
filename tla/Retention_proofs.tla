--------------------------- MODULE Retention_proofs ---------------------------
(***************************************************************************)
(* Theorems about what MemoryLifecycle deletes: forget with a filter, and  *)
(* the auto-forget task of maintenance.                                    *)
(***************************************************************************)
EXTENDS MemoryLifecycle_proofs

USE DEF At, Goto

(***************************************************************************)
(* How a worker comes to where it is.                                      *)
(***************************************************************************)
Enters(w) ==
  /\ pc'[w] = "idle" => Return(w)
  /\ pc'[w] = "delete" => \E m \in Memory : ForgetId(w, m)
  /\ pc'[w] \in {"forget_search", "forget_del"} =>
       \/ \E age \in Age : ForgetFilter(w, age)
       \/ Delete(w) \/ ForgetSearch(w) \/ ForgetDel(w) \/ ForgetDeleted(w)
  /\ pc'[w] \in {"stale_search", "stale_script"} =>
       AutoForget(w) \/ StaleSearch(w) \/ StaleScript(w)

LEMMA EntersBy ==
  ASSUME IInv, NEW w \in Worker, Begins(w) \/ Proceed(w)
  PROVE  Enters(w)
<1> LocalsOK
  BY DEF IInv
<1>1. ASSUME Return(w) PROVE pc'[w] = "idle"
  BY <1>1 DEF Return, LocalsOK
<1>2. CASE Return(w)
  BY <1>1, <1>2 DEF Enters
<1>3. CASE Begins(w)
  <2>1. ASSUME NEW call, NEW label, NEW S, NEW importance, NEW bound,
               Begin(w, call, label, S, importance, bound)
        PROVE  pc'[w] = label
    BY <2>1 DEF Begin, LocalsOK
  <2>2. CASE AutoForget(w) \/ (\E m \in Memory : ForgetId(w, m)) \/ (\E age \in Age : ForgetFilter(w, age))
    <3>1. CASE AutoForget(w)
      <4>1. pc'[w] = "stale_search"
        BY <2>1, <3>1, Zenon DEF AutoForget
      <4>2. QED
        BY <3>1, <4>1 DEF Enters
    <3>2. CASE \E m \in Memory : ForgetId(w, m)
      <4>1. pc'[w] = "delete"
        BY <2>1, <3>2, Zenon DEF ForgetId
      <4>2. QED
        BY <3>2, <4>1 DEF Enters
    <3>3. CASE \E age \in Age : ForgetFilter(w, age)
      <4>1. pc'[w] = "forget_search"
        BY <2>1, <3>3, Zenon DEF ForgetFilter
      <4>2. QED
        BY <3>3, <4>1 DEF Enters
    <3>4. QED
      BY <2>2, <3>1, <3>2, <3>3
  <2>3. CASE \/ \E m \in Memory, i \in Importance : Store(w, m, i)
             \/ \E S \in SUBSET Memory, i \in Importance : Extract(w, S, i)
             \/ \E m \in Memory, i \in Importance \cup {0} : UpdateMemory(w, m, i)
             \/ VectorRecall(w) \/ FullTextRecall(w) \/ HybridRecall(w)
    <3>1. pc'[w] \in {"store", "extract", "update_check", "search"}
      <4>1. pc'[w] = "store" \/ pc'[w] = "extract" \/ pc'[w] = "update_check" \/ pc'[w] = "search"
        BY <2>1, <2>3, Zenon DEF Store, Extract, UpdateMemory, VectorRecall, FullTextRecall,
           HybridRecall, Recall
      <4>2. QED
        BY <4>1
    <3>2. QED
      BY <3>1 DEF Enters
  <2>4. QED
    BY <1>3, <2>2, <2>3 DEF Begins
<1>4. CASE ~Return(w) /\ (UpdateCheck(w) \/ MergeResults(w))
  <2>1. pc' = [pc EXCEPT ![w] = "update_write"] \/ pc' = [pc EXCEPT ![w] = "track"]
    BY <1>4, MergeFacts DEF UpdateCheck
  <2>2. pc'[w] \in {"update_write", "track"}
    BY <2>1 DEF LocalsOK
  <2>3. QED
    BY <2>2 DEF Enters
<1>5. CASE ExtractSave(w) \/ ExtractFails(w) \/ VectorSearch(w) \/ FullTextSearch(w) \/ SearchFails(w)
           \/ TrackAccess(w)
  <2>1. pc' = pc /\ pc[w] \in {"extract", "search", "track"}
    BY <1>5 DEF ExtractSave, ExtractFails, VectorSearch, FullTextSearch, SearchFails, TrackAccess
  <2>2. QED
    BY <2>1 DEF Enters
<1>6. CASE ~Return(w) /\ (Delete(w) \/ ForgetSearch(w) \/ ForgetDel(w) \/ ForgetDeleted(w))
  <2>1. pc'[w] \in {"forget_search", "forget_del"}
    BY <1>6 DEF Delete, ForgetSearch, ForgetDel, ForgetDeleted, LocalsOK
  <2>2. QED
    BY <1>6, <2>1 DEF Enters
<1>7. CASE ~Return(w) /\ (StaleSearch(w) \/ StaleScript(w))
  <2>1. pc'[w] \in {"stale_search", "stale_script"}
    BY <1>7 DEF StaleSearch, StaleScript, LocalsOK
  <2>2. QED
    BY <1>7, <2>1 DEF Enters
<1>8. CASE ~Return(w) /\ (StoreHash(w) \/ Extracted(w) \/ UpdateWrite(w) \/ Tracked(w) \/ RedisFails(w) \/ Crash(w))
  BY <1>8, Zenon DEF StoreHash, Extracted, UpdateWrite, Tracked, RedisFails, Crash
<1>9. QED
  BY <1>2, <1>3, <1>4, <1>5, <1>6, <1>7, <1>8 DEF Proceed

\* What an id once stood for it never stands for again.
LEMMA StaysBorn ==
  ASSUME IInv, NEW w \in Worker, Moves(w), Apart(w), NEW m \in Memory, ~Unborn(m)
  PROVE  ~Unborn(m)' /\ ~Saved(w, m)
<1>1. \A u \in Worker \ {w} : Pending(u, m)' <=> Pending(u, m)
  BY DEF Apart, Pending
<1>2. QED
  BY <1>1 DEF Moves, Stores, Unborn, Saved

(***************************************************************************)
(* Auto-forget spares what is in use.                                      *)
(***************************************************************************)
\* A memory whose access is recorded while it is in another worker's stale batch is
\* among those accessed since that worker's search.
LEMMA AccessSeen ==
  ASSUME IInv, NEW w \in Worker, Begins(w) \/ Proceed(w), NEW u \in Worker \ {w}, NEW m \in Memory
  PROVE  /\ accessed[u] \subseteq accessed'[u]
         /\ pc[u] = "stale_script" /\ m \in keys[u] /\ Accessed(w, m) => m \in accessed'[u]
<1> LocalsOK
  BY DEF IInv
<1>1. Return(w) => accessed'[u] = accessed[u] /\ pc'[w] = "idle"
  BY DEF Return, LocalsOK
<1>2. CASE TrackAccess(w)
  <2>1. PICK k \in keys[w] :
          /\ keys' = [keys EXCEPT ![w] = @ \ {k}]
          /\ accessed' = [v \in Worker |-> IF pc[v] = "stale_script" /\ k \in keys[v]
                                            THEN accessed[v] \cup {k} ELSE accessed[v]]
    BY <1>2 DEF TrackAccess
  <2>2. accessed[u] \subseteq accessed'[u]
    BY <2>1
  <2>3. ASSUME Accessed(w, m) PROVE m = k
    <3>1. keys'[w] = keys[w] \ {k} /\ keys'[w] = keys[w] \ {m} /\ m \in keys[w]
      BY <2>1, <2>3 DEF Accessed, LocalsOK
    <3>2. QED
      BY <3>1
  <2>4. QED
    BY <2>1, <2>2, <2>3
<1>3. CASE ~TrackAccess(w)
  <2>1. accessed'[u] = accessed[u]
    <3>1. CASE Begins(w)
      <4>1. accessed' = accessed
        BY <3>1 DEF Begins, Store, Extract, UpdateMemory, VectorRecall, FullTextRecall, HybridRecall,
           Recall, ForgetId, ForgetFilter, AutoForget
      <4>2. QED
        BY <4>1
    <3>2. CASE StaleSearch(w)
      <4>1. Return(w) \/ accessed' = [accessed EXCEPT ![w] = {}]
        BY <3>2 DEF StaleSearch
      <4>2. QED
        BY <1>1, <4>1 DEF LocalsOK
    <3>3. CASE Proceed(w) /\ ~StaleSearch(w)
      <4>1. Return(w) \/ accessed' = accessed
        BY <1>3, <3>3, Zenon DEF Proceed, StoreHash, ExtractSave, ExtractFails, Extracted, UpdateCheck,
           UpdateWrite, VectorSearch, FullTextSearch, SearchFails, MergeResults, Tracked, Delete,
           ForgetSearch, ForgetDel, ForgetDeleted, StaleScript, RedisFails, Crash, locals
      <4>2. QED
        BY <1>1, <4>1
    <3>4. QED
      BY <3>1, <3>2, <3>3
  <2>2. ~Accessed(w, m)
    <3>1. SUFFICES ASSUME pc[w] = "track", pc' = pc PROVE FALSE
      BY DEF Accessed
    <3>2. ~Begins(w)
      BY <3>1 DEF Begins, Store, Extract, UpdateMemory, VectorRecall, FullTextRecall, HybridRecall,
         Recall, ForgetId, ForgetFilter, AutoForget, Begin
    <3>3. ~Return(w)
      BY <1>1, <3>1
    <3>4. ~Proceed(w)
      BY <1>3, <3>1, <3>3 DEF Proceed, StoreHash, ExtractSave, ExtractFails, Extracted, UpdateCheck,
         UpdateWrite, VectorSearch, FullTextSearch, SearchFails, MergeResults, Tracked, Delete,
         ForgetSearch, ForgetDel, ForgetDeleted, StaleSearch, StaleScript, RedisFails, Crash
    <3>5. QED
      BY <3>2, <3>4
  <2>3. QED
    BY <2>1, <2>2
<1>4. QED
  BY <1>2, <1>3

Aimed ==
  \A w \in Worker : pc[w] \in {"stale_search", "stale_script"} =>
    /\ cutoff[w] = now[w] - ForgetInactive
    /\ pc[w] = "stale_script" =>
         \A m \in keys[w] : ~Unborn(m) /\ cutoff[w] >= 1
                            /\ (hash[m].last <= cutoff[w] \/ m \in accessed[w])

LEMMA AimedStep ==
  ASSUME IInv, Aimed, NEW w \in Worker, Begins(w) \/ Proceed(w)
  PROVE  Aimed'
<1>1. /\ Moves(w) /\ Apart(w) /\ \A m \in Memory : Written(w, m)
      /\ Enters(w) /\ IInv' /\ LocalsOK
  BY WorkerStep, EntersBy DEF IInv
<1> SUFFICES ASSUME NEW u \in Worker, pc'[u] \in {"stale_search", "stale_script"}
    PROVE  /\ cutoff'[u] = now'[u] - ForgetInactive
           /\ pc'[u] = "stale_script" =>
                \A m \in keys'[u] : ~Unborn(m)' /\ cutoff'[u] >= 1
                                    /\ (hash'[m].last <= cutoff'[u] \/ m \in accessed'[u])
  BY DEF Aimed
<1>2. \A x \in Worker : cutoff[x] \in Int /\ keys[x] \subseteq Memory
  BY <1>1 DEF LocalsOK
<1>3. CASE u # w
  <2>1. pc'[u] = pc[u] /\ keys'[u] = keys[u] /\ now'[u] = now[u] /\ cutoff'[u] = cutoff[u]
    BY <1>1, <1>3 DEF Apart
  <2>2. ASSUME pc[u] = "stale_script", NEW m \in keys[u]
        PROVE  ~Unborn(m)' /\ cutoff[u] >= 1 /\ (hash'[m].last <= cutoff[u] \/ m \in accessed'[u])
    <3>1. /\ m \in Memory /\ ~Unborn(m) /\ cutoff[u] >= 1
          /\ hash[m].last <= cutoff[u] \/ m \in accessed[u]
      BY <1>2, <2>2 DEF Aimed
    <3>2. ~Unborn(m)' /\ ~Saved(w, m)
      BY <1>1, <3>1, StaysBorn
    <3>3. accessed[u] \subseteq accessed'[u] /\ (Accessed(w, m) => m \in accessed'[u])
      BY <1>3, <2>2, <3>1, AccessSeen
    <3>4. QED
      BY <1>1, <1>2, <3>1, <3>2, <3>3, AbsentFacts, UpdatedFacts DEF Written, Erased
  <2>3. QED
    BY <2>1, <2>2 DEF Aimed
<1>4. CASE u = w
  <2>1. CASE AutoForget(w)
    <3>1. Begin(w, "maintain", "stale_search", {}, Missing, clock - ForgetInactive)
      BY <2>1 DEF AutoForget
    <3>2. pc'[w] = "stale_search" /\ now'[w] = clock /\ cutoff'[w] = clock - ForgetInactive
      BY <1>1, <3>1 DEF Begin, LocalsOK
    <3>3. QED
      BY <1>4, <3>2
  <2>2. CASE StaleSearch(w)
    <3>1. PICK B \in FirstOf(Stale(w), StaleBatch) :
            pc'[w] = "stale_script" =>
              keys' = [keys EXCEPT ![w] = B] /\ UNCHANGED <<now, cutoff>>
      <4>1. ASSUME Return(w) PROVE pc'[w] = "idle"
        BY <1>1, <4>1 DEF Return, LocalsOK
      <4>2. QED
        BY <2>2, <4>1 DEF StaleSearch
    <3>2. B \subseteq Stale(w) /\ pc'[w] = "stale_script" /\ pc[w] = "stale_search" /\ hash' = hash
      <4>1. B \subseteq Stale(w)
        BY FirstOfSubset
      <4>2. pc'[w] # "stale_search"
        BY <1>1, <2>2 DEF StaleSearch, Return, LocalsOK
      <4>3. QED
        BY <1>4, <2>2, <4>1, <4>2 DEF StaleSearch
    <3>3. keys'[w] = B /\ cutoff'[w] = cutoff[w] /\ now'[w] = now[w]
      BY <1>1, <3>1, <3>2 DEF LocalsOK
    <3>4. ASSUME NEW m \in B PROVE ~Unborn(m)' /\ cutoff[w] >= 1 /\ hash[m].last <= cutoff[w]
      <4>1. m \in Full /\ m \in Memory /\ hash[m].last <= cutoff[w]
        BY <3>2 DEF Stale, Full
      <4>2. ~Unborn(m) /\ hash[m].last >= 1 /\ hash[m] \in Hash
        BY <4>1, FullIsBorn DEF IInv, SharedOK
      <4>3. ~Unborn(m)'
        BY <1>1, <4>1, <4>2, StaysBorn
      <4>4. hash[m].last \in Int
        BY <4>2, HashFields
      <4>5. QED
        BY <1>2, <4>1, <4>2, <4>3, <4>4
    <3>5. QED
      BY <1>4, <3>2, <3>3, <3>4 DEF Aimed
  <2>3. CASE StaleScript(w)
    <3>1. pc'[w] = "stale_search" /\ pc[w] = "stale_script"
      BY <1>1, <1>4, <2>3 DEF StaleScript, Return, LocalsOK
    <3>2. ~Return(w)
      BY <1>1, <3>1 DEF Return, LocalsOK
    <3>3. UNCHANGED locals
      BY <2>3, <3>2 DEF StaleScript
    <3>4. QED
      BY <1>4, <3>1, <3>3 DEF Aimed, locals
  <2>4. QED
    BY <1>1, <1>4, <2>1, <2>2, <2>3 DEF Enters
<1>5. QED
  BY <1>3, <1>4

\* Auto-forget deletes no memory that was accessed in the forget_inactive_days before
\* it read the time, although its script does not look at the last access again, unless
\* that access came between the search and the script of one batch.
THEOREM SparesInUse == Spec => SparesActive
<1>1. Init => Aimed
  BY DEF Init, Aimed
<1>2. IInv /\ Aimed /\ [Next]_vars => Aimed'
  <2> SUFFICES ASSUME IInv, Aimed, [Next]_vars PROVE Aimed'
    OBVIOUS
  <2>1. ASSUME NEW w \in Worker, Begins(w) \/ Proceed(w) PROVE Aimed'
    BY <2>1, AimedStep
  <2>2. CASE Tick \/ UNCHANGED vars
    BY <2>2, TickStep DEF Aimed, Unborn, Pending, history, locals
  <2>3. QED
    BY <2>1, <2>2 DEF Next
<1>3. IInv /\ Aimed =>
        \A w \in Worker, m \in Memory :
          StaleScript(w) /\ Exists(m) /\ hash'[m] = Absent =>
            hash[m].last <= now[w] - ForgetInactive \/ m \in accessed[w]
  <2> SUFFICES ASSUME IInv, Aimed, NEW w \in Worker, NEW m \in Memory, StaleScript(w), Exists(m),
                      hash'[m] = Absent
      PROVE  hash[m].last <= now[w] - ForgetInactive \/ m \in accessed[w]
    OBVIOUS
  <2>1. m \in keys[w] /\ pc[w] = "stale_script"
    BY AbsentFacts DEF StaleScript, Remove, Exists
  <2>2. QED
    BY <2>1 DEF Aimed
<1>4. QED
  BY <1>1, <1>2, <1>3, InvariantHolds, PTL DEF Spec, SparesActive

(***************************************************************************)
(* What is left when forget or auto-forget is through, if one client is    *)
(* alone.                                                                  *)
(***************************************************************************)
OneClient == \E w \in Worker : Worker = {w}

\* Each round of forget takes a batch off what matches.
Remaining(w, S) == S = {} \/ Cardinality(S) + round[w] * DeleteBatch <= Cardinality(Memory)

Emptied ==
  \A w \in Worker :
    /\ pc[w] \in {"idle", "delete"} => round[w] = 0
    /\ pc[w] = "forget_search" => Remaining(w, Matching(w))
    /\ pc[w] = "forget_del" =>
         /\ Remaining(w, Matching(w) \ keys[w])
         /\ keys[w] \subseteq Full /\ value[w] \in Nat /\ (value[w] = 0 => keys[w] # {})

\* The script gets a batch of what is stale.
Batched ==
  \A w \in Worker : pc[w] = "stale_script" => keys[w] \in FirstOf(Stale(w), StaleBatch)

\* A batch of at least one takes something, if there is something.
LEMMA SomeBatch ==
  ASSUME NEW S, NEW n \in Nat \ {0}, {} \in FirstOf(S, n)
  PROVE  S = {}
BY FS_EmptySet DEF FirstOf, AtMostOf

LEMMA MemorySets ==
  ASSUME NEW S, S \subseteq Memory
  PROVE  /\ IsFiniteSet(S) /\ Cardinality(S) \in Nat /\ Cardinality(S) <= Cardinality(Memory)
         /\ Cardinality(Memory) \in Nat /\ (Cardinality(S) = 0 <=> S = {})
BY FiniteAssumption, FS_Subset, FS_CardinalityType, FS_EmptySet

LEMMA BeginRound ==
  ASSUME IInv, NEW w \in Worker,
         AutoForget(w) \/ (\E m \in Memory : ForgetId(w, m)) \/ (\E age \in Age : ForgetFilter(w, age))
  PROVE  pc[w] = "idle" /\ pc'[w] \in {"stale_search", "delete", "forget_search"} /\ round'[w] = round[w]
BY DEF AutoForget, ForgetId, ForgetFilter, Begin, IInv, LocalsOK

LEMMA DeleteEmpties ==
  ASSUME IInv, Emptied, NEW w \in Worker, Delete(w), pc'[w] # "idle"
  PROVE  pc'[w] = "forget_search" /\ round'[w] = 0
<1> LocalsOK
  BY DEF IInv
<1>1. ~Return(w)
  BY DEF Return, LocalsOK
<1>2. pc[w] = "delete" /\ pc' = [pc EXCEPT ![w] = "forget_search"] /\ round' = round
  BY <1>1 DEF Delete
<1>3. pc'[w] = "forget_search"
  BY <1>2 DEF LocalsOK
<1>4. QED
  BY <1>2, <1>3 DEF Emptied

LEMMA ForgetSearchEmpties ==
  ASSUME IInv, Emptied, MaxIterations * DeleteBatch >= Cardinality(Memory),
         NEW w \in Worker, ForgetSearch(w)
  PROVE  \/ pc'[w] = "idle" /\ Matching(w) = {}
         \/ /\ pc'[w] = "forget_del" /\ cutoff'[w] = cutoff[w] /\ hash' = hash
            /\ keys'[w] \subseteq Full /\ keys'[w] # {} /\ value'[w] = 0
            /\ LET R == Matching(w) \ keys'[w] IN
                 R = {} \/ Cardinality(R) + round'[w] * DeleteBatch <= Cardinality(Memory)
<1> LocalsOK
  BY DEF IInv
<1> DEFINE M == Matching(w)
<1>1. M \subseteq Full /\ M \subseteq Memory /\ DeleteBatch \in Nat \ {0} /\ MaxIterations \in Nat \ {0}
  BY BoundAssumption DEF Matching, Full
<1>2. PICK B \in FirstOf(M, DeleteBatch) :
        IF B = {} \/ round[w] = MaxIterations
          THEN Return(w)
          ELSE /\ Goto(w, "forget_del")
               /\ keys' = [keys EXCEPT ![w] = B]
               /\ value' = [value EXCEPT ![w] = Missing]
               /\ round' = [round EXCEPT ![w] = @ + 1]
               /\ UNCHANGED <<vec, fts, now, cutoff, accessed>>
  BY DEF ForgetSearch
<1>3. /\ pc[w] = "forget_search" /\ hash' = hash /\ round[w] \in 0 .. MaxIterations
      /\ M = {} \/ Cardinality(M) + round[w] * DeleteBatch <= Cardinality(Memory)
  BY DEF ForgetSearch, LocalsOK, Emptied, Remaining
<1> HIDE DEF M
<1>4. CASE B = {} \/ round[w] = MaxIterations
  <2>1. pc'[w] = "idle"
    BY <1>2, <1>4 DEF Return, LocalsOK
  <2>2. CASE B = {}
    BY <1>1, <1>2, <2>1, <2>2, SomeBatch DEF M
  <2>3. CASE round[w] = MaxIterations /\ M # {}
    <3>1. Cardinality(M) = 0
      BY <1>1, <1>3, <2>3, MemorySets
    <3>2. QED
      BY <1>1, <2>3, <3>1, MemorySets
  <2>4. QED
    BY <1>4, <2>1, <2>2, <2>3 DEF M
<1>5. CASE ~(B = {} \/ round[w] = MaxIterations)
  <2>1. /\ pc'[w] = "forget_del" /\ keys'[w] = B /\ cutoff'[w] = cutoff[w] /\ round'[w] = round[w] + 1
        /\ value'[w] = 0
    BY <1>2, <1>5 DEF LocalsOK, Missing
  <2>2. B \subseteq M /\ (B = M \/ Cardinality(B) = DeleteBatch) /\ M # {}
    BY <1>5 DEF FirstOf, AtMostOf
  <2>3. CASE B = M
    <3>1. M \ B = {}
      BY <2>3
    <3>2. QED
      BY <1>1, <1>3, <1>5, <2>1, <2>2, <3>1 DEF M
  <2>4. CASE Cardinality(B) = DeleteBatch
    <3>1. /\ IsFiniteSet(M) /\ IsFiniteSet(B) /\ Cardinality(M) \in Nat /\ Cardinality(Memory) \in Nat
          /\ Cardinality(M \ B) \in Nat
      <4>1. B \subseteq Memory /\ M \ B \subseteq Memory
        BY <1>1, <2>2
      <4>2. QED
        BY <1>1, <4>1, MemorySets
    <3>2. Cardinality(M \ B) = Cardinality(M) - DeleteBatch
      <4>1. Cardinality(M \ B) = Cardinality(M) - Cardinality(M \cap B)
        BY <3>1, FS_Difference
      <4>2. M \cap B = B
        BY <2>2
      <4>3. QED
        BY <2>4, <4>1, <4>2
    <3>3. Cardinality(M) + round[w] * DeleteBatch <= Cardinality(Memory)
      BY <1>3, <2>2
    <3>4. (round[w] + 1) * DeleteBatch = round[w] * DeleteBatch + DeleteBatch
          /\ round[w] * DeleteBatch \in Nat
      BY <1>1, <1>3
    <3>5. Cardinality(M \ B) + round'[w] * DeleteBatch <= Cardinality(Memory)
      <4> DEFINE x == round[w] * DeleteBatch
                 y == (round[w] + 1) * DeleteBatch
      <4>1. y = x + DeleteBatch /\ x \in Nat /\ Cardinality(M) + x <= Cardinality(Memory)
        BY <3>3, <3>4
      <4>2. round'[w] * DeleteBatch = y
        BY <2>1
      <4> HIDE DEF x, y
      <4>3. QED
        BY <1>1, <3>1, <3>2, <4>1, <4>2
    <3>6. QED
      BY <1>1, <1>3, <1>5, <2>1, <2>2, <3>5 DEF M
  <2>5. QED
    BY <2>2, <2>3, <2>4
<1>6. QED
  BY <1>4, <1>5

LEMMA ForgetDelEmpties ==
  ASSUME IInv, Emptied, NEW w \in Worker, ForgetDel(w)
  PROVE  /\ pc'[w] = "forget_del" /\ Remaining(w, Matching(w) \ keys[w])'
         /\ keys'[w] \subseteq Full' /\ value'[w] \in Nat /\ value'[w] # 0
<1> LocalsOK /\ hash \in [Memory -> Hash]
  BY DEF IInv, SharedOK
<1>1. PICK k \in keys[w] : /\ hash' = [m \in Memory |-> IF m \in {k} THEN Absent ELSE hash[m]]
                           /\ keys' = [keys EXCEPT ![w] = @ \ {k}]
                           /\ value' = [value EXCEPT ![w] = IF Exists(k) THEN @ + 1 ELSE @]
  BY DEF ForgetDel, Remove
<1>2. UNCHANGED <<pc, round, cutoff>> /\ pc[w] = "forget_del"
  BY DEF ForgetDel
<1>3. keys'[w] = keys[w] \ {k} /\ k \in Memory /\ k \in Full
  BY <1>1, <1>2 DEF LocalsOK, Emptied
<1>4. value'[w] = value[w] + 1 /\ value[w] \in Nat
  BY <1>1, <1>2, <1>3 DEF LocalsOK, IInv, SharedOK, Emptied
<1>5. \A m \in Memory \ {k} : hash'[m] = hash[m]
  BY <1>1
<1>6. ~hash'[k].full
  BY <1>1, <1>3, AbsentFacts
<1>7. keys'[w] \subseteq Full'
  BY <1>2, <1>3, <1>5 DEF Full, Emptied
<1>8. Matching(w)' = Matching(w) \ {k}
  BY <1>2, <1>5, <1>6 DEF Matching, Full
<1>9. Matching(w)' \ keys'[w] = Matching(w) \ keys[w]
  BY <1>1, <1>3, <1>8
<1>10. Remaining(w, Matching(w) \ keys[w])'
  BY <1>2, <1>9 DEF Emptied, Remaining
<1>11. QED
  BY <1>2, <1>4, <1>7, <1>10

LEMMA ForgetDeletedEmpties ==
  ASSUME IInv, Emptied, NEW w \in Worker, ForgetDeleted(w)
  PROVE  pc'[w] = "forget_search" /\ Remaining(w, Matching(w))'
<1>1. /\ pc[w] = "forget_del" /\ keys[w] = {} /\ value[w] # 0 /\ Remaining(w, Matching(w) \ {})
  BY DEF ForgetDeleted, Emptied
<1>2. pc' = [pc EXCEPT ![w] = "forget_search"] /\ UNCHANGED <<hash, cutoff, round>>
  BY <1>1 DEF ForgetDeleted, locals
<1>3. pc'[w] = "forget_search"
  BY <1>2 DEF IInv, LocalsOK
<1>4. Matching(w)' = Matching(w) \ {}
  BY <1>2 DEF Matching, Full
<1>5. QED
  BY <1>1, <1>2, <1>3, <1>4 DEF Remaining

LEMMA EmptiedStep ==
  ASSUME IInv, Emptied, NEW w \in Worker, Worker = {w},
         MaxIterations * DeleteBatch >= Cardinality(Memory), Begins(w) \/ Proceed(w)
  PROVE  Emptied'
<1> LocalsOK /\ Enters(w)
  BY EntersBy DEF IInv
<1> SUFFICES /\ pc'[w] \in {"idle", "delete"} => round'[w] = 0
             /\ pc'[w] = "forget_search" => Remaining(w, Matching(w))'
             /\ pc'[w] = "forget_del" =>
                  /\ Remaining(w, Matching(w) \ keys[w])'
                  /\ keys'[w] \subseteq Full' /\ value'[w] \in Nat /\ (value'[w] = 0 => keys'[w] # {})
  BY DEF Emptied
<1>1. CASE pc'[w] = "idle"
  BY <1>1 DEF Enters, Return, LocalsOK
<1>2. CASE pc'[w] = "delete"
  <2>1. pc[w] = "idle" /\ round'[w] = round[w]
    BY <1>2, BeginRound DEF Enters
  <2>2. QED
    BY <1>2, <2>1 DEF Emptied
<1>3. CASE pc'[w] \in {"forget_search", "forget_del"}
  <2>1. ASSUME round'[w] = 0 PROVE Remaining(w, Matching(w))'
    <3>1. Cardinality(Matching(w)') <= Cardinality(Memory) /\ Cardinality(Matching(w)') \in Nat
      BY MemorySets DEF Matching, Full
    <3>2. round'[w] * DeleteBatch = 0
      BY <2>1, BoundAssumption
    <3>3. QED
      BY <3>1, <3>2 DEF Remaining
  <2>2. CASE \E age \in Age : ForgetFilter(w, age)
    <3>1. pc[w] = "idle" /\ round'[w] = round[w] /\ pc'[w] # "forget_del"
      BY <1>3, <2>2, BeginRound
    <3>2. round'[w] = 0
      BY <3>1 DEF Emptied
    <3>3. QED
      BY <1>3, <2>1, <3>1, <3>2
  <2>3. CASE Delete(w)
    BY <1>3, <2>1, <2>3, DeleteEmpties
  <2>4. CASE ForgetSearch(w)
    <3>1. /\ pc'[w] = "forget_del" /\ cutoff'[w] = cutoff[w] /\ hash' = hash
          /\ keys'[w] \subseteq Full /\ keys'[w] # {} /\ value'[w] = 0
          /\ LET R == Matching(w) \ keys'[w] IN
               R = {} \/ Cardinality(R) + round'[w] * DeleteBatch <= Cardinality(Memory)
      BY <1>3, <2>4, ForgetSearchEmpties
    <3>2. Matching(w)' = Matching(w) /\ Full' = Full
      BY <3>1 DEF Matching, Full
    <3>3. QED
      BY <3>1, <3>2 DEF Remaining
  <2>5. CASE ForgetDel(w)
    BY <2>5, ForgetDelEmpties
  <2>6. CASE ForgetDeleted(w)
    BY <2>6, ForgetDeletedEmpties
  <2>7. QED
    BY <1>3, <2>2, <2>3, <2>4, <2>5, <2>6 DEF Enters
<1>4. QED
  BY <1>1, <1>2, <1>3

LEMMA BatchedStep ==
  ASSUME IInv, NEW w \in Worker, Worker = {w}, Begins(w) \/ Proceed(w)
  PROVE  Batched'
<1> LocalsOK /\ Enters(w)
  BY EntersBy DEF IInv
<1> SUFFICES ASSUME pc'[w] = "stale_script"
    PROVE  keys'[w] \in FirstOf(Stale(w)', StaleBatch)
  BY DEF Batched, FirstOf, AtMostOf
<1>1. StaleSearch(w)
  <2>1. ~Return(w)
    BY DEF Return, LocalsOK
  <2>2. ~StaleScript(w)
    BY <2>1 DEF StaleScript, LocalsOK
  <2>3. ~AutoForget(w)
    BY BeginRound
  <2>4. QED
    BY <2>2, <2>3 DEF Enters
<1>2. PICK B \in FirstOf(Stale(w), StaleBatch) :
        keys' = [keys EXCEPT ![w] = B] /\ cutoff' = cutoff /\ hash' = hash
  <2>1. ~Return(w)
    BY DEF Return, LocalsOK
  <2>2. QED
    BY <1>1, <2>1 DEF StaleSearch
<1>3. keys'[w] = B /\ Stale(w)' = Stale(w)
  BY <1>2 DEF LocalsOK, Stale, Full
<1>4. QED
  BY <1>2, <1>3

LEMMA SearchEnds ==
  ASSUME IInv, NEW w \in Worker, StaleSearch(w), pc'[w] = "idle"
  PROVE  Stale(w) = {} \/ round[w] = MaxIterations
<1>1. PICK B \in FirstOf(Stale(w), StaleBatch) :
        B = {} \/ round[w] = MaxIterations \/ Goto(w, "stale_script")
  BY DEF StaleSearch
<1>2. ~Goto(w, "stale_script")
  BY DEF IInv, LocalsOK
<1>3. B = {} => Stale(w) = {}
  BY SomeBatch, BoundAssumption
<1>4. QED
  BY <1>1, <1>2, <1>3

\* The script that ends the loop has deleted nothing, and its whole batch is to stay.
LEMMA ScriptEnds ==
  ASSUME IInv, Batched, NEW w \in Worker, StaleScript(w), pc'[w] = "idle"
  PROVE  LET kept == {m \in Left(w) : ~Faded(m, now[w])} IN
           kept = Left(w) \/ Cardinality(kept) >= StaleBatch
<1> LocalsOK /\ hash \in [Memory -> Hash]
  BY DEF IInv, SharedOK
<1> DEFINE Dead == {m \in keys[w] : Faded(m, now[w])}
           kept == {m \in Left(w) : ~Faded(m, now[w])}
<1>1. /\ pc[w] = "stale_script" /\ hash' = [m \in Memory |-> IF m \in Dead THEN Absent ELSE hash[m]]
      /\ Dead = {} \/ Goto(w, "stale_search")
  BY DEF StaleScript, Remove
<1>2. Dead = {}
  BY <1>1 DEF LocalsOK
<1>3. hash' = hash
  BY <1>1, <1>2
<1>4. Left(w) = Stale(w)
  BY <1>3 DEF Left, Stale, Full
<1>5. keys[w] \subseteq Stale(w) /\ (keys[w] = Stale(w) \/ Cardinality(keys[w]) = StaleBatch)
  BY <1>1 DEF Batched, FirstOf, AtMostOf
<1>6. keys[w] \subseteq kept /\ kept \subseteq Stale(w) /\ kept \subseteq Memory
  BY <1>2, <1>4, <1>5 DEF Stale, Full
<1> HIDE DEF kept
<1>7. CASE keys[w] = Stale(w)
  BY <1>4, <1>6, <1>7 DEF kept
<1>8. CASE Cardinality(keys[w]) = StaleBatch
  <2>1. IsFiniteSet(kept)
    BY <1>6, MemorySets
  <2>2. Cardinality(keys[w]) <= Cardinality(kept)
    BY <1>6, <2>1, FS_Subset
  <2>3. QED
    BY <1>8, <2>2 DEF kept
<1>9. QED
  BY <1>5, <1>7, <1>8

\* When forget with a filter returns with success nothing that matches is left: if
\* the client is alone and its rounds have room for all memories.  That the loop also
\* ends when a batch deleted nothing, or after its last round, then makes no difference.
THEOREM ForgetLeavesNone ==
  ASSUME OneClient, MaxIterations * DeleteBatch >= Cardinality(Memory)
  PROVE  Spec => ForgetsAll
<1>1. PICK c \in Worker : Worker = {c}
  BY DEF OneClient
<1>2. Init => Emptied
  BY DEF Init, Emptied
<1>3. IInv /\ Emptied /\ [Next]_vars => Emptied'
  <2> SUFFICES ASSUME IInv, Emptied, [Next]_vars PROVE Emptied'
    OBVIOUS
  <2>1. ASSUME NEW w \in Worker, Begins(w) \/ Proceed(w) PROVE Emptied'
    BY <1>1, <2>1, EmptiedStep
  <2>2. CASE Tick \/ UNCHANGED vars
    BY <2>2, TickStep DEF Emptied, Remaining, Matching, Full, history, locals
  <2>3. QED
    BY <2>1, <2>2 DEF Next
<1>4. IInv /\ Emptied =>
        \A w \in Worker :
          (ForgetSearch(w) \/ ForgetDeleted(w)) /\ pc'[w] = "idle" => Matching(w) = {}
  <2> SUFFICES ASSUME IInv, Emptied, NEW w \in Worker, ForgetSearch(w) \/ ForgetDeleted(w), pc'[w] = "idle"
      PROVE  Matching(w) = {}
    OBVIOUS
  <2>1. QED
    BY ForgetSearchEmpties, ForgetDeletedEmpties
<1>5. QED
  BY <1>2, <1>3, <1>4, InvariantHolds, PTL DEF Spec, ForgetsAll

\* When auto-forget ends without an error it leaves a faded memory only if its rounds
\* are used up or the memories to keep fill a batch: if the client is alone.
THEOREM SweepsUpTo ==
  ASSUME OneClient
  PROVE  Spec => SweepsUpToBatch
<1>1. PICK c \in Worker : Worker = {c}
  BY DEF OneClient
<1>2. Init => Batched
  BY DEF Init, Batched
<1>3. IInv /\ Batched /\ [Next]_vars => Batched'
  <2> SUFFICES ASSUME IInv, Batched, [Next]_vars PROVE Batched'
    OBVIOUS
  <2>1. ASSUME NEW w \in Worker, Begins(w) \/ Proceed(w) PROVE Batched'
    BY <1>1, <2>1, BatchedStep
  <2>2. CASE Tick \/ UNCHANGED vars
    BY <2>2, TickStep DEF Batched, FirstOf, AtMostOf, Stale, Full, history, locals
  <2>3. QED
    BY <2>1, <2>2 DEF Next
<1>4. IInv /\ Batched =>
        \A w \in Worker :
          AutoForgetEnds(w) /\ (\E m \in Left(w) : Faded(m, now[w])) =>
            \/ round[w] = MaxIterations
            \/ Cardinality({m \in Left(w) : ~Faded(m, now[w])}) >= StaleBatch
  <2> SUFFICES ASSUME IInv, Batched, NEW w \in Worker, AutoForgetEnds(w),
                      NEW m \in Left(w), Faded(m, now[w])
      PROVE  \/ round[w] = MaxIterations
             \/ Cardinality({k \in Left(w) : ~Faded(k, now[w])}) >= StaleBatch
    OBVIOUS
  <2>1. CASE StaleSearch(w)
    BY <2>1, SearchEnds DEF AutoForgetEnds, Left
  <2>2. CASE StaleScript(w)
    BY <2>2, ScriptEnds DEF AutoForgetEnds
  <2>3. QED
    BY <2>1, <2>2 DEF AutoForgetEnds
<1>5. QED
  BY <1>2, <1>3, <1>4, InvariantHolds, PTL DEF Spec, SweepsUpToBatch
=============================================================================
