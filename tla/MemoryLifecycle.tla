--------------------------- MODULE MemoryLifecycle ---------------------------
(***************************************************************************)
(* The life of the memories of a project: store_memory, the memories that  *)
(* end_session extracts, update_memory, recall with its access tracking,   *)
(* forget, and the auto-forget task of maintenance                         *)
(* (internal/mcp/handlers.go, internal/memory/store.go, search.go and      *)
(* maintenance.go).                                                        *)
(*                                                                         *)
(* A worker is a goroutine that serves one call at a time.  Every Redis    *)
(* command is a step; a Lua script is one command.  Of a hash the model    *)
(* keeps the fields that the code computes with, whether it is there, and  *)
(* whether it is full, that is, has all its fields; a field that the hash  *)
(* does not have has the value that the scripts read for it, or Missing    *)
(* where that is a time.  Searches carry the project filter,               *)
(* so they find full hashes only: one that was brought back by a script or *)
(* an update after it had been deleted has no project.                     *)
(***************************************************************************)
EXTENDS Ranking

CONSTANTS
  Worker,           \* goroutines that serve calls
  Can,              \* Can[w]: "store", "extract", "update", "recall", "forget", "maintain"
  Memory,           \* bound: memory ids, each used once
  Importance,       \* what clients and the compressor give for the importance
  ClockBound,       \* bound: time, in decay intervals, runs from 1 to this
  RecallLimit,      \* the "limit" argument of recall
  DeleteBatch,      \* LIMIT of a search of DeleteByFilter, 1000 in the code
  StaleBatch,       \* LIMIT of a search of autoForget, 200 in the code
  MaxIterations,    \* rounds of search and delete, 50 or 100 in the code
  ForgetInactive,   \* config: maintenance.forget_inactive_days, in intervals
  ForgetThreshold,  \* config: maintenance.forget_threshold, in units
  RecallBound,      \* bound: a memory is returned by at most this many recalls
  VectorScore,      \* bound: similarities that a vector search finds
  FTSScore,         \* bound: text scores that a full-text search finds
  Faults            \* what may fail: "redis" (a command), "crash" (a server)

ASSUME BoundAssumption ==
  /\ ClockBound \in Nat \ {0} /\ RecallLimit \in Nat /\ RecallBound \in Nat
  /\ DeleteBatch \in Nat \ {0} /\ StaleBatch \in Nat \ {0} /\ MaxIterations \in Nat \ {0}
  /\ ForgetInactive \in Nat \ {0} /\ ForgetThreshold \in 0 .. 10 * Unit
  /\ Importance \subseteq Int
  /\ VectorScore \subseteq Int /\ FTSScore \subseteq Nat
ASSUME FiniteAssumption == IsFiniteSet(Worker) /\ IsFiniteSet(Memory)

\* A fact of arithmetic, up to the longest time of an instance.
ASSUME PowerAssumption ==
  \A n \in 0 .. ClockBound : DecayDividend ^ n \in Nat \ {0} /\ DecayDivisor ^ n \in Nat \ {0}

VARIABLES
  clock,     \* Redis servers and clients agree on the time
  hash,      \* the mem:{id} hashes
  known,     \* the ids given out so far
  returned,  \* history: how many recalls have returned a memory
  orphaned,  \* history: the memories deleted while a call had them in hand
  pc,        \* where each worker is in its call
  vec, fts,  \* the answers of the two searches of its recall
  keys,      \* the keys its pipeline or script is about
  value,     \* the importance argument of its call
  now,       \* the time its call has read
  cutoff,    \* the bound of its search
  round,     \* iterations done by its loop
  accessed   \* history: memories of its stale batch accessed since the search

history == <<known, returned, orphaned>>
locals == <<vec, fts, keys, value, now, cutoff, round, accessed>>
vars == <<clock, hash, history, pc, locals>>

Missing == 0
Absent ==
  [there |-> FALSE, full |-> FALSE, importance |-> 5, last |-> Missing, count |-> 0,
   created |-> Missing]
Exists(m) == hash[m].there
Full == {m \in Memory : hash[m].full}

\* The answer of a search that is still out, or that has failed, or that holds
\* copies of the memories it found.
Answer(state, S) == [state |-> state, memories |-> [m \in S |-> hash[m]]]
Waiting == Answer("waiting", {})
Failed == Answer("failed", {})
Unused == Answer("unused", {})
Found(S) == Answer("found", S)
Ids(answer) == DOMAIN answer.memories

Label ==
  {"idle", "store", "extract", "update_check", "update_write", "search", "track",
   "delete", "forget_search", "forget_del", "stale_search", "stale_script"}

At(w, label) == pc[w] = label
Goto(w, label) == pc' = [pc EXCEPT ![w] = label]

Init ==
  /\ clock = 1
  /\ hash = [m \in Memory |-> Absent]
  /\ known = {}
  /\ returned = [m \in Memory |-> 0]
  /\ orphaned = {}
  /\ pc = [w \in Worker |-> "idle"]
  /\ vec = [w \in Worker |-> Unused] /\ fts = [w \in Worker |-> Unused]
  /\ keys = [w \in Worker |-> {}]
  /\ value = [w \in Worker |-> Missing]
  /\ now = [w \in Worker |-> Missing] /\ cutoff = [w \in Worker |-> Missing]
  /\ round = [w \in Worker |-> 0]
  /\ accessed = [w \in Worker |-> {}]

\* The handler's local variables are gone when the call returns.
Return(w) ==
  /\ Goto(w, "idle")
  /\ vec' = [vec EXCEPT ![w] = Unused] /\ fts' = [fts EXCEPT ![w] = Unused]
  /\ keys' = [keys EXCEPT ![w] = {}]
  /\ value' = [value EXCEPT ![w] = Missing]
  /\ now' = [now EXCEPT ![w] = Missing] /\ cutoff' = [cutoff EXCEPT ![w] = Missing]
  /\ round' = [round EXCEPT ![w] = 0]
  /\ accessed' = [accessed EXCEPT ![w] = {}]

\* A call starts; it reads the time and a bound for its search.
Begin(w, call, label, S, importance, bound) ==
  /\ At(w, "idle") /\ call \in Can[w]
  /\ Goto(w, label)
  /\ keys' = [keys EXCEPT ![w] = S]
  /\ value' = [value EXCEPT ![w] = importance]
  /\ now' = [now EXCEPT ![w] = clock]
  /\ cutoff' = [cutoff EXCEPT ![w] = bound]

\* The memories whose hash a call is about to write because it has seen them.
InHand(w) ==
  IF pc[w] \in {"update_write", "search", "track"} THEN keys[w] \cup Ids(vec[w]) \cup Ids(fts[w]) ELSE {}

\* DEL of the hashes of S.
Remove(S) ==
  /\ hash' = [m \in Memory |-> IF m \in S THEN Absent ELSE hash[m]]
  /\ orphaned' = orphaned \cup (S \cap UNION {InHand(w) : w \in Worker})
  /\ UNCHANGED <<clock, known, returned>>

-----------------------------------------------------------------------------
(***************************************************************************)
(* The Lua scripts.  A hash that has no last_accessed was accessed now.    *)
(***************************************************************************)
ScoreArgs(m, time) ==
  [importance |-> hash[m].importance,
   intervals |-> IF hash[m].last = Missing THEN 0 ELSE time - hash[m].last,
   count |-> hash[m].count]

UpdateAccess(m, time) ==
  LET a == ScoreArgs(m, time) IN
    [hash[m] EXCEPT !.there = TRUE,
                    !.importance = AccessImportance(a.importance, a.intervals, a.count),
                    !.last = time,
                    !.count = a.count + 1]

Faded(m, time) ==
  LET a == ScoreArgs(m, time) IN
    EffectiveImportance(a.importance, a.intervals, a.count) <= ForgetThreshold

-----------------------------------------------------------------------------
(***************************************************************************)
(* Faulty variants of definitions below, which no specification uses.      *)
(***************************************************************************)
\* A merge that does not remove duplicates: a memory found twice is written
\* down twice in the answer.
MergeTwice(w) ==
  /\ At(w, "search")
  /\ vec[w] # Waiting /\ fts[w] # Waiting
  /\ \E T \in FirstOf(Ids(vec[w]) \cup Ids(fts[w]), RecallLimit) :
       IF T = {}
         THEN Return(w) /\ UNCHANGED returned
         ELSE /\ Goto(w, "track")
              /\ keys' = [keys EXCEPT ![w] = T]
              /\ returned' = [m \in Memory |-> returned[m] +
                                (IF m \in T \cap Ids(vec[w]) THEN 1 ELSE 0) +
                                (IF m \in T \cap Ids(fts[w]) THEN 1 ELSE 0)]
              /\ now' = [now EXCEPT ![w] = clock]
              /\ UNCHANGED <<vec, fts, value, cutoff, round, accessed>>
  /\ UNCHANGED <<clock, hash, known, orphaned>>

\* Track without the clamp and the rounding: the stored importance is in units.
TrackRaw(w) ==
  /\ At(w, "track")
  /\ \E m \in keys[w] :
       /\ hash' = [hash EXCEPT ![m] =
                     [UpdateAccess(m, now[w]) EXCEPT
                        !.importance = hash[m].importance + Boost(hash[m].count + 1)]]
       /\ keys' = [keys EXCEPT ![w] = @ \ {m}]
  /\ UNCHANGED <<clock, history, pc, vec, fts, value, now, cutoff, round, accessed>>

\* UpdateWrite without the look whether the memory exists.
UpdateCheckNothing(w) ==
  /\ At(w, "update_check") /\ Goto(w, "update_write")
  /\ UNCHANGED <<clock, hash, history, locals>>

\* StaleSearch that takes the memories of the last intervals for the old ones.
StaleSearchRecent(w) ==
  /\ At(w, "stale_search")
  /\ \E B \in FirstOf({m \in Full : hash[m].last >= cutoff[w]}, StaleBatch) :
       IF B = {} \/ round[w] = MaxIterations
         THEN Return(w)
         ELSE /\ Goto(w, "stale_script")
              /\ keys' = [keys EXCEPT ![w] = B]
              /\ round' = [round EXCEPT ![w] = @ + 1]
              /\ accessed' = [accessed EXCEPT ![w] = {}]
              /\ UNCHANGED <<vec, fts, value, now, cutoff>>
  /\ UNCHANGED <<clock, hash, history>>

\* ForgetDeleted that stops after the first batch.
ForgetDeletedOnce(w) ==
  /\ At(w, "forget_del") /\ keys[w] = {}
  /\ Return(w)
  /\ UNCHANGED <<clock, hash, history>>

\* StaleScript that ends the loop after one batch.
StaleScriptStops(w) ==
  /\ At(w, "stale_script")
  /\ Remove({m \in keys[w] : Faded(m, now[w])})
  /\ Return(w)

-----------------------------------------------------------------------------
(***************************************************************************)
(* store_memory.  The time is read first; the hash is written after the    *)
(* embedding has been computed.  Nothing checks the importance.            *)
(***************************************************************************)
Store(w, m, importance) ==
  /\ m \notin known /\ known' = known \cup {m}
  /\ Begin(w, "store", "store", {m}, importance, Missing)
  /\ UNCHANGED <<clock, hash, returned, orphaned, vec, fts, round, accessed>>

Save(w, m) ==
  hash' = [hash EXCEPT ![m] =
             [there |-> TRUE, full |-> TRUE, importance |-> value[w], last |-> now[w],
              count |-> 0, created |-> now[w]]]

StoreHash(w) ==
  /\ At(w, "store")
  /\ \E m \in keys[w] : Save(w, m)
  /\ Return(w)
  /\ UNCHANGED <<clock, history>>

-----------------------------------------------------------------------------
(***************************************************************************)
(* end_session: saveExtracted stores what the compressor made of the       *)
(* observations, one memory after the other, all with the time that it     *)
(* read first.  One that cannot be saved does not keep it from the others. *)
(***************************************************************************)
Extract(w, S, importance) ==
  /\ S # {} /\ S \cap known = {} /\ known' = known \cup S
  /\ Begin(w, "extract", "extract", S, importance, Missing)
  /\ UNCHANGED <<clock, hash, returned, orphaned, vec, fts, round, accessed>>

ExtractSave(w) ==
  /\ At(w, "extract")
  /\ \E m \in keys[w] : Save(w, m) /\ keys' = [keys EXCEPT ![w] = @ \ {m}]
  /\ UNCHANGED <<clock, history, pc, vec, fts, value, now, cutoff, round, accessed>>

\* The embedder or Redis fails, or only the reply of Redis is lost.
ExtractFails(w) ==
  /\ "redis" \in Faults
  /\ At(w, "extract")
  /\ \E m \in keys[w] :
       /\ UNCHANGED hash \/ Save(w, m)
       /\ keys' = [keys EXCEPT ![w] = @ \ {m}]
  /\ UNCHANGED <<clock, history, pc, vec, fts, value, now, cutoff, round, accessed>>

Extracted(w) ==
  /\ At(w, "extract") /\ keys[w] = {}
  /\ Return(w)
  /\ UNCHANGED <<clock, hash, history>>

-----------------------------------------------------------------------------
(***************************************************************************)
(* update_memory: EXISTS, then, after an embedding, HSET of the fields     *)
(* given.  An importance is cut to 10; one that is not positive is not     *)
(* written, only the other fields are.                                     *)
(***************************************************************************)
UpdateMemory(w, m, importance) ==
  /\ Begin(w, "update", "update_check", {m}, AtMost(10, importance), Missing)
  /\ UNCHANGED <<clock, hash, history, vec, fts, round, accessed>>

UpdateCheck(w) ==
  /\ At(w, "update_check")
  /\ IF \E m \in keys[w] : Exists(m)
       THEN Goto(w, "update_write") /\ UNCHANGED locals
       ELSE Return(w)
  /\ UNCHANGED <<clock, hash, history>>

\* HSET creates the hash when the memory was deleted since the check.
UpdateWrite(w) ==
  /\ At(w, "update_write")
  /\ \E m \in keys[w] :
       hash' = [hash EXCEPT ![m].there = TRUE,
                            ![m].importance = IF value[w] > 0 THEN value[w] ELSE @]
  /\ Return(w)
  /\ UNCHANGED <<clock, history>>

-----------------------------------------------------------------------------
(***************************************************************************)
(* recall.  A hybrid search runs its two searches in goroutines of their   *)
(* own and asks each for twice the limit.                                  *)
(***************************************************************************)
Recall(w, v, f) ==
  /\ \A m \in Memory :
       returned[m] + Cardinality({u \in Worker : At(u, "search")}) < RecallBound
  /\ Begin(w, "recall", "search", {}, Missing, Missing)
  /\ vec' = [vec EXCEPT ![w] = v]
  /\ fts' = [fts EXCEPT ![w] = f]
  /\ UNCHANGED <<clock, hash, history, round, accessed>>

VectorRecall(w) == Recall(w, Waiting, Unused)
FullTextRecall(w) == Recall(w, Unused, Waiting)
HybridRecall(w) == Recall(w, Waiting, Waiting)

FetchLimit(w) ==
  IF vec[w] = Unused \/ fts[w] = Unused THEN RecallLimit ELSE 2 * RecallLimit

\* The nearest neighbours are as many as there are, up to the limit.
VectorSearch(w) ==
  /\ At(w, "search") /\ vec[w] = Waiting
  /\ \E T \in FirstOf(Full, FetchLimit(w)) : vec' = [vec EXCEPT ![w] = Found(T)]
  /\ UNCHANGED <<clock, hash, history, pc, fts, keys, value, now, cutoff, round, accessed>>

FullTextSearch(w) ==
  /\ At(w, "search") /\ fts[w] = Waiting
  /\ \E T \in AtMostOf(Full, FetchLimit(w)) : fts' = [fts EXCEPT ![w] = Found(T)]
  /\ UNCHANGED <<clock, hash, history, pc, vec, keys, value, now, cutoff, round, accessed>>

\* The embedder or Redis gives one of the searches an error.
SearchFails(w) ==
  /\ "redis" \in Faults /\ At(w, "search")
  /\ \/ vec[w] = Waiting /\ vec' = [vec EXCEPT ![w] = Failed] /\ UNCHANGED fts
     \/ fts[w] = Waiting /\ fts' = [fts EXCEPT ![w] = Failed] /\ UNCHANGED vec
  /\ UNCHANGED <<clock, hash, history, pc, keys, value, now, cutoff, round, accessed>>

\* mergeResults.  Of a memory that both searches found it keeps the copy of the
\* vector search, from which it computes the effective importance.
Candidates(w) == Ids(vec[w]) \cup Ids(fts[w])

EffectiveIn(w, m) ==
  LET copy == IF m \in Ids(vec[w]) THEN vec[w].memories[m] ELSE fts[w].memories[m] IN
    EffectiveImportance(copy.importance, clock - copy.last, copy.count)

MergedScore(w, vs, fs) ==
  [m \in Candidates(w) |-> FinalScore(m, vs, fs, EffectiveIn(w, m))]

\* An answer that comes alone keeps its own order.
RankedBy(w, vs, fs) ==
  CASE vec[w].state # "found" -> fs
    [] fts[w].state # "found" -> vs
    [] OTHER -> MergedScore(w, vs, fs)

VectorScores(w) == [Ids(vec[w]) -> VectorScore]
FTSScores(w) == [Ids(fts[w]) -> FTSScore]

\* A hybrid recall ranks what its searches found and cuts it to the limit.
\* Nothing is returned when no search succeeded or nothing was found.
MergeResults(w) ==
  /\ At(w, "search")
  /\ vec[w] # Waiting /\ fts[w] # Waiting
  /\ \E vs \in VectorScores(w), fs \in FTSScores(w) :
       \E T \in Best(RankedBy(w, vs, fs), RecallLimit) :
         IF T = {}
           THEN Return(w) /\ UNCHANGED returned
           ELSE /\ Goto(w, "track")
                /\ keys' = [keys EXCEPT ![w] = T]
                /\ returned' = [m \in Memory |-> IF m \in T THEN returned[m] + 1 ELSE returned[m]]
                /\ now' = [now EXCEPT ![w] = clock]
                /\ vec' = [vec EXCEPT ![w] = Unused] /\ fts' = [fts EXCEPT ![w] = Unused]
                /\ UNCHANGED <<value, cutoff, round, accessed>>
  /\ UNCHANGED <<clock, hash, known, orphaned>>

\* trackAccess: a pipeline with one evaluation of the script per result.
TrackAccess(w) ==
  /\ At(w, "track")
  /\ \E m \in keys[w] :
       /\ hash' = [hash EXCEPT ![m] = UpdateAccess(m, now[w])]
       /\ keys' = [keys EXCEPT ![w] = @ \ {m}]
       /\ accessed' = [v \in Worker |-> IF At(v, "stale_script") /\ m \in keys[v]
                                         THEN accessed[v] \cup {m} ELSE accessed[v]]
  /\ UNCHANGED <<clock, history, pc, vec, fts, value, now, cutoff, round>>

Tracked(w) ==
  /\ At(w, "track") /\ keys[w] = {}
  /\ Return(w)
  /\ UNCHANGED <<clock, hash, history>>

-----------------------------------------------------------------------------
(***************************************************************************)
(* forget: by id, by a filter on the age, or by one and then the other.    *)
(* An age that is not positive puts no bound on created_at.                *)
(***************************************************************************)
Age == 0 .. ClockBound - 1
CreatedBefore(olderThan) == IF olderThan > 0 THEN clock - olderThan ELSE ClockBound

ForgetId(w, m) ==
  /\ Begin(w, "forget", "delete", {m}, Missing, Missing)
  /\ UNCHANGED <<clock, hash, history, vec, fts, round, accessed>>

\* A memory that is not found is an error.
Delete(w) ==
  /\ At(w, "delete")
  /\ Remove(keys[w])
  /\ \/ Return(w)
     \/ /\ \E m \in keys[w] : Exists(m)
        /\ \E age \in Age : cutoff' = [cutoff EXCEPT ![w] = CreatedBefore(age)]
        /\ Goto(w, "forget_search")
        /\ UNCHANGED <<vec, fts, keys, value, now, round, accessed>>

ForgetFilter(w, olderThan) ==
  /\ Begin(w, "forget", "forget_search", {}, Missing, CreatedBefore(olderThan))
  /\ UNCHANGED <<clock, hash, history, vec, fts, round, accessed>>

Matching(w) == {m \in Full : hash[m].created <= cutoff[w]}

ForgetSearch(w) ==
  /\ At(w, "forget_search")
  /\ \E B \in FirstOf(Matching(w), DeleteBatch) :
       IF B = {} \/ round[w] = MaxIterations
         THEN Return(w)
         ELSE /\ Goto(w, "forget_del")
              /\ keys' = [keys EXCEPT ![w] = B]
              /\ value' = [value EXCEPT ![w] = Missing]
              /\ round' = [round EXCEPT ![w] = @ + 1]
              /\ UNCHANGED <<vec, fts, now, cutoff, accessed>>
  /\ UNCHANGED <<clock, hash, history>>

\* One DEL of the pipeline; value[w] counts those that deleted something.
ForgetDel(w) ==
  /\ At(w, "forget_del")
  /\ \E m \in keys[w] :
       /\ Remove({m})
       /\ keys' = [keys EXCEPT ![w] = @ \ {m}]
       /\ value' = [value EXCEPT ![w] = IF Exists(m) THEN @ + 1 ELSE @]
  /\ UNCHANGED <<pc, vec, fts, now, cutoff, round, accessed>>

ForgetDeleted(w) ==
  /\ At(w, "forget_del") /\ keys[w] = {}
  /\ IF value[w] = 0 THEN Return(w) ELSE Goto(w, "forget_search") /\ UNCHANGED locals
  /\ UNCHANGED <<clock, hash, history>>

-----------------------------------------------------------------------------
(***************************************************************************)
(* autoForget: rounds of a search for memories that nobody has accessed    *)
(* for a time, and a script that deletes those of them that have faded.    *)
(* The script looks at the importance again, not at the last access.  A    *)
(* batch of which nothing was deleted ends the loop.                       *)
(***************************************************************************)
AutoForget(w) ==
  /\ Begin(w, "maintain", "stale_search", {}, Missing, clock - ForgetInactive)
  /\ UNCHANGED <<clock, hash, history, vec, fts, round, accessed>>

Stale(w) == {m \in Full : hash[m].last <= cutoff[w]}

StaleSearch(w) ==
  /\ At(w, "stale_search")
  /\ \E B \in FirstOf(Stale(w), StaleBatch) :
       IF B = {} \/ round[w] = MaxIterations
         THEN Return(w)
         ELSE /\ Goto(w, "stale_script")
              /\ keys' = [keys EXCEPT ![w] = B]
              /\ round' = [round EXCEPT ![w] = @ + 1]
              /\ accessed' = [accessed EXCEPT ![w] = {}]
              /\ UNCHANGED <<vec, fts, value, now, cutoff>>
  /\ UNCHANGED <<clock, hash, history>>

StaleScript(w) ==
  /\ At(w, "stale_script")
  /\ LET Dead == {m \in keys[w] : Faded(m, now[w])} IN
       /\ Remove(Dead)
       /\ IF Dead = {} THEN Return(w) ELSE Goto(w, "stale_search") /\ UNCHANGED locals

-----------------------------------------------------------------------------
\* A command fails and the call returns; what it has done stays done.
RedisFails(w) ==
  /\ "redis" \in Faults
  /\ pc[w] \notin {"idle", "search", "extract"}
  /\ Return(w)
  /\ UNCHANGED <<clock, hash, history>>

Crash(w) ==
  /\ "crash" \in Faults
  /\ pc[w] # "idle"
  /\ Return(w)
  /\ UNCHANGED <<clock, hash, history>>

Tick ==
  /\ clock < ClockBound
  /\ clock' = clock + 1
  /\ UNCHANGED <<hash, history, pc, locals>>

Begins(w) ==
  \/ \E m \in Memory, i \in Importance : Store(w, m, i)
  \/ \E S \in SUBSET Memory, i \in Importance : Extract(w, S, i)
  \/ \E m \in Memory, i \in Importance \cup {0} : UpdateMemory(w, m, i)
  \/ VectorRecall(w) \/ FullTextRecall(w) \/ HybridRecall(w)
  \/ \E m \in Memory : ForgetId(w, m)
  \/ \E age \in Age : ForgetFilter(w, age)
  \/ AutoForget(w)

Proceed(w) ==
  \/ StoreHash(w) \/ ExtractSave(w) \/ ExtractFails(w) \/ Extracted(w)
  \/ UpdateCheck(w) \/ UpdateWrite(w)
  \/ VectorSearch(w) \/ FullTextSearch(w) \/ SearchFails(w)
  \/ MergeResults(w) \/ TrackAccess(w) \/ Tracked(w)
  \/ Delete(w) \/ ForgetSearch(w) \/ ForgetDel(w) \/ ForgetDeleted(w)
  \/ StaleSearch(w) \/ StaleScript(w)
  \/ RedisFails(w) \/ Crash(w)

Next == Tick \/ \E w \in Worker : Begins(w) \/ Proceed(w)

Spec == Init /\ [][Next]_vars

-----------------------------------------------------------------------------
(***************************************************************************)
(* Properties.                                                             *)
(***************************************************************************)
\* Every variable keeps its type.  store_memory and end_session put no bound on
\* the importance they write, but a memory that has been recalled has one of 1 to
\* 10, whatever was stored, decayed, boosted and updated since.
TypeOK ==
  /\ clock \in 1 .. ClockBound
  /\ hash \in [Memory -> [there : BOOLEAN, full : BOOLEAN, importance : Int,
                          last : 0 .. ClockBound, count : 0 .. RecallBound,
                          created : 0 .. ClockBound]]
  /\ \A m \in Full : Exists(m) /\ hash[m].created >= 1 /\ hash[m].last >= 1
  /\ \A m \in Memory : hash[m].count > 0 => hash[m].importance \in 1 .. 10
  /\ known \subseteq Memory /\ orphaned \subseteq Memory
  /\ returned \in [Memory -> 0 .. RecallBound]
  /\ pc \in [Worker -> Label]
  /\ \A w \in Worker : Candidates(w) \subseteq Memory
  /\ keys \in [Worker -> SUBSET Memory] /\ accessed \in [Worker -> SUBSET Memory]
  /\ value \in [Worker -> Int]
  /\ now \in [Worker -> 0 .. ClockBound]
  /\ round \in [Worker -> 0 .. MaxIterations]

\* No recall is lost or counted twice, whichever calls overlap: with no call
\* under way and no command failed, a memory's access count is the number of
\* answers it has been in.
CountsEveryRecall ==
  (\A w \in Worker : pc[w] = "idle") => \A m \in Full : hash[m].count = returned[m]

\* A hash is complete or absent, unless a delete overtook a call that had seen the
\* memory and went on to write its hash: no update or access count brings back a
\* part of a memory that was gone before the call looked.
NoRemnant == \A m \in Memory : Exists(m) => hash[m].full \/ m \in orphaned

\* Auto-forget deletes only memories that nobody has accessed for
\* forget_inactive_days before it read the time, except those accessed between its
\* search and its script, which looks at the importance only.
SparesActive ==
  [][\A w \in Worker, m \in Memory :
       StaleScript(w) /\ Exists(m) /\ hash'[m] = Absent =>
         hash[m].last <= now[w] - ForgetInactive \/ m \in accessed[w]]_vars

\* When forget with a filter returns with success, no memory that matches its
\* filter is left, as long as its batches have room for all of them.
ForgetsAll ==
  [][\A w \in Worker :
       (ForgetSearch(w) \/ ForgetDeleted(w)) /\ pc'[w] = "idle" => Matching(w) = {}]_vars

\* The memories that are still there, of those that were stale before this step.
Left(w) == {m \in Stale(w) : hash'[m].full}
AutoForgetEnds(w) == (StaleSearch(w) \/ StaleScript(w)) /\ pc'[w] = "idle"

\* When auto-forget ends without an error, every memory it left is either in
\* use or above the threshold.
ForgetsFaded ==
  [][\A w \in Worker : AutoForgetEnds(w) => \A m \in Left(w) : ~Faded(m, now[w])]_vars

\* What the loop of auto-forget does promise: it leaves a faded memory only when
\* its rounds are used up, or when the memories to keep fill a batch.
SweepsUpToBatch ==
  [][\A w \in Worker :
       AutoForgetEnds(w) /\ (\E m \in Left(w) : Faded(m, now[w])) =>
         \/ round[w] = MaxIterations
         \/ Cardinality({m \in Left(w) : ~Faded(m, now[w])}) >= StaleBatch]_vars

\* Whatever a hybrid recall finds, it cuts off no memory that is as good as one
\* it returns in similarity, text score and importance, and better in one of
\* them, as long as every weight is positive.  Similarities count only when one of
\* them is positive.
KeepsTheBest ==
  \A w \in Worker :
    At(w, "search") /\ vec[w].state = "found" /\ fts[w].state = "found" =>
      \A vs \in VectorScores(w), fs \in FTSScores(w) :
        LET Similarity(m) == IF m \in Ids(vec[w]) THEN vs[m] ELSE 0
            TextScore(m) == IF m \in Ids(fts[w]) THEN fs[m] ELSE 0
            Better(k, m) ==
              /\ Similarity(k) >= Similarity(m) /\ TextScore(k) >= TextScore(m)
              /\ EffectiveIn(w, k) >= EffectiveIn(w, m)
              /\ \/ Similarity(k) > Similarity(m) /\ maxScore(vs) > 0
                 \/ TextScore(k) > TextScore(m)
                 \/ EffectiveIn(w, k) > EffectiveIn(w, m)
        IN \A T \in Best(RankedBy(w, vs, fs), RecallLimit) :
             \A m \in T, k \in Candidates(w) \ T : ~Better(k, m)
=============================================================================
