--------------------------- MODULE ProjectDirectory ---------------------------
(***************************************************************************)
(* Which project each memory and each session belongs to, and which        *)
(* projects are listed: Save, DeleteByFilter, SaveSession, RenameProject   *)
(* and the project part of cleanupOrphans (internal/memory/store.go and    *)
(* maintenance.go) with the handlers that call them.                       *)
(*                                                                         *)
(* A worker is a server with one client, which sends one call at a time.   *)
(* Every Redis command is a step.  A search reads what the hashes hold at  *)
(* that moment, since RediSearch indexes a hash as it is written.  Session *)
(* records are never pruned here: SessionLifecycle models that.            *)
(***************************************************************************)
EXTENDS Naturals, FiniteSets

CONSTANTS
  Worker,         \* servers with one client each
  Can,            \* Can[w]: "store", "forget", "session", "rename"
  Project, Memory, Session,  \* bound: ids of memories and sessions are used once
  Absent,         \* the project of a key that does not exist
  BatchSize,      \* LIMIT of one FT.SEARCH, 1000 in the code
  MaxIterations,  \* rounds of search and update, 100 in the code
  Faults          \* what may fail: "redis" (a command), "crash" (a server)

ASSUME BatchAssumption == BatchSize \in Nat \ {0} /\ MaxIterations \in Nat \ {0}
ASSUME AbsentAssumption == Absent \notin Project \cup Session
ASSUME KeyAssumption == Memory \cap Session = {}
ASSUME FiniteAssumption == IsFiniteSet(Memory)

VARIABLES
  memory,    \* the project field of the mem:{id} hashes
  known,     \* the memory ids given out so far
  session,   \* the project field of the session:{id} hashes
  index,     \* the project_sessions:{project} sorted sets
  projects,  \* the "projects" set
  origin,    \* the Project of the Session structs, Absent before they exist
  active,    \* activeSession of each server
  pc,        \* where each worker is in its call
  old, new,  \* the project arguments of its call
  ids,       \* the keys that its current pipeline has still to write
  entries,   \* the sorted-set entries its rename has read
  round,     \* iterations done by its loop
  scope,     \* history: the memories that were in the old project when its rename began
  broken     \* history: the projects of calls that an error or a crash broke off

redis == <<memory, session, index, projects>>
heap == <<known, origin, active, broken>>
locals == <<old, new, ids, entries, round, scope>>
vars == <<redis, heap, pc, locals>>

Label ==
  {"idle", "store_hash", "store_list", "forget_search", "forget_del",
   "start_hash", "start_index", "start_list", "count", "zcard", "unlist",
   "end_hash", "end_index", "end_list",
   "search", "move", "entries", "session_hash", "session_add", "session_del",
   "list_rem", "list_add"}

At(w, label) == pc[w] = label
Goto(w, label) == pc' = [pc EXCEPT ![w] = label]
MemoriesOf(p) == {m \in Memory : memory[m] = p}

Init ==
  /\ memory = [m \in Memory |-> Absent] /\ known = {}
  /\ session = [s \in Session |-> Absent] /\ index = [p \in Project |-> {}]
  /\ projects = {}
  /\ origin = [s \in Session |-> Absent]
  /\ active = [w \in Worker |-> Absent]
  /\ pc = [w \in Worker |-> "idle"]
  /\ old = [w \in Worker |-> Absent] /\ new = [w \in Worker |-> Absent]
  /\ ids = [w \in Worker |-> {}] /\ entries = [w \in Worker |-> {}]
  /\ round = [w \in Worker |-> 0]
  /\ scope = [w \in Worker |-> {}] /\ broken = {}

\* The handler's local variables are gone when the call returns.
Return(w) ==
  /\ Goto(w, "idle")
  /\ old' = [old EXCEPT ![w] = Absent] /\ new' = [new EXCEPT ![w] = Absent]
  /\ ids' = [ids EXCEPT ![w] = {}] /\ entries' = [entries EXCEPT ![w] = {}]
  /\ round' = [round EXCEPT ![w] = 0]
  /\ scope' = [scope EXCEPT ![w] = {}]

\* A call with the arguments p and q starts, with keys to write.
Begin(w, call, label, p, q, keys) ==
  /\ At(w, "idle") /\ call \in Can[w]
  /\ Goto(w, label)
  /\ old' = [old EXCEPT ![w] = p] /\ new' = [new EXCEPT ![w] = q]
  /\ ids' = [ids EXCEPT ![w] = keys]
  /\ UNCHANGED <<entries, round>>

\* FT.SEARCH for a project: at most BatchSize of its memories, in any order.
Batches(p) ==
  {B \in SUBSET MemoriesOf(p) :
     Cardinality(B) = BatchSize \/ (B = MemoriesOf(p) /\ Cardinality(B) < BatchSize)}

-----------------------------------------------------------------------------
(***************************************************************************)
(* Faulty variants of actions below, which no specification uses.          *)
(***************************************************************************)
\* RenameSearch without its limit on the rounds.
RenameSearchUncapped(w) ==
  /\ At(w, "search")
  /\ \E B \in Batches(old[w]) :
       /\ ids' = [ids EXCEPT ![w] = B]
       /\ Goto(w, IF B = {} THEN "entries" ELSE "move")
  /\ round' = [round EXCEPT ![w] = @ + 1]
  /\ UNCHANGED <<redis, heap, old, new, entries, scope>>

\* RenameSearch that takes one batch for all of the project.
RenameSearchOnce(w) ==
  /\ At(w, "search")
  /\ IF round[w] = 1
       THEN Goto(w, "entries") /\ UNCHANGED <<ids, round>>
       ELSE \E B \in Batches(old[w]) :
              /\ ids' = [ids EXCEPT ![w] = B]
              /\ Goto(w, IF B = {} THEN "entries" ELSE "move")
              /\ round' = [round EXCEPT ![w] = @ + 1]
  /\ UNCHANGED <<redis, heap, old, new, entries, scope>>

\* RenameSessionDel that keeps the old sorted set.
RenameSessionDelOmitted(w) ==
  /\ At(w, "session_del") /\ Goto(w, "list_rem")
  /\ UNCHANGED <<redis, heap, locals>>

\* RenameSessionAdd that leaves the new sorted set as it is.
RenameSessionAddOmitted(w) ==
  /\ At(w, "session_add") /\ Goto(w, "session_del")
  /\ UNCHANGED <<redis, heap, locals>>

\* CleanupZCard that does not let the sessions of a project keep it listed.
CleanupZCardIgnored(w) ==
  /\ At(w, "zcard") /\ Goto(w, "unlist")
  /\ UNCHANGED <<redis, heap, locals>>

-----------------------------------------------------------------------------
(***************************************************************************)
(* store_memory: Save registers the project after the hash is written.     *)
(***************************************************************************)
Store(w, m, p) ==
  /\ m \notin known /\ known' = known \cup {m}
  /\ Begin(w, "store", "store_hash", p, Absent, {m})
  /\ UNCHANGED <<redis, origin, active, broken, scope>>

StoreHash(w) ==
  /\ At(w, "store_hash") /\ Goto(w, "store_list")
  /\ memory' = [m \in Memory |-> IF m \in ids[w] THEN old[w] ELSE memory[m]]
  /\ UNCHANGED <<session, index, projects, heap, locals>>

StoreList(w) ==
  /\ At(w, "store_list")
  /\ projects' = projects \cup {old[w]}
  /\ Return(w)
  /\ UNCHANGED <<memory, session, index, heap>>

-----------------------------------------------------------------------------
(***************************************************************************)
(* forget with a project: rounds of a search and a pipeline of DELs, until *)
(* a search finds nothing or a pipeline deletes nothing.                   *)
(***************************************************************************)
Forget(w, p) ==
  /\ Begin(w, "forget", "forget_search", p, Absent, {})
  /\ UNCHANGED <<redis, heap, scope>>

ForgetSearch(w) ==
  /\ At(w, "forget_search")
  /\ \E B \in Batches(old[w]) :
       IF B = {} \/ round[w] = MaxIterations
         THEN Return(w)
         ELSE /\ Goto(w, "forget_del")
              /\ ids' = [ids EXCEPT ![w] = B]
              /\ entries' = [entries EXCEPT ![w] = {}]
              /\ round' = [round EXCEPT ![w] = @ + 1]
              /\ UNCHANGED <<old, new, scope>>
  /\ UNCHANGED <<redis, heap>>

\* One DEL of the pipeline; entries[w] collects the ids that were there.
ForgetDel(w) ==
  /\ At(w, "forget_del")
  /\ \E m \in ids[w] :
       /\ memory' = [memory EXCEPT ![m] = Absent]
       /\ ids' = [ids EXCEPT ![w] = @ \ {m}]
       /\ entries' = [entries EXCEPT ![w] = IF memory[m] = Absent THEN @ ELSE @ \cup {m}]
  /\ UNCHANGED <<session, index, projects, heap, pc, old, new, round, scope>>

ForgetDeleted(w) ==
  /\ At(w, "forget_del") /\ ids[w] = {}
  /\ IF entries[w] = {}
       THEN Return(w)
       ELSE Goto(w, "forget_search") /\ UNCHANGED locals
  /\ UNCHANGED <<redis, heap>>

-----------------------------------------------------------------------------
(***************************************************************************)
(* start_session: SaveSession of a new session, then the last part of      *)
(* cleanupOrphans, which unlists a project without memories and sessions.  *)
(***************************************************************************)
Start(w, s, p) ==
  /\ active[w] = Absent /\ origin[s] = Absent
  /\ active' = [active EXCEPT ![w] = s]
  /\ origin' = [origin EXCEPT ![s] = p]
  /\ Begin(w, "session", "start_hash", p, Absent, {s})
  /\ UNCHANGED <<redis, known, broken, scope>>

\* EndSession saves the struct it was given by start_session, whose Project
\* no rename changes.
End(w) ==
  /\ active[w] # Absent
  /\ active' = [active EXCEPT ![w] = Absent]
  /\ Begin(w, "session", "end_hash", origin[active[w]], Absent, {active[w]})
  /\ UNCHANGED <<redis, known, origin, broken, scope>>

SaveHash(w, from, to) ==
  /\ At(w, from) /\ Goto(w, to)
  /\ session' = [s \in Session |-> IF s \in ids[w] THEN old[w] ELSE session[s]]
  /\ UNCHANGED <<memory, index, projects, heap, locals>>

SaveIndex(w, from, to) ==
  /\ At(w, from) /\ Goto(w, to)
  /\ index' = [index EXCEPT ![old[w]] = @ \cup ids[w]]
  /\ UNCHANGED <<memory, session, projects, heap, locals>>

StartHash(w) == SaveHash(w, "start_hash", "start_index")
StartIndex(w) == SaveIndex(w, "start_index", "start_list")

\* Maintenance is skipped when it is turned off or has run recently.
StartList(w) ==
  /\ At(w, "start_list")
  /\ projects' = projects \cup {old[w]}
  /\ Return(w) \/ (Goto(w, "count") /\ UNCHANGED locals)
  /\ UNCHANGED <<memory, session, index, heap>>

EndHash(w) == SaveHash(w, "end_hash", "end_index")
EndIndex(w) == SaveIndex(w, "end_index", "end_list")
EndList(w) ==
  /\ At(w, "end_list")
  /\ projects' = projects \cup {old[w]}
  /\ Return(w)
  /\ UNCHANGED <<memory, session, index, heap>>

\* CountByProject and ZCARD are two commands; one that is not 0 decides.
CleanupCount(w) ==
  /\ At(w, "count")
  /\ IF MemoriesOf(old[w]) = {} THEN Goto(w, "zcard") /\ UNCHANGED locals ELSE Return(w)
  /\ UNCHANGED <<redis, heap>>

CleanupZCard(w) ==
  /\ At(w, "zcard")
  /\ IF index[old[w]] = {} THEN Goto(w, "unlist") /\ UNCHANGED locals ELSE Return(w)
  /\ UNCHANGED <<redis, heap>>

CleanupUnlist(w) ==
  /\ At(w, "unlist")
  /\ projects' = projects \ {old[w]}
  /\ Return(w)
  /\ UNCHANGED <<memory, session, index, heap>>

-----------------------------------------------------------------------------
(***************************************************************************)
(* rename_project: rounds of a search and a pipeline of HSETs until the    *)
(* old project has no memory; then the sessions; then the projects set.    *)
(***************************************************************************)
Rename(w, p, q) ==
  /\ p # q
  /\ Begin(w, "rename", "search", p, q, {})
  /\ scope' = [scope EXCEPT ![w] = MemoriesOf(p)]
  /\ UNCHANGED <<redis, heap>>

RenameSearch(w) ==
  /\ At(w, "search")
  /\ IF round[w] = MaxIterations
       THEN Goto(w, "entries") /\ UNCHANGED <<ids, round>>
       ELSE \E B \in Batches(old[w]) :
              /\ ids' = [ids EXCEPT ![w] = B]
              /\ Goto(w, IF B = {} THEN "entries" ELSE "move")
              /\ round' = [round EXCEPT ![w] = @ + 1]
  /\ UNCHANGED <<redis, heap, old, new, entries, scope>>

\* One HSET of the pipeline.  It creates the hash when the key is gone.
RenameMove(w) ==
  /\ At(w, "move")
  /\ \E m \in ids[w] :
       /\ memory' = [memory EXCEPT ![m] = new[w]]
       /\ ids' = [ids EXCEPT ![w] = @ \ {m}]
       /\ Goto(w, IF ids'[w] = {} THEN "search" ELSE "move")
  /\ UNCHANGED <<session, index, projects, heap, old, new, entries, round, scope>>

RenameEntries(w) ==
  /\ At(w, "entries")
  /\ LET S == index[old[w]] IN
       /\ entries' = [entries EXCEPT ![w] = S]
       /\ ids' = [ids EXCEPT ![w] = S]
       /\ Goto(w, IF S = {} THEN "list_rem" ELSE "session_hash")
  /\ UNCHANGED <<redis, heap, old, new, round, scope>>

RenameSessionHash(w) ==
  /\ At(w, "session_hash")
  /\ \E s \in ids[w] :
       /\ session' = [session EXCEPT ![s] = new[w]]
       /\ ids' = [ids EXCEPT ![w] = @ \ {s}]
       /\ Goto(w, IF ids'[w] = {} THEN "session_add" ELSE "session_hash")
  /\ UNCHANGED <<memory, index, projects, heap, old, new, entries, round, scope>>

RenameSessionAdd(w) ==
  /\ At(w, "session_add") /\ Goto(w, "session_del")
  /\ index' = [index EXCEPT ![new[w]] = @ \cup entries[w]]
  /\ UNCHANGED <<memory, session, projects, heap, locals>>

RenameSessionDel(w) ==
  /\ At(w, "session_del") /\ Goto(w, "list_rem")
  /\ index' = [index EXCEPT ![old[w]] = {}]
  /\ UNCHANGED <<memory, session, projects, heap, locals>>

RenameListRem(w) ==
  /\ At(w, "list_rem") /\ Goto(w, "list_add")
  /\ projects' = projects \ {old[w]}
  /\ UNCHANGED <<memory, session, index, heap, locals>>

RenameListAdd(w) ==
  /\ At(w, "list_add")
  /\ projects' = projects \cup {new[w]}
  /\ Return(w)
  /\ UNCHANGED <<memory, session, index, heap>>

-----------------------------------------------------------------------------
(***************************************************************************)
(* A command fails: the call returns, and what its pipeline has done so    *)
(* far stays done.  The start of a session also gives up the slot; the     *)
(* tasks of maintenance do not make it fail.  Of its SADD only the reply   *)
(* may be lost.                                                            *)
(***************************************************************************)
RedisFails(w) ==
  /\ "redis" \in Faults
  /\ pc[w] # "idle"
  /\ active' = [active EXCEPT ![w] =
                  IF pc[w] \in {"start_hash", "start_index", "start_list"} THEN Absent ELSE @]
  /\ projects' = projects \/ (At(w, "start_list") /\ projects' = projects \cup {old[w]})
  /\ broken' = broken \cup ({old[w], new[w]} \ {Absent})
  /\ Return(w)
  /\ UNCHANGED <<memory, session, index, known, origin>>

Crash(w) ==
  /\ "crash" \in Faults
  /\ pc[w] # "idle" \/ active[w] # Absent
  /\ active' = [active EXCEPT ![w] = Absent]
  /\ broken' = broken \cup ({old[w], new[w]} \ {Absent})
  /\ Return(w)
  /\ UNCHANGED <<redis, known, origin>>

StoreStep(w) == StoreHash(w) \/ StoreList(w)
ForgetStep(w) == ForgetSearch(w) \/ ForgetDel(w) \/ ForgetDeleted(w)
SessionStep(w) ==
  \/ StartHash(w) \/ StartIndex(w) \/ StartList(w)
  \/ EndHash(w) \/ EndIndex(w) \/ EndList(w)
  \/ CleanupCount(w) \/ CleanupZCard(w) \/ CleanupUnlist(w)
RenameStep(w) ==
  \/ RenameSearch(w) \/ RenameMove(w)
  \/ RenameEntries(w) \/ RenameSessionHash(w) \/ RenameSessionAdd(w) \/ RenameSessionDel(w)
  \/ RenameListRem(w) \/ RenameListAdd(w)

Next ==
  \E w \in Worker :
    \/ \E p \in Project, m \in Memory : Store(w, m, p)
    \/ \E p \in Project : Forget(w, p)
    \/ \E p \in Project, s \in Session : Start(w, s, p)
    \/ End(w)
    \/ \E p, q \in Project : Rename(w, p, q)
    \/ StoreStep(w) \/ ForgetStep(w) \/ SessionStep(w) \/ RenameStep(w)
    \/ RedisFails(w) \/ Crash(w)

Spec == Init /\ [][Next]_vars

-----------------------------------------------------------------------------
(***************************************************************************)
(* Properties.                                                             *)
(***************************************************************************)
\* Every variable keeps its type.
TypeOK ==
  /\ memory \in [Memory -> Project \cup {Absent}] /\ known \subseteq Memory
  /\ session \in [Session -> Project \cup {Absent}]
  /\ index \in [Project -> SUBSET Session] /\ projects \subseteq Project
  /\ origin \in [Session -> Project \cup {Absent}]
  /\ active \in [Worker -> Session \cup {Absent}]
  /\ pc \in [Worker -> Label]
  /\ old \in [Worker -> Project \cup {Absent}] /\ new \in [Worker -> Project \cup {Absent}]
  /\ ids \in [Worker -> SUBSET (Memory \cup Session)]
  /\ entries \in [Worker -> SUBSET (Memory \cup Session)]
  /\ round \in [Worker -> 0 .. MaxIterations]
  /\ scope \in [Worker -> SUBSET Memory] /\ broken \subseteq Project

\* A rename that succeeds has taken every memory its old project had when it
\* began to the new project, unless somebody deleted it, whatever is stored
\* and forgotten meanwhile and whichever calls fail.
MigratesMemories ==
  [][\A w \in Worker :
       RenameListAdd(w) => \A m \in scope[w] : memory[m] \in {new[w], Absent}]_vars

\* A rename that succeeds, with nobody else at work, leaves nothing of the old
\* project, even when earlier renames of it broke off half-way: no memory, no
\* session, no entry in the list of projects.
RenameEmptiesOld ==
  [][\A w \in Worker :
       RenameListAdd(w) =>
         /\ MemoriesOf(old[w]) = {} /\ index'[old[w]] = {}
         /\ old[w] \notin projects' /\ new[w] \in projects']_vars

\* A session that is indexed under some project stays indexed under some
\* project: a rename fills the new sorted set before it deletes the old one.
StaysIndexed ==
  [][\A s \in Session :
       (\E p \in Project : s \in index[p]) => (\E p \in Project : s \in index'[p])]_vars

\* A rename takes the sessions of a project along for good: after calls have
\* returned, no session is indexed under two projects.
OneProjectPerSession ==
  (\A w \in Worker : pc[w] = "idle") =>
    \A s \in Session, p, q \in Project : s \in index[p] /\ s \in index[q] => p = q

\* A project that has memories or sessions is listed once the calls that wrote
\* them have returned, in whatever order it was filled, renamed and cleaned up,
\* unless a call that was about it broke off.
Listed ==
  (\A w \in Worker : pc[w] = "idle") =>
    \A p \in Project \ broken : MemoriesOf(p) # {} \/ index[p] # {} => p \in projects
=============================================================================
