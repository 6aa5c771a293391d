-------------------------- MODULE SessionLifecycle --------------------------
(***************************************************************************)
(* The life of a session: start_session, end_session and POST /end-session *)
(* of mnemoir servers that share one Redis (internal/mcp/handlers.go,      *)
(* SaveSession and GetLastSession of internal/memory/store.go, and the     *)
(* session part of internal/memory/maintenance.go).                        *)
(*                                                                         *)
(* A worker is a goroutine that serves one call at a time; the workers of  *)
(* one server share its activeSession slot.  A step of a worker ends where *)
(* the code gives up the processor to another actor: at the mutex, and at  *)
(* each Redis command.  A go-redis Pipeline is no transaction, so its      *)
(* commands are steps of their own and an error leaves a prefix of them    *)
(* applied.  Sessions are numbered in their rank order, that of            *)
(* (started_at, id), which is also the order in which they are created.    *)
(*                                                                         *)
(* The memories that these calls touch and the "projects" set are modelled *)
(* in MemoryLifecycle and ProjectDirectory.                                *)
(***************************************************************************)
EXTENDS Naturals, FiniteSets

CONSTANTS
  Server,              \* processes of cmd/mnemoir
  Worker,              \* goroutines that serve calls
  Home,                \* Home[w]: the server that worker w belongs to
  Can,                 \* Can[w]: the calls that reach worker w
  Project,             \* values of the "project" argument
  SessionBound,        \* bound: start_session creates at most this many sessions
  MaxSessionsPerProject, \* config: maintenance.max_sessions_per_project
  MaintenanceEnabled,  \* config: maintenance.enabled
  Faults               \* what may fail: "redis" (a command), "crash" (a server)

Session == 1 .. SessionBound
None == 0
Call == {"start", "end", "post"}

ASSUME HomeAssumption == Home \in [Worker -> Server]
ASSUME CanAssumption == Can \in [Worker -> SUBSET Call]
ASSUME ProjectAssumption == Project # {}
ASSUME BoundAssumption == SessionBound \in Nat /\ MaxSessionsPerProject \in Nat \ {0}
ASSUME ConfigAssumption == MaintenanceEnabled \in BOOLEAN /\ Faults \subseteq {"redis", "crash"}

VARIABLES
  active,    \* Handlers.activeSession of each server, None for nil
  lastId,    \* the newest session created so far
  object,    \* the memory.Session struct in the heap, shared by pointer
  hash,      \* the session:{id} hashes in Redis
  index,     \* the project_sessions:{project} sorted sets
  throttle,  \* the maint:last_run:{project} keys
  pc,        \* where each worker is in its call
  held,      \* the session its handler holds in the variable sess
  image,     \* the ended_at its SaveSession has read from the struct
  excess,    \* pruneCount of its pruneSessions
  ids,       \* the session ids a command has returned to it
  previous,  \* the session whose summary its last start_session returned
  boot       \* history: which run of a server's process this is, by its parity

vars ==
  <<active, lastId, object, hash, index, throttle, pc, held, image, excess, ids, previous, boot>>
redisVars == <<hash, index, throttle>>
heapVars == <<active, lastId, object, boot>>
callVars == <<held, image, excess, ids, previous>>

MaintenanceLabel ==
  {"throttle", "prune_count", "prune_range", "prune_del", "prune_rem",
   "orphan_scan", "orphan_exists", "orphan_rem", "mark", "mark_ttl"}
StartLabel ==
  {"start_read", "start_hash", "start_index", "start_rollback", "last_id", "last_hash"}
    \cup MaintenanceLabel
EndLabel == {"end_write", "end_hash", "end_index"}
Label == {"idle", "end_take"} \cup StartLabel \cup EndLabel

(***************************************************************************)
(* Sorted-set reads.  Lowest(S, k) is ZRANGE 0 k-1, Newest(S) is           *)
(* ZREVRANGE 0 0.                                                          *)
(***************************************************************************)
Lowest(S, k) == {s \in S : Cardinality({t \in S : t < s}) < k}
Newest(S) == {s \in S : \A t \in S : t <= s}

ProjectOf(s) == object[s].project
IndexOf(w) == index[ProjectOf(held[w])]
SetIndex(w, S) == index' = [index EXCEPT ![ProjectOf(held[w])] = S]

At(w, label) == pc[w] = label
Goto(w, label) == pc' = [pc EXCEPT ![w] = label]

Init ==
  /\ active = [srv \in Server |-> None]
  /\ lastId = 0
  /\ object = [s \in Session |-> [project |-> CHOOSE p \in Project : TRUE, ended |-> FALSE]]
  /\ hash = [s \in Session |-> "absent"]
  /\ index = [p \in Project |-> {}]
  /\ throttle = [p \in Project |-> "none"]
  /\ pc = [w \in Worker |-> "idle"]
  /\ held = [w \in Worker |-> None]
  /\ image = [w \in Worker |-> FALSE]
  /\ excess = [w \in Worker |-> 0]
  /\ ids = [w \in Worker |-> {}]
  /\ previous = [w \in Worker |-> None]
  /\ boot = [srv \in Server |-> 0]

(***************************************************************************)
(* The call returns: the handler's local variables are gone.               *)
(***************************************************************************)
Return(w) ==
  /\ Goto(w, "idle")
  /\ held' = [held EXCEPT ![w] = None]
  /\ image' = [image EXCEPT ![w] = FALSE]
  /\ excess' = [excess EXCEPT ![w] = 0]
  /\ ids' = [ids EXCEPT ![w] = {}]

-----------------------------------------------------------------------------
(***************************************************************************)
(* SaveSession: the fields are read from the struct into a map, then a     *)
(* pipeline of HSET and ZADD is executed.                                  *)
(***************************************************************************)
SaveHash(w) ==
  hash' = [hash EXCEPT ![held[w]] = IF image[w] THEN "closed" ELSE "open"]

SaveIndex(w) == SetIndex(w, IndexOf(w) \cup {held[w]})

\* The pipeline reports an error.  Before the HSET nothing was applied; after
\* it the ZADD either was not applied, or was and only its reply is lost.
SaveFails(w, atHash, atIndex) ==
  /\ "redis" \in Faults
  /\ \/ At(w, atHash) /\ UNCHANGED index
     \/ At(w, atIndex) /\ (UNCHANGED index \/ SaveIndex(w))
  /\ UNCHANGED <<hash, throttle>>

-----------------------------------------------------------------------------
(***************************************************************************)
(* Faulty variants of actions below.  No specification uses them: each is  *)
(* what the named action becomes with a likely mistake, and shows that a   *)
(* property would notice.                                                  *)
(***************************************************************************)
\* StartSession without its refusal while a session is active.
StartSessionUnchecked(w, p) ==
  /\ At(w, "idle") /\ "start" \in Can[w]
  /\ lastId < SessionBound
  /\ lastId' = lastId + 1
  /\ active' = [active EXCEPT ![Home[w]] = lastId']
  /\ object' = [object EXCEPT ![lastId'] = [project |-> p, ended |-> FALSE]]
  /\ held' = [held EXCEPT ![w] = lastId']
  /\ previous' = [previous EXCEPT ![w] = None]
  /\ Goto(w, "start_read")
  /\ UNCHANGED <<redisVars, boot, image, excess, ids>>

\* LastFails that empties the slot, as the failure of the save does.
LastFailsRollsBack(w) ==
  /\ "redis" \in Faults
  /\ At(w, "last_id") \/ At(w, "last_hash")
  /\ active' = [active EXCEPT ![Home[w]] = None]
  /\ Return(w)
  /\ UNCHANGED <<redisVars, lastId, object, boot, previous>>

\* PruneCount that takes one session too many, or one too few.
PruneCountBut(w, count, n) ==
  /\ At(w, "prune_count")
  /\ IF count <= MaxSessionsPerProject
       THEN Goto(w, "orphan_scan") /\ UNCHANGED excess
       ELSE Goto(w, "prune_range") /\ excess' = [excess EXCEPT ![w] = n]
  /\ UNCHANGED <<heapVars, redisVars, held, image, ids, previous>>
PruneCountOver(w) ==
  LET count == Cardinality(IndexOf(w)) IN PruneCountBut(w, count, count - MaxSessionsPerProject + 1)
PruneCountUnder(w) ==
  LET count == Cardinality(IndexOf(w)) IN PruneCountBut(w, count, count - MaxSessionsPerProject - 1)

\* PruneRem with pruneCount for the inclusive end of the range.
PruneRemInclusive(w) ==
  /\ At(w, "prune_rem") /\ Goto(w, "orphan_scan")
  /\ SetIndex(w, IndexOf(w) \ Lowest(IndexOf(w), excess[w] + 1))
  /\ UNCHANGED <<heapVars, callVars, hash, throttle>>

\* EndTake that leaves the session in the slot.
EndTakeKeepsSlot(w) ==
  /\ At(w, "end_take") \/ (At(w, "idle") /\ "end" \in Can[w] /\ active[Home[w]] # None)
  /\ IF active[Home[w]] = None
       THEN Goto(w, "idle") /\ UNCHANGED held
       ELSE Goto(w, "end_write") /\ held' = [held EXCEPT ![w] = active[Home[w]]]
  /\ UNCHANGED <<redisVars, heapVars, image, excess, ids, previous>>

\* EndTake that trusts the look PostEndSession had at the slot.
EndTakeUnchecked(w) ==
  /\ At(w, "end_take") \/ (At(w, "idle") /\ "end" \in Can[w] /\ active[Home[w]] # None)
  /\ Goto(w, "end_write")
  /\ held' = [held EXCEPT ![w] = active[Home[w]]]
  /\ active' = [active EXCEPT ![Home[w]] = None]
  /\ UNCHANGED <<redisVars, lastId, object, boot, image, excess, ids, previous>>

\* MarkTTL that sets no time to live.
MarkTTLNothing(w) ==
  /\ At(w, "mark_ttl") /\ Goto(w, "last_id")
  /\ UNCHANGED <<heapVars, callVars, redisVars>>

\* EndWrite after SaveSession has read the struct.
EndWriteLate(w) ==
  /\ At(w, "end_write") /\ Goto(w, "end_hash")
  /\ object' = [object EXCEPT ![held[w]].ended = TRUE]
  /\ image' = [image EXCEPT ![w] = object[held[w]].ended]
  /\ UNCHANGED <<redisVars, active, lastId, boot, held, excess, ids, previous>>

-----------------------------------------------------------------------------
(***************************************************************************)
(* start_session.  When a session is active the call is refused, which     *)
(* changes nothing.  Otherwise a new session takes the slot, all in one    *)
(* critical section of h.mu.                                               *)
(***************************************************************************)
StartSession(w, p) ==
  /\ At(w, "idle") /\ "start" \in Can[w]
  /\ active[Home[w]] = None
  /\ lastId < SessionBound
  /\ lastId' = lastId + 1
  /\ active' = [active EXCEPT ![Home[w]] = lastId']
  /\ object' = [object EXCEPT ![lastId'] = [project |-> p, ended |-> FALSE]]
  /\ held' = [held EXCEPT ![w] = lastId']
  /\ previous' = [previous EXCEPT ![w] = None]
  /\ Goto(w, "start_read")
  /\ UNCHANGED <<redisVars, boot, image, excess, ids>>

StartRead(w) ==
  /\ At(w, "start_read") /\ Goto(w, "start_hash")
  /\ image' = [image EXCEPT ![w] = object[held[w]].ended]
  /\ UNCHANGED <<heapVars, redisVars, held, excess, ids, previous>>

StartHash(w) ==
  /\ At(w, "start_hash") /\ Goto(w, "start_index")
  /\ SaveHash(w)
  /\ UNCHANGED <<heapVars, callVars, index, throttle>>

StartIndex(w) ==
  /\ At(w, "start_index")
  /\ Goto(w, IF MaintenanceEnabled THEN "throttle" ELSE "last_id")
  /\ SaveIndex(w)
  /\ UNCHANGED <<heapVars, callVars, hash, throttle>>

StartSaveFails(w) ==
  /\ SaveFails(w, "start_hash", "start_index")
  /\ Goto(w, "start_rollback")
  /\ UNCHANGED <<heapVars, callVars>>

\* The roll-back clears the slot, whichever session is in it by now.
StartRollback(w) ==
  /\ At(w, "start_rollback")
  /\ active' = [active EXCEPT ![Home[w]] = None]
  /\ Return(w)
  /\ UNCHANGED <<redisVars, lastId, object, boot, previous>>

-----------------------------------------------------------------------------
(***************************************************************************)
(* RunMaintenance, its session part.  Each of its tasks logs an error and  *)
(* lets the next task run.                                                 *)
(***************************************************************************)
MaintThrottle(w) ==
  /\ At(w, "throttle")
  /\ Goto(w, IF throttle[ProjectOf(held[w])] = "none" THEN "prune_count" ELSE "last_id")
  /\ UNCHANGED <<heapVars, redisVars, callVars>>

PruneCount(w) ==
  /\ At(w, "prune_count")
  /\ LET count == Cardinality(IndexOf(w)) IN
       IF count <= MaxSessionsPerProject
         THEN Goto(w, "orphan_scan") /\ UNCHANGED excess
         ELSE /\ Goto(w, "prune_range")
              /\ excess' = [excess EXCEPT ![w] = count - MaxSessionsPerProject]
  /\ UNCHANGED <<heapVars, redisVars, held, image, ids, previous>>

PruneRange(w) ==
  /\ At(w, "prune_range")
  /\ ids' = [ids EXCEPT ![w] = Lowest(IndexOf(w), excess[w])]
  /\ Goto(w, IF ids'[w] = {} THEN "orphan_scan" ELSE "prune_del")
  /\ UNCHANGED <<heapVars, redisVars, held, image, excess, previous>>

\* One DEL of the pipeline; ids[w] holds those still to come.
PruneDel(w) ==
  /\ At(w, "prune_del")
  /\ \E s \in Lowest(ids[w], 1) :
       /\ hash' = [hash EXCEPT ![s] = "absent"]
       /\ ids' = [ids EXCEPT ![w] = @ \ {s}]
  /\ Goto(w, IF ids'[w] = {} THEN "prune_rem" ELSE "prune_del")
  /\ UNCHANGED <<heapVars, held, image, excess, previous, index, throttle>>

\* ZREMRANGEBYRANK removes by rank at this moment, not the ids deleted above.
PruneRem(w) ==
  /\ At(w, "prune_rem") /\ Goto(w, "orphan_scan")
  /\ SetIndex(w, IndexOf(w) \ Lowest(IndexOf(w), excess[w]))
  /\ UNCHANGED <<heapVars, callVars, hash, throttle>>

OrphanScan(w) ==
  /\ At(w, "orphan_scan")
  /\ ids' = [ids EXCEPT ![w] = IndexOf(w)]
  /\ Goto(w, IF ids'[w] = {} THEN "mark" ELSE "orphan_exists")
  /\ UNCHANGED <<heapVars, redisVars, held, image, excess, previous>>

OrphanExists(w) ==
  /\ At(w, "orphan_exists")
  /\ ids' = [ids EXCEPT ![w] = {s \in ids[w] : hash[s] = "absent"}]
  /\ Goto(w, IF ids'[w] = {} THEN "mark" ELSE "orphan_rem")
  /\ UNCHANGED <<heapVars, redisVars, held, image, excess, previous>>

OrphanRem(w) ==
  /\ At(w, "orphan_rem") /\ Goto(w, "mark")
  /\ SetIndex(w, IndexOf(w) \ ids[w])
  /\ UNCHANGED <<heapVars, callVars, hash, throttle>>

\* HSET creates the key without a time to live, and keeps one it has.
Mark(w) ==
  /\ At(w, "mark") /\ Goto(w, "mark_ttl")
  /\ throttle' = [throttle EXCEPT ![ProjectOf(held[w])] =
                    IF @ = "none" THEN "forever" ELSE @]
  /\ UNCHANGED <<heapVars, callVars, hash, index>>

\* EXPIRE does nothing to a key that is gone.
MarkTTL(w) ==
  /\ At(w, "mark_ttl") /\ Goto(w, "last_id")
  /\ throttle' = [throttle EXCEPT ![ProjectOf(held[w])] =
                    IF @ = "none" THEN "none" ELSE "ttl"]
  /\ UNCHANGED <<heapVars, callVars, hash, index>>

ThrottleExpires(p) ==
  /\ throttle[p] = "ttl"
  /\ throttle' = [throttle EXCEPT ![p] = "none"]
  /\ UNCHANGED <<heapVars, callVars, hash, index, pc>>

\* Where RunMaintenance goes on when the command it is at returns an error.
AfterError ==
  [l \in MaintenanceLabel |->
     CASE l \in {"prune_count", "prune_range", "prune_del", "prune_rem"} -> "orphan_scan"
       [] l \in {"orphan_scan", "orphan_exists", "orphan_rem"} -> "mark"
       [] OTHER -> "last_id"]

MaintenanceFails(w) ==
  /\ "redis" \in Faults
  /\ pc[w] \in MaintenanceLabel /\ Goto(w, AfterError[pc[w]])
  /\ UNCHANGED <<heapVars, redisVars, callVars>>

-----------------------------------------------------------------------------
(***************************************************************************)
(* The rest of start_session: GetLastSession, then the answer.             *)
(***************************************************************************)
LastId(w) ==
  /\ At(w, "last_id")
  /\ IF IndexOf(w) = {}
       THEN Return(w)
       ELSE /\ Goto(w, "last_hash")
            /\ ids' = [ids EXCEPT ![w] = Newest(IndexOf(w))]
            /\ UNCHANGED <<held, image, excess>>
  /\ UNCHANGED <<heapVars, redisVars, previous>>

LastHash(w) ==
  /\ At(w, "last_hash")
  /\ \E s \in ids[w] :
       previous' = [previous EXCEPT ![w] =
                      IF s # held[w] /\ hash[s] = "closed" THEN s ELSE None]
  /\ Return(w)
  /\ UNCHANGED <<heapVars, redisVars>>

LastFails(w) ==
  /\ "redis" \in Faults
  /\ At(w, "last_id") \/ At(w, "last_hash")
  /\ Return(w)
  /\ UNCHANGED <<heapVars, redisVars, previous>>

-----------------------------------------------------------------------------
(***************************************************************************)
(* POST /end-session looks at the slot in one critical section and calls   *)
(* EndSession, which looks again in another.                               *)
(***************************************************************************)
PostEndSession(w) ==
  /\ At(w, "idle") /\ "post" \in Can[w]
  /\ active[Home[w]] # None
  /\ Goto(w, "end_take")
  /\ UNCHANGED <<heapVars, redisVars, callVars>>

\* The slot is emptied before anything is stored; an empty one is an error.
EndTake(w) ==
  /\ At(w, "end_take") \/ (At(w, "idle") /\ "end" \in Can[w] /\ active[Home[w]] # None)
  /\ IF active[Home[w]] = None
       THEN Goto(w, "idle") /\ UNCHANGED held
       ELSE /\ Goto(w, "end_write")
            /\ held' = [held EXCEPT ![w] = active[Home[w]]]
  /\ active' = [active EXCEPT ![Home[w]] = None]
  /\ UNCHANGED <<redisVars, lastId, object, boot, image, excess, ids, previous>>

\* The struct is written, and read back by SaveSession, outside the mutex.
EndWrite(w) ==
  /\ At(w, "end_write") /\ Goto(w, "end_hash")
  /\ object' = [object EXCEPT ![held[w]].ended = TRUE]
  /\ image' = [image EXCEPT ![w] = TRUE]
  /\ UNCHANGED <<redisVars, active, lastId, boot, held, excess, ids, previous>>

EndHash(w) ==
  /\ At(w, "end_hash") /\ Goto(w, "end_index")
  /\ SaveHash(w)
  /\ UNCHANGED <<heapVars, callVars, index, throttle>>

EndIndex(w) ==
  /\ At(w, "end_index")
  /\ SaveIndex(w)
  /\ Return(w)
  /\ UNCHANGED <<heapVars, hash, throttle, previous>>

EndSaveFails(w) ==
  /\ SaveFails(w, "end_hash", "end_index")
  /\ Return(w)
  /\ UNCHANGED <<heapVars, previous>>

-----------------------------------------------------------------------------
(***************************************************************************)
(* A server stops between two steps and starts again with an empty slot.   *)
(***************************************************************************)
Crash(srv) ==
  LET Dead == {w \in Worker : Home[w] = srv} IN
  /\ "crash" \in Faults
  /\ active[srv] # None \/ \E w \in Dead : pc[w] # "idle"
  /\ active' = [active EXCEPT ![srv] = None]
  /\ pc' = [w \in Worker |-> IF w \in Dead THEN "idle" ELSE pc[w]]
  /\ held' = [w \in Worker |-> IF w \in Dead THEN None ELSE held[w]]
  /\ image' = [w \in Worker |-> IF w \in Dead THEN FALSE ELSE image[w]]
  /\ excess' = [w \in Worker |-> IF w \in Dead THEN 0 ELSE excess[w]]
  /\ ids' = [w \in Worker |-> IF w \in Dead THEN {} ELSE ids[w]]
  /\ boot' = [boot EXCEPT ![srv] = 1 - @]
  /\ UNCHANGED <<redisVars, lastId, object, previous>>

StartStep(w) ==
  \/ StartRead(w) \/ StartHash(w) \/ StartIndex(w) \/ StartSaveFails(w) \/ StartRollback(w)
  \/ LastId(w) \/ LastHash(w) \/ LastFails(w)

MaintenanceStep(w) ==
  \/ MaintThrottle(w)
  \/ PruneCount(w) \/ PruneRange(w) \/ PruneDel(w) \/ PruneRem(w)
  \/ OrphanScan(w) \/ OrphanExists(w) \/ OrphanRem(w)
  \/ Mark(w) \/ MarkTTL(w) \/ MaintenanceFails(w)

EndStep(w) ==
  EndTake(w) \/ EndWrite(w) \/ EndHash(w) \/ EndIndex(w) \/ EndSaveFails(w)

\* A step of a call that is already under way.
Proceed(w) == pc[w] # "idle" /\ (StartStep(w) \/ MaintenanceStep(w) \/ EndStep(w))

Next ==
  \/ \E w \in Worker, p \in Project : StartSession(w, p)
  \/ \E w \in Worker : StartStep(w) \/ MaintenanceStep(w) \/ PostEndSession(w) \/ EndStep(w)
  \/ \E p \in Project : ThrottleExpires(p)
  \/ \E srv \in Server : Crash(srv)

Spec == Init /\ [][Next]_vars

\* A goroutine that is not blocked runs, and Redis answers each command or
\* fails it: a call under way takes its next step.  Redis removes a key once its
\* time to live is over.
FairSpec ==
  /\ Spec
  /\ \A w \in Worker : WF_vars(Proceed(w))
  /\ \A p \in Project : WF_vars(ThrottleExpires(p))

-----------------------------------------------------------------------------
(***************************************************************************)
(* Properties.                                                             *)
(***************************************************************************)
\* Every variable keeps its type.
TypeOK ==
  /\ active \in [Server -> Session \cup {None}]
  /\ lastId \in 0 .. SessionBound
  /\ object \in [Session -> [project : Project, ended : BOOLEAN]]
  /\ hash \in [Session -> {"absent", "open", "closed"}]
  /\ index \in [Project -> SUBSET Session]
  /\ throttle \in [Project -> {"none", "ttl", "forever"}]
  /\ pc \in [Worker -> Label]
  /\ held \in [Worker -> Session \cup {None}]
  /\ \A w \in Worker : pc[w] \notin {"idle", "end_take"} => held[w] # None
  /\ image \in [Worker -> BOOLEAN]
  /\ excess \in [Worker -> Nat]
  /\ ids \in [Worker -> SUBSET Session]
  /\ previous \in [Worker -> Session \cup {None}]
  /\ boot \in [Server -> {0, 1}]

\* A session is ended by one call only: the calls that are ending a session
\* hold different ones, and none of these is the active session of a server
\* (handlers.go takes the slot and clears it under one lock).
SingleEnder ==
  /\ \A v, w \in Worker :
       v # w /\ pc[v] \in EndLabel /\ pc[w] \in EndLabel => held[v] # held[w]
  /\ \A w \in Worker, srv \in Server : pc[w] \in EndLabel => active[srv] # held[w]

\* The sessions that the workers of a server hold at some labels.
HeldAt(srv, labels) ==
  {s \in Session : \E w \in Worker : Home[w] = srv /\ pc[w] \in labels /\ held[w] = s}
StoringLabel == {"start_read", "start_hash", "start_index", "start_rollback"}

Contract == INSTANCE SessionContract
              WITH slot <- active,
                   starting <- [srv \in Server |-> HeldAt(srv, StoringLabel)],
                   ending <- [srv \in Server |-> HeldAt(srv, EndLabel)],
                   created <- 1 .. lastId

\* start_session and end_session keep the contract of SessionContract: a session
\* leaves the slot only when a call takes it to end it, its server stops, or its
\* own start fails before it was stored, never because the start of another
\* session failed, and never comes back into a slot.
KeepsContract == Contract!Spec

\* A call that has taken a session to end it.
BeingEnded(s) == \E w \in Worker : pc[w] \in EndLabel /\ held[w] = s

\* Once a call has taken a session to end it, there is a time after which its
\* record, if it has one, always says that it has ended.
EndedForGood ==
  \A s \in Session : BeingEnded(s) ~> [](hash[s] # "open")

\* The throttle of a project is lifted again, so that it is never kept from
\* maintenance for good: the two commands that set it, the expiry, and those of
\* another server leave no key without a time to live behind.
ThrottleLifts == \A p \in Project : throttle[p] # "none" ~> throttle[p] = "none"

\* Maintenance deletes the record of a session only while the project has at
\* least max_sessions_per_project newer ones ("keeps only the N most recent").
PrunedIsOld ==
  [][\A s \in Session :
       hash[s] # "absent" /\ hash'[s] = "absent" =>
         Cardinality({t \in index[ProjectOf(s)] : t > s}) >= MaxSessionsPerProject]_vars

\* A session leaves the index of its project only when its record is gone, so
\* no record becomes unreachable for get-last-session and later pruning.
UnindexedIsGone ==
  [][\A s \in Session :
       s \in index[ProjectOf(s)] /\ s \notin index'[ProjectOf(s)] => hash'[s] = "absent"]_vars

\* When maintenance records that it has run, it has enforced the cap, and every
\* session it left in the index has a record.
MaintenanceDone ==
  \A w \in Worker : At(w, "mark") =>
    /\ Cardinality(IndexOf(w)) <= MaxSessionsPerProject
    /\ \A s \in IndexOf(w) : hash[s] # "absent"

\* start_session returns the summary of the project's previous session when
\* the store holds one that has ended.
ReturnsPrevious ==
  [][\A w \in Worker :
       /\ pc[w] = "last_hash"
       /\ \E s \in IndexOf(w) : s < held[w] /\ hash[s] = "closed"
       => previous'[w] # None]_vars
=============================================================================
