----------------------- MODULE SessionLifecycle_proofs -----------------------
(***************************************************************************)
(* Theorems about SessionLifecycle, for any servers, workers, calls that   *)
(* reach them, projects, bounds and faults.                                *)
(***************************************************************************)
EXTENDS SessionLifecycle, FiniteSetTheorems, WellFoundedInduction, TLAPS

(***************************************************************************)
(* Lemmas.                                                                 *)
(***************************************************************************)
\* The number of sessions in a set is a natural number.
LEMMA SessionCount ==
  ASSUME NEW S \in SUBSET Session
  PROVE  IsFiniteSet(S) /\ Cardinality(S) \in Nat
<1>1. IsFiniteSet(Session)
  BY FS_Interval, BoundAssumption DEF Session
<1>2. IsFiniteSet(S)
  BY <1>1, FS_Subset
<1>3. QED
  BY <1>2, FS_CardinalityType

\* Sorted-set reads return members.
LEMMA LowestSubset == ASSUME NEW S, NEW k PROVE Lowest(S, k) \subseteq S
  BY DEF Lowest

\* Where maintenance goes on after an error is a place in start_session.
LEMMA AfterErrorType ==
  ASSUME NEW l \in MaintenanceLabel
  PROVE  AfterError[l] \in {"orphan_scan", "mark", "last_id"}
  BY DEF AfterError, MaintenanceLabel

USE DEF At, Goto, ProjectOf, IndexOf, SetIndex, None

(***************************************************************************)
(* Type correctness.                                                       *)
(***************************************************************************)
LEMMA InitType == Init => TypeOK
  BY BoundAssumption, ProjectAssumption DEF Init, TypeOK, Label, Session

LEMMA StartSessionType ==
  ASSUME TypeOK, NEW w \in Worker, NEW p \in Project, StartSession(w, p)
  PROVE  TypeOK'
<1>1. lastId' \in Session /\ lastId' \in 0 .. SessionBound
  BY BoundAssumption DEF TypeOK, StartSession, Session
<1>2. object' \in [Session -> [project : Project, ended : BOOLEAN]]
  BY <1>1 DEF TypeOK, StartSession
<1>3. /\ active' \in [Server -> Session \cup {None}]
      /\ held' \in [Worker -> Session \cup {None}]
      /\ previous' \in [Worker -> Session \cup {None}]
  BY <1>1, HomeAssumption DEF TypeOK, StartSession
<1>4. /\ pc' \in [Worker -> Label]
      /\ \A v \in Worker : pc'[v] \notin {"idle", "end_take"} => held'[v] # None
  BY <1>1 DEF TypeOK, StartSession, Label, StartLabel, Session
<1>5. QED
  BY <1>1, <1>2, <1>3, <1>4 DEF TypeOK, StartSession, redisVars

\* A worker inside a handler holds a session and knows its project.
LEMMA HeldSession ==
  ASSUME TypeOK, NEW w \in Worker, pc[w] \notin {"idle", "end_take"}
  PROVE  /\ held[w] \in Session
         /\ ProjectOf(held[w]) \in Project
         /\ IndexOf(w) \in SUBSET Session
<1>1. held[w] \in Session
  BY DEF TypeOK
<1>2. object[held[w]].project \in Project
  BY <1>1 DEF TypeOK
<1>3. QED
  BY <1>1, <1>2 DEF TypeOK

LEMMA SaveIndexType ==
  ASSUME TypeOK, NEW w \in Worker, pc[w] \notin {"idle", "end_take"}, SaveIndex(w)
  PROVE  index' \in [Project -> SUBSET Session]
<1>1. IndexOf(w) \cup {held[w]} \in SUBSET Session
  BY HeldSession
<1>2. QED
  BY <1>1, HeldSession DEF TypeOK, SaveIndex

LEMMA StartStepType ==
  ASSUME TypeOK, NEW w \in Worker, StartStep(w)
  PROVE  TypeOK'
<1> USE DEF TypeOK, Label, StartLabel, MaintenanceLabel, EndLabel
<1>1. CASE StartRead(w)
  BY <1>1 DEF StartRead, heapVars, redisVars
<1>2. CASE StartHash(w)
  BY <1>2 DEF StartHash, SaveHash, heapVars, callVars
<1>3. CASE StartIndex(w)
  <2>1. index' \in [Project -> SUBSET Session]
    BY <1>3, SaveIndexType DEF StartIndex
  <2>2. pc' \in [Worker -> Label]
    BY <1>3 DEF StartIndex
  <2>3. QED
    BY <1>3, <2>1, <2>2 DEF StartIndex, heapVars, callVars
<1>4. CASE StartSaveFails(w)
  <2>1. index' \in [Project -> SUBSET Session]
    BY <1>4, SaveIndexType DEF StartSaveFails, SaveFails
  <2>2. QED
    BY <1>4, <2>1 DEF StartSaveFails, SaveFails, heapVars, callVars
<1>5. CASE StartRollback(w)
  <2>1. active' \in [Server -> Session \cup {None}]
    BY <1>5, HomeAssumption DEF StartRollback
  <2>2. QED
    BY <1>5, <2>1 DEF StartRollback, Return, redisVars
<1>6. CASE LastId(w)
  <2>1. Newest(IndexOf(w)) \in SUBSET Session
    BY <1>6, HeldSession DEF LastId, Newest
  <2>2. CASE IndexOf(w) = {}
    <3>1. Return(w) /\ UNCHANGED <<heapVars, redisVars, previous>>
      BY <1>6, <2>2 DEF LastId
    <3>2. QED
      BY <3>1 DEF Return, heapVars, redisVars
  <2>3. CASE IndexOf(w) # {}
    <3>1. /\ ids' = [ids EXCEPT ![w] = Newest(IndexOf(w))]
          /\ Goto(w, "last_hash")
          /\ UNCHANGED <<held, image, excess>>
          /\ UNCHANGED <<heapVars, redisVars, previous>>
      BY <1>6, <2>3 DEF LastId
    <3>2. held[w] # None
      BY <1>6 DEF LastId
    <3>3. QED
      BY <2>1, <3>1, <3>2 DEF heapVars, redisVars
  <2>4. QED
    BY <2>2, <2>3
<1>7. CASE LastHash(w)
  BY <1>7 DEF LastHash, Return, heapVars, redisVars
<1>8. CASE LastFails(w)
  BY <1>8 DEF LastFails, Return, heapVars, redisVars
<1>9. QED
  BY <1>1, <1>2, <1>3, <1>4, <1>5, <1>6, <1>7, <1>8 DEF StartStep

LEMMA MaintenanceStepType ==
  ASSUME TypeOK, NEW w \in Worker, MaintenanceStep(w)
  PROVE  TypeOK'
<1> USE DEF TypeOK, Label, StartLabel, MaintenanceLabel, EndLabel
<1>1. CASE MaintThrottle(w)
  BY <1>1 DEF MaintThrottle, heapVars, redisVars, callVars
<1>2. CASE PruneCount(w)
  <2>1. IndexOf(w) \in SUBSET Session
    BY <1>2 DEF PruneCount
  <2>2. Cardinality(IndexOf(w)) \in Nat
    BY <2>1, SessionCount
  <2>3. excess' \in [Worker -> Nat]
    BY <1>2, <2>2, BoundAssumption DEF PruneCount
  <2>4. QED
    BY <1>2, <2>3 DEF PruneCount, heapVars, redisVars
<1>3. CASE PruneRange(w)
  BY <1>3, LowestSubset DEF PruneRange, heapVars, redisVars
<1>4. CASE PruneDel(w)
  <2>1. PICK d \in ids[w] : /\ hash' = [hash EXCEPT ![d] = "absent"]
                            /\ ids' = [ids EXCEPT ![w] = @ \ {d}]
    BY <1>4, LowestSubset DEF PruneDel
  <2>2. /\ hash' \in [Session -> {"absent", "open", "closed"}]
        /\ ids' \in [Worker -> SUBSET Session]
    BY <2>1
  <2>3. QED
    BY <1>4, <2>2 DEF PruneDel, heapVars
<1>6. CASE PruneRem(w)
  BY <1>6 DEF PruneRem, heapVars, callVars
<1>7. CASE OrphanScan(w)
  BY <1>7 DEF OrphanScan, heapVars, redisVars
<1>8. CASE OrphanExists(w)
  BY <1>8 DEF OrphanExists, heapVars, redisVars
<1>9. CASE OrphanRem(w)
  BY <1>9 DEF OrphanRem, heapVars, callVars
<1>10. CASE Mark(w)
  BY <1>10 DEF Mark, heapVars, callVars
<1>11. CASE MarkTTL(w)
  BY <1>11 DEF MarkTTL, heapVars, callVars
<1>12. CASE MaintenanceFails(w)
  BY <1>12, AfterErrorType DEF MaintenanceFails, heapVars, redisVars, callVars
<1>13. QED
  BY <1>1, <1>2, <1>3, <1>4, <1>6, <1>7, <1>8, <1>9, <1>10, <1>11, <1>12
  DEF MaintenanceStep

LEMMA EndStepType ==
  ASSUME TypeOK, NEW w \in Worker, EndStep(w) \/ PostEndSession(w)
  PROVE  TypeOK'
<1> USE DEF TypeOK, Label, StartLabel, MaintenanceLabel, EndLabel
<1>1. CASE EndTake(w)
  <2>1. /\ active' \in [Server -> Session \cup {None}]
        /\ held' \in [Worker -> Session \cup {None}]
        /\ pc' \in [Worker -> Label]
    BY <1>1, HomeAssumption DEF EndTake
  <2>2. \A v \in Worker : pc'[v] \notin {"idle", "end_take"} => held'[v] # None
    BY <1>1, HomeAssumption DEF EndTake
  <2>3. QED
    BY <1>1, <2>1, <2>2 DEF EndTake, redisVars
<1>2. CASE EndWrite(w)
  BY <1>2 DEF EndWrite, redisVars
<1>3. CASE EndHash(w)
  BY <1>3 DEF EndHash, SaveHash, heapVars, callVars
<1>4. CASE EndIndex(w)
  <2>1. index' \in [Project -> SUBSET Session]
    BY <1>4, SaveIndexType DEF EndIndex
  <2>2. QED
    BY <1>4, <2>1 DEF EndIndex, Return, heapVars
<1>5. CASE EndSaveFails(w)
  <2>1. index' \in [Project -> SUBSET Session]
    BY <1>5, SaveIndexType DEF EndSaveFails, SaveFails
  <2>2. QED
    BY <1>5, <2>1 DEF EndSaveFails, SaveFails, Return, heapVars
<1>6. CASE PostEndSession(w)
  BY <1>6 DEF PostEndSession, heapVars, redisVars, callVars
<1>7. QED
  BY <1>1, <1>2, <1>3, <1>4, <1>5, <1>6 DEF EndStep

LEMMA NextType == TypeOK /\ [Next]_vars => TypeOK'
<1> SUFFICES ASSUME TypeOK, [Next]_vars PROVE TypeOK'
  OBVIOUS
<1>1. ASSUME NEW w \in Worker, NEW p \in Project, StartSession(w, p) PROVE TypeOK'
  BY <1>1, StartSessionType
<1>2. ASSUME NEW w \in Worker, StartStep(w) PROVE TypeOK'
  BY <1>2, StartStepType
<1>3. ASSUME NEW w \in Worker, MaintenanceStep(w) PROVE TypeOK'
  BY <1>3, MaintenanceStepType
<1>4. ASSUME NEW w \in Worker, EndStep(w) \/ PostEndSession(w) PROVE TypeOK'
  BY <1>4, EndStepType
<1>5. ASSUME NEW p \in Project, ThrottleExpires(p) PROVE TypeOK'
  BY <1>5 DEF ThrottleExpires, TypeOK, heapVars, callVars
<1>6. ASSUME NEW srv \in Server, Crash(srv) PROVE TypeOK'
  <2>1. boot' \in [Server -> {0, 1}]
    <3>1. 1 - boot[srv] \in {0, 1}
      BY DEF TypeOK
    <3>2. QED
      BY <1>6, <3>1 DEF Crash, TypeOK
  <2>2. active' \in [Server -> Session \cup {None}]
    BY <1>6 DEF Crash, TypeOK
  <2>3. /\ pc' \in [Worker -> Label]
        /\ held' \in [Worker -> Session \cup {None}]
        /\ \A w \in Worker : pc'[w] \notin {"idle", "end_take"} => held'[w] # None
    BY <1>6 DEF Crash, TypeOK, Label
  <2>4. /\ image' \in [Worker -> BOOLEAN]
        /\ excess' \in [Worker -> Nat]
        /\ ids' \in [Worker -> SUBSET Session]
    BY <1>6 DEF Crash, TypeOK
  <2>5. UNCHANGED <<redisVars, lastId, object, previous>>
    BY <1>6 DEF Crash
  <2>6. QED
    BY <2>1, <2>2, <2>3, <2>4, <2>5 DEF TypeOK, redisVars
<1>7. CASE UNCHANGED vars
  BY <1>7 DEF TypeOK, vars
<1>8. QED
  BY <1>1, <1>2, <1>3, <1>4, <1>5, <1>6, <1>7 DEF Next

\* Every variable keeps its type in every behaviour.
THEOREM TypeCorrect == Spec => []TypeOK
<1>1. QED
  BY InitType, NextType, PTL DEF Spec

-----------------------------------------------------------------------------
(***************************************************************************)
(* One ender per session.  SingleEnder says nothing of the sessions that   *)
(* are not yet being ended, so it is not inductive: a session could enter  *)
(* two slots, or a new session could be one that is already being ended.   *)
(* Ownership adds that a session is active at one server at most, and that *)
(* no session in use is newer than the newest one created.                 *)
(***************************************************************************)
Ownership ==
  /\ \A srv \in Server : active[srv] <= lastId
  /\ \A w \in Worker : held[w] <= lastId
  /\ \A srv, other \in Server :
       srv # other /\ active[srv] # None => active[srv] # active[other]
  /\ SingleEnder

LEMMA InitOwnership == Init => Ownership
  BY DEF Init, Ownership, SingleEnder, EndLabel

\* A step that changes no slot and starts to end no session, and that gives a
\* worker no session but the one it holds, keeps the ownership.
LEMMA QuietOwnership ==
  ASSUME TypeOK, Ownership, NEW w \in Worker,
         active' = active, lastId' = lastId,
         \A v \in Worker \ {w} : held'[v] = held[v] /\ pc'[v] = pc[v],
         held'[w] \in {held[w], None},
         pc'[w] \in EndLabel => pc[w] \in EndLabel /\ held'[w] = held[w]
  PROVE  Ownership'
<1>1. \A v \in Worker : held'[v] <= lastId'
  BY BoundAssumption DEF Ownership, TypeOK
<1>2. \A v \in Worker : pc'[v] \in EndLabel => pc[v] \in EndLabel /\ held'[v] = held[v]
  OBVIOUS
<1>3. SingleEnder'
  BY <1>2 DEF Ownership, SingleEnder
<1>4. QED
  BY <1>1, <1>3 DEF Ownership

LEMMA StartOwnership ==
  ASSUME TypeOK, Ownership, NEW w \in Worker, NEW p \in Project, StartSession(w, p)
  PROVE  Ownership'
<1>1. /\ lastId' = lastId + 1 /\ lastId \in Nat
      /\ \A srv \in Server : active'[srv] = IF srv = Home[w] THEN lastId' ELSE active[srv]
      /\ \A v \in Worker : held'[v] = IF v = w THEN lastId' ELSE held[v]
      /\ \A v \in Worker : pc'[v] = IF v = w THEN "start_read" ELSE pc[v]
  BY BoundAssumption DEF StartSession, TypeOK
<1>2. /\ \A srv \in Server : active[srv] \in Nat /\ active[srv] <= lastId
      /\ \A v \in Worker : held[v] \in Nat /\ held[v] <= lastId
  <2>1. Session \cup {None} \subseteq Nat
    BY BoundAssumption DEF Session
  <2>2. QED
    BY <2>1 DEF TypeOK, Ownership
<1>3. /\ \A srv \in Server : active'[srv] <= lastId'
      /\ \A v \in Worker : held'[v] <= lastId'
  BY <1>1, <1>2
<1>4. \A srv, other \in Server :
        srv # other /\ active'[srv] # None => active'[srv] # active'[other]
  BY <1>1, <1>2 DEF Ownership
<1>5. SingleEnder'
  BY <1>1, <1>2 DEF Ownership, SingleEnder, EndLabel
<1>6. QED
  BY <1>3, <1>4, <1>5 DEF Ownership

LEMMA StartStepOwnership ==
  ASSUME TypeOK, Ownership, NEW w \in Worker, StartStep(w)
  PROVE  Ownership'
<1>1. CASE StartRead(w)
  BY <1>1, QuietOwnership DEF StartRead, TypeOK, heapVars, EndLabel
<1>2. CASE StartHash(w)
  BY <1>2, QuietOwnership DEF StartHash, TypeOK, heapVars, callVars, EndLabel
<1>3. CASE StartIndex(w)
  BY <1>3, QuietOwnership DEF StartIndex, TypeOK, heapVars, callVars, EndLabel
<1>4. CASE StartSaveFails(w)
  BY <1>4, QuietOwnership DEF StartSaveFails, TypeOK, heapVars, callVars, EndLabel
<1>5. CASE StartRollback(w)
  <2>1. /\ lastId' = lastId /\ lastId \in Nat
        /\ \A srv \in Server : active'[srv] \in {active[srv], None}
        /\ \A v \in Worker : held'[v] \in {held[v], None}
        /\ \A v \in Worker : pc'[v] \in EndLabel => pc[v] \in EndLabel /\ held'[v] = held[v]
        /\ \A v \in Worker : pc[v] \in EndLabel => held[v] # None
    BY <1>5, BoundAssumption DEF StartRollback, Return, TypeOK, EndLabel
  <2>2. QED
    BY <2>1 DEF Ownership, SingleEnder
<1>6. CASE LastId(w)
  BY <1>6, QuietOwnership DEF LastId, Return, TypeOK, heapVars, EndLabel
<1>7. CASE LastHash(w)
  BY <1>7, QuietOwnership DEF LastHash, Return, TypeOK, heapVars, EndLabel
<1>8. CASE LastFails(w)
  BY <1>8, QuietOwnership DEF LastFails, Return, TypeOK, heapVars, EndLabel
<1>9. QED
  BY <1>1, <1>2, <1>3, <1>4, <1>5, <1>6, <1>7, <1>8 DEF StartStep

LEMMA MaintenanceStepOwnership ==
  ASSUME TypeOK, Ownership, NEW w \in Worker, MaintenanceStep(w)
  PROVE  Ownership'
<1>1. active' = active /\ lastId' = lastId /\ held' = held
  BY DEF MaintenanceStep, MaintThrottle, PruneCount, PruneRange, PruneDel,
     PruneRem, OrphanScan, OrphanExists, OrphanRem, Mark, MarkTTL, MaintenanceFails,
     heapVars, callVars
<1>2. \A v \in Worker \ {w} : pc'[v] = pc[v]
  BY DEF MaintenanceStep, MaintThrottle, PruneCount, PruneRange, PruneDel,
     PruneRem, OrphanScan, OrphanExists, OrphanRem, Mark, MarkTTL, MaintenanceFails, TypeOK
<1>3. pc'[w] \notin EndLabel
  BY AfterErrorType
  DEF MaintenanceStep, MaintThrottle, PruneCount, PruneRange, PruneDel,
     PruneRem, OrphanScan, OrphanExists, OrphanRem, Mark, MarkTTL, MaintenanceFails,
     TypeOK, EndLabel
<1>4. QED
  BY <1>1, <1>2, <1>3, QuietOwnership

LEMMA EndTakeOwnership ==
  ASSUME TypeOK, Ownership, NEW w \in Worker, EndTake(w)
  PROVE  Ownership'
<1>1. lastId' = lastId /\ lastId \in Nat /\ Home[w] \in Server
  BY HomeAssumption, BoundAssumption DEF EndTake, TypeOK
<1>2. \A srv \in Server : active'[srv] = IF srv = Home[w] THEN None ELSE active[srv]
  BY DEF EndTake, TypeOK
<1>3. CASE active[Home[w]] = None
  <2>1. active' = active
    BY <1>1, <1>2, <1>3 DEF EndTake, TypeOK
  <2>2. QED
    BY <1>1, <1>3, <2>1, QuietOwnership DEF EndTake, TypeOK, EndLabel
<1>4. CASE active[Home[w]] # None
  <2>1. /\ \A v \in Worker : held'[v] = IF v = w THEN active[Home[w]] ELSE held[v]
        /\ \A v \in Worker : pc'[v] = IF v = w THEN "end_write" ELSE pc[v]
    BY <1>4 DEF EndTake, TypeOK
  <2>2. \A v \in Worker : pc[v] \in EndLabel => held[v] # active[Home[w]] /\ held[v] # None
    BY <1>1 DEF Ownership, SingleEnder, TypeOK, EndLabel
  <2>3. \A u, v \in Worker :
          u # v /\ pc'[u] \in EndLabel /\ pc'[v] \in EndLabel => held'[u] # held'[v]
    BY <2>1, <2>2 DEF Ownership, SingleEnder
  <2>4. \A v \in Worker, srv \in Server : pc'[v] \in EndLabel => active'[srv] # held'[v]
    BY <1>1, <1>2, <1>4, <2>1, <2>2 DEF Ownership, SingleEnder
  <2>5. SingleEnder'
    BY <2>3, <2>4 DEF SingleEnder
  <2>6. QED
    BY <1>1, <1>2, <2>1, <2>5 DEF Ownership
<1>5. QED
  BY <1>3, <1>4

LEMMA EndStepOwnership ==
  ASSUME TypeOK, Ownership, NEW w \in Worker, EndStep(w) \/ PostEndSession(w)
  PROVE  Ownership'
<1>1. CASE EndTake(w)
  BY <1>1, EndTakeOwnership
<1>2. CASE EndWrite(w)
  BY <1>2, QuietOwnership DEF EndWrite, TypeOK, EndLabel
<1>3. CASE EndHash(w)
  BY <1>3, QuietOwnership DEF EndHash, TypeOK, heapVars, callVars, EndLabel
<1>4. CASE EndIndex(w)
  BY <1>4, QuietOwnership DEF EndIndex, Return, TypeOK, heapVars, EndLabel
<1>5. CASE EndSaveFails(w)
  BY <1>5, QuietOwnership DEF EndSaveFails, Return, TypeOK, heapVars, EndLabel
<1>6. CASE PostEndSession(w)
  BY <1>6, QuietOwnership DEF PostEndSession, TypeOK, heapVars, callVars, EndLabel
<1>7. QED
  BY <1>1, <1>2, <1>3, <1>4, <1>5, <1>6 DEF EndStep

LEMMA CrashOwnership ==
  ASSUME TypeOK, Ownership, NEW srv \in Server, Crash(srv)
  PROVE  Ownership'
<1>1. lastId' = lastId /\ lastId \in Nat
  BY BoundAssumption DEF Crash, TypeOK
<1>2. /\ \A t \in Server : active'[t] \in {active[t], None}
      /\ \A v \in Worker : held'[v] \in {held[v], None}
      /\ \A v \in Worker : pc'[v] \in EndLabel => pc[v] \in EndLabel /\ held'[v] = held[v]
  BY DEF Crash, TypeOK, EndLabel
<1>3. \A v \in Worker : pc[v] \in EndLabel => held[v] # None
  BY DEF TypeOK, EndLabel
<1>4. QED
  BY <1>1, <1>2, <1>3 DEF Ownership, SingleEnder

LEMMA NextOwnership == TypeOK /\ Ownership /\ [Next]_vars => Ownership'
<1> SUFFICES ASSUME TypeOK, Ownership, [Next]_vars PROVE Ownership'
  OBVIOUS
<1>1. ASSUME NEW w \in Worker, NEW p \in Project, StartSession(w, p) PROVE Ownership'
  BY <1>1, StartOwnership
<1>2. ASSUME NEW w \in Worker, StartStep(w) PROVE Ownership'
  BY <1>2, StartStepOwnership
<1>3. ASSUME NEW w \in Worker, MaintenanceStep(w) PROVE Ownership'
  BY <1>3, MaintenanceStepOwnership
<1>4. ASSUME NEW w \in Worker, EndStep(w) \/ PostEndSession(w) PROVE Ownership'
  BY <1>4, EndStepOwnership
<1>5. ASSUME NEW p \in Project, ThrottleExpires(p) PROVE Ownership'
  BY <1>5 DEF ThrottleExpires, heapVars, callVars, Ownership, SingleEnder
<1>6. ASSUME NEW srv \in Server, Crash(srv) PROVE Ownership'
  BY <1>6, CrashOwnership
<1>7. CASE UNCHANGED vars
  BY <1>7 DEF vars, Ownership, SingleEnder
<1>8. QED
  BY <1>1, <1>2, <1>3, <1>4, <1>5, <1>6, <1>7 DEF Next

\* No session is ended by two calls, and none that is being ended is active,
\* whatever servers and calls there are and whatever fails.
THEOREM OneEnder == Spec => []SingleEnder
<1>1. Ownership => SingleEnder
  BY DEF Ownership
<1>2. QED
  BY <1>1, InitOwnership, NextOwnership, TypeCorrect, PTL DEF Spec

-----------------------------------------------------------------------------
(***************************************************************************)
(* The contract.  What it tells apart is a function of the slots and of    *)
(* what the workers are at; every step is one step of the contract, or     *)
(* none.  The roll-back of a failed start clears a slot without looking,   *)
(* so the contract needs that the starts of a server come one at a time:   *)
(* then the slot can only hold the session that is rolled back.            *)
(***************************************************************************)
OneStarter ==
  \A v, w \in Worker :
    "start" \in Can[v] /\ "start" \in Can[w] /\ Home[v] = Home[w] => v = w

Storing(w) == pc[w] \in StoringLabel

\* A worker that stores its new session shares it with no other starter, and while
\* it does, no other session comes into the slot of its server.
Starters ==
  \A w \in Worker : Storing(w) =>
    /\ "start" \in Can[w]
    /\ active[Home[w]] \in {held[w], None}
    /\ \A srv \in Server : active[srv] = held[w] => srv = Home[w]
    /\ \A v \in Worker : v # w /\ Storing(v) => held[v] # held[w]

\* What the contract calls starting and ending.
Held(labels) == [srv \in Server |-> HeldAt(srv, labels)]

LEMMA InitStarters == Init => Starters
  BY DEF Init, Starters, Storing, StoringLabel

\* What a step does to the invariant if it gives no worker a session to store, and
\* no slot a session.
LEMMA QuietStarters ==
  ASSUME TypeOK, Starters,
         \A srv \in Server : active'[srv] \in {active[srv], None},
         \A v \in Worker : Storing(v)' => Storing(v) /\ held'[v] = held[v]
  PROVE  Starters'
<1>1. \A v \in Worker : Storing(v) => held[v] # None
  BY DEF TypeOK, Storing, StoringLabel
<1>2. \A v \in Worker : Home[v] \in Server
  BY HomeAssumption
<1>3. ASSUME NEW w \in Worker, Storing(w)'
      PROVE  /\ "start" \in Can[w]
             /\ active'[Home[w]] \in {held'[w], None}
             /\ \A srv \in Server : active'[srv] = held'[w] => srv = Home[w]
             /\ \A v \in Worker : v # w /\ Storing(v)' => held'[v] # held'[w]
  <2>1. Storing(w) /\ held'[w] = held[w]
    BY <1>3
  <2>2. QED
    BY <1>1, <1>2, <2>1 DEF Starters
<1>4. QED
  BY <1>3 DEF Starters

LEMMA StartStarters ==
  ASSUME OneStarter, TypeOK, Ownership, Starters, NEW w \in Worker, NEW p \in Project,
         StartSession(w, p)
  PROVE  Starters'
<1>1. /\ lastId' = lastId + 1 /\ lastId \in Nat
      /\ \A srv \in Server : active'[srv] = IF srv = Home[w] THEN lastId' ELSE active[srv]
      /\ \A v \in Worker : held'[v] = IF v = w THEN lastId' ELSE held[v]
      /\ \A v \in Worker : pc'[v] = IF v = w THEN "start_read" ELSE pc[v]
      /\ "start" \in Can[w] /\ pc[w] = "idle"
  BY BoundAssumption DEF StartSession, TypeOK
<1>2. /\ \A srv \in Server : active[srv] \in Nat /\ active[srv] <= lastId
      /\ \A v \in Worker : held[v] \in Nat /\ held[v] <= lastId
  <2>1. Session \cup {None} \subseteq Nat
    BY BoundAssumption DEF Session
  <2>2. QED
    BY <2>1 DEF TypeOK, Ownership
<1>3. \A v \in Worker : Home[v] \in Server
  BY HomeAssumption
<1>4. \A v \in Worker \ {w} : Storing(v)' => Storing(v) /\ Home[v] # Home[w]
  BY <1>1 DEF Storing, StoringLabel, Starters, OneStarter
<1>5. ASSUME NEW v \in Worker, Storing(v)'
      PROVE  /\ "start" \in Can[v]
             /\ active'[Home[v]] \in {held'[v], None}
             /\ \A srv \in Server : active'[srv] = held'[v] => srv = Home[v]
             /\ \A u \in Worker : u # v /\ Storing(u)' => held'[u] # held'[v]
  <2>1. CASE v = w
    BY <1>1, <1>2, <1>3, <2>1
  <2>2. CASE v # w
    <3>1. Storing(v) /\ Home[v] # Home[w]
      BY <1>4, <1>5, <2>2
    <3>2. "start" \in Can[v] /\ active'[Home[v]] \in {held'[v], None}
      BY <1>1, <1>3, <2>2, <3>1 DEF Starters
    <3>3. \A srv \in Server : active'[srv] = held'[v] => srv = Home[v]
      BY <1>1, <1>2, <2>2, <3>1 DEF Starters
    <3>4. \A u \in Worker : u # v /\ Storing(u)' => held'[u] # held'[v]
      BY <1>1, <1>2, <1>4, <2>2, <3>1 DEF Starters
    <3>5. QED
      BY <3>2, <3>3, <3>4
  <2>3. QED
    BY <2>1, <2>2
<1>6. QED
  BY <1>5 DEF Starters

\* The sessions held at some labels when a worker goes on with its session, or
\* stays away from the labels.
LEMMA HeldStays ==
  ASSUME NEW L, NEW w \in Worker,
         \A v \in Worker \ {w} : held'[v] = held[v] /\ pc'[v] = pc[v],
         pc'[w] \in L <=> pc[w] \in L,
         pc[w] \in L => held'[w] = held[w]
  PROVE  Held(L)' = Held(L)
<1>1. ASSUME NEW srv \in Server PROVE HeldAt(srv, L)' = HeldAt(srv, L)
  BY DEF HeldAt
<1>2. QED
  BY <1>1 DEF Held

\* ... when a worker comes to one of them with a session ...
LEMMA HeldEnters ==
  ASSUME NEW L, NEW w \in Worker, NEW s \in Session,
         \A v \in Worker \ {w} : held'[v] = held[v] /\ pc'[v] = pc[v],
         pc[w] \notin L, pc'[w] \in L, held'[w] = s
  PROVE  Held(L)' = [Held(L) EXCEPT ![Home[w]] = @ \cup {s}]
<1>1. ASSUME NEW srv \in Server
      PROVE  HeldAt(srv, L)' = IF srv = Home[w] THEN HeldAt(srv, L) \cup {s} ELSE HeldAt(srv, L)
  BY DEF HeldAt
<1>2. QED
  BY <1>1 DEF Held

\* ... and when the only worker that held a session there leaves.
LEMMA HeldLeaves ==
  ASSUME NEW L, NEW w \in Worker, NEW s \in Session,
         \A v \in Worker \ {w} : held'[v] = held[v] /\ pc'[v] = pc[v],
         \A v \in Worker \ {w} : pc[v] \in L => held[v] # s,
         pc[w] \in L, pc'[w] \notin L, held[w] = s
  PROVE  /\ Held(L)' = [Held(L) EXCEPT ![Home[w]] = @ \ {s}]
         /\ Home[w] \in Server => s \in Held(L)[Home[w]]
<1>1. ASSUME NEW srv \in Server
      PROVE  HeldAt(srv, L)' = IF srv = Home[w] THEN HeldAt(srv, L) \ {s} ELSE HeldAt(srv, L)
  BY DEF HeldAt
<1>2. Home[w] \in Server => s \in HeldAt(Home[w], L)
  BY DEF HeldAt
<1>3. QED
  BY <1>1, <1>2 DEF Held

\* The variables of the contract, and what it takes to leave them alone.
ContractVars == <<active, Held(StoringLabel), Held(EndLabel), 1 .. lastId, boot>>

\* A step of a worker that goes on ending, or storing, the same session, or does
\* neither, is no step of the contract.
LEMMA QuietContract ==
  ASSUME NEW w \in Worker,
         active' = active, lastId' = lastId, boot' = boot,
         \A v \in Worker \ {w} : held'[v] = held[v] /\ pc'[v] = pc[v],
         pc'[w] \in EndLabel <=> pc[w] \in EndLabel,
         Storing(w)' <=> Storing(w),
         pc[w] \in EndLabel \/ Storing(w) => held'[w] = held[w]
  PROVE  UNCHANGED ContractVars
<1>1. Held(EndLabel)' = Held(EndLabel)
  BY HeldStays
<1>2. Held(StoringLabel)' = Held(StoringLabel)
  BY HeldStays DEF Storing, StoringLabel
<1>3. QED
  BY <1>1, <1>2 DEF ContractVars

LEMMA StartOpens ==
  ASSUME TypeOK, NEW w \in Worker, NEW p \in Project, StartSession(w, p)
  PROVE  Contract!Next
<1>1. PICK new \in Session : new = lastId + 1
  BY BoundAssumption DEF StartSession, TypeOK, Session
<1>2. /\ lastId' = new /\ boot' = boot
      /\ active[Home[w]] = None
      /\ active' = [active EXCEPT ![Home[w]] = new]
      /\ held' = [held EXCEPT ![w] = new]
      /\ pc[w] = "idle" /\ pc' = [pc EXCEPT ![w] = "start_read"]
  BY <1>1 DEF StartSession
<1>3. /\ lastId \in Nat /\ Home[w] \in Server
      /\ \A v \in Worker \ {w} : held'[v] = held[v] /\ pc'[v] = pc[v]
      /\ held'[w] = new /\ pc'[w] = "start_read"
  <2>1. lastId \in Nat /\ pc \in [Worker -> Label] /\ held \in [Worker -> Session \cup {None}]
    BY BoundAssumption DEF TypeOK
  <2>2. QED
    BY <1>2, <2>1, HomeAssumption
<1>4. /\ pc[w] \notin StoringLabel /\ pc'[w] \in StoringLabel
      /\ pc[w] \notin EndLabel /\ pc'[w] \notin EndLabel
  BY <1>2, <1>3 DEF StoringLabel, EndLabel
<1>5. Held(StoringLabel)' = [Held(StoringLabel) EXCEPT ![Home[w]] = @ \cup {new}]
  BY <1>3, <1>4, HeldEnters
<1>6. Held(EndLabel)' = Held(EndLabel)
  BY <1>3, <1>4, HeldStays
<1>7. new \notin 1 .. lastId /\ 1 .. lastId' = (1 .. lastId) \cup {new}
  BY <1>1, <1>2, <1>3
<1>8. Contract!Open(Home[w], new)
  BY <1>2, <1>5, <1>6, <1>7 DEF Contract!Open, Held
<1>9. QED
  BY <1>3, <1>8 DEF Contract!Next

\* The save of the session is complete.
LEMMA StartIndexConfirms ==
  ASSUME TypeOK, Starters, NEW w \in Worker, StartIndex(w)
  PROVE  Contract!Next
<1>1. PICK mine \in Session : mine = held[w]
  BY DEF StartIndex, TypeOK
<1>2. /\ active' = active /\ lastId' = lastId /\ boot' = boot /\ held' = held
      /\ held[w] = mine /\ Home[w] \in Server
      /\ \A v \in Worker \ {w} : held'[v] = held[v] /\ pc'[v] = pc[v]
      /\ pc[w] = "start_index" /\ pc'[w] \in {"throttle", "last_id"}
  BY <1>1, HomeAssumption DEF StartIndex, heapVars, callVars, TypeOK
<1>3. \A v \in Worker \ {w} : pc[v] \in StoringLabel => held[v] # mine
  BY <1>2 DEF Starters, Storing, StoringLabel
<1>4. pc[w] \in StoringLabel /\ pc'[w] \notin StoringLabel
  BY <1>2 DEF StoringLabel
<1>5. /\ Held(StoringLabel)' = [Held(StoringLabel) EXCEPT ![Home[w]] = @ \ {mine}]
      /\ mine \in Held(StoringLabel)[Home[w]]
  BY <1>2, <1>3, <1>4, HeldLeaves
<1>6. Held(EndLabel)' = Held(EndLabel)
  BY <1>2, HeldStays DEF EndLabel
<1>7. Contract!Confirm(Home[w], mine)
  BY <1>2, <1>5, <1>6 DEF Contract!Confirm, Held
<1>8. QED
  BY <1>2, <1>7 DEF Contract!Next

\* The roll-back clears the slot of the session that it holds, or finds it empty.
LEMMA RollbackWithdraws ==
  ASSUME TypeOK, Starters, NEW w \in Worker, StartRollback(w)
  PROVE  Contract!Next
<1>1. PICK mine \in Session : mine = held[w]
  BY DEF StartRollback, TypeOK
<1>2. /\ lastId' = lastId /\ boot' = boot /\ held[w] = mine /\ Home[w] \in Server
      /\ active' = [active EXCEPT ![Home[w]] = None] /\ active \in [Server -> Session \cup {None}]
      /\ \A v \in Worker \ {w} : held'[v] = held[v] /\ pc'[v] = pc[v]
      /\ pc[w] = "start_rollback" /\ pc'[w] = "idle"
  BY <1>1, HomeAssumption DEF StartRollback, Return, TypeOK
<1>3. /\ active[Home[w]] \in {mine, None}
      /\ \A v \in Worker \ {w} : pc[v] \in StoringLabel => held[v] # mine
  BY <1>2 DEF Starters, Storing, StoringLabel
<1>4. pc[w] \in StoringLabel /\ pc'[w] \notin StoringLabel
  BY <1>2 DEF StoringLabel
<1>5. /\ Held(StoringLabel)' = [Held(StoringLabel) EXCEPT ![Home[w]] = @ \ {mine}]
      /\ mine \in Held(StoringLabel)[Home[w]]
  BY <1>2, <1>3, <1>4, HeldLeaves
<1>6. Held(EndLabel)' = Held(EndLabel)
  BY <1>2, HeldStays DEF EndLabel
<1>7. active' = [active EXCEPT ![Home[w]] = IF @ = mine THEN None ELSE @]
  BY <1>2, <1>3
<1>8. Contract!Withdraw(Home[w], mine)
  BY <1>2, <1>5, <1>6, <1>7 DEF Contract!Withdraw, Held
<1>9. QED
  BY <1>2, <1>8 DEF Contract!Next

LEMMA StartStepContract ==
  ASSUME TypeOK, Starters, NEW w \in Worker, StartStep(w)
  PROVE  Contract!Next \/ UNCHANGED ContractVars
<1> USE DEF Storing, StoringLabel, EndLabel
<1>1. CASE StartRead(w)
  BY <1>1, QuietContract DEF StartRead, TypeOK, heapVars
<1>2. CASE StartHash(w)
  BY <1>2, QuietContract DEF StartHash, TypeOK, heapVars, callVars
<1>3. CASE StartIndex(w)
  BY <1>3, StartIndexConfirms
<1>4. CASE StartSaveFails(w)
  BY <1>4, QuietContract DEF StartSaveFails, SaveFails, TypeOK, heapVars, callVars
<1>5. CASE StartRollback(w)
  BY <1>5, RollbackWithdraws
<1>6. CASE LastId(w)
  BY <1>6, QuietContract DEF LastId, Return, TypeOK, heapVars
<1>7. CASE LastHash(w)
  BY <1>7, QuietContract DEF LastHash, Return, TypeOK, heapVars
<1>8. CASE LastFails(w)
  BY <1>8, QuietContract DEF LastFails, Return, TypeOK, heapVars
<1>9. QED
  BY <1>1, <1>2, <1>3, <1>4, <1>5, <1>6, <1>7, <1>8 DEF StartStep

\* What every step of the maintenance leaves alone.
LEMMA MaintenanceFrame ==
  ASSUME TypeOK, NEW w \in Worker, MaintenanceStep(w)
  PROVE  /\ active' = active /\ lastId' = lastId /\ object' = object /\ boot' = boot
         /\ held' = held
         /\ \A v \in Worker \ {w} : pc'[v] = pc[v]
         /\ pc[w] \in MaintenanceLabel /\ pc'[w] \in MaintenanceLabel \cup {"last_id"}
<1> USE DEF MaintenanceLabel
<1>1. CASE MaintThrottle(w)
  BY <1>1 DEF MaintThrottle, heapVars, callVars, TypeOK
<1>2. CASE PruneCount(w)
  BY <1>2 DEF PruneCount, heapVars, TypeOK
<1>3. CASE PruneRange(w)
  BY <1>3 DEF PruneRange, heapVars, TypeOK
<1>4. CASE PruneDel(w)
  BY <1>4 DEF PruneDel, heapVars, callVars, TypeOK
<1>6. CASE PruneRem(w)
  BY <1>6 DEF PruneRem, heapVars, callVars, TypeOK
<1>7. CASE OrphanScan(w)
  BY <1>7 DEF OrphanScan, heapVars, TypeOK
<1>8. CASE OrphanExists(w)
  BY <1>8 DEF OrphanExists, heapVars, TypeOK
<1>9. CASE OrphanRem(w)
  BY <1>9 DEF OrphanRem, heapVars, callVars, TypeOK
<1>10. CASE Mark(w)
  BY <1>10 DEF Mark, heapVars, callVars, TypeOK
<1>11. CASE MarkTTL(w)
  BY <1>11 DEF MarkTTL, heapVars, callVars, TypeOK
<1>12. CASE MaintenanceFails(w)
  BY <1>12, AfterErrorType DEF MaintenanceFails, heapVars, callVars, TypeOK
<1>13. QED
  BY <1>1, <1>2, <1>3, <1>4, <1>6, <1>7, <1>8, <1>9, <1>10, <1>11, <1>12
  DEF MaintenanceStep

LEMMA MaintenanceStepContract ==
  ASSUME TypeOK, NEW w \in Worker, MaintenanceStep(w)
  PROVE  UNCHANGED ContractVars
<1>1. pc[w] \notin EndLabel /\ ~Storing(w) /\ pc'[w] \notin EndLabel /\ ~Storing(w)'
  BY MaintenanceFrame DEF MaintenanceLabel, EndLabel, Storing, StoringLabel
<1>2. QED
  BY <1>1, MaintenanceFrame, QuietContract

LEMMA EndTakes ==
  ASSUME TypeOK, NEW w \in Worker, EndTake(w)
  PROVE  Contract!Next \/ UNCHANGED ContractVars
<1>1. /\ lastId' = lastId /\ boot' = boot /\ Home[w] \in Server
      /\ pc[w] \in {"idle", "end_take"}
  BY HomeAssumption DEF EndTake
<1>2. CASE active[Home[w]] = None
  <2>1. /\ active' = active /\ held' = held
        /\ pc'[w] = "idle" /\ \A v \in Worker \ {w} : pc'[v] = pc[v]
    BY <1>1, <1>2 DEF EndTake, TypeOK
  <2>2. pc[w] \notin EndLabel /\ ~Storing(w) /\ pc'[w] \notin EndLabel /\ ~Storing(w)'
    BY <1>1, <2>1 DEF EndLabel, Storing, StoringLabel
  <2>3. QED
    BY <1>1, <2>1, <2>2, QuietContract
<1>3. CASE active[Home[w]] # None
  <2>1. PICK mine \in Session : mine = active[Home[w]]
    BY <1>1, <1>3 DEF TypeOK
  <2>2. /\ active' = [active EXCEPT ![Home[w]] = None]
        /\ \A v \in Worker \ {w} : held'[v] = held[v] /\ pc'[v] = pc[v]
        /\ held'[w] = mine /\ pc'[w] = "end_write"
    BY <1>3, <2>1 DEF EndTake, TypeOK
  <2>4. /\ pc[w] \notin StoringLabel /\ pc'[w] \notin StoringLabel
        /\ pc[w] \notin EndLabel /\ pc'[w] \in EndLabel
    BY <1>1, <2>2 DEF StoringLabel, EndLabel
  <2>3. Held(EndLabel)' = [Held(EndLabel) EXCEPT ![Home[w]] = @ \cup {mine}]
    BY <2>2, <2>4, HeldEnters
  <2>5. Held(StoringLabel)' = Held(StoringLabel)
    BY <2>2, <2>4, HeldStays
  <2>6. Contract!Take(Home[w], mine)
    BY <1>1, <2>1, <2>2, <2>3, <2>5 DEF Contract!Take, Held
  <2>7. QED
    BY <1>1, <2>6 DEF Contract!Next
<1>4. QED
  BY <1>2, <1>3

\* The end of a call that ends a session, with success or without.
LEMMA EndFinishes ==
  ASSUME TypeOK, Ownership, NEW w \in Worker, pc[w] \in EndLabel,
         active' = active, lastId' = lastId, boot' = boot, Return(w)
  PROVE  Contract!Next
<1>1. PICK mine \in Session : mine = held[w]
  BY DEF TypeOK, EndLabel
<1>2. /\ \A v \in Worker \ {w} : held'[v] = held[v] /\ pc'[v] = pc[v]
      /\ pc'[w] = "idle" /\ Home[w] \in Server
  BY HomeAssumption DEF Return, TypeOK
<1>3. \A v \in Worker \ {w} : pc[v] \in EndLabel => held[v] # mine
  BY <1>1 DEF Ownership, SingleEnder
<1>4. pc'[w] \notin EndLabel /\ pc'[w] \notin StoringLabel /\ pc[w] \notin StoringLabel
  BY <1>2 DEF EndLabel, StoringLabel
<1>5. /\ Held(EndLabel)' = [Held(EndLabel) EXCEPT ![Home[w]] = @ \ {mine}]
      /\ mine \in Held(EndLabel)[Home[w]]
  BY <1>1, <1>2, <1>3, <1>4, HeldLeaves
<1>6. Held(StoringLabel)' = Held(StoringLabel)
  BY <1>2, <1>4, HeldStays
<1>7. Contract!Finish(Home[w], mine)
  BY <1>2, <1>5, <1>6 DEF Contract!Finish, Held
<1>8. QED
  BY <1>2, <1>7 DEF Contract!Next

LEMMA EndStepContract ==
  ASSUME TypeOK, Ownership, NEW w \in Worker, EndStep(w) \/ PostEndSession(w)
  PROVE  Contract!Next \/ UNCHANGED ContractVars
<1>1. CASE EndTake(w)
  BY <1>1, EndTakes
<1>2. CASE EndWrite(w)
  BY <1>2, QuietContract DEF EndWrite, TypeOK, EndLabel, Storing, StoringLabel
<1>3. CASE EndHash(w)
  BY <1>3, QuietContract DEF EndHash, TypeOK, heapVars, callVars, EndLabel, Storing, StoringLabel
<1>4. CASE EndIndex(w)
  BY <1>4, EndFinishes DEF EndIndex, heapVars, EndLabel
<1>5. CASE EndSaveFails(w)
  BY <1>5, EndFinishes DEF EndSaveFails, SaveFails, heapVars, EndLabel
<1>6. CASE PostEndSession(w)
  BY <1>6, QuietContract DEF PostEndSession, TypeOK, heapVars, callVars, EndLabel, Storing, StoringLabel
<1>7. QED
  BY <1>1, <1>2, <1>3, <1>4, <1>5, <1>6 DEF EndStep

\* The calls of a server that stops are gone, and those of the others are not.
LEMMA CrashStops ==
  ASSUME TypeOK, NEW srv \in Server, Crash(srv)
  PROVE  Contract!Next
<1>1. /\ \A v \in Worker : Home[v] = srv => pc'[v] = "idle"
      /\ \A v \in Worker : Home[v] # srv => pc'[v] = pc[v] /\ held'[v] = held[v]
      /\ active' = [active EXCEPT ![srv] = None] /\ lastId' = lastId
      /\ boot' = [boot EXCEPT ![srv] = 1 - @]
  BY DEF Crash, TypeOK
<1>2. ASSUME NEW L, "idle" \notin L PROVE Held(L)' = [Held(L) EXCEPT ![srv] = {}]
  <2>1. ASSUME NEW other \in Server
        PROVE  HeldAt(other, L)' = IF other = srv THEN {} ELSE HeldAt(other, L)
    BY <1>1, <1>2 DEF HeldAt
  <2>2. QED
    BY <2>1 DEF Held
<1>3. /\ Held(StoringLabel)' = [Held(StoringLabel) EXCEPT ![srv] = {}]
      /\ Held(EndLabel)' = [Held(EndLabel) EXCEPT ![srv] = {}]
  <2>1. "idle" \notin StoringLabel /\ "idle" \notin EndLabel
    BY DEF StoringLabel, EndLabel
  <2>2. QED
    BY <1>2, <2>1
<1>4. Contract!Crash(srv)
  BY <1>1, <1>3 DEF Contract!Crash, Held
<1>5. QED
  BY <1>4 DEF Contract!Next

LEMMA NextStarters == OneStarter /\ TypeOK /\ Ownership /\ Starters /\ [Next]_vars => Starters'
<1> SUFFICES ASSUME OneStarter, TypeOK, Ownership, Starters, [Next]_vars PROVE Starters'
  OBVIOUS
<1>1. ASSUME NEW w \in Worker, NEW p \in Project, StartSession(w, p) PROVE Starters'
  BY <1>1, StartStarters
<1>2. ASSUME NEW w \in Worker, StartStep(w) PROVE Starters'
  <2>1. \A srv \in Server : active'[srv] \in {active[srv], None}
    BY <1>2 DEF StartStep, StartRead, StartHash, StartIndex, StartSaveFails, StartRollback,
       LastId, LastHash, LastFails, heapVars, TypeOK
  <2>2. \A v \in Worker \ {w} : pc'[v] = pc[v] /\ held'[v] = held[v]
    BY <1>2 DEF StartStep, StartRead, StartHash, StartIndex, StartSaveFails, StartRollback,
       LastId, LastHash, LastFails, Return, callVars, TypeOK
  <2>3. Storing(w)' => Storing(w) /\ held'[w] = held[w]
    BY <1>2 DEF StartStep, StartRead, StartHash, StartIndex, StartSaveFails, SaveFails,
       StartRollback, LastId, LastHash, LastFails, Return, callVars, TypeOK, Storing, StoringLabel
  <2>4. QED
    BY <2>1, <2>2, <2>3, QuietStarters DEF Storing, StoringLabel
<1>3. ASSUME NEW w \in Worker, MaintenanceStep(w) PROVE Starters'
  <2>1. ~Storing(w)'
    BY <1>3, MaintenanceFrame DEF MaintenanceLabel, Storing, StoringLabel
  <2>2. QED
    BY <1>3, <2>1, MaintenanceFrame, QuietStarters DEF Storing, StoringLabel
<1>4. ASSUME NEW w \in Worker, EndStep(w) \/ PostEndSession(w) PROVE Starters'
  <2>1. \A srv \in Server : active'[srv] \in {active[srv], None}
    BY <1>4 DEF EndStep, EndTake, EndWrite, EndHash, EndIndex, EndSaveFails, PostEndSession,
       heapVars, TypeOK
  <2>2. \A v \in Worker \ {w} : pc'[v] = pc[v] /\ held'[v] = held[v]
    BY <1>4 DEF EndStep, EndTake, EndWrite, EndHash, EndIndex, EndSaveFails, PostEndSession,
       Return, callVars, TypeOK
  <2>3. ~Storing(w)'
    BY <1>4 DEF EndStep, EndTake, EndWrite, EndHash, EndIndex, EndSaveFails, PostEndSession,
       Return, TypeOK, Storing, StoringLabel
  <2>4. QED
    BY <2>1, <2>2, <2>3, QuietStarters DEF Storing, StoringLabel
<1>5. ASSUME NEW p \in Project, ThrottleExpires(p) PROVE Starters'
  BY <1>5, QuietStarters DEF ThrottleExpires, heapVars, callVars, Storing, StoringLabel
<1>6. ASSUME NEW srv \in Server, Crash(srv) PROVE Starters'
  <2>1. \A t \in Server : active'[t] \in {active[t], None}
    BY <1>6 DEF Crash, TypeOK
  <2>2. \A v \in Worker : Storing(v)' => Storing(v) /\ held'[v] = held[v]
    BY <1>6 DEF Crash, Storing, StoringLabel
  <2>3. QED
    BY <2>1, <2>2, QuietStarters
<1>7. CASE UNCHANGED vars
  BY <1>7, QuietStarters DEF vars, Storing, StoringLabel
<1>8. QED
  BY <1>1, <1>2, <1>3, <1>4, <1>5, <1>6, <1>7 DEF Next

\* Every step of a server is a step of the contract, or none.
LEMMA StepKeepsContract ==
  ASSUME TypeOK, Ownership, Starters, [Next]_vars
  PROVE  Contract!Next \/ UNCHANGED ContractVars
<1> DEFINE Simulates == Contract!Next \/ UNCHANGED ContractVars
<1>1. ASSUME NEW w \in Worker, NEW p \in Project, StartSession(w, p) PROVE Simulates
  BY <1>1, StartOpens
<1>2. ASSUME NEW w \in Worker, StartStep(w) PROVE Simulates
  BY <1>2, StartStepContract
<1>3. ASSUME NEW w \in Worker, MaintenanceStep(w) PROVE Simulates
  BY <1>3, MaintenanceStepContract
<1>4. ASSUME NEW w \in Worker, EndStep(w) \/ PostEndSession(w) PROVE Simulates
  BY <1>4, EndStepContract
<1>5. ASSUME NEW srv \in Server, Crash(srv) PROVE Simulates
  BY <1>5, CrashStops
<1>6. ASSUME active' = active, lastId' = lastId, boot' = boot, held' = held, pc' = pc
      PROVE  Simulates
  BY <1>6 DEF ContractVars, Held, HeldAt
<1>7. ASSUME NEW p \in Project, ThrottleExpires(p) PROVE Simulates
  BY <1>6, <1>7 DEF ThrottleExpires, heapVars, callVars
<1>8. ASSUME UNCHANGED vars PROVE Simulates
  BY <1>6, <1>8 DEF vars
<1> HIDE DEF Simulates
<1>9. Simulates
  BY <1>1, <1>2, <1>3, <1>4, <1>5, <1>7, <1>8 DEF Next
<1>10. QED
  BY <1>9 DEF Simulates

LEMMA InitKeepsContract == Init => Contract!Init
<1> SUFFICES ASSUME Init PROVE Contract!Init
  OBVIOUS
<1>1. \A srv \in Server : HeldAt(srv, StoringLabel) = {} /\ HeldAt(srv, EndLabel) = {}
  BY DEF Init, HeldAt, StoringLabel, EndLabel
<1>2. 1 .. lastId = {}
  BY DEF Init
<1>3. QED
  BY <1>1, <1>2 DEF Init, Contract!Init

\* The servers, with their Redis commands, errors and crashes, implement the contract
\* of start_session and end_session, if the starts of each server come one at a time.
THEOREM ImplementsContract ==
  ASSUME OneStarter
  PROVE  Spec => KeepsContract
<1> DEFINE Clear == TypeOK /\ Ownership /\ Starters
<1>1. Init => Clear
  BY InitType, InitOwnership, InitStarters
<1>2. Clear /\ [Next]_vars => Clear'
  BY NextType, NextOwnership, NextStarters
<1>3. Clear /\ [Next]_vars => [Contract!Next]_(Contract!vars)
  BY StepKeepsContract DEF ContractVars, Contract!vars, Held
<1> HIDE DEF Clear
<1>4. QED
  BY <1>1, <1>2, <1>3, InitKeepsContract, PTL DEF Spec, KeepsContract, Contract!Spec

-----------------------------------------------------------------------------
(***************************************************************************)
(* Pruning.  What it may delete was decided some commands earlier, so the  *)
(* invariants say that the decision still holds: sessions may have been    *)
(* added to the sorted set since, but nobody else has taken any out, which *)
(* needs a single worker that starts sessions.                             *)
(***************************************************************************)
OnePruner == \A v, w \in Worker : "start" \in Can[v] /\ "start" \in Can[w] => v = w

\* The steps of a call outside maintenance: they may add the session they hold to
\* the sorted set of its project, and take nothing out of Redis.
SavesOnly(w) ==
  /\ \A p \in Project : index[p] \subseteq index'[p]
  /\ \A p \in Project : \A s \in index'[p] \ index[p] :
       s = held[w] /\ p = ProjectOf(s) /\ pc[w] \notin {"idle", "end_take"}
  /\ \A s \in Session : object'[s].project = object[s].project
  /\ lastId' = lastId
  /\ \A s \in Session : hash[s] # "absent" => hash'[s] # "absent"
  /\ \A v \in Worker \ {w} : pc'[v] = pc[v] /\ held'[v] = held[v]
                               /\ excess'[v] = excess[v] /\ ids'[v] = ids[v]
  /\ pc'[w] \in {"idle", "throttle"} \cup (Label \ MaintenanceLabel)
  /\ pc'[w] \in StartLabel => pc[w] \in StartLabel

LEMMA SavedIndex ==
  ASSUME TypeOK, NEW w \in Worker, pc[w] \notin {"idle", "end_take"}, SaveIndex(w)
  PROVE  /\ \A p \in Project : index[p] \subseteq index'[p]
         /\ \A p \in Project : \A s \in index'[p] \ index[p] : s = held[w] /\ p = ProjectOf(s)
BY HeldSession DEF SaveIndex, TypeOK

LEMMA SavedHash ==
  ASSUME TypeOK, NEW w \in Worker, SaveHash(w)
  PROVE  \A s \in Session : hash[s] # "absent" => hash'[s] # "absent"
BY DEF SaveHash, TypeOK

LEMMA StartStepSaves ==
  ASSUME TypeOK, NEW w \in Worker, StartStep(w)
  PROVE  SavesOnly(w)
<1> USE DEF SavesOnly, Label, StartLabel, MaintenanceLabel, EndLabel
<1>1. CASE StartRead(w)
  BY <1>1 DEF StartRead, heapVars, redisVars, TypeOK
<1>2. CASE StartHash(w)
  BY <1>2, SavedHash DEF StartHash, heapVars, callVars, TypeOK
<1>3. CASE StartIndex(w)
  BY <1>3, SavedIndex DEF StartIndex, heapVars, callVars, TypeOK
<1>4. CASE StartSaveFails(w)
  BY <1>4, SavedIndex DEF StartSaveFails, SaveFails, heapVars, callVars, TypeOK
<1>5. CASE StartRollback(w)
  BY <1>5 DEF StartRollback, Return, redisVars, TypeOK
<1>6. CASE LastId(w)
  BY <1>6 DEF LastId, Return, heapVars, redisVars, TypeOK
<1>7. CASE LastHash(w)
  BY <1>7 DEF LastHash, Return, heapVars, redisVars, TypeOK
<1>8. CASE LastFails(w)
  BY <1>8 DEF LastFails, Return, heapVars, redisVars, TypeOK
<1>9. QED
  BY <1>1, <1>2, <1>3, <1>4, <1>5, <1>6, <1>7, <1>8 DEF StartStep

LEMMA EndStepSaves ==
  ASSUME TypeOK, NEW w \in Worker, EndStep(w) \/ PostEndSession(w)
  PROVE  SavesOnly(w)
<1> USE DEF SavesOnly, Label, StartLabel, MaintenanceLabel, EndLabel
<1>1. CASE EndTake(w)
  BY <1>1 DEF EndTake, redisVars, TypeOK
<1>2. CASE EndWrite(w)
  BY <1>2 DEF EndWrite, redisVars, TypeOK
<1>3. CASE EndHash(w)
  BY <1>3, SavedHash DEF EndHash, heapVars, callVars, TypeOK
<1>4. CASE EndIndex(w)
  BY <1>4, SavedIndex DEF EndIndex, Return, heapVars, TypeOK
<1>5. CASE EndSaveFails(w)
  BY <1>5, SavedIndex DEF EndSaveFails, SaveFails, Return, heapVars, TypeOK
<1>6. CASE PostEndSession(w)
  BY <1>6 DEF PostEndSession, heapVars, redisVars, callVars, TypeOK
<1>7. QED
  BY <1>1, <1>2, <1>3, <1>4, <1>5, <1>6 DEF EndStep

(***************************************************************************)
(* Counting in sorted sets.                                                *)
(***************************************************************************)
\* A session among the lowest k has all but k of the others above it.
LEMMA HigherCount ==
  ASSUME NEW S \in SUBSET Session, NEW k \in Nat, NEW n \in Nat,
         k + n <= Cardinality(S), NEW s \in Lowest(S, k)
  PROVE  Cardinality({t \in S : t > s}) >= n
<1> DEFINE Below == {t \in S : t < s}
           Above == {t \in S : t > s}
<1>0. s \in S /\ Cardinality(Below) < k
  BY DEF Lowest
<1>1. s \in Nat /\ \A t \in S : t \in Nat
  BY <1>0, BoundAssumption DEF Session
<1>2. /\ IsFiniteSet(S) /\ IsFiniteSet(Below) /\ IsFiniteSet(Above)
      /\ Cardinality(S) \in Nat /\ Cardinality(Below) \in Nat /\ Cardinality(Above) \in Nat
  BY SessionCount
<1>3. S = (Below \cup {s}) \cup Above
  <2>1. \A t \in S : t < s \/ t = s \/ t > s
    BY <1>1
  <2>2. QED
    BY <1>0, <2>1
<1>4. s \notin Below
  BY <1>1
<1>5. (Below \cup {s}) \cap Above = {}
  <2>1. \A t \in S : t > s => ~(t < s) /\ t # s
    BY <1>1
  <2>2. QED
    BY <2>1
<1> HIDE DEF Below, Above
<1>6. IsFiniteSet(Below \cup {s}) /\ Cardinality(Below \cup {s}) = Cardinality(Below) + 1
  BY <1>2, <1>4, FS_AddElement
<1>7. Cardinality((Below \cup {s}) \cup Above)
        = Cardinality(Below \cup {s}) + Cardinality(Above) - Cardinality((Below \cup {s}) \cap Above)
  BY <1>2, <1>6, FS_Union
<1>8. Cardinality((Below \cup {s}) \cap Above) = 0
  BY <1>5, FS_EmptySet
<1>9. Cardinality(S) = Cardinality(Below) + 1 + Cardinality(Above)
  BY <1>2, <1>3, <1>6, <1>7, <1>8
<1>10. Cardinality(Above) >= n
  BY <1>0, <1>2, <1>9
<1>11. QED
  BY <1>10 DEF Above

\* A set that has members has a lowest one.
LEMMA LowestExists ==
  ASSUME NEW S \in SUBSET Session, S # {}
  PROVE  \E s \in S : \A t \in S : s <= t
<1> DEFINE R == OpToRel(<, Nat)
<1>1. IsWellFoundedOn(R, Nat)
  BY NatLessThanWellFounded
<1>2. \A t \in S : t \in Nat
  BY BoundAssumption DEF Session
<1>3. \A s, t \in Nat : s < t => <<s, t>> \in R
  BY DEF OpToRel
<1> HIDE DEF R
<1>4. S \subseteq Nat
  BY <1>2
<1>5. PICK s \in S : \A t \in S : ~(<<t, s>> \in R)
  BY <1>1, <1>4, WFMin
<1>6. \A t \in S : ~(t < s)
  BY <1>2, <1>3, <1>5
<1>7. QED
  BY <1>2, <1>6

\* The lowest k are k, if there are that many.
LEMMA LowestCount ==
  ASSUME NEW S \in SUBSET Session, NEW k \in Nat, k <= Cardinality(S)
  PROVE  Cardinality(Lowest(S, k)) >= k
<1> DEFINE Rest == S \ Lowest(S, k)
<1>1. Rest \in SUBSET Session /\ \A t \in S : t \in Nat
  <2>1. Rest \subseteq S
    OBVIOUS
  <2> HIDE DEF Rest
  <2>2. Rest \in SUBSET Session
    BY <2>1
  <2>3. \A t \in S : t \in Nat
    BY BoundAssumption DEF Session
  <2>4. QED
    BY <2>2, <2>3
<1>2. CASE Rest = {}
  <2>1. Lowest(S, k) = S
    BY <1>2, LowestSubset
  <2>2. QED
    BY <2>1
<1>3. CASE Rest # {}
  <2>1. PICK r \in Rest : \A t \in Rest : r <= t
    BY <1>1, <1>3, LowestExists
  <2> DEFINE Below == {t \in S : t < r}
  <2>2. Below \subseteq Lowest(S, k)
    <3>1. \A t \in S : t < r => ~(r <= t)
      BY <1>1
    <3>2. QED
      BY <2>1, <3>1
  <2>3. ~(Cardinality(Below) < k)
    BY <2>1 DEF Lowest
  <2>4. Lowest(S, k) \in SUBSET Session /\ Below \in SUBSET Session
    BY LowestSubset
  <2> HIDE DEF Below, Rest
  <2>5. /\ IsFiniteSet(Lowest(S, k)) /\ Cardinality(Lowest(S, k)) \in Nat
        /\ Cardinality(Below) \in Nat
    BY <2>4, SessionCount
  <2>6. Cardinality(Below) <= Cardinality(Lowest(S, k))
    BY <2>2, <2>5, FS_Subset
  <2>7. QED
    BY <2>3, <2>5, <2>6
<1>4. QED
  BY <1>2, <1>3

(***************************************************************************)
(* What is indexed, and what pruning has decided.                          *)
(***************************************************************************)
\* A sorted set holds sessions of its project, none newer than the newest.
Filed == \A p \in Project : \A s \in index[p] : object[s].project = p /\ s <= lastId

\* Only a worker that may start sessions is inside start_session, and what it is
\* about to prune is surplus: so many newer sessions are indexed.
Surplus ==
  /\ \A w \in Worker : pc[w] \in StartLabel => "start" \in Can[w]
  /\ \A w \in Worker : At(w, "prune_range") =>
       excess[w] + MaxSessionsPerProject <= Cardinality(IndexOf(w))
  /\ \A w \in Worker : At(w, "prune_del") =>
       \A s \in ids[w] :
         /\ s \in IndexOf(w)
         /\ Cardinality({t \in IndexOf(w) : t > s}) >= MaxSessionsPerProject

LEMMA InitFiled == Init => Filed /\ Surplus
  BY DEF Init, Filed, Surplus, StartLabel, MaintenanceLabel

LEMMA StartFiled ==
  ASSUME TypeOK, Ownership, Filed, NEW w \in Worker, NEW p \in Project, StartSession(w, p)
  PROVE  /\ Filed'
         /\ \A v \in Worker : held[v] # None => object'[held[v]].project = object[held[v]].project
<1>1. /\ lastId' = lastId + 1 /\ lastId \in Nat /\ lastId' \in Session
      /\ \A s \in Session : s # lastId' => object'[s] = object[s]
      /\ index' = index
  BY BoundAssumption DEF StartSession, TypeOK, Session, redisVars
<1>2. \A q \in Project : \A s \in index[q] : s \in Session /\ s \in Nat
  BY BoundAssumption DEF TypeOK, Session
<1>3. \A v \in Worker : held[v] # None => held[v] \in Session /\ held[v] <= lastId
  BY DEF TypeOK, Ownership
<1>4. \A s \in Session : s <= lastId => s # lastId' /\ s <= lastId'
  BY <1>1, BoundAssumption DEF Session
<1>5. Filed'
  BY <1>1, <1>2, <1>4 DEF Filed
<1>6. QED
  BY <1>1, <1>3, <1>4, <1>5

LEMMA SavesFiled ==
  ASSUME TypeOK, Ownership, Filed, NEW w \in Worker, SavesOnly(w)
  PROVE  Filed'
<1>1. \A p \in Project : \A s \in index[p] : s \in Session
  BY DEF TypeOK
<1>2. pc[w] \notin {"idle", "end_take"} => held[w] \in Session /\ held[w] <= lastId
  BY HeldSession DEF Ownership
<1>3. QED
  BY <1>1, <1>2 DEF Filed, SavesOnly

\* The index after a step of maintenance.
LEMMA MaintenanceIndex ==
  ASSUME TypeOK, NEW w \in Worker, MaintenanceStep(w)
  PROVE  /\ \A p \in Project : index'[p] \subseteq index[p]
         /\ pc[w] \notin {"prune_rem", "orphan_rem"} => index' = index
<1>1. CASE PruneRem(w) \/ OrphanRem(w)
  BY <1>1, HeldSession DEF PruneRem, OrphanRem, TypeOK
<1>2. CASE ~(PruneRem(w) \/ OrphanRem(w))
  <2>1. index' = index
    <3>1. CASE MaintThrottle(w)
      BY <3>1 DEF MaintThrottle, redisVars
    <3>2. CASE PruneCount(w)
      BY <3>2 DEF PruneCount, redisVars
    <3>3. CASE PruneRange(w)
      BY <3>3 DEF PruneRange, redisVars
    <3>4. CASE PruneDel(w)
      BY <3>4 DEF PruneDel
    <3>5. CASE OrphanScan(w) \/ OrphanExists(w)
      BY <3>5 DEF OrphanScan, OrphanExists, redisVars
    <3>6. CASE Mark(w) \/ MarkTTL(w)
      BY <3>6 DEF Mark, MarkTTL
    <3>7. CASE MaintenanceFails(w)
      BY <1>2, <3>7 DEF MaintenanceFails, redisVars
    <3>8. QED
      BY <1>2, <3>1, <3>2, <3>3, <3>4, <3>5, <3>6, <3>7 DEF MaintenanceStep
  <2>2. QED
    BY <2>1
<1>3. QED
  BY <1>1, <1>2 DEF PruneRem, OrphanRem

LEMMA QuietSurplus ==
  ASSUME TypeOK, TypeOK', Surplus,
         \A p \in Project : index[p] \subseteq index'[p],
         \A v \in Worker : pc'[v] \in {"prune_range", "prune_del"} =>
           /\ pc'[v] = pc[v] /\ held'[v] = held[v]
           /\ excess'[v] = excess[v] /\ ids'[v] \subseteq ids[v]
           /\ object'[held[v]].project = object[held[v]].project,
         \A v \in Worker : pc'[v] \in StartLabel => pc[v] \in StartLabel \/ "start" \in Can[v]
  PROVE  Surplus'
<1>1. \A v \in Worker : pc'[v] \in StartLabel => "start" \in Can[v]
  BY DEF Surplus
<1>2. ASSUME NEW v \in Worker, pc'[v] \in {"prune_range", "prune_del"}
      PROVE  /\ pc'[v] = pc[v] /\ excess'[v] = excess[v] /\ ids'[v] \subseteq ids[v]
             /\ IndexOf(v) \subseteq IndexOf(v)'
             /\ IndexOf(v)' \in SUBSET Session
  <2>1. pc'[v] = pc[v] /\ held[v] \in Session /\ object[held[v]].project \in Project
    BY <1>2, HeldSession
  <2>2. QED
    BY <1>2, <2>1 DEF TypeOK
<1>3. ASSUME NEW v \in Worker, pc'[v] = "prune_range"
      PROVE  excess'[v] + MaxSessionsPerProject <= Cardinality(IndexOf(v)')
  <2> DEFINE S == IndexOf(v)
             T == IndexOf(v)'
  <2>1. S \subseteq T /\ T \in SUBSET Session /\ excess'[v] = excess[v]
    BY <1>2, <1>3
  <2>2. excess[v] + MaxSessionsPerProject <= Cardinality(S)
    BY <1>2, <1>3 DEF Surplus
  <2>3. excess[v] \in Nat
    BY DEF TypeOK
  <2> HIDE DEF S, T
  <2>4. IsFiniteSet(T) /\ Cardinality(T) \in Nat /\ Cardinality(S) \in Nat
    BY <2>1, SessionCount
  <2>5. Cardinality(S) <= Cardinality(T)
    BY <2>1, <2>4, FS_Subset
  <2>6. excess'[v] + MaxSessionsPerProject <= Cardinality(T)
    BY <2>1, <2>2, <2>3, <2>4, <2>5, BoundAssumption
  <2>7. QED
    BY <2>6 DEF T
<1>4. ASSUME NEW v \in Worker, pc'[v] = "prune_del", NEW s \in ids'[v]
      PROVE  /\ s \in IndexOf(v)'
             /\ Cardinality({t \in IndexOf(v)' : t > s}) >= MaxSessionsPerProject
  <2> DEFINE S == {t \in IndexOf(v) : t > s}
             T == {t \in IndexOf(v)' : t > s}
  <2>1. S \subseteq T /\ T \in SUBSET Session /\ s \in ids[v]
    BY <1>2, <1>4
  <2>2. s \in IndexOf(v) /\ Cardinality(S) >= MaxSessionsPerProject
    BY <1>2, <1>4 DEF Surplus
  <2>3. s \in IndexOf(v)'
    BY <1>2, <1>4, <2>2
  <2> HIDE DEF S, T
  <2>4. IsFiniteSet(T) /\ Cardinality(T) \in Nat /\ Cardinality(S) \in Nat
    BY <2>1, SessionCount
  <2>5. Cardinality(S) <= Cardinality(T)
    BY <2>1, <2>4, FS_Subset
  <2>6. Cardinality(T) >= MaxSessionsPerProject
    BY <2>2, <2>4, <2>5, BoundAssumption
  <2>7. QED
    BY <2>3, <2>6 DEF T
<1>5. QED
  BY <1>1, <1>3, <1>4 DEF Surplus

LEMMA MaintenanceSurplus ==
  ASSUME OnePruner, TypeOK, TypeOK', Surplus, NEW w \in Worker, MaintenanceStep(w)
  PROVE  Surplus'
<1>1. /\ held' = held /\ object' = object /\ pc[w] \in MaintenanceLabel
      /\ \A v \in Worker \ {w} : pc'[v] = pc[v]
  BY MaintenanceFrame
<1>2. \A v \in Worker : pc'[v] \in StartLabel => "start" \in Can[v]
  BY <1>1 DEF Surplus, StartLabel
<1>3. \A v \in Worker \ {w} : pc'[v] \notin {"prune_range", "prune_del"}
  BY <1>1, <1>2 DEF OnePruner, Surplus, StartLabel, MaintenanceLabel
<1>4. CASE PruneCount(w)
  <2> DEFINE S == IndexOf(w)
  <2>1. S \in SUBSET Session
    BY <1>4, HeldSession DEF PruneCount
  <2>2. Cardinality(S) \in Nat
    BY <2>1, SessionCount
  <2>3. IndexOf(w)' = S
    BY <1>1, <1>4 DEF PruneCount, redisVars
  <2>4. pc'[w] # "prune_del"
    BY <1>4 DEF PruneCount, TypeOK
  <2>5. pc'[w] = "prune_range" => excess'[w] = Cardinality(S) - MaxSessionsPerProject
    BY <1>4 DEF PruneCount, TypeOK
  <2> HIDE DEF S
  <2>6. pc'[w] = "prune_range" => excess'[w] + MaxSessionsPerProject <= Cardinality(S)
    BY <2>2, <2>5, BoundAssumption
  <2>7. QED
    BY <1>2, <1>3, <2>3, <2>4, <2>6 DEF Surplus
<1>5. CASE PruneRange(w)
  <2> DEFINE S == IndexOf(w)
  <2>1. S \in SUBSET Session /\ excess[w] \in Nat
    BY <1>5, HeldSession DEF PruneRange, TypeOK
  <2>2. IndexOf(w)' = S
    BY <1>1, <1>5 DEF PruneRange, redisVars
  <2>3. pc'[w] # "prune_range" /\ ids'[w] = Lowest(S, excess[w])
    BY <1>5 DEF PruneRange, TypeOK
  <2>4. excess[w] + MaxSessionsPerProject <= Cardinality(S)
    BY <1>5 DEF PruneRange, Surplus
  <2> HIDE DEF S
  <2>5. \A s \in ids'[w] : s \in S /\ Cardinality({t \in S : t > s}) >= MaxSessionsPerProject
    BY <2>1, <2>3, <2>4, HigherCount, LowestSubset, BoundAssumption
  <2>6. QED
    BY <1>2, <1>3, <2>2, <2>3, <2>5 DEF Surplus
<1>6. CASE PruneDel(w)
  <2>1. /\ pc[w] = "prune_del" /\ ids'[w] \subseteq ids[w] /\ excess' = excess /\ index' = index
        /\ pc'[w] \in {"prune_del", "prune_rem"}
    BY <1>6 DEF PruneDel, TypeOK
  <2>2. \A v \in Worker : held[v] = held'[v] /\ object'[held[v]] = object[held[v]]
    BY <1>1
  <2>3. QED
    BY <1>2, <1>3, <2>1, <2>2, QuietSurplus DEF Surplus
<1>7. CASE ~PruneCount(w) /\ ~PruneRange(w) /\ ~PruneDel(w)
  <2>1. pc'[w] \notin {"prune_range", "prune_del"}
    BY <1>7, AfterErrorType DEF MaintenanceStep, MaintThrottle, PruneRem,
       OrphanScan, OrphanExists, OrphanRem, Mark, MarkTTL, MaintenanceFails, TypeOK
  <2>2. QED
    BY <1>2, <1>3, <2>1 DEF Surplus
<1>8. QED
  BY <1>4, <1>5, <1>6, <1>7

LEMMA NextSurplus ==
  ASSUME OnePruner, TypeOK, TypeOK', Ownership, Filed, Surplus, [Next]_vars
  PROVE  Filed' /\ Surplus'
<1>1. ASSUME NEW w \in Worker, NEW p \in Project, StartSession(w, p) PROVE Filed' /\ Surplus'
  <2>1. \A v \in Worker : pc'[v] = IF v = w THEN "start_read" ELSE pc[v]
    BY <1>1 DEF StartSession, TypeOK
  <2>2. \A v \in Worker \ {w} : held'[v] = held[v]
    BY <1>1 DEF StartSession, TypeOK
  <2>3. index' = index /\ excess' = excess /\ ids' = ids /\ "start" \in Can[w]
    BY <1>1 DEF StartSession, redisVars
  <2>4. \A v \in Worker : pc[v] \in {"prune_range", "prune_del"} => held[v] # None
    BY DEF TypeOK
  <2>5. QED
    BY <1>1, <2>1, <2>2, <2>3, <2>4, StartFiled, QuietSurplus
<1>2. ASSUME NEW w \in Worker, SavesOnly(w) PROVE Filed' /\ Surplus'
  <2>1. \A v \in Worker : pc'[v] \in {"prune_range", "prune_del"} => v # w
    BY <1>2 DEF SavesOnly, MaintenanceLabel
  <2>2. \A v \in Worker : pc[v] \in {"prune_range", "prune_del"} => held[v] \in Session
    BY HeldSession
  <2>3. \A v \in Worker : pc'[v] \in {"prune_range", "prune_del"} =>
           /\ pc'[v] = pc[v] /\ held'[v] = held[v]
           /\ excess'[v] = excess[v] /\ ids'[v] = ids[v]
           /\ object'[held[v]].project = object[held[v]].project
    BY <1>2, <2>1, <2>2 DEF SavesOnly
  <2>4. \A v \in Worker : pc'[v] \in StartLabel => pc[v] \in StartLabel
    BY <1>2 DEF SavesOnly
  <2>5. QED
    BY <1>2, <2>3, <2>4, SavesFiled, QuietSurplus DEF SavesOnly
<1>3. ASSUME NEW w \in Worker, MaintenanceStep(w) PROVE Filed' /\ Surplus'
  <2>1. Filed'
    BY <1>3, MaintenanceIndex, MaintenanceFrame DEF Filed
  <2>2. QED
    BY <1>3, <2>1, MaintenanceSurplus
<1>4. ASSUME NEW srv \in Server, Crash(srv) PROVE Filed' /\ Surplus'
  <2>1. index' = index /\ object' = object /\ lastId' = lastId
    BY <1>4 DEF Crash, redisVars
  <2>2. \A v \in Worker : pc'[v] # "idle" =>
          pc'[v] = pc[v] /\ held'[v] = held[v] /\ excess'[v] = excess[v] /\ ids'[v] = ids[v]
    BY <1>4 DEF Crash
  <2>3. "idle" \notin StartLabel
    BY DEF StartLabel, MaintenanceLabel
  <2>4. QED
    BY <2>1, <2>2, <2>3, QuietSurplus DEF Filed
<1>5. ASSUME index' = index, object' = object, lastId' = lastId, pc' = pc, held' = held,
             excess' = excess, ids' = ids
      PROVE  Filed' /\ Surplus'
  BY <1>5, QuietSurplus DEF Filed
<1>6. ASSUME NEW p \in Project, ThrottleExpires(p) PROVE Filed' /\ Surplus'
  BY <1>5, <1>6 DEF ThrottleExpires, heapVars, callVars
<1>7. ASSUME UNCHANGED vars PROVE Filed' /\ Surplus'
  BY <1>5, <1>7 DEF vars
<1>8. QED
  BY <1>1, <1>2, <1>3, <1>4, <1>6, <1>7, StartStepSaves, EndStepSaves DEF Next

\* Which records maintenance deletes.
LEMMA MaintenanceHash ==
  ASSUME TypeOK, NEW w \in Worker, MaintenanceStep(w), NEW s \in Session,
         hash[s] # "absent", hash'[s] = "absent"
  PROVE  pc[w] = "prune_del" /\ s \in ids[w]
<1>1. CASE PruneDel(w)
  BY <1>1, LowestSubset DEF PruneDel, TypeOK
<1>2. CASE MaintThrottle(w) \/ PruneCount(w) \/ PruneRange(w)
  BY <1>2 DEF MaintThrottle, PruneCount, PruneRange, redisVars
<1>3. CASE OrphanScan(w) \/ OrphanExists(w) \/ MaintenanceFails(w)
  BY <1>3 DEF OrphanScan, OrphanExists, MaintenanceFails, redisVars
<1>4. CASE PruneRem(w) \/ OrphanRem(w) \/ Mark(w) \/ MarkTTL(w)
  BY <1>4 DEF PruneRem, OrphanRem, Mark, MarkTTL
<1>5. QED
  BY <1>1, <1>2, <1>3, <1>4 DEF MaintenanceStep

\* Only maintenance deletes records.
LEMMA RecordsStay ==
  ASSUME TypeOK, [Next]_vars, NEW s \in Session, hash[s] # "absent", hash'[s] = "absent"
  PROVE  \E w \in Worker : MaintenanceStep(w)
<1>1. ASSUME NEW w \in Worker, NEW p \in Project, StartSession(w, p) PROVE FALSE
  BY <1>1 DEF StartSession, redisVars
<1>2. ASSUME NEW w \in Worker, SavesOnly(w) PROVE FALSE
  BY <1>2 DEF SavesOnly
<1>3. ASSUME NEW srv \in Server, Crash(srv) PROVE FALSE
  BY <1>3 DEF Crash, redisVars
<1>4. ASSUME NEW p \in Project, ThrottleExpires(p) PROVE FALSE
  BY <1>4 DEF ThrottleExpires
<1>5. ASSUME UNCHANGED vars PROVE FALSE
  BY <1>5 DEF vars
<1>6. QED
  BY <1>1, <1>2, <1>3, <1>4, <1>5, StartStepSaves, EndStepSaves DEF Next

\* Maintenance deletes no session while fewer than max_sessions_per_project newer ones
\* are indexed, whatever hooks and end_session calls do meanwhile and whatever fails:
\* if one worker starts all sessions.
THEOREM PrunesOldOnly ==
  ASSUME OnePruner
  PROVE  Spec => PrunedIsOld
<1> DEFINE Clear == TypeOK /\ Ownership /\ Filed /\ Surplus
           Old == \A s \in Session :
                    hash[s] # "absent" /\ hash'[s] = "absent" =>
                      Cardinality({t \in index[ProjectOf(s)] : t > s}) >= MaxSessionsPerProject
<1>1. Init => Clear
  BY InitType, InitOwnership, InitFiled
<1>2. Clear /\ [Next]_vars => Clear'
  BY NextType, NextOwnership, NextSurplus
<1>3. Clear /\ [Next]_vars => Old
  <2> SUFFICES ASSUME Clear, [Next]_vars, NEW s \in Session, hash[s] # "absent", hash'[s] = "absent"
               PROVE  Cardinality({t \in index[ProjectOf(s)] : t > s}) >= MaxSessionsPerProject
    OBVIOUS
  <2>1. PICK w \in Worker : MaintenanceStep(w)
    BY RecordsStay
  <2>2. pc[w] = "prune_del" /\ s \in ids[w]
    BY <2>1, MaintenanceHash
  <2>3. s \in IndexOf(w) /\ Cardinality({t \in IndexOf(w) : t > s}) >= MaxSessionsPerProject
    BY <2>2 DEF Surplus
  <2>4. ProjectOf(held[w]) \in Project
    BY <2>2, HeldSession
  <2>5. ProjectOf(s) = ProjectOf(held[w])
    BY <2>3, <2>4 DEF Filed
  <2>6. QED
    BY <2>3, <2>5
<1>4. Clear /\ [Next]_vars => [Old]_vars
  BY <1>3
<1> HIDE DEF Clear
<1>5. Spec => [][Old]_vars
  BY <1>1, <1>2, <1>4, PTL DEF Spec
<1>6. QED
  BY <1>5, PTL DEF PrunedIsOld

-----------------------------------------------------------------------------
(***************************************************************************)
(* One client with one call at a time.  Nothing changes between the        *)
(* commands of its maintenance, so what a command has read is still so     *)
(* when the next one acts on it.                                           *)
(***************************************************************************)
OneWorker == \A v, w \in Worker : v = w

\* An entry is taken out of a sorted set when its record is gone: what is to be
\* pruned is deleted already, or still to come.
Pruned ==
  \A w \in Worker :
    /\ At(w, "prune_del") =>
         \A s \in Lowest(IndexOf(w), excess[w]) \ ids[w] : hash[s] = "absent"
    /\ At(w, "prune_rem") => \A s \in Lowest(IndexOf(w), excess[w]) : hash[s] = "absent"
    /\ At(w, "orphan_rem") => \A s \in ids[w] : hash[s] = "absent"

PruneLabel == {"prune_del", "prune_rem", "orphan_rem"}

LEMMA MaintenancePruned ==
  ASSUME OneWorker, TypeOK, Pruned, NEW w \in Worker, MaintenanceStep(w)
  PROVE  Pruned'
<1>1. held' = held /\ object' = object /\ Worker = {w}
  BY MaintenanceFrame DEF OneWorker
<1>2. CASE PruneRange(w)
  <2>1. /\ ids'[w] = Lowest(IndexOf(w), excess[w])
        /\ pc'[w] \in {"orphan_scan", "prune_del"}
        /\ excess' = excess /\ IndexOf(w)' = IndexOf(w)
    BY <1>1, <1>2 DEF PruneRange, TypeOK, redisVars
  <2>2. QED
    BY <1>1, <2>1 DEF Pruned
<1>3. CASE PruneDel(w)
  <2>1. PICK d \in ids[w] : /\ hash' = [hash EXCEPT ![d] = "absent"]
                            /\ ids' = [ids EXCEPT ![w] = @ \ {d}]
    BY <1>3, LowestSubset DEF PruneDel
  <2>2. /\ d \in Session /\ hash'[d] = "absent" /\ ids'[w] = ids[w] \ {d}
        /\ \A s \in Session : hash[s] = "absent" => hash'[s] = "absent"
    BY <2>1 DEF TypeOK
  <2>3. Lowest(IndexOf(w), excess[w]) \subseteq Session
    BY <1>3, HeldSession, LowestSubset DEF PruneDel
  <2>4. \A s \in Lowest(IndexOf(w), excess[w]) \ ids'[w] : hash'[s] = "absent"
    BY <1>3, <2>2, <2>3 DEF PruneDel, Pruned
  <2>5. /\ excess' = excess /\ IndexOf(w)' = IndexOf(w)
        /\ pc'[w] = IF ids'[w] = {} THEN "prune_rem" ELSE "prune_del"
    BY <1>1, <1>3 DEF PruneDel, TypeOK
  <2>6. QED
    BY <1>1, <2>4, <2>5 DEF Pruned
<1>4. CASE OrphanExists(w)
  <2>1. /\ ids'[w] = {s \in ids[w] : hash[s] = "absent"} /\ hash' = hash
        /\ pc'[w] \in {"mark", "orphan_rem"}
    BY <1>4 DEF OrphanExists, TypeOK, redisVars
  <2>2. QED
    BY <1>1, <2>1 DEF Pruned
<1>5. CASE ~PruneRange(w) /\ ~PruneDel(w) /\ ~OrphanExists(w)
  <2>1. pc'[w] \notin PruneLabel
    BY <1>5, AfterErrorType DEF MaintenanceStep, MaintThrottle, PruneCount, PruneRem,
       OrphanScan, OrphanRem, Mark, MarkTTL, MaintenanceFails, TypeOK, PruneLabel
  <2>2. QED
    BY <1>1, <2>1 DEF Pruned, PruneLabel
<1>6. QED
  BY <1>2, <1>3, <1>4, <1>5

LEMMA NextPruned == OneWorker /\ TypeOK /\ Pruned /\ [Next]_vars => Pruned'
<1> SUFFICES ASSUME OneWorker, TypeOK, Pruned, [Next]_vars PROVE Pruned'
  OBVIOUS
<1>1. ASSUME NEW w \in Worker, pc'[w] \notin PruneLabel PROVE Pruned'
  BY <1>1 DEF OneWorker, Pruned, PruneLabel
<1>2. ASSUME NEW w \in Worker, NEW p \in Project, StartSession(w, p) PROVE Pruned'
  <2>1. pc'[w] = "start_read"
    BY <1>2 DEF StartSession, TypeOK
  <2>2. QED
    BY <1>1, <2>1 DEF PruneLabel
<1>3. ASSUME NEW w \in Worker, SavesOnly(w) PROVE Pruned'
  <2>1. pc'[w] \notin PruneLabel
    BY <1>3 DEF SavesOnly, PruneLabel, MaintenanceLabel
  <2>2. QED
    BY <1>1, <2>1
<1>4. ASSUME NEW w \in Worker, MaintenanceStep(w) PROVE Pruned'
  BY <1>4, MaintenancePruned
<1>5. ASSUME index' = index, object' = object, hash' = hash, pc' = pc, held' = held,
             excess' = excess, ids' = ids
      PROVE  Pruned'
  BY <1>5 DEF Pruned
<1>6. ASSUME NEW p \in Project, ThrottleExpires(p) PROVE Pruned'
  BY <1>5, <1>6 DEF ThrottleExpires, heapVars, callVars
<1>7. ASSUME NEW srv \in Server, Crash(srv) PROVE Pruned'
  <2>1. \A w \in Worker : pc'[w] \in PruneLabel =>
          pc'[w] = pc[w] /\ held'[w] = held[w] /\ excess'[w] = excess[w] /\ ids'[w] = ids[w]
    BY <1>7 DEF Crash, PruneLabel
  <2>2. index' = index /\ object' = object /\ hash' = hash
    BY <1>7 DEF Crash, redisVars
  <2>3. QED
    BY <2>1, <2>2 DEF Pruned, PruneLabel
<1>8. ASSUME UNCHANGED vars PROVE Pruned'
  BY <1>5, <1>8 DEF vars
<1>9. QED
  BY <1>2, <1>3, <1>4, <1>6, <1>7, <1>8, StartStepSaves, EndStepSaves DEF Next

\* Whatever fails between the commands of a maintenance, a session leaves the sorted
\* set of its project only when its record is gone: for one client.
THEOREM UnindexesGoneOnly ==
  ASSUME OneWorker
  PROVE  Spec => UnindexedIsGone
<1> DEFINE Clear == TypeOK /\ Pruned
           Gone == \A s \in Session :
                     s \in index[ProjectOf(s)] /\ s \notin index'[ProjectOf(s)] => hash'[s] = "absent"
<1>1. Init => Clear
  BY InitType DEF Init, Pruned
<1>2. Clear /\ [Next]_vars => Clear'
  BY NextType, NextPruned
<1>3. Clear /\ [Next]_vars => Gone
  <2> SUFFICES ASSUME Clear, [Next]_vars, NEW s \in Session,
                      s \in index[ProjectOf(s)], s \notin index'[ProjectOf(s)]
               PROVE  hash'[s] = "absent"
    OBVIOUS
  <2>1. ProjectOf(s) \in Project
    BY DEF TypeOK
  <2>2. ASSUME NEW w \in Worker, MaintenanceStep(w) PROVE hash'[s] = "absent"
    <3>1. PruneRem(w) \/ OrphanRem(w)
      <4>1. pc[w] \in {"prune_rem", "orphan_rem"}
        BY <2>1, <2>2, MaintenanceIndex
      <4>2. index' # index
        BY <2>1
      <4>3. ~MaintenanceFails(w)
        BY <4>2 DEF MaintenanceFails, redisVars
      <4>4. QED
        BY <2>2, <4>1, <4>3 DEF MaintenanceStep, MaintThrottle, PruneCount, PruneRange, PruneDel,
           OrphanScan, OrphanExists, Mark, MarkTTL
    <3>2. ProjectOf(held[w]) \in Project
      BY <3>1, HeldSession DEF PruneRem, OrphanRem
    <3>3. CASE PruneRem(w)
      <4>1. index' = [index EXCEPT ![ProjectOf(held[w])] = IndexOf(w) \ Lowest(IndexOf(w), excess[w])]
        BY <3>3 DEF PruneRem
      <4>2. s \in Lowest(IndexOf(w), excess[w])
        BY <2>1, <3>2, <4>1 DEF TypeOK
      <4>3. QED
        BY <3>3, <4>2 DEF PruneRem, Pruned
    <3>4. CASE OrphanRem(w)
      <4>1. index' = [index EXCEPT ![ProjectOf(held[w])] = IndexOf(w) \ ids[w]]
        BY <3>4 DEF OrphanRem
      <4>2. s \in ids[w]
        BY <2>1, <3>2, <4>1 DEF TypeOK
      <4>3. QED
        BY <3>4, <4>2 DEF OrphanRem, Pruned
    <3>5. QED
      BY <3>1, <3>3, <3>4
  <2>3. ASSUME NEW w \in Worker, NEW p \in Project, StartSession(w, p) PROVE FALSE
    BY <2>3 DEF StartSession, redisVars
  <2>4. ASSUME NEW w \in Worker, SavesOnly(w) PROVE FALSE
    BY <2>1, <2>4 DEF SavesOnly
  <2>5. ASSUME NEW srv \in Server, Crash(srv) PROVE FALSE
    BY <2>5 DEF Crash, redisVars
  <2>6. ASSUME NEW p \in Project, ThrottleExpires(p) PROVE FALSE
    BY <2>6 DEF ThrottleExpires
  <2>7. ASSUME UNCHANGED vars PROVE FALSE
    BY <2>7 DEF vars
  <2>8. QED
    BY <2>2, <2>3, <2>4, <2>5, <2>6, <2>7, StartStepSaves, EndStepSaves DEF Next
<1>4. Clear /\ [Next]_vars => [Gone]_vars
  BY <1>3
<1> HIDE DEF Clear
<1>5. Spec => [][Gone]_vars
  BY <1>1, <1>2, <1>4, PTL DEF Spec
<1>6. QED
  BY <1>5 DEF UnindexedIsGone

(***************************************************************************)
(* What maintenance has achieved when it marks the project as done.        *)
(***************************************************************************)
CapLabel == {"orphan_scan", "orphan_exists", "orphan_rem", "mark"}
TidyLabel == {"prune_range", "prune_del", "prune_rem"} \cup CapLabel

\* The surplus is counted until it is pruned; afterwards the cap holds, and the
\* entries to be removed are those without a record.
Tidy ==
  \A w \in Worker :
    /\ pc[w] \in {"prune_range", "prune_del", "prune_rem"} =>
         excess[w] # 0 /\ excess[w] + MaxSessionsPerProject = Cardinality(IndexOf(w))
    /\ pc[w] \in CapLabel => Cardinality(IndexOf(w)) <= MaxSessionsPerProject
    /\ At(w, "orphan_exists") => ids[w] = IndexOf(w)
    /\ At(w, "orphan_rem") => ids[w] = {s \in IndexOf(w) : hash[s] = "absent"}
    /\ At(w, "mark") => \A s \in IndexOf(w) : hash[s] # "absent"

\* Without the surplus, as many are left as the cap allows.
LEMMA PruneToCap ==
  ASSUME NEW S \in SUBSET Session, NEW k \in Nat, k + MaxSessionsPerProject = Cardinality(S)
  PROVE  Cardinality(S \ Lowest(S, k)) <= MaxSessionsPerProject
<1> DEFINE L == Lowest(S, k)
<1>1. L \in SUBSET Session /\ L \subseteq S
  BY LowestSubset
<1>2. Cardinality(L) >= k
  <2>1. k <= Cardinality(S)
    BY BoundAssumption
  <2>2. QED
    BY <2>1, LowestCount
<1> HIDE DEF L
<1>3. IsFiniteSet(S) /\ Cardinality(S) \in Nat /\ Cardinality(L) \in Nat
  BY <1>1, SessionCount
<1>4. S \cap L = L
  BY <1>1
<1>5. Cardinality(S \ L) = Cardinality(S) - Cardinality(S \cap L)
  BY <1>3, FS_Difference
<1>6. Cardinality(S \ L) = Cardinality(S) - Cardinality(L)
  BY <1>4, <1>5
<1>7. Cardinality(S \ L) <= MaxSessionsPerProject
  BY <1>2, <1>3, <1>6, BoundAssumption
<1>8. QED
  BY <1>7 DEF L

LEMMA MaintenanceTidies ==
  ASSUME OneWorker, "redis" \notin Faults, TypeOK, Tidy, NEW w \in Worker, MaintenanceStep(w)
  PROVE  Tidy'
<1>1. held' = held /\ object' = object /\ Worker = {w}
  BY MaintenanceFrame DEF OneWorker
<1>2. pc[w] \in MaintenanceLabel
  BY MaintenanceFrame
<1> DEFINE S == IndexOf(w)
<1>3. S \in SUBSET Session /\ Cardinality(S) \in Nat /\ excess[w] \in Nat
  <2>1. S \in SUBSET Session
    BY <1>2, HeldSession DEF MaintenanceLabel
  <2>2. QED
    BY <2>1, SessionCount DEF TypeOK
<1>4. CASE MaintThrottle(w) \/ MarkTTL(w) \/ Mark(w)
  <2>1. pc'[w] \notin TidyLabel
    BY <1>4 DEF MaintThrottle, MarkTTL, Mark, TypeOK, TidyLabel, CapLabel
  <2>2. QED
    BY <1>1, <2>1 DEF Tidy, TidyLabel, CapLabel
<1>5. CASE PruneCount(w)
  <2>1. IndexOf(w)' = S
    BY <1>1, <1>5 DEF PruneCount, redisVars
  <2>2. CASE Cardinality(S) <= MaxSessionsPerProject
    <3>1. pc'[w] = "orphan_scan"
      BY <1>5, <2>2 DEF PruneCount, TypeOK
    <3>2. QED
      BY <1>1, <2>1, <2>2, <3>1 DEF Tidy, CapLabel
  <2>3. CASE ~(Cardinality(S) <= MaxSessionsPerProject)
    <3>1. pc'[w] = "prune_range" /\ excess'[w] = Cardinality(S) - MaxSessionsPerProject
      BY <1>5, <2>3 DEF PruneCount, TypeOK
    <3> HIDE DEF S
    <3>2. excess'[w] # 0 /\ excess'[w] + MaxSessionsPerProject = Cardinality(S)
      BY <1>3, <2>3, <3>1, BoundAssumption
    <3>3. QED
      BY <1>1, <2>1, <3>1, <3>2 DEF Tidy, CapLabel
  <2>4. QED
    BY <2>2, <2>3
<1>6. CASE PruneRange(w)
  <2>1. excess[w] # 0 /\ excess[w] + MaxSessionsPerProject = Cardinality(S)
    BY <1>6 DEF PruneRange, Tidy
  <2>2. IndexOf(w)' = S /\ excess' = excess
    BY <1>1, <1>6 DEF PruneRange, redisVars
  <2>3. Lowest(S, excess[w]) # {}
    <3> HIDE DEF S
    <3>1. excess[w] <= Cardinality(S)
      BY <1>3, <2>1, BoundAssumption
    <3>2. Cardinality(Lowest(S, excess[w])) >= excess[w]
      BY <1>3, <3>1, LowestCount
    <3>3. Cardinality({}) = 0
      BY FS_EmptySet
    <3>4. QED
      BY <1>3, <2>1, <3>2, <3>3
  <2>4. pc'[w] = "prune_del"
    BY <1>6, <2>3 DEF PruneRange, TypeOK
  <2>5. QED
    BY <1>1, <2>1, <2>2, <2>4 DEF Tidy, CapLabel
<1>7. CASE PruneDel(w)
  <2>1. IndexOf(w)' = S /\ excess' = excess /\ pc'[w] \in {"prune_del", "prune_rem"}
    BY <1>1, <1>7 DEF PruneDel, TypeOK
  <2>2. excess[w] # 0 /\ excess[w] + MaxSessionsPerProject = Cardinality(S)
    BY <1>7 DEF PruneDel, Tidy
  <2>3. QED
    BY <1>1, <2>1, <2>2 DEF Tidy, CapLabel
<1>8. CASE PruneRem(w)
  <2>1. IndexOf(w)' = S \ Lowest(S, excess[w]) /\ pc'[w] = "orphan_scan"
    BY <1>1, <1>8, HeldSession DEF PruneRem, TypeOK
  <2>2. excess[w] + MaxSessionsPerProject = Cardinality(S)
    BY <1>8 DEF PruneRem, Tidy
  <2> HIDE DEF S
  <2>3. Cardinality(S \ Lowest(S, excess[w])) <= MaxSessionsPerProject
    BY <1>3, <2>2, PruneToCap
  <2>4. QED
    BY <1>1, <2>1, <2>3 DEF Tidy, CapLabel
<1>9. CASE OrphanScan(w)
  <2>1. /\ IndexOf(w)' = S /\ ids'[w] = S
        /\ pc'[w] = IF S = {} THEN "mark" ELSE "orphan_exists"
    BY <1>1, <1>9 DEF OrphanScan, redisVars, TypeOK
  <2>2. Cardinality(S) <= MaxSessionsPerProject
    BY <1>9 DEF OrphanScan, Tidy, CapLabel
  <2>3. QED
    BY <1>1, <2>1, <2>2 DEF Tidy, CapLabel
<1>10. CASE OrphanExists(w)
  <2>1. /\ IndexOf(w)' = S /\ hash' = hash /\ ids'[w] = {s \in ids[w] : hash[s] = "absent"}
        /\ pc'[w] = IF ids'[w] = {} THEN "mark" ELSE "orphan_rem"
    BY <1>1, <1>10 DEF OrphanExists, redisVars, TypeOK
  <2>2. Cardinality(S) <= MaxSessionsPerProject /\ ids[w] = S
    BY <1>10 DEF OrphanExists, Tidy, CapLabel
  <2>3. QED
    BY <1>1, <2>1, <2>2 DEF Tidy, CapLabel
<1>11. CASE OrphanRem(w)
  <2>1. IndexOf(w)' = S \ ids[w] /\ hash' = hash /\ pc'[w] = "mark"
    BY <1>1, <1>11, HeldSession DEF OrphanRem, TypeOK
  <2>2. Cardinality(S) <= MaxSessionsPerProject /\ ids[w] = {s \in S : hash[s] = "absent"}
    BY <1>11 DEF OrphanRem, Tidy, CapLabel
  <2> HIDE DEF S
  <2>3. S \ ids[w] \subseteq S
    OBVIOUS
  <2>4. Cardinality(S \ ids[w]) <= Cardinality(S) /\ Cardinality(S \ ids[w]) \in Nat
    BY <1>3, <2>3, SessionCount, FS_Subset
  <2>5. Cardinality(S \ ids[w]) <= MaxSessionsPerProject
    BY <1>3, <2>2, <2>4, BoundAssumption
  <2>6. \A s \in S \ ids[w] : hash[s] # "absent"
    BY <2>2
  <2>7. QED
    BY <1>1, <2>1, <2>5, <2>6 DEF Tidy, CapLabel
<1>12. ~MaintenanceFails(w)
  BY DEF MaintenanceFails
<1>13. QED
  BY <1>4, <1>5, <1>6, <1>7, <1>8, <1>9, <1>10, <1>11, <1>12 DEF MaintenanceStep

LEMMA NextTidy ==
  OneWorker /\ "redis" \notin Faults /\ TypeOK /\ Tidy /\ [Next]_vars => Tidy'
<1> SUFFICES ASSUME OneWorker, "redis" \notin Faults, TypeOK, Tidy, [Next]_vars PROVE Tidy'
  OBVIOUS
<1>1. ASSUME NEW w \in Worker, pc'[w] \notin TidyLabel PROVE Tidy'
  BY <1>1 DEF OneWorker, Tidy, TidyLabel, CapLabel
<1>2. ASSUME NEW w \in Worker, NEW p \in Project, StartSession(w, p) PROVE Tidy'
  <2>1. pc'[w] = "start_read"
    BY <1>2 DEF StartSession, TypeOK
  <2>2. QED
    BY <1>1, <2>1 DEF TidyLabel, CapLabel
<1>3. ASSUME NEW w \in Worker, SavesOnly(w) PROVE Tidy'
  <2>1. pc'[w] \notin TidyLabel
    BY <1>3 DEF SavesOnly, TidyLabel, CapLabel, MaintenanceLabel
  <2>2. QED
    BY <1>1, <2>1
<1>4. ASSUME NEW w \in Worker, MaintenanceStep(w) PROVE Tidy'
  BY <1>4, MaintenanceTidies
<1>5. ASSUME index' = index, object' = object, hash' = hash, pc' = pc, held' = held,
             excess' = excess, ids' = ids
      PROVE  Tidy'
  BY <1>5 DEF Tidy
<1>6. ASSUME NEW p \in Project, ThrottleExpires(p) PROVE Tidy'
  BY <1>5, <1>6 DEF ThrottleExpires, heapVars, callVars
<1>7. ASSUME NEW srv \in Server, Crash(srv) PROVE Tidy'
  <2>1. \A w \in Worker : pc'[w] \in TidyLabel =>
          pc'[w] = pc[w] /\ held'[w] = held[w] /\ excess'[w] = excess[w] /\ ids'[w] = ids[w]
    BY <1>7 DEF Crash, TidyLabel, CapLabel
  <2>2. index' = index /\ object' = object /\ hash' = hash
    BY <1>7 DEF Crash, redisVars
  <2>3. QED
    BY <2>1, <2>2 DEF Tidy, TidyLabel, CapLabel
<1>8. ASSUME UNCHANGED vars PROVE Tidy'
  BY <1>5, <1>8 DEF vars
<1>9. QED
  BY <1>2, <1>3, <1>4, <1>6, <1>7, <1>8, StartStepSaves, EndStepSaves DEF Next

\* When maintenance marks a project as done, no more sessions are indexed than the cap
\* allows and each has its record, whatever crashes have left behind: for one client
\* that Redis answers.
THEOREM MaintainsCap ==
  ASSUME OneWorker, "redis" \notin Faults
  PROVE  Spec => []MaintenanceDone
<1>1. Init => Tidy
  BY DEF Init, Tidy, CapLabel
<1>2. Tidy => MaintenanceDone
  BY DEF Tidy, MaintenanceDone, CapLabel
<1>3. QED
  BY <1>1, <1>2, NextTidy, TypeCorrect, PTL DEF Spec
=============================================================================
