------------------------ MODULE ProjectDirectory_proofs ------------------------
(***************************************************************************)
(* Theorems about ProjectDirectory, for any workers, projects, memories    *)
(* and sessions, any batch and any faults.                                 *)
(***************************************************************************)
EXTENDS ProjectDirectory, FiniteSetTheorems, TLAPS

RenameLabel ==
  {"search", "move", "entries", "session_hash", "session_add", "session_del",
   "list_rem", "list_add"}
SaveLabel ==
  {"start_hash", "start_index", "start_list", "end_hash", "end_index", "end_list"}
SessionLabel == SaveLabel \cup {"count", "zcard", "unlist"}

(***************************************************************************)
(* Type correctness.  TypeOK is not inductive: it lets a call have no      *)
(* project, the keys of a SaveSession be memories, and the session of a    *)
(* slot have no struct.  SharedOK adds to the types of the shared state    *)
(* what a slot means, LocalsOK adds to those of the handlers' variables    *)
(* what a call has been given at each of its steps.                        *)
(***************************************************************************)
SharedOK ==
  /\ memory \in [Memory -> Project \cup {Absent}] /\ known \subseteq Memory
  /\ session \in [Session -> Project \cup {Absent}]
  /\ index \in [Project -> SUBSET Session] /\ projects \subseteq Project
  /\ origin \in [Session -> Project \cup {Absent}]
  /\ active \in [Worker -> Session \cup {Absent}]
  /\ \A w \in Worker : active[w] # Absent => origin[active[w]] \in Project
  /\ broken \subseteq Project

LocalsOK ==
  /\ pc \in [Worker -> Label]
  /\ old \in [Worker -> Project \cup {Absent}] /\ new \in [Worker -> Project \cup {Absent}]
  /\ ids \in [Worker -> SUBSET (Memory \cup Session)]
  /\ entries \in [Worker -> SUBSET (Memory \cup Session)]
  /\ round \in [Worker -> 0 .. MaxIterations]
  /\ scope \in [Worker -> SUBSET Memory]
  /\ \A w \in Worker :
       /\ pc[w] # "idle" => old[w] \in Project
       /\ pc[w] \in RenameLabel => new[w] \in Project
       /\ pc[w] \in SaveLabel \cup {"session_hash"} => ids[w] \subseteq Session
       /\ pc[w] \in {"session_hash", "session_add"} => entries[w] \subseteq Session

TypeInv == SharedOK /\ LocalsOK

USE DEF At, Goto, redis, heap, locals

LEMMA TypeInvImplies == TypeInv => TypeOK
  BY DEF TypeInv, SharedOK, LocalsOK, TypeOK

LEMMA InitType == Init => TypeInv
<1> SUFFICES ASSUME Init PROVE TypeInv
  OBVIOUS
<1>1. SharedOK
  BY DEF Init, SharedOK
<1>2. LocalsOK
  BY BatchAssumption DEF Init, LocalsOK, Label, RenameLabel, SaveLabel
<1>3. QED
  BY <1>1, <1>2 DEF TypeInv

\* A call that returns leaves its variables in order.
LEMMA ReturnType ==
  ASSUME TypeInv, NEW w \in Worker, Return(w)
  PROVE  LocalsOK'
<1>1. /\ pc' \in [Worker -> Label]
      /\ old' \in [Worker -> Project \cup {Absent}]
      /\ new' \in [Worker -> Project \cup {Absent}]
  BY DEF TypeInv, LocalsOK, Return, Label
<1>2. /\ ids' \in [Worker -> SUBSET (Memory \cup Session)]
      /\ entries' \in [Worker -> SUBSET (Memory \cup Session)]
      /\ scope' \in [Worker -> SUBSET Memory]
  BY DEF TypeInv, LocalsOK, Return
<1>3. round' \in [Worker -> 0 .. MaxIterations]
  BY BatchAssumption DEF TypeInv, LocalsOK, Return
<1>4. \A v \in Worker :
        \/ pc'[v] = "idle"
        \/ /\ pc'[v] = pc[v] /\ old'[v] = old[v] /\ new'[v] = new[v]
           /\ ids'[v] = ids[v] /\ entries'[v] = entries[v]
  BY DEF TypeInv, LocalsOK, Return
<1>5. QED
  BY <1>1, <1>2, <1>3, <1>4 DEF TypeInv, LocalsOK, RenameLabel, SaveLabel

\* A call that goes on without writing its variables.
LEMMA GoOnType ==
  ASSUME TypeInv, NEW w \in Worker, NEW label \in Label, Goto(w, label),
         UNCHANGED locals, pc[w] # "idle", label \notin {"session_hash"},
         label \in RenameLabel => pc[w] \in RenameLabel,
         label \in SaveLabel => pc[w] \in SaveLabel,
         label = "session_add" => pc[w] = "session_hash"
  PROVE  LocalsOK'
  BY DEF TypeInv, LocalsOK, RenameLabel, SaveLabel

LEMMA StoreStepType ==
  ASSUME TypeInv, NEW w \in Worker, StoreStep(w)
  PROVE  TypeInv'
<1>1. CASE StoreHash(w)
  <2>1. SharedOK'
    BY <1>1 DEF TypeInv, SharedOK, LocalsOK, StoreHash
  <2>2. LocalsOK'
    BY <1>1, GoOnType DEF StoreHash, Label, RenameLabel, SaveLabel
  <2>3. QED
    BY <2>1, <2>2 DEF TypeInv
<1>2. CASE StoreList(w)
  <2>1. SharedOK'
    BY <1>2 DEF TypeInv, SharedOK, LocalsOK, StoreList
  <2>2. LocalsOK'
    BY <1>2, ReturnType DEF StoreList
  <2>3. QED
    BY <2>1, <2>2 DEF TypeInv
<1>3. QED
  BY <1>1, <1>2 DEF StoreStep

LEMMA ForgetStepType ==
  ASSUME TypeInv, NEW w \in Worker, ForgetStep(w)
  PROVE  TypeInv'
<1>1. CASE ForgetSearch(w)
  <2>1. SharedOK'
    BY <1>1 DEF TypeInv, SharedOK, LocalsOK, ForgetSearch, Return
  <2>2. LocalsOK'
    <3>1. CASE Return(w)
      BY <3>1, ReturnType
    <3>2. ASSUME ~Return(w) PROVE LocalsOK'
      <4>1. PICK B \in SUBSET Memory :
              /\ Goto(w, "forget_del") /\ round[w] # MaxIterations
              /\ ids' = [ids EXCEPT ![w] = B] /\ entries' = [entries EXCEPT ![w] = {}]
              /\ round' = [round EXCEPT ![w] = @ + 1]
              /\ UNCHANGED <<old, new, scope>>
        BY <1>1, <3>2 DEF ForgetSearch, Batches, MemoriesOf
      <4>2. round' \in [Worker -> 0 .. MaxIterations]
        BY <4>1, BatchAssumption DEF TypeInv, LocalsOK
      <4>3. QED
        BY <1>1, <4>1, <4>2 DEF TypeInv, LocalsOK, Label, RenameLabel, SaveLabel, ForgetSearch
    <3>3. QED
      BY <3>1, <3>2
  <2>3. QED
    BY <2>1, <2>2 DEF TypeInv
<1>2. CASE ForgetDel(w)
  <2>1. SharedOK'
    BY <1>2 DEF TypeInv, SharedOK, LocalsOK, ForgetDel
  <2>2. LocalsOK'
    BY <1>2 DEF TypeInv, SharedOK, LocalsOK, Label, RenameLabel, SaveLabel, ForgetDel
  <2>3. QED
    BY <2>1, <2>2 DEF TypeInv
<1>3. CASE ForgetDeleted(w)
  <2>1. SharedOK'
    BY <1>3 DEF TypeInv, SharedOK, LocalsOK, ForgetDeleted, Return
  <2>2. LocalsOK'
    <3>1. CASE Return(w)
      BY <3>1, ReturnType
    <3>2. CASE ~Return(w)
      BY <1>3, <3>2, GoOnType DEF ForgetDeleted, Label, RenameLabel, SaveLabel
    <3>3. QED
      BY <3>1, <3>2
  <2>3. QED
    BY <2>1, <2>2 DEF TypeInv
<1>4. QED
  BY <1>1, <1>2, <1>3 DEF ForgetStep

LEMMA SessionStepType ==
  ASSUME TypeInv, NEW w \in Worker, SessionStep(w)
  PROVE  TypeInv'
<1>1. CASE StartHash(w)
  <2>1. SharedOK'
    BY <1>1 DEF TypeInv, SharedOK, LocalsOK, StartHash, SaveHash, SaveLabel
  <2>2. LocalsOK'
    BY <1>1, GoOnType DEF StartHash, Label, RenameLabel, SaveLabel, SaveHash
  <2>3. QED
    BY <2>1, <2>2 DEF TypeInv
<1>2. CASE StartIndex(w)
  <2>1. SharedOK'
    BY <1>2 DEF TypeInv, SharedOK, LocalsOK, StartIndex, SaveIndex, SaveLabel
  <2>2. LocalsOK'
    BY <1>2, GoOnType DEF StartIndex, Label, RenameLabel, SaveLabel, SaveIndex
  <2>3. QED
    BY <2>1, <2>2 DEF TypeInv
<1>3. CASE StartList(w)
  <2>1. SharedOK'
    BY <1>3 DEF TypeInv, SharedOK, LocalsOK, StartList, Return
  <2>2. LocalsOK'
    <3>1. CASE Return(w)
      BY <3>1, ReturnType
    <3>2. CASE ~Return(w)
      BY <1>3, <3>2, GoOnType DEF StartList, Label, RenameLabel, SaveLabel
    <3>3. QED
      BY <3>1, <3>2
  <2>3. QED
    BY <2>1, <2>2 DEF TypeInv
<1>4. CASE EndHash(w)
  <2>1. SharedOK'
    BY <1>4 DEF TypeInv, SharedOK, LocalsOK, EndHash, SaveHash, SaveLabel
  <2>2. LocalsOK'
    BY <1>4, GoOnType DEF EndHash, Label, RenameLabel, SaveLabel, SaveHash
  <2>3. QED
    BY <2>1, <2>2 DEF TypeInv
<1>5. CASE EndIndex(w)
  <2>1. SharedOK'
    BY <1>5 DEF TypeInv, SharedOK, LocalsOK, EndIndex, SaveIndex, SaveLabel
  <2>2. LocalsOK'
    BY <1>5, GoOnType DEF EndIndex, Label, RenameLabel, SaveLabel, SaveIndex
  <2>3. QED
    BY <2>1, <2>2 DEF TypeInv
<1>6. CASE EndList(w)
  <2>1. SharedOK'
    BY <1>6 DEF TypeInv, SharedOK, LocalsOK, EndList
  <2>2. LocalsOK'
    BY <1>6, ReturnType DEF EndList
  <2>3. QED
    BY <2>1, <2>2 DEF TypeInv
<1>7. CASE CleanupCount(w)
  <2>1. SharedOK'
    BY <1>7 DEF TypeInv, SharedOK, LocalsOK, CleanupCount, Return
  <2>2. LocalsOK'
    <3>1. CASE Return(w)
      BY <3>1, ReturnType
    <3>2. CASE ~Return(w)
      BY <1>7, <3>2, GoOnType DEF CleanupCount, Label, RenameLabel, SaveLabel
    <3>3. QED
      BY <3>1, <3>2
  <2>3. QED
    BY <2>1, <2>2 DEF TypeInv
<1>8. CASE CleanupZCard(w)
  <2>1. SharedOK'
    BY <1>8 DEF TypeInv, SharedOK, LocalsOK, CleanupZCard, Return
  <2>2. LocalsOK'
    <3>1. CASE Return(w)
      BY <3>1, ReturnType
    <3>2. CASE ~Return(w)
      BY <1>8, <3>2, GoOnType DEF CleanupZCard, Label, RenameLabel, SaveLabel
    <3>3. QED
      BY <3>1, <3>2
  <2>3. QED
    BY <2>1, <2>2 DEF TypeInv
<1>9. CASE CleanupUnlist(w)
  <2>1. SharedOK'
    BY <1>9 DEF TypeInv, SharedOK, LocalsOK, CleanupUnlist
  <2>2. LocalsOK'
    BY <1>9, ReturnType DEF CleanupUnlist
  <2>3. QED
    BY <2>1, <2>2 DEF TypeInv
<1>10. QED
  BY <1>1, <1>2, <1>3, <1>4, <1>5, <1>6, <1>7, <1>8, <1>9 DEF SessionStep

LEMMA RenameStepType ==
  ASSUME TypeInv, NEW w \in Worker, RenameStep(w)
  PROVE  TypeInv'
<1>1. CASE RenameSearch(w)
  <2>1. SharedOK'
    BY <1>1 DEF TypeInv, SharedOK, LocalsOK, RenameSearch
  <2>2. LocalsOK'
    BY <1>1, BatchAssumption
    DEF TypeInv, SharedOK, LocalsOK, Label, RenameLabel, SaveLabel, RenameSearch, Batches,
        MemoriesOf
  <2>3. QED
    BY <2>1, <2>2 DEF TypeInv
<1>2. CASE RenameMove(w)
  <2>1. SharedOK'
    BY <1>2 DEF TypeInv, SharedOK, LocalsOK, RenameMove, RenameLabel
  <2>2. LocalsOK'
    BY <1>2 DEF TypeInv, SharedOK, LocalsOK, Label, RenameLabel, SaveLabel, RenameMove
  <2>3. QED
    BY <2>1, <2>2 DEF TypeInv
<1>3. CASE RenameEntries(w)
  <2>1. SharedOK'
    BY <1>3 DEF TypeInv, SharedOK, LocalsOK, RenameEntries
  <2>2. LocalsOK'
    BY <1>3 DEF TypeInv, SharedOK, LocalsOK, Label, RenameLabel, SaveLabel, RenameEntries
  <2>3. QED
    BY <2>1, <2>2 DEF TypeInv
<1>4. CASE RenameSessionHash(w)
  <2>1. SharedOK'
    BY <1>4 DEF TypeInv, SharedOK, LocalsOK, RenameSessionHash, RenameLabel
  <2>2. LocalsOK'
    BY <1>4 DEF TypeInv, SharedOK, LocalsOK, Label, RenameLabel, SaveLabel, RenameSessionHash
  <2>3. QED
    BY <2>1, <2>2 DEF TypeInv
<1>5. CASE RenameSessionAdd(w)
  <2>1. SharedOK'
    BY <1>5 DEF TypeInv, SharedOK, LocalsOK, RenameSessionAdd, RenameLabel
  <2>2. LocalsOK'
    BY <1>5, GoOnType DEF RenameSessionAdd, Label, RenameLabel, SaveLabel
  <2>3. QED
    BY <2>1, <2>2 DEF TypeInv
<1>6. CASE RenameSessionDel(w)
  <2>1. SharedOK'
    BY <1>6 DEF TypeInv, SharedOK, LocalsOK, RenameSessionDel
  <2>2. LocalsOK'
    BY <1>6, GoOnType DEF RenameSessionDel, Label, RenameLabel, SaveLabel
  <2>3. QED
    BY <2>1, <2>2 DEF TypeInv
<1>7. CASE RenameListRem(w)
  <2>1. SharedOK'
    BY <1>7 DEF TypeInv, SharedOK, LocalsOK, RenameListRem
  <2>2. LocalsOK'
    BY <1>7, GoOnType DEF RenameListRem, Label, RenameLabel, SaveLabel
  <2>3. QED
    BY <2>1, <2>2 DEF TypeInv
<1>8. CASE RenameListAdd(w)
  <2>1. SharedOK'
    BY <1>8 DEF TypeInv, SharedOK, LocalsOK, RenameListAdd, RenameLabel
  <2>2. LocalsOK'
    BY <1>8, ReturnType DEF RenameListAdd
  <2>3. QED
    BY <2>1, <2>2 DEF TypeInv
<1>9. QED
  BY <1>1, <1>2, <1>3, <1>4, <1>5, <1>6, <1>7, <1>8 DEF RenameStep

LEMMA CallType ==
  ASSUME TypeInv, NEW w \in Worker,
         \/ \E q \in Project, m \in Memory : Store(w, m, q)
         \/ \E q \in Project : Forget(w, q)
         \/ \E q \in Project, s \in Session : Start(w, s, q)
         \/ End(w)
         \/ \E q, r \in Project : Rename(w, q, r)
  PROVE  TypeInv'
<1> USE DEF TypeInv, SharedOK, LocalsOK, Begin, Label, RenameLabel, SaveLabel
<1>1. ASSUME NEW q \in Project, NEW m \in Memory, Store(w, m, q) PROVE TypeInv'
  BY <1>1 DEF Store
<1>2. ASSUME NEW q \in Project, Forget(w, q) PROVE TypeInv'
  BY <1>2 DEF Forget
<1>3. ASSUME NEW q \in Project, NEW s \in Session, Start(w, s, q) PROVE TypeInv'
  <2>1. SharedOK'
    BY <1>3, AbsentAssumption DEF Start
  <2>2. LocalsOK'
    BY <1>3 DEF Start
  <2>3. QED
    BY <2>1, <2>2
<1>4. CASE End(w)
  <2>1. SharedOK'
    BY <1>4 DEF End
  <2>2. LocalsOK'
    BY <1>4 DEF End
  <2>3. QED
    BY <2>1, <2>2
<1>5. ASSUME NEW q \in Project, NEW r \in Project, Rename(w, q, r) PROVE TypeInv'
  <2>1. scope' \in [Worker -> SUBSET Memory]
    BY <1>5 DEF Rename, MemoriesOf
  <2>2. QED
    BY <1>5, <2>1 DEF Rename
<1>6. QED
  BY <1>1, <1>2, <1>3, <1>4, <1>5

LEMMA FaultType ==
  ASSUME TypeInv, NEW w \in Worker, RedisFails(w) \/ Crash(w)
  PROVE  TypeInv'
<1>1. LocalsOK'
  BY ReturnType DEF RedisFails, Crash
<1>2. old[w] \in Project \cup {Absent} /\ new[w] \in Project \cup {Absent}
  BY DEF TypeInv, LocalsOK
<1>3. projects' \subseteq Project /\ broken' \subseteq Project
  BY <1>2 DEF TypeInv, SharedOK, LocalsOK, RedisFails, Crash
<1>4. SharedOK'
  BY <1>3 DEF TypeInv, SharedOK, RedisFails, Crash
<1>5. QED
  BY <1>1, <1>4 DEF TypeInv

LEMMA NextType == TypeInv /\ [Next]_vars => TypeInv'
<1> SUFFICES ASSUME TypeInv, [Next]_vars PROVE TypeInv'
  OBVIOUS
<1>1. CASE UNCHANGED vars
  BY <1>1 DEF TypeInv, SharedOK, LocalsOK, vars
<1>2. CASE Next
  BY <1>2, CallType, StoreStepType, ForgetStepType, SessionStepType, RenameStepType, FaultType
  DEF Next
<1>3. QED
  BY <1>1, <1>2

LEMMA TypeInvariant == Spec => []TypeInv
<1>1. QED
  BY InitType, NextType, PTL DEF Spec

\* Every variable keeps its type in every behaviour.
THEOREM TypeCorrect == Spec => []TypeOK
<1>1. QED
  BY TypeInvariant, TypeInvImplies, PTL

-----------------------------------------------------------------------------
(***************************************************************************)
(* No session drops out of every index.  This needs a rename to be alone   *)
(* with the sorted sets: a session saved under the old name between the    *)
(* rename's read of the set and its DEL would be lost.  Memories may be    *)
(* stored and forgotten meanwhile, by any number of workers.               *)
(***************************************************************************)
RenamesAlone ==
  \A v, w \in Worker :
    "rename" \in Can[v] /\ Can[w] \cap {"rename", "session"} # {} => v = w

\* A call is one that reaches its worker, and the names of a rename differ.
CallsReach ==
  \A w \in Worker :
    /\ pc[w] \in RenameLabel => "rename" \in Can[w] /\ old[w] # new[w]
    /\ pc[w] \in SessionLabel => "session" \in Can[w]

\* What the rename has read is what the old set still holds, and before the
\* old set is deleted the new one holds it too.
Carried ==
  \A w \in Worker :
    /\ pc[w] \in {"session_hash", "session_add"} => entries[w] = index[old[w]]
    /\ pc[w] = "session_del" => index[old[w]] \subseteq index[new[w]]

LEMMA InitCarried == Init => CallsReach /\ Carried
  BY DEF Init, CallsReach, Carried, RenameLabel, SessionLabel, SaveLabel

LEMMA ReturnReach ==
  ASSUME TypeInv, CallsReach, NEW w \in Worker, Return(w)
  PROVE  CallsReach'
<1>1. \A v \in Worker :
        pc'[v] = "idle" \/ (pc'[v] = pc[v] /\ old'[v] = old[v] /\ new'[v] = new[v])
  BY DEF TypeInv, LocalsOK, Return
<1>2. QED
  BY <1>1 DEF CallsReach, RenameLabel, SessionLabel, SaveLabel

LEMMA NextReach == TypeInv /\ CallsReach /\ [Next]_vars => CallsReach'
<1> SUFFICES ASSUME TypeInv, CallsReach, [Next]_vars PROVE CallsReach'
  OBVIOUS
<1> USE DEF CallsReach, RenameLabel, SessionLabel, SaveLabel, TypeInv, LocalsOK
<1>1. CASE UNCHANGED vars
  BY <1>1 DEF vars
<1>2. ASSUME NEW w \in Worker, NEW m \in Memory, NEW q \in Project, Store(w, m, q)
      PROVE  CallsReach'
  BY <1>2 DEF Store, Begin
<1>3. ASSUME NEW w \in Worker, NEW q \in Project, Forget(w, q) PROVE CallsReach'
  BY <1>3 DEF Forget, Begin
<1>4. ASSUME NEW w \in Worker, NEW s \in Session, NEW q \in Project, Start(w, s, q)
      PROVE  CallsReach'
  BY <1>4 DEF Start, Begin
<1>5. ASSUME NEW w \in Worker, End(w) PROVE CallsReach'
  BY <1>5 DEF End, Begin
<1>6. ASSUME NEW w \in Worker, NEW q \in Project, NEW r \in Project, Rename(w, q, r)
      PROVE  CallsReach'
  BY <1>6 DEF Rename, Begin
<1>7. ASSUME NEW w \in Worker, StoreStep(w) PROVE CallsReach'
  <2>1. CASE StoreHash(w)
    BY <2>1 DEF StoreHash
  <2>2. CASE StoreList(w)
    BY <2>2, ReturnReach DEF StoreList
  <2>3. QED
    BY <1>7, <2>1, <2>2 DEF StoreStep
<1>8. ASSUME NEW w \in Worker, ForgetStep(w) PROVE CallsReach'
  <2>1. CASE Return(w)
    BY <2>1, ReturnReach
  <2>2. CASE ~Return(w)
    BY <1>8, <2>2 DEF ForgetStep, ForgetSearch, ForgetDel, ForgetDeleted
  <2>3. QED
    BY <2>1, <2>2
<1>9. ASSUME NEW w \in Worker, SessionStep(w) PROVE CallsReach'
  <2>1. CASE Return(w)
    BY <2>1, ReturnReach
  <2>2. CASE ~Return(w)
    BY <1>9, <2>2
    DEF SessionStep, StartHash, StartIndex, StartList, EndHash, EndIndex, EndList,
        CleanupCount, CleanupZCard, CleanupUnlist, SaveHash, SaveIndex
  <2>3. QED
    BY <2>1, <2>2
<1>10. ASSUME NEW w \in Worker, RenameStep(w) PROVE CallsReach'
  <2>1. CASE Return(w)
    BY <2>1, ReturnReach
  <2>2. CASE ~Return(w)
    BY <1>10, <2>2
    DEF RenameStep, RenameSearch, RenameMove, RenameEntries, RenameSessionHash,
        RenameSessionAdd, RenameSessionDel, RenameListRem, RenameListAdd
  <2>3. QED
    BY <2>1, <2>2
<1>11. ASSUME NEW w \in Worker, RedisFails(w) \/ Crash(w) PROVE CallsReach'
  BY <1>11, ReturnReach DEF RedisFails, Crash
<1>12. QED
  BY <1>1, <1>2, <1>3, <1>4, <1>5, <1>6, <1>7, <1>8, <1>9, <1>10, <1>11 DEF Next

\* A step that leaves the sorted sets alone and lets nobody come to a place
\* where it has read them.
LEMMA QuietCarried ==
  ASSUME TypeInv, Carried, index' = index, NEW w \in Worker,
         \A v \in Worker \ {w} :
           /\ pc'[v] = pc[v] /\ old'[v] = old[v] /\ new'[v] = new[v]
           /\ entries'[v] = entries[v],
         \/ pc'[w] \notin {"session_hash", "session_add", "session_del"}
         \/ /\ pc[w] \in {"session_hash", "session_add"}
            /\ pc'[w] \in {"session_hash", "session_add"}
            /\ UNCHANGED <<old, new, entries>>
  PROVE  Carried'
  BY DEF Carried

\* A step at the sorted sets is taken by the only worker that is in a rename.
LEMMA LonelyCarried ==
  ASSUME TypeInv, CallsReach, RenamesAlone, NEW w \in Worker,
         pc[w] \in {"start_index", "end_index", "session_add", "session_del"},
         \A v \in Worker \ {w} : pc'[v] = pc[v],
         pc'[w] \notin {"session_hash", "session_add"},
         pc'[w] = "session_del" => index'[old'[w]] \subseteq index'[new'[w]]
  PROVE  Carried'
<1>1. Can[w] \cap {"rename", "session"} # {}
  BY DEF CallsReach, RenameLabel, SessionLabel, SaveLabel
<1>2. \A v \in Worker \ {w} : pc'[v] \notin RenameLabel
  BY <1>1 DEF CallsReach, RenamesAlone
<1>3. QED
  BY <1>2 DEF Carried, RenameLabel

LEMMA NextCarried ==
  ASSUME TypeInv, CallsReach, Carried, RenamesAlone, [Next]_vars
  PROVE  Carried'
<1> USE DEF TypeInv, LocalsOK
<1>1. CASE UNCHANGED vars
  BY <1>1 DEF vars, Carried
<1>2. ASSUME NEW w \in Worker, NEW m \in Memory, NEW q \in Project, Store(w, m, q)
      PROVE  Carried'
  BY <1>2, QuietCarried DEF Store, Begin
<1>3. ASSUME NEW w \in Worker, NEW q \in Project, Forget(w, q) PROVE Carried'
  BY <1>3, QuietCarried DEF Forget, Begin
<1>4. ASSUME NEW w \in Worker, NEW s \in Session, NEW q \in Project, Start(w, s, q)
      PROVE  Carried'
  BY <1>4, QuietCarried DEF Start, Begin
<1>5. ASSUME NEW w \in Worker, End(w) PROVE Carried'
  BY <1>5, QuietCarried DEF End, Begin
<1>6. ASSUME NEW w \in Worker, NEW q \in Project, NEW r \in Project, Rename(w, q, r)
      PROVE  Carried'
  BY <1>6, QuietCarried DEF Rename, Begin
<1>7. ASSUME NEW w \in Worker, StoreStep(w) PROVE Carried'
  BY <1>7, QuietCarried DEF StoreStep, StoreHash, StoreList, Return
<1>8. ASSUME NEW w \in Worker, ForgetStep(w) PROVE Carried'
  <2>1. CASE ForgetSearch(w)
    BY <2>1, QuietCarried DEF ForgetSearch, Return
  <2>2. CASE ForgetDel(w)
    BY <2>2, QuietCarried DEF ForgetDel
  <2>3. CASE ForgetDeleted(w)
    BY <2>3, QuietCarried DEF ForgetDeleted, Return
  <2>4. QED
    BY <1>8, <2>1, <2>2, <2>3 DEF ForgetStep
<1>9. ASSUME NEW w \in Worker, SessionStep(w) PROVE Carried'
  <2>1. CASE StartIndex(w)
    BY <2>1, LonelyCarried DEF StartIndex, SaveIndex
  <2>2. CASE EndIndex(w)
    BY <2>2, LonelyCarried DEF EndIndex, SaveIndex
  <2>3. CASE StartHash(w) \/ EndHash(w)
    BY <2>3, QuietCarried DEF StartHash, EndHash, SaveHash
  <2>4. CASE StartList(w) \/ EndList(w)
    BY <2>4, QuietCarried DEF StartList, EndList, Return
  <2>5. CASE CleanupCount(w) \/ CleanupZCard(w) \/ CleanupUnlist(w)
    BY <2>5, QuietCarried DEF CleanupCount, CleanupZCard, CleanupUnlist, Return
  <2>6. QED
    BY <1>9, <2>1, <2>2, <2>3, <2>4, <2>5 DEF SessionStep
<1>10. ASSUME NEW w \in Worker, RenameStep(w) PROVE Carried'
  <2>1. CASE RenameSearch(w)
    BY <2>1, QuietCarried DEF RenameSearch
  <2>2. CASE RenameMove(w)
    BY <2>2, QuietCarried DEF RenameMove
  <2>3. CASE RenameEntries(w)
    BY <2>3 DEF RenameEntries, Carried
  <2>4. CASE RenameSessionHash(w)
    BY <2>4, QuietCarried DEF RenameSessionHash
  <2>5. CASE RenameSessionAdd(w)
    <3>1. /\ old[w] \in Project /\ new[w] \in Project
          /\ old[w] # new[w] /\ entries[w] = index[old[w]]
      BY <2>5 DEF RenameSessionAdd, CallsReach, Carried, RenameLabel
    <3>2. index'[old[w]] \subseteq index'[new[w]]
      BY <2>5, <3>1 DEF RenameSessionAdd, SharedOK
    <3>3. QED
      BY <2>5, <3>2, LonelyCarried DEF RenameSessionAdd
  <2>6. CASE RenameSessionDel(w)
    BY <2>6, LonelyCarried DEF RenameSessionDel
  <2>7. CASE RenameListRem(w) \/ RenameListAdd(w)
    BY <2>7, QuietCarried DEF RenameListRem, RenameListAdd, Return
  <2>8. QED
    BY <1>10, <2>1, <2>2, <2>3, <2>4, <2>5, <2>6, <2>7 DEF RenameStep
<1>11. ASSUME NEW w \in Worker, RedisFails(w) \/ Crash(w) PROVE Carried'
  BY <1>11, QuietCarried DEF RedisFails, Crash, Return
<1>12. QED
  BY <1>1, <1>2, <1>3, <1>4, <1>5, <1>6, <1>7, <1>8, <1>9, <1>10, <1>11 DEF Next

Indexed(s) == \E p \in Project : s \in index[p]

LEMMA NextIndexed ==
  ASSUME TypeInv, CallsReach, Carried, [Next]_vars, NEW s \in Session, Indexed(s)
  PROVE  Indexed(s)'
<1> USE DEF Indexed, TypeInv, SharedOK
<1>1. CASE index' = index
  BY <1>1
<1>2. ASSUME NEW w \in Worker, StartIndex(w) \/ EndIndex(w) PROVE Indexed(s)'
  BY <1>2 DEF StartIndex, EndIndex, SaveIndex
<1>3. ASSUME NEW w \in Worker, RenameSessionAdd(w) PROVE Indexed(s)'
  BY <1>3 DEF RenameSessionAdd
<1>4. ASSUME NEW w \in Worker, RenameSessionDel(w) PROVE Indexed(s)'
  <2>1. /\ old[w] # new[w] /\ new[w] \in Project
        /\ index[old[w]] \subseteq index[new[w]]
    BY <1>4 DEF RenameSessionDel, CallsReach, Carried, LocalsOK, RenameLabel
  <2>2. PICK q \in Project : s \in index[q]
    OBVIOUS
  <2>3. CASE q = old[w]
    BY <1>4, <2>1, <2>2, <2>3 DEF RenameSessionDel
  <2>4. CASE q # old[w]
    BY <1>4, <2>2, <2>4 DEF RenameSessionDel
  <2>5. QED
    BY <2>3, <2>4
<1>5. \/ index' = index
      \/ \E w \in Worker :
           StartIndex(w) \/ EndIndex(w) \/ RenameSessionAdd(w) \/ RenameSessionDel(w)
  <2>1. ASSUME NEW w \in Worker, StoreStep(w) \/ ForgetStep(w) PROVE index' = index
    BY <2>1
    DEF StoreStep, ForgetStep, StoreHash, StoreList, ForgetSearch, ForgetDel, ForgetDeleted
  <2>2. ASSUME NEW w \in Worker, SessionStep(w)
        PROVE  index' = index \/ StartIndex(w) \/ EndIndex(w)
    BY <2>2
    DEF SessionStep, StartHash, StartList, EndHash, EndList, CleanupCount, CleanupZCard,
        CleanupUnlist, SaveHash
  <2>3. ASSUME NEW w \in Worker, RenameStep(w)
        PROVE  index' = index \/ RenameSessionAdd(w) \/ RenameSessionDel(w)
    BY <2>3
    DEF RenameStep, RenameSearch, RenameMove, RenameEntries, RenameSessionHash,
        RenameListRem, RenameListAdd
  <2>4. QED
    BY <2>1, <2>2, <2>3 DEF Next, vars, Store, Forget, Start, End, Rename, RedisFails, Crash
<1>6. QED
  BY <1>1, <1>2, <1>3, <1>4, <1>5

\* When a rename has the sessions for itself, no session that is indexed ever
\* drops out of every index, wherever a rename breaks off and however often it
\* is repeated.
THEOREM SessionsStayIndexed ==
  ASSUME RenamesAlone
  PROVE  Spec => StaysIndexed
<1>1. TypeInv /\ CallsReach /\ Carried /\ [Next]_vars => (CallsReach /\ Carried)'
  BY NextReach, NextCarried
<1>2. TypeInv /\ CallsReach /\ Carried /\ [Next]_vars =>
        [\A s \in Session :
           (\E p \in Project : s \in index[p]) => (\E p \in Project : s \in index'[p])]_vars
  BY NextIndexed DEF Indexed
<1>3. QED
  BY <1>1, <1>2, InitCarried, TypeInvariant, PTL DEF Spec, StaysIndexed, RenamesAlone

-----------------------------------------------------------------------------
(***************************************************************************)
(* A rename takes its memories along.  Its rounds are limited, so they     *)
(* must have room for all memories.  What makes progress is the number of  *)
(* memories that cannot come into the old project any more: an id is       *)
(* stored once, and only a rename moves a memory back, so there must be no *)
(* other worker that renames.  Others may store, forget and save.          *)
(***************************************************************************)
OneRenamer == \A v, w \in Worker : "rename" \in Can[v] /\ "rename" \in Can[w] => v = w
RoomForAll == Cardinality(Memory) <= MaxIterations * BatchSize

\* The ids whose store_memory has had its turn.
Spent == {m \in known : \A v \in Worker : At(v, "store_hash") => m \notin ids[v]}

\* Whatever has a project is such an id, and no two calls store the same one.
Fresh ==
  /\ \A w \in Worker : At(w, "store_hash") => ids[w] \subseteq known
  /\ \A v, w \in Worker :
       v # w /\ At(v, "store_hash") /\ At(w, "store_hash") => ids[v] \cap ids[w] = {}
  /\ \A m \in Memory : memory[m] # Absent => m \in Spent
  /\ \A w \in Worker : At(w, "move") => ids[w] \subseteq Spent

LEMMA InitFresh == Init => Fresh
  BY DEF Init, Fresh

\* What a step does to the variables of the other calls.
Alone(u) ==
  \A v \in Worker \ {u} :
    /\ pc'[v] = pc[v] /\ old'[v] = old[v] /\ new'[v] = new[v]
    /\ ids'[v] = ids[v] /\ entries'[v] = entries[v]
    /\ round'[v] = round[v] /\ scope'[v] = scope[v]

LEMMA ReturnAlone ==
  ASSUME TypeInv, NEW u \in Worker, Return(u)
  PROVE  Alone(u) /\ pc'[u] = "idle"
BY DEF Return, Alone, TypeInv, LocalsOK

\* What a step of a call outside rename_project does.
Calls(u) ==
  \/ \E q \in Project : Forget(u, q)
  \/ \E q \in Project, s \in Session : Start(u, s, q)
  \/ End(u) \/ StoreStep(u) \/ ForgetStep(u) \/ SessionStep(u)
  \/ RedisFails(u) \/ Crash(u)

LEMMA CallsAlone ==
  ASSUME TypeInv, NEW u \in Worker, Calls(u)
  PROVE  Alone(u) /\ pc'[u] \notin RenameLabel \cup {"store_hash"} /\ known' = known
<1> USE DEF TypeInv, LocalsOK, RenameLabel
<1>1. CASE Return(u)
  <2>1. known' = known
    BY <1>1 DEF Calls, Forget, Start, End, Begin, StoreStep, StoreHash, StoreList, ForgetStep,
       ForgetSearch, ForgetDel, ForgetDeleted, SessionStep, StartHash, StartIndex, StartList,
       EndHash, EndIndex, EndList, SaveHash, SaveIndex, CleanupCount, CleanupZCard,
       CleanupUnlist, RedisFails, Crash
  <2>2. QED
    BY <1>1, <2>1, ReturnAlone
<1>2. ASSUME NEW q \in Project, Forget(u, q)
      PROVE  Alone(u) /\ pc'[u] \notin RenameLabel \cup {"store_hash"} /\ known' = known
  BY <1>2 DEF Forget, Begin, Alone
<1>3. ASSUME NEW q \in Project, NEW s \in Session, Start(u, s, q)
      PROVE  Alone(u) /\ pc'[u] \notin RenameLabel \cup {"store_hash"} /\ known' = known
  BY <1>3 DEF Start, Begin, Alone
<1>4. CASE End(u)
  BY <1>4 DEF End, Begin, Alone
<1>5. CASE StoreStep(u) /\ ~Return(u)
  BY <1>5 DEF StoreStep, StoreHash, StoreList, Alone
<1>6. CASE ForgetStep(u) /\ ~Return(u)
  BY <1>6 DEF ForgetStep, ForgetSearch, ForgetDel, ForgetDeleted, Alone
<1>7. CASE SessionStep(u) /\ ~Return(u)
  BY <1>7 DEF SessionStep, StartHash, StartIndex, StartList, EndHash, EndIndex, EndList,
     SaveHash, SaveIndex, CleanupCount, CleanupZCard, CleanupUnlist, Alone
<1>8. CASE (RedisFails(u) \/ Crash(u)) /\ ~Return(u)
  BY <1>8 DEF RedisFails, Crash
<1>9. QED
  BY <1>1, <1>2, <1>3, <1>4, <1>5, <1>6, <1>7, <1>8 DEF Calls

LEMMA RenameAlone ==
  ASSUME TypeInv, NEW u \in Worker, RenameStep(u) \/ \E p, q \in Project : Rename(u, p, q)
  PROVE  Alone(u) /\ pc'[u] # "store_hash" /\ known' = known
<1> USE DEF TypeInv, LocalsOK
<1>1. CASE RenameListAdd(u)
  BY <1>1, ReturnAlone DEF RenameListAdd
<1>2. ASSUME NEW p \in Project, NEW q \in Project, Rename(u, p, q)
      PROVE  Alone(u) /\ pc'[u] # "store_hash" /\ known' = known
  BY <1>2 DEF Rename, Begin, Alone
<1>3. CASE RenameSearch(u)
  BY <1>3 DEF RenameSearch, Alone
<1>4. CASE RenameMove(u) \/ RenameSessionHash(u)
  BY <1>4 DEF RenameMove, RenameSessionHash, Alone
<1>5. CASE RenameEntries(u)
  BY <1>5 DEF RenameEntries, Alone
<1>6. CASE RenameSessionAdd(u) \/ RenameSessionDel(u) \/ RenameListRem(u)
  BY <1>6 DEF RenameSessionAdd, RenameSessionDel, RenameListRem, Alone
<1>7. QED
  BY <1>1, <1>2, <1>3, <1>4, <1>5, <1>6 DEF RenameStep

LEMMA StoreAlone ==
  ASSUME TypeInv, NEW u \in Worker, NEW m \in Memory, NEW q \in Project, Store(u, m, q)
  PROVE  /\ Alone(u) /\ pc'[u] = "store_hash" /\ ids'[u] = {m}
         /\ m \notin known /\ known' = known \cup {m} /\ memory' = memory
BY DEF Store, Begin, Alone, TypeInv, LocalsOK

\* An id that is spent stays spent.
LEMMA SpentGrows ==
  ASSUME TypeInv, [Next]_vars, NEW m \in Spent
  PROVE  m \in Spent'
<1>1. ASSUME UNCHANGED vars PROVE m \in Spent'
  BY <1>1 DEF vars, Spent
<1>2. ASSUME NEW u \in Worker, Alone(u), pc'[u] # "store_hash", known' = known
      PROVE  m \in Spent'
  BY <1>2 DEF Spent, Alone
<1>3. ASSUME NEW u \in Worker, NEW n \in Memory, NEW q \in Project, Store(u, n, q)
      PROVE  m \in Spent'
  <2>1. /\ Alone(u) /\ ids'[u] = {n} /\ n \notin known /\ known' = known \cup {n}
    BY <1>3, StoreAlone
  <2>2. QED
    BY <2>1 DEF Spent, Alone
<1>4. ASSUME NEW u \in Worker, Calls(u) PROVE m \in Spent'
  BY <1>2, <1>4, CallsAlone
<1>5. ASSUME NEW u \in Worker, RenameStep(u) \/ \E p, q \in Project : Rename(u, p, q)
      PROVE  m \in Spent'
  BY <1>2, <1>5, RenameAlone
<1>6. QED
  BY <1>1, <1>3, <1>4, <1>5 DEF Next, Calls

\* Outside a rename a spent memory keeps its project until it is deleted, and
\* any other id is written by its own store_memory alone.
LEMMA CallsWrite ==
  ASSUME TypeInv, NEW u \in Worker, Calls(u), NEW m \in Memory
  PROVE  \/ memory'[m] \in {memory[m], Absent}
         \/ m \in ids[u] /\ At(u, "store_hash") /\ pc'[u] # "store_hash"
<1> USE DEF TypeInv, SharedOK, LocalsOK
<1>1. CASE StoreHash(u)
  BY <1>1 DEF StoreHash
<1>2. CASE ForgetDel(u)
  BY <1>2 DEF ForgetDel
<1>3. CASE ~StoreHash(u) /\ ~ForgetDel(u)
  BY <1>3 DEF Calls, Forget, Start, End, Begin, StoreStep, StoreList, ForgetStep, ForgetSearch,
     ForgetDeleted, SessionStep, StartHash, StartIndex, StartList, EndHash, EndIndex, EndList,
     SaveHash, SaveIndex, CleanupCount, CleanupZCard, CleanupUnlist, RedisFails, Crash
<1>4. QED
  BY <1>1, <1>2, <1>3

LEMMA RenameWrites ==
  ASSUME TypeInv, NEW u \in Worker, RenameStep(u), NEW m \in Memory
  PROVE  memory'[m] = memory[m] \/ (At(u, "move") /\ m \in ids[u])
<1>1. CASE RenameMove(u)
  BY <1>1 DEF RenameMove, TypeInv, SharedOK
<1>2. CASE ~RenameMove(u)
  BY <1>2 DEF RenameStep, RenameSearch, RenameEntries, RenameSessionHash, RenameSessionAdd,
     RenameSessionDel, RenameListRem, RenameListAdd
<1>3. QED
  BY <1>1, <1>2

LEMMA NextFresh ==
  ASSUME TypeInv, Fresh, CallsReach, [Next]_vars
  PROVE  Fresh'
<1>1. CASE UNCHANGED vars
  BY <1>1 DEF vars, Fresh, Spent
<1>2. ASSUME NEW u \in Worker, NEW n \in Memory, NEW q \in Project, Store(u, n, q)
      PROVE  Fresh'
  <2>1. /\ Alone(u) /\ pc'[u] = "store_hash" /\ ids'[u] = {n}
        /\ n \notin known /\ known' = known \cup {n} /\ memory' = memory
    BY <1>2, StoreAlone
  <2>2. \A m \in Spent : m \in Spent'
    BY <1>2, SpentGrows DEF Next
  <2>3. \A w \in Worker : (At(w, "store_hash"))' => ids'[w] \subseteq known'
    BY <2>1 DEF Fresh, Alone
  <2>4. \A v, w \in Worker :
          v # w /\ (At(v, "store_hash"))' /\ (At(w, "store_hash"))' => ids'[v] \cap ids'[w] = {}
    BY <2>1 DEF Fresh, Alone
  <2>5. \A w \in Worker : (At(w, "move"))' => ids'[w] \subseteq Spent'
    BY <2>1, <2>2 DEF Fresh, Alone
  <2>6. QED
    BY <2>1, <2>2, <2>3, <2>4, <2>5 DEF Fresh
<1>3. ASSUME NEW u \in Worker,
             Calls(u) \/ RenameStep(u) \/ \E p, q \in Project : Rename(u, p, q)
      PROVE  Fresh'
  <2>1. Alone(u) /\ pc'[u] # "store_hash" /\ known' = known
    BY <1>3, CallsAlone, RenameAlone
  <2>2. \A m \in Spent : m \in Spent'
    BY <1>3, SpentGrows DEF Next, Calls
  <2>3. \A w \in Worker : (At(w, "store_hash"))' => ids'[w] \subseteq known'
    BY <2>1 DEF Fresh, Alone
  <2>4. \A v, w \in Worker :
          v # w /\ (At(v, "store_hash"))' /\ (At(w, "store_hash"))' => ids'[v] \cap ids'[w] = {}
    BY <2>1 DEF Fresh, Alone
  <2>5. ASSUME NEW m \in Memory, memory'[m] # Absent PROVE m \in Spent'
    <3>1. CASE Calls(u)
      <4>1. CASE memory[m] # Absent
        BY <2>2, <4>1 DEF Fresh
      <4>2. CASE memory[m] = Absent
        <5>1. m \in ids[u] /\ At(u, "store_hash")
          BY <3>1, <4>2, <2>5, CallsWrite
        <5>2. m \in known /\ \A v \in Worker \ {u} : At(v, "store_hash") => m \notin ids[v]
          BY <5>1 DEF Fresh
        <5>3. QED
          BY <2>1, <5>2 DEF Spent, Alone
      <4>3. QED
        BY <4>1, <4>2
    <3>2. CASE RenameStep(u)
      BY <2>2, <2>5, <3>2, RenameWrites DEF Fresh
    <3>3. ASSUME NEW p \in Project, NEW q \in Project, Rename(u, p, q) PROVE m \in Spent'
      BY <2>2, <2>5, <3>3 DEF Fresh, Rename
    <3>4. QED
      BY <1>3, <3>1, <3>2, <3>3
  <2>6. ASSUME NEW w \in Worker, (At(w, "move"))' PROVE ids'[w] \subseteq Spent'
    <3>1. CASE w # u
      BY <2>1, <2>2, <2>6, <3>1 DEF Fresh, Alone
    <3>2. CASE w = u /\ RenameSearch(u)
      <4>1. ids'[u] \subseteq MemoriesOf(old[u])
        BY <2>6, <3>2 DEF RenameSearch, Batches, TypeInv, LocalsOK
      <4>2. old[u] # Absent
        BY <3>2, AbsentAssumption DEF RenameSearch, TypeInv, LocalsOK
      <4>3. QED
        BY <2>2, <3>2, <4>1, <4>2 DEF Fresh, MemoriesOf
    <3>3. CASE w = u /\ RenameMove(u)
      BY <2>2, <3>3 DEF Fresh, RenameMove, TypeInv, LocalsOK
    <3>4. w = u => RenameSearch(u) \/ RenameMove(u)
      <4>1. ASSUME w = u PROVE ~Calls(u)
        BY <2>6, <4>1, CallsAlone DEF RenameLabel
      <4>2. ASSUME w = u, NEW p \in Project, NEW q \in Project PROVE ~Rename(u, p, q)
        BY <2>6, <4>2 DEF Rename, Begin, TypeInv, LocalsOK
      <4>3. ASSUME w = u, RenameStep(u) PROVE RenameSearch(u) \/ RenameMove(u)
        BY <2>6, <4>3 DEF RenameStep, RenameEntries, RenameSessionHash, RenameSessionAdd,
           RenameSessionDel, RenameListRem, RenameListAdd, Return, TypeInv, LocalsOK
      <4>4. QED
        BY <1>3, <4>1, <4>2, <4>3
    <3>5. QED
      BY <3>1, <3>2, <3>3, <3>4
  <2>7. QED
    BY <2>3, <2>4, <2>5, <2>6 DEF Fresh
<1>4. QED
  BY <1>1, <1>2, <1>3 DEF Next, Calls

\* What cannot come into the old project of a rename any more.
Settled(w) == {m \in Spent : memory[m] # old[w]}

\* After n rounds of a rename that many batches are settled, or the old
\* project had no more to give; when the rounds are over nothing is left.
Migrating(w) ==
  /\ At(w, "idle") => round[w] = 0
  /\ pc[w] \in RenameLabel =>
       /\ scope[w] \subseteq Spent
       /\ \A m \in scope[w] : memory[m] \in {old[w], new[w], Absent}
  /\ At(w, "search") =>
       \/ Cardinality(Settled(w)) >= round[w] * BatchSize
       \/ \A m \in scope[w] : memory[m] # old[w]
  /\ At(w, "move") =>
       \/ Cardinality(Settled(w) \cup ids[w]) >= round[w] * BatchSize
       \/ \A m \in scope[w] : memory[m] # old[w] \/ m \in ids[w]
  /\ pc[w] \in RenameLabel \ {"search", "move"} => \A m \in scope[w] : memory[m] # old[w]

LEMMA SettledFinite ==
  ASSUME TypeInv, NEW S, S \subseteq Spent
  PROVE  IsFiniteSet(S) /\ Cardinality(S) \in Nat /\ Cardinality(S) <= Cardinality(Memory)
<1>1. S \subseteq Memory
  BY DEF Spent, TypeInv, SharedOK
<1>2. QED
  BY <1>1, FiniteAssumption, FS_Subset, FS_CardinalityType

\* A step of somebody else.
LEMMA OthersMigrate ==
  ASSUME TypeInv, TypeInv', NEW w \in Worker, Fresh, Fresh', Migrating(w),
         pc'[w] = pc[w], old'[w] = old[w], new'[w] = new[w], ids'[w] = ids[w],
         round'[w] = round[w], scope'[w] = scope[w],
         \A m \in Spent : m \in Spent' /\ memory'[m] \in {memory[m], Absent}
  PROVE  Migrating(w)'
<1>1. ASSUME pc[w] \in RenameLabel PROVE old[w] # Absent
  BY <1>1, AbsentAssumption DEF TypeInv, LocalsOK, RenameLabel
<1>2. ASSUME pc[w] \in RenameLabel PROVE Settled(w) \subseteq Settled(w)'
  BY <1>1, <1>2 DEF Settled
<1>3. ASSUME At(w, "search"), Cardinality(Settled(w)) >= round[w] * BatchSize
      PROVE  Cardinality(Settled(w)') >= round[w] * BatchSize
  <2>1. Settled(w)' \subseteq Spent' /\ Settled(w) \subseteq Settled(w)'
    BY <1>2, <1>3 DEF Settled, RenameLabel
  <2>2. IsFiniteSet(Settled(w)')
    BY <2>1, FiniteAssumption, FS_Subset DEF Spent, TypeInv, SharedOK
  <2>3. /\ Cardinality(Settled(w)) <= Cardinality(Settled(w)')
        /\ Cardinality(Settled(w)) \in Nat /\ Cardinality(Settled(w)') \in Nat
    BY <2>1, <2>2, FS_Subset, FS_CardinalityType
  <2>4. round[w] \in Nat /\ BatchSize \in Nat
    BY BatchAssumption DEF TypeInv, LocalsOK
  <2>5. round[w] * BatchSize \in Nat
    BY <2>4
  <2>6. QED
    BY <1>3, <2>3, <2>5
<1>4. ASSUME At(w, "move"), Cardinality(Settled(w) \cup ids[w]) >= round[w] * BatchSize
      PROVE  Cardinality(Settled(w)' \cup ids[w]) >= round[w] * BatchSize
  <2>1. /\ Settled(w)' \cup ids[w] \subseteq Memory
        /\ Settled(w) \cup ids[w] \subseteq Settled(w)' \cup ids[w]
    BY <1>2, <1>4 DEF Settled, RenameLabel, Fresh, Spent, TypeInv, SharedOK
  <2>2. IsFiniteSet(Settled(w)' \cup ids[w])
    BY <2>1, FiniteAssumption, FS_Subset
  <2>3. /\ Cardinality(Settled(w) \cup ids[w]) <= Cardinality(Settled(w)' \cup ids[w])
        /\ Cardinality(Settled(w) \cup ids[w]) \in Nat
        /\ Cardinality(Settled(w)' \cup ids[w]) \in Nat
    BY <2>1, <2>2, FS_Subset, FS_CardinalityType
  <2>4. round[w] \in Nat /\ BatchSize \in Nat
    BY BatchAssumption DEF TypeInv, LocalsOK
  <2>5. round[w] * BatchSize \in Nat
    BY <2>4
  <2>6. QED
    BY <1>4, <2>3, <2>5
<1>5. QED
  BY <1>1, <1>3, <1>4 DEF Migrating, RenameLabel

LEMMA SearchMigrates ==
  ASSUME TypeInv, NEW w \in Worker, Fresh, Migrating(w), RoomForAll, RenameSearch(w)
  PROVE  Migrating(w)'
<1> USE DEF TypeInv, LocalsOK
<1>1. Spent' = Spent /\ Settled(w)' = Settled(w)
  BY DEF RenameSearch, Spent, Settled
<1>2. round[w] \in Nat /\ BatchSize \in Nat /\ MaxIterations \in Nat
  BY BatchAssumption
<1>3. CASE round[w] = MaxIterations
  <2>1. \A m \in scope[w] : memory[m] # old[w]
    <3>1. SUFFICES ASSUME Cardinality(Settled(w)) >= MaxIterations * BatchSize,
                          NEW m \in scope[w]
                   PROVE  memory[m] # old[w]
      BY <1>3 DEF RenameSearch, Migrating
    <3>2. Settled(w) \subseteq Memory /\ m \in Memory
      BY DEF Settled, Spent, SharedOK
    <3>3. Cardinality(Settled(w)) <= Cardinality(Memory) /\ Cardinality(Memory) \in Nat
          /\ Cardinality(Settled(w)) \in Nat
      BY <3>2, FiniteAssumption, FS_Subset, FS_CardinalityType
    <3>4. MaxIterations * BatchSize \in Nat
      BY <1>2
    <3>5. Cardinality(Settled(w)) = Cardinality(Memory)
      BY <3>1, <3>3, <3>4 DEF RoomForAll
    <3>6. Settled(w) = Memory
      BY <3>2, <3>5, FiniteAssumption, FS_Subset
    <3>7. QED
      BY <3>2, <3>6 DEF Settled
  <2>2. /\ pc'[w] = "entries" /\ scope'[w] = scope[w] /\ old'[w] = old[w] /\ new'[w] = new[w]
        /\ memory' = memory
    BY <1>3 DEF RenameSearch
  <2>3. QED
    BY <1>1, <2>1, <2>2 DEF Migrating, RenameSearch, RenameLabel
<1>4. CASE round[w] # MaxIterations
  <2>1. PICK B \in Batches(old[w]) :
          /\ ids' = [ids EXCEPT ![w] = B]
          /\ Goto(w, IF B = {} THEN "entries" ELSE "move")
          /\ round' = [round EXCEPT ![w] = @ + 1]
    BY <1>4 DEF RenameSearch
  <2>2. B \subseteq MemoriesOf(old[w]) /\ (Cardinality(B) = BatchSize \/ B = MemoriesOf(old[w]))
    BY DEF Batches
  <2>3. /\ scope'[w] = scope[w] /\ old'[w] = old[w] /\ new'[w] = new[w] /\ memory' = memory
        /\ ids'[w] = B /\ round'[w] = round[w] + 1
        /\ pc'[w] = IF B = {} THEN "entries" ELSE "move"
    BY <2>1 DEF RenameSearch
  <2>4. scope[w] \subseteq Memory /\ scope[w] \subseteq Spent
    BY DEF RenameSearch, Migrating, RenameLabel
  <2>5. CASE B = {}
    <3>1. BatchSize # 0 /\ Cardinality({}) = 0
      BY BatchAssumption, FS_EmptySet
    <3>2. MemoriesOf(old[w]) = {}
      BY <2>2, <2>5, <3>1
    <3>3. \A m \in scope[w] : memory[m] # old[w]
      BY <2>4, <3>2 DEF MemoriesOf
    <3>4. QED
      BY <1>1, <2>3, <2>5, <3>3 DEF Migrating, RenameSearch, RenameLabel
  <2>6. CASE B # {}
    <3>1. \/ Cardinality(Settled(w) \cup B) >= (round[w] + 1) * BatchSize
          \/ \A m \in scope[w] : memory[m] # old[w] \/ m \in B
      <4>1. CASE \A m \in scope[w] : memory[m] # old[w]
        BY <4>1
      <4>2. CASE B = MemoriesOf(old[w])
        BY <2>4, <4>2 DEF MemoriesOf
      <4>3. ASSUME Cardinality(B) = BatchSize,
                   Cardinality(Settled(w)) >= round[w] * BatchSize
            PROVE  Cardinality(Settled(w) \cup B) >= (round[w] + 1) * BatchSize
        <5>1. Settled(w) \cap B = {} /\ Settled(w) \subseteq Memory /\ B \subseteq Memory
          BY <2>2 DEF Settled, MemoriesOf, Spent, SharedOK
        <5>2. IsFiniteSet(Settled(w)) /\ IsFiniteSet(B)
          BY <5>1, FiniteAssumption, FS_Subset
        <5>3. Cardinality(Settled(w) \cup B) = Cardinality(Settled(w)) + Cardinality(B)
              /\ Cardinality(Settled(w)) \in Nat
          <6> DEFINE S == Settled(w)
          <6>1. IsFiniteSet(S) /\ S \cap B = {}
            BY <5>1, <5>2
          <6> HIDE DEF S
          <6>2. /\ Cardinality(S) \in Nat /\ Cardinality(B) \in Nat
                /\ Cardinality(S \cup B) = Cardinality(S) + Cardinality(B) - Cardinality(S \cap B)
            BY <5>2, <6>1, FS_Union, FS_CardinalityType
          <6>3. Cardinality(S \cap B) = 0
            BY <6>1, FS_EmptySet
          <6>4. Cardinality(S \cup B) = Cardinality(S) + Cardinality(B)
            BY <6>2, <6>3
          <6>5. QED
            BY <6>2, <6>4 DEF S
        <5>4. (round[w] + 1) * BatchSize = round[w] * BatchSize + BatchSize
              /\ round[w] * BatchSize \in Nat
          BY <1>2
        <5>5. QED
          BY <1>2, <4>3, <5>3, <5>4
      <4>4. QED
        BY <2>2, <4>1, <4>2, <4>3 DEF RenameSearch, Migrating
    <3>2. QED
      BY <1>1, <2>3, <2>6, <3>1 DEF Migrating, RenameSearch, RenameLabel
  <2>7. QED
    BY <2>5, <2>6
<1>5. QED
  BY <1>3, <1>4

LEMMA MoveMigrates ==
  ASSUME TypeInv, CallsReach, NEW w \in Worker, Fresh, Migrating(w), RenameMove(w)
  PROVE  Migrating(w)'
<1> USE DEF TypeInv, LocalsOK
<1>1. PICK m \in ids[w] :
        /\ memory' = [memory EXCEPT ![m] = new[w]] /\ ids' = [ids EXCEPT ![w] = @ \ {m}]
        /\ Goto(w, IF ids'[w] = {} THEN "search" ELSE "move")
  BY DEF RenameMove
<1>2. ids[w] \subseteq Spent /\ Spent \subseteq Memory /\ old[w] # new[w]
  BY DEF RenameMove, Fresh, CallsReach, RenameLabel, Spent, SharedOK
<1>3. /\ ids'[w] = ids[w] \ {m} /\ old'[w] = old[w] /\ new'[w] = new[w]
      /\ scope'[w] = scope[w] /\ round'[w] = round[w]
      /\ pc'[w] = IF ids'[w] = {} THEN "search" ELSE "move"
  BY <1>1 DEF RenameMove
<1>4. \A n \in Memory : memory'[n] = IF n = m THEN new[w] ELSE memory[n]
  BY <1>1, <1>2 DEF SharedOK
<1>5. \A n \in Spent : n \in Spent'
  BY SpentGrows DEF Next, RenameStep
<1>6. scope[w] \subseteq Spent /\ \A n \in scope[w] : memory[n] \in {old[w], new[w], Absent}
  BY DEF Migrating, RenameMove, RenameLabel
<1>7. scope'[w] \subseteq Spent' /\ \A n \in scope'[w] : memory'[n] \in {old'[w], new'[w], Absent}
  BY <1>2, <1>3, <1>4, <1>5, <1>6
<1>8. ASSUME \A n \in scope[w] : memory[n] # old[w] \/ n \in ids[w]
      PROVE  \A n \in scope'[w] : memory'[n] # old'[w] \/ n \in ids'[w]
  BY <1>2, <1>3, <1>4, <1>6, <1>8
<1>9. ASSUME Cardinality(Settled(w) \cup ids[w]) >= round[w] * BatchSize
      PROVE  Cardinality(Settled(w)' \cup ids'[w]) >= round[w] * BatchSize
  <2>1. Settled(w) \cup ids[w] \subseteq Settled(w)' \cup ids'[w]
    BY <1>2, <1>3, <1>4, <1>5 DEF Settled
  <2>2. Settled(w)' \cup ids'[w] \subseteq Memory
    <3>1. known' \subseteq Memory
      BY DEF RenameMove, SharedOK
    <3>2. QED
      BY <1>2, <1>3, <3>1 DEF Settled, Spent
  <2>3. /\ Cardinality(Settled(w) \cup ids[w]) <= Cardinality(Settled(w)' \cup ids'[w])
        /\ Cardinality(Settled(w) \cup ids[w]) \in Nat
        /\ Cardinality(Settled(w)' \cup ids'[w]) \in Nat
    BY <2>1, <2>2, FiniteAssumption, FS_Subset, FS_CardinalityType
  <2>4. round[w] \in Nat /\ BatchSize \in Nat
    BY BatchAssumption
  <2>5. round[w] * BatchSize \in Nat
    BY <2>4
  <2>6. QED
    BY <1>9, <2>3, <2>5
<1>10. CASE ids'[w] = {}
  <2>1. Settled(w)' \cup ids'[w] = Settled(w)'
    BY <1>10
  <2>2. QED
    BY <1>3, <1>7, <1>8, <1>9, <1>10, <2>1 DEF Migrating, RenameMove, RenameLabel
<1>11. CASE ids'[w] # {}
  BY <1>3, <1>7, <1>8, <1>9, <1>11 DEF Migrating, RenameMove, RenameLabel
<1>12. QED
  BY <1>10, <1>11

\* A call that returns has no rounds behind it.
LEMMA CallsMigrate ==
  ASSUME TypeInv, NEW w \in Worker, Calls(w) \/ RenameListAdd(w), Migrating(w)
  PROVE  Migrating(w)'
<1> USE DEF TypeInv, LocalsOK
<1>1. pc'[w] \notin RenameLabel
  BY CallsAlone DEF RenameListAdd, Return, RenameLabel
<1>2. pc'[w] # "idle" \/ round'[w] = 0
  <2>1. CASE Return(w)
    BY <2>1 DEF Return
  <2>2. CASE ~Return(w)
    BY <2>2 DEF Calls, RenameListAdd, Forget, Start, End, Begin, StoreStep, StoreHash, StoreList,
       ForgetStep, ForgetSearch, ForgetDel, ForgetDeleted, SessionStep, StartHash, StartIndex,
       StartList, EndHash, EndIndex, EndList, SaveHash, SaveIndex, CleanupCount, CleanupZCard,
       CleanupUnlist, RedisFails, Crash
  <2>3. QED
    BY <2>1, <2>2
<1>3. QED
  BY <1>1, <1>2 DEF Migrating, RenameLabel

LEMMA RenameStepMigrates ==
  ASSUME TypeInv, CallsReach, NEW w \in Worker, Fresh, Migrating(w), RoomForAll, RenameStep(w)
  PROVE  Migrating(w)'
<1> USE DEF TypeInv, LocalsOK
<1>1. CASE RenameSearch(w)
  BY <1>1, SearchMigrates
<1>2. CASE RenameMove(w)
  BY <1>2, MoveMigrates
<1>3. CASE RenameListAdd(w)
  BY <1>3, CallsMigrate
<1>4. CASE ~RenameSearch(w) /\ ~RenameMove(w) /\ ~RenameListAdd(w)
  <2>1. /\ pc[w] \in RenameLabel \ {"search", "move"}
        /\ pc'[w] \in RenameLabel \ {"search", "move"}
        /\ memory' = memory /\ scope' = scope /\ old' = old /\ new' = new
    BY <1>4 DEF RenameStep, RenameEntries, RenameSessionHash, RenameSessionAdd,
       RenameSessionDel, RenameListRem, RenameLabel
  <2>2. \A m \in Spent : m \in Spent'
    BY SpentGrows DEF Next
  <2>3. scope[w] \subseteq Spent'
    BY <2>1, <2>2 DEF Migrating
  <2>4. QED
    BY <2>1, <2>3 DEF Migrating, RenameLabel
<1>5. QED
  BY <1>1, <1>2, <1>3, <1>4

LEMMA NextMigrating ==
  ASSUME TypeInv, TypeInv', CallsReach, Fresh, Fresh', OneRenamer, RoomForAll, [Next]_vars,
         NEW w \in Worker, "rename" \in Can[w], Migrating(w)
  PROVE  Migrating(w)'
<1> USE DEF TypeInv, LocalsOK
<1>1. CASE UNCHANGED vars
  BY <1>1 DEF vars, Migrating, Settled, Spent
<1>2. \A m \in Spent : m \in Spent'
  BY SpentGrows
<1>3. ASSUME NEW u \in Worker, NEW n \in Memory, NEW q \in Project, Store(u, n, q)
      PROVE  Migrating(w)'
  <2>1. CASE u = w
    BY <1>3, <2>1, StoreAlone DEF Migrating, RenameLabel
  <2>2. CASE u # w
    BY <1>2, <1>3, <2>2, StoreAlone, OthersMigrate DEF Alone
  <2>3. QED
    BY <2>1, <2>2
<1>4. ASSUME NEW u \in Worker, Calls(u) PROVE Migrating(w)'
  <2>1. CASE u = w
    BY <1>4, <2>1, CallsMigrate
  <2>2. CASE u # w
    <3>1. \A m \in Spent : memory'[m] \in {memory[m], Absent}
      <4>1. SUFFICES ASSUME NEW m \in Spent PROVE memory'[m] \in {memory[m], Absent}
        OBVIOUS
      <4>2. m \in Memory /\ (At(u, "store_hash") => m \notin ids[u])
        BY DEF Spent, SharedOK
      <4>3. QED
        BY <1>4, <4>2, CallsWrite
    <3>2. Alone(u)
      BY <1>4, CallsAlone
    <3>3. QED
      BY <1>2, <2>2, <3>1, <3>2, OthersMigrate DEF Alone
  <2>3. QED
    BY <2>1, <2>2
<1>5. ASSUME NEW u \in Worker, RenameStep(u) PROVE Migrating(w)'
  <2>1. pc[u] \in RenameLabel
    BY <1>5 DEF RenameStep, RenameSearch, RenameMove, RenameEntries, RenameSessionHash,
       RenameSessionAdd, RenameSessionDel, RenameListRem, RenameListAdd, RenameLabel
  <2>2. u = w
    BY <2>1 DEF CallsReach, OneRenamer
  <2>3. QED
    BY <1>5, <2>2, RenameStepMigrates
<1>6. ASSUME NEW u \in Worker, NEW p \in Project, NEW q \in Project, Rename(u, p, q)
      PROVE  Migrating(w)'
  <2>1. u = w
    BY <1>6 DEF Rename, Begin, OneRenamer
  <2>2. /\ pc[w] = "idle" /\ pc'[w] = "search" /\ round'[w] = round[w] /\ old'[w] = p
        /\ memory' = memory /\ scope'[w] = MemoriesOf(p)
    BY <1>6, <2>1 DEF Rename, Begin
  <2>3. round'[w] = 0
    BY <2>2 DEF Migrating
  <2>4. scope'[w] \subseteq Spent'
    BY <1>2, <2>2, AbsentAssumption DEF Fresh, MemoriesOf
  <2>5. Cardinality(Settled(w)') >= round'[w] * BatchSize
    <3>1. Settled(w)' \subseteq Memory
      BY DEF Settled, Spent, SharedOK
    <3>2. Cardinality(Settled(w)') \in Nat
      BY <3>1, FiniteAssumption, FS_Subset, FS_CardinalityType
    <3>3. round'[w] * BatchSize = 0
      BY <2>3, BatchAssumption
    <3>4. QED
      BY <3>2, <3>3
  <2>6. \A m \in scope'[w] : memory'[m] \in {old'[w], new'[w], Absent}
    BY <2>2 DEF MemoriesOf
  <2>7. QED
    BY <2>2, <2>4, <2>5, <2>6 DEF Migrating, RenameLabel
<1>7. QED
  BY <1>1, <1>3, <1>4, <1>5, <1>6 DEF Next, Calls

AllMigrating == \A w \in Worker : "rename" \in Can[w] => Migrating(w)
CallsInv == TypeInv /\ CallsReach /\ Fresh /\ AllMigrating

LEMMA CallsInvariant ==
  ASSUME OneRenamer, RoomForAll
  PROVE  Spec => []CallsInv
<1>1. Init => CallsInv
  BY InitType, InitCarried, InitFresh
  DEF CallsInv, AllMigrating, Init, Migrating, RenameLabel
<1>2. CallsInv /\ [Next]_vars => CallsInv'
  <2>1. SUFFICES ASSUME CallsInv, [Next]_vars PROVE CallsInv'
    OBVIOUS
  <2>2. TypeInv' /\ CallsReach' /\ Fresh'
    BY <2>1, NextType, NextReach, NextFresh DEF CallsInv
  <2>3. QED
    BY <2>1, <2>2, NextMigrating DEF CallsInv, AllMigrating
<1>3. QED
  BY <1>1, <1>2, PTL DEF Spec

\* A rename that succeeds has taken every memory of its old project along,
\* whatever the others store, forget and save meanwhile and whatever fails:
\* the searches that page through a shrinking result miss none.
THEOREM RenameMigrates ==
  ASSUME OneRenamer, RoomForAll
  PROVE  Spec => MigratesMemories
<1>1. CallsInv /\ [Next]_vars =>
        [\A w \in Worker :
           RenameListAdd(w) => \A m \in scope[w] : memory[m] \in {new[w], Absent}]_vars
  <2>1. SUFFICES ASSUME CallsInv, NEW w \in Worker, RenameListAdd(w), NEW m \in scope[w]
                 PROVE  memory[m] \in {new[w], Absent}
    OBVIOUS
  <2>2. pc[w] \in RenameLabel \ {"search", "move"}
    BY <2>1 DEF RenameListAdd, RenameLabel
  <2>3. Migrating(w)
    BY <2>1, <2>2 DEF CallsInv, AllMigrating, CallsReach
  <2>4. QED
    BY <2>1, <2>2, <2>3 DEF Migrating
<1>2. QED
  BY <1>1, CallsInvariant, PTL DEF Spec, MigratesMemories

-----------------------------------------------------------------------------
(***************************************************************************)
(* With one worker a rename leaves nothing behind and no project that has  *)
(* anything goes unlisted.  With two, TLC finds a memory that is stored    *)
(* under the old name after the rename has searched for the last time: it  *)
(* is left there, and the rename then unlists the project that the other   *)
(* call has just put on the list.                                          *)
(***************************************************************************)
OneWorker == \A v, w \in Worker : v = w

\* What the calls have seen still holds when they act on it.
Emptied(w) ==
  /\ pc[w] \in RenameLabel => MemoriesOf(old[w]) \subseteq scope[w]
  /\ pc[w] \in {"list_rem", "list_add"} => index[old[w]] = {}
  /\ At(w, "list_add") => old[w] \notin projects
  /\ pc[w] \in {"zcard", "unlist"} => MemoriesOf(old[w]) = {}
  /\ At(w, "unlist") => index[old[w]] = {}

\* What the current call is going to put on the list.
InFlight(w) ==
  {p \in Project : \/ pc[w] \in {"store_list", "start_list", "end_list"} /\ p = old[w]
                   \/ pc[w] \in RenameLabel /\ p = new[w]}

\* A project that has anything is on the list or about to be put there.
OnList(p) ==
  MemoriesOf(p) # {} \/ index[p] # {} => p \in projects \/ \E w \in Worker : p \in InFlight(w)

LEMMA InitOnList ==
  Init => (\A w \in Worker : Emptied(w)) /\ (\A p \in Project : OnList(p))
  BY AbsentAssumption DEF Init, Emptied, OnList, MemoriesOf, RenameLabel

LEMMA NextEmptied ==
  ASSUME TypeInv, CallsReach, OneWorker, NEW w \in Worker, Emptied(w), [Next]_vars
  PROVE  Emptied(w)'
<1> USE DEF TypeInv, LocalsOK, Emptied, RenameLabel
<1>1. CASE UNCHANGED vars
  BY <1>1 DEF vars, MemoriesOf
<1>2. ASSUME NEW m \in Memory, NEW q \in Project, Store(w, m, q) PROVE Emptied(w)'
  BY <1>2 DEF Store, Begin
<1>3. CASE Calls(w)
  <2>1. CASE CleanupCount(w)
    BY <2>1 DEF CleanupCount, Return, MemoriesOf
  <2>2. CASE CleanupZCard(w)
    BY <2>2 DEF CleanupZCard, Return, MemoriesOf
  <2>3. CASE ~CleanupCount(w) /\ ~CleanupZCard(w)
    <3>1. CASE Return(w)
      BY <3>1 DEF Return
    <3>2. CASE ~Return(w)
      <4>1. pc'[w] \notin {"zcard", "unlist"}
        BY <1>3, <2>3, <3>2 DEF Calls, Forget, Start, End, Begin, StoreStep, StoreHash, StoreList,
           ForgetStep, ForgetSearch, ForgetDel, ForgetDeleted, SessionStep, StartHash,
           StartIndex, StartList, EndHash, EndIndex, EndList, SaveHash, SaveIndex,
           CleanupUnlist, RedisFails, Crash
      <4>2. pc'[w] \notin RenameLabel
        BY <1>3, CallsAlone
      <4>3. QED
        BY <4>1, <4>2
    <3>3. QED
      BY <3>1, <3>2
  <2>4. QED
    BY <2>1, <2>2, <2>3
<1>4. ASSUME NEW p \in Project, NEW q \in Project, Rename(w, p, q) PROVE Emptied(w)'
  BY <1>4 DEF Rename, Begin, MemoriesOf
<1>5. CASE RenameStep(w)
  <2>1. CASE RenameSearch(w)
    BY <2>1 DEF RenameSearch, MemoriesOf
  <2>2. CASE RenameMove(w)
    <3>1. old[w] # new[w]
      BY <2>2 DEF RenameMove, CallsReach
    <3>2. MemoriesOf(old[w])' \subseteq MemoriesOf(old[w])
      BY <2>2, <3>1 DEF RenameMove, MemoriesOf, SharedOK
    <3>3. QED
      BY <2>2, <3>2 DEF RenameMove
  <2>3. CASE RenameEntries(w)
    BY <2>3 DEF RenameEntries, MemoriesOf
  <2>4. CASE RenameSessionHash(w)
    BY <2>4 DEF RenameSessionHash, MemoriesOf
  <2>5. CASE RenameSessionAdd(w)
    BY <2>5 DEF RenameSessionAdd, MemoriesOf
  <2>6. CASE RenameSessionDel(w)
    BY <2>6 DEF RenameSessionDel, MemoriesOf, SharedOK
  <2>7. CASE RenameListRem(w)
    BY <2>7 DEF RenameListRem, MemoriesOf
  <2>8. CASE RenameListAdd(w)
    BY <2>8 DEF RenameListAdd, Return
  <2>9. QED
    BY <1>5, <2>1, <2>2, <2>3, <2>4, <2>5, <2>6, <2>7, <2>8 DEF RenameStep
<1>6. QED
  BY <1>1, <1>2, <1>3, <1>4, <1>5 DEF Next, Calls, OneWorker

\* A step that gives a project nothing and keeps it on the list.
LEMMA QuietOnList ==
  ASSUME OneWorker, NEW w \in Worker, NEW p \in Project, OnList(p),
         MemoriesOf(p)' \subseteq MemoriesOf(p), index'[p] \subseteq index[p],
         p \in projects => p \in projects',
         p \in InFlight(w) => p \in projects' \/ p \in InFlight(w)'
  PROVE  OnList(p)'
BY DEF OnList, OneWorker

LEMMA StoreOnList ==
  ASSUME TypeInv, OneWorker, NEW w \in Worker, NEW p \in Project, OnList(p), StoreStep(w)
  PROVE  OnList(p)'
<1> USE DEF TypeInv, SharedOK, LocalsOK
<1>1. CASE StoreHash(w)
  <2>1. CASE p = old[w]
    BY <1>1, <2>1 DEF StoreHash, OnList, InFlight
  <2>2. CASE p # old[w]
    <3>1. MemoriesOf(p)' \subseteq MemoriesOf(p)
      BY <1>1, <2>2 DEF StoreHash, MemoriesOf
    <3>2. QED
      BY <1>1, <3>1, QuietOnList DEF StoreHash, InFlight, RenameLabel
  <2>3. QED
    BY <2>1, <2>2
<1>2. CASE StoreList(w)
  BY <1>2, QuietOnList DEF StoreList, InFlight, MemoriesOf, RenameLabel
<1>3. QED
  BY <1>1, <1>2 DEF StoreStep

LEMMA ForgetOnList ==
  ASSUME TypeInv, OneWorker, NEW w \in Worker, NEW p \in Project, OnList(p), ForgetStep(w)
  PROVE  OnList(p)'
<1> USE DEF TypeInv, SharedOK, LocalsOK
<1>1. MemoriesOf(p)' \subseteq MemoriesOf(p)
  <2>1. CASE ForgetDel(w)
    BY <2>1, AbsentAssumption DEF ForgetDel, MemoriesOf
  <2>2. CASE ~ForgetDel(w)
    BY <2>2 DEF ForgetStep, ForgetSearch, ForgetDeleted, MemoriesOf
  <2>3. QED
    BY <2>1, <2>2
<1>2. /\ index' = index /\ projects' = projects
      /\ pc[w] \notin RenameLabel \cup {"store_list", "start_list", "end_list"}
  BY DEF ForgetStep, ForgetSearch, ForgetDel, ForgetDeleted, RenameLabel
<1>3. QED
  BY <1>1, <1>2, QuietOnList DEF InFlight

LEMMA SessionOnList ==
  ASSUME TypeInv, OneWorker, NEW w \in Worker, NEW p \in Project, OnList(p), Emptied(w),
         SessionStep(w)
  PROVE  OnList(p)'
<1> USE DEF TypeInv, SharedOK, LocalsOK
<1>1. memory' = memory
  BY DEF SessionStep, StartHash, StartIndex, StartList, EndHash, EndIndex, EndList, SaveHash,
     SaveIndex, CleanupCount, CleanupZCard, CleanupUnlist
<1>2. CASE StartIndex(w) \/ EndIndex(w)
  <2>1. CASE p = old[w]
    BY <1>2, <2>1 DEF StartIndex, EndIndex, SaveIndex, OnList, InFlight
  <2>2. CASE p # old[w]
    BY <1>1, <1>2, <2>2, QuietOnList
    DEF StartIndex, EndIndex, SaveIndex, InFlight, RenameLabel, MemoriesOf
  <2>3. QED
    BY <2>1, <2>2
<1>3. CASE StartList(w) \/ EndList(w)
  BY <1>1, <1>3, QuietOnList DEF StartList, EndList, InFlight, RenameLabel, MemoriesOf
<1>4. CASE CleanupUnlist(w)
  <2>1. CASE p = old[w]
    BY <1>4, <2>1 DEF CleanupUnlist, Emptied, OnList, MemoriesOf
  <2>2. CASE p # old[w]
    BY <1>1, <1>4, <2>2, QuietOnList DEF CleanupUnlist, InFlight, RenameLabel, MemoriesOf
  <2>3. QED
    BY <2>1, <2>2
<1>5. CASE StartHash(w) \/ EndHash(w) \/ CleanupCount(w) \/ CleanupZCard(w)
  BY <1>1, <1>5, QuietOnList
  DEF StartHash, EndHash, SaveHash, CleanupCount, CleanupZCard, InFlight, RenameLabel, MemoriesOf
<1>6. QED
  BY <1>2, <1>3, <1>4, <1>5 DEF SessionStep

LEMMA RenameOnList ==
  ASSUME TypeInv, CallsReach, OneWorker, NEW w \in Worker, NEW p \in Project, OnList(p),
         Emptied(w), AllMigrating, RenameStep(w)
  PROVE  OnList(p)'
<1> USE DEF TypeInv, SharedOK, LocalsOK
<1>1. pc[w] \in RenameLabel /\ new[w] \in Project /\ old[w] # new[w]
  BY DEF RenameStep, RenameSearch, RenameMove, RenameEntries, RenameSessionHash,
     RenameSessionAdd, RenameSessionDel, RenameListRem, RenameListAdd, RenameLabel, CallsReach
<1>2. CASE RenameListAdd(w)
  BY <1>2, QuietOnList DEF RenameListAdd, InFlight, RenameLabel, MemoriesOf
<1>3. CASE ~RenameListAdd(w)
  <2>1. pc'[w] \in RenameLabel /\ new'[w] = new[w] /\ old'[w] = old[w]
    BY <1>3 DEF RenameStep, RenameSearch, RenameMove, RenameEntries, RenameSessionHash,
       RenameSessionAdd, RenameSessionDel, RenameListRem, RenameLabel
  <2>2. CASE p = new[w]
    BY <1>1, <2>1, <2>2 DEF OnList, InFlight
  <2>3. CASE p # new[w]
    <3>1. MemoriesOf(p)' \subseteq MemoriesOf(p)
      BY <1>3, <2>3 DEF RenameStep, RenameSearch, RenameMove, RenameEntries, RenameSessionHash,
         RenameSessionAdd, RenameSessionDel, RenameListRem, MemoriesOf
    <3>2. index'[p] \subseteq index[p]
      BY <1>3, <2>3 DEF RenameStep, RenameSearch, RenameMove, RenameEntries,
         RenameSessionHash, RenameSessionAdd, RenameSessionDel, RenameListRem
    <3>3. p \notin InFlight(w)
      BY <1>1, <2>3 DEF InFlight, RenameLabel
    <3>4. CASE RenameListRem(w) /\ p = old[w]
      <4>1. MemoriesOf(p) = {} /\ index[p] = {}
        <5>1. pc[w] = "list_rem" /\ pc[w] \in RenameLabel \ {"search", "move"}
          BY <3>4 DEF RenameListRem, RenameLabel
        <5>2. Migrating(w)
          BY <1>1 DEF AllMigrating, CallsReach
        <5>3. \A m \in scope[w] : memory[m] # old[w]
          BY <5>1, <5>2 DEF Migrating
        <5>4. MemoriesOf(old[w]) \subseteq scope[w] /\ index[old[w]] = {}
          BY <5>1 DEF Emptied
        <5>5. QED
          BY <3>4, <5>3, <5>4 DEF MemoriesOf
      <4>2. QED
        BY <3>1, <3>2, <4>1 DEF OnList
    <3>5. CASE ~(RenameListRem(w) /\ p = old[w])
      <4>1. p \in projects => p \in projects'
        BY <1>3, <3>5 DEF RenameStep, RenameSearch, RenameMove, RenameEntries,
           RenameSessionHash, RenameSessionAdd, RenameSessionDel, RenameListRem
      <4>2. QED
        BY <3>1, <3>2, <3>3, <4>1, QuietOnList
    <3>6. QED
      BY <3>4, <3>5
  <2>4. QED
    BY <2>2, <2>3
<1>4. QED
  BY <1>2, <1>3

LEMMA NextOnList ==
  ASSUME TypeInv, CallsReach, OneWorker, NEW p \in Project, OnList(p), p \notin broken',
         AllMigrating, \A w \in Worker : Emptied(w), [Next]_vars
  PROVE  OnList(p)'
<1> USE DEF TypeInv, SharedOK, LocalsOK
<1>1. CASE UNCHANGED vars
  BY <1>1 DEF vars, OnList, MemoriesOf, InFlight
<1>2. ASSUME NEW w \in Worker, NEW m \in Memory, NEW q \in Project, Store(w, m, q)
      PROVE  OnList(p)'
  BY <1>2, QuietOnList DEF Store, Begin, InFlight, RenameLabel, MemoriesOf
<1>3. ASSUME NEW w \in Worker, NEW q \in Project,
             Forget(w, q) \/ \E s \in Session : Start(w, s, q)
      PROVE  OnList(p)'
  BY <1>3, QuietOnList DEF Forget, Start, Begin, InFlight, RenameLabel, MemoriesOf
<1>4. ASSUME NEW w \in Worker, End(w) PROVE OnList(p)'
  BY <1>4, QuietOnList DEF End, Begin, InFlight, RenameLabel, MemoriesOf
<1>5. ASSUME NEW w \in Worker, NEW q \in Project, NEW r \in Project, Rename(w, q, r)
      PROVE  OnList(p)'
  BY <1>5, QuietOnList DEF Rename, Begin, InFlight, RenameLabel, MemoriesOf
<1>6. ASSUME NEW w \in Worker, RedisFails(w) \/ Crash(w) PROVE OnList(p)'
  <2>1. p \notin {old[w], new[w]}
    BY <1>6, AbsentAssumption DEF RedisFails, Crash
  <2>2. p \notin InFlight(w)
    BY <2>1 DEF InFlight
  <2>3. QED
    BY <1>6, <2>2, QuietOnList DEF RedisFails, Crash, MemoriesOf
<1>7. QED
  BY <1>1, <1>2, <1>3, <1>4, <1>5, <1>6, StoreOnList, ForgetOnList, SessionOnList, RenameOnList
  DEF Next

SoloInv ==
  /\ CallsInv
  /\ \A w \in Worker : Emptied(w)
  /\ \A p \in Project \ broken : OnList(p)

LEMMA SoloInvariant ==
  ASSUME OneWorker, RoomForAll
  PROVE  Spec => []SoloInv
<1>1. OneRenamer
  BY DEF OneWorker, OneRenamer
<1>2. Init /\ CallsInv => SoloInv
  BY InitOnList DEF SoloInv
<1>3. SoloInv /\ [Next]_vars /\ CallsInv' => SoloInv'
  <2>1. SUFFICES ASSUME SoloInv, [Next]_vars, CallsInv' PROVE SoloInv'
    OBVIOUS
  <2>2. \A w \in Worker : Emptied(w)'
    BY <2>1, NextEmptied DEF SoloInv, CallsInv
  <2>3. ASSUME NEW p \in Project, p \notin broken' PROVE OnList(p)'
    <3>1. broken \subseteq broken'
      BY <2>1 DEF Next, vars, Store, Forget, Start, End, Begin, Rename, StoreStep, StoreHash,
         StoreList, ForgetStep, ForgetSearch, ForgetDel, ForgetDeleted, SessionStep, StartHash,
         StartIndex, StartList, EndHash, EndIndex, EndList, SaveHash, SaveIndex, CleanupCount,
         CleanupZCard, CleanupUnlist, RenameStep, RenameSearch, RenameMove, RenameEntries,
         RenameSessionHash, RenameSessionAdd, RenameSessionDel, RenameListRem, RenameListAdd,
         RedisFails, Crash
    <3>2. OnList(p)
      BY <2>1, <2>3, <3>1 DEF SoloInv
    <3>3. QED
      BY <2>1, <2>3, <3>2, NextOnList DEF SoloInv, CallsInv
  <2>4. QED
    BY <2>1, <2>2, <2>3 DEF SoloInv
<1>4. QED
  BY <1>1, <1>2, <1>3, CallsInvariant, PTL DEF Spec

\* A rename that succeeds leaves no memory, no session and no entry in the
\* list of projects under the old name, also when earlier renames of it broke
\* off half-way.
THEOREM RenameLeavesNone ==
  ASSUME OneWorker, RoomForAll
  PROVE  Spec => RenameEmptiesOld
<1>1. SoloInv /\ [Next]_vars =>
        [\A w \in Worker :
           RenameListAdd(w) =>
             /\ MemoriesOf(old[w]) = {} /\ index'[old[w]] = {}
             /\ old[w] \notin projects' /\ new[w] \in projects']_vars
  <2>1. SUFFICES ASSUME SoloInv, NEW w \in Worker, RenameListAdd(w)
                 PROVE  /\ MemoriesOf(old[w]) = {} /\ index'[old[w]] = {}
                        /\ old[w] \notin projects' /\ new[w] \in projects'
    OBVIOUS
  <2>2. pc[w] = "list_add" /\ pc[w] \in RenameLabel \ {"search", "move"}
    BY <2>1 DEF RenameListAdd, RenameLabel
  <2>3. Migrating(w) /\ old[w] # new[w]
    BY <2>1, <2>2 DEF SoloInv, CallsInv, AllMigrating, CallsReach
  <2>4. MemoriesOf(old[w]) = {}
    BY <2>1, <2>2, <2>3 DEF SoloInv, Emptied, Migrating, MemoriesOf
  <2>5. index[old[w]] = {} /\ old[w] \notin projects
    BY <2>1, <2>2 DEF SoloInv, Emptied
  <2>6. QED
    BY <2>1, <2>3, <2>4, <2>5 DEF RenameListAdd
<1>2. QED
  BY <1>1, SoloInvariant, PTL DEF Spec, RenameEmptiesOld

\* Between calls every project that has memories or sessions is listed, in
\* whatever order it was filled, renamed and cleaned up, unless a call that
\* was about it broke off.
THEOREM ListsAll ==
  ASSUME OneWorker, RoomForAll
  PROVE  Spec => []Listed
<1>1. SoloInv => Listed
  <2>1. SUFFICES ASSUME SoloInv, \A w \in Worker : pc[w] = "idle", NEW p \in Project \ broken,
                        MemoriesOf(p) # {} \/ index[p] # {}
                 PROVE  p \in projects
    BY DEF Listed
  <2>2. \A w \in Worker : p \notin InFlight(w)
    BY <2>1 DEF InFlight, RenameLabel
  <2>3. QED
    BY <2>1, <2>2 DEF SoloInv, OnList
<1>2. QED
  BY <1>1, SoloInvariant, PTL
=============================================================================
