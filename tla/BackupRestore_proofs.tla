------------------------ MODULE BackupRestore_proofs ------------------------
(***************************************************************************)
(* Theorems about BackupRestore, for any keys, contents, dimensions,       *)
(* bounds and faults, and any number of servers that write meanwhile.      *)
(***************************************************************************)
EXTENDS BackupRestore, TLAPS

(***************************************************************************)
(* Lemmas about sections and keys.                                         *)
(***************************************************************************)
\* The five sections, by number.
LEMMA SectionFacts ==
  /\ Len(Section) = 5 /\ Sections = 1 .. 5
  /\ Section[1] = Memory /\ Section[2] = Session /\ Section[3] = Project
  /\ Section[4] = Project \X Session /\ Section[5] = Tag
  /\ \A i \in Sections : Section[i] \subseteq Key
  /\ \A k \in Key : \E i \in Sections : k \in Section[i]
<1>1. Len(Section) = 5 /\ Sections = 1 .. 5
  BY DEF Section, Sections
<1>2. /\ Section[1] = Memory /\ Section[2] = Session /\ Section[3] = Project
      /\ Section[4] = Project \X Session /\ Section[5] = Tag
  BY DEF Section
<1>3. QED
  BY <1>1, <1>2 DEF Key

\* A command takes keys of one section only.
LEMMA TogetherFacts ==
  ASSUME NEW i \in Sections, NEW k \in Section[i]
  PROVE  /\ k \in Together(k)
         /\ Together(k) \subseteq Section[i]
<1>1. \A j \in Sections : k \in Section[j] => j = i
  BY KeyAssumption
<1>2. CASE i \in {1, 2}
  <2>1. k \in Memory \cup Session /\ k \notin Project \cup (Project \X Session) \cup Tag
    BY <1>1, <1>2, SectionFacts
  <2>2. QED
    BY <2>1 DEF Together
<1>3. CASE i = 3
  <2>1. k \in Project /\ k \notin Memory \cup Session \cup (Project \X Session) \cup Tag
    BY <1>1, <1>3, SectionFacts
  <2>2. QED
    BY <1>3, <2>1, SectionFacts DEF Together
<1>4. CASE i = 4
  <2>1. k \in Project \X Session /\ k \notin Memory \cup Session \cup Project \cup Tag
    BY <1>1, <1>4, SectionFacts
  <2>2. Together(k) = {k[1]} \X Session
    BY <2>1 DEF Together
  <2>3. QED
    BY <1>4, <2>1, <2>2, SectionFacts
<1>5. CASE i = 5
  <2>1. k \in Tag /\ k \notin Memory \cup Session \cup Project \cup (Project \X Session)
    BY <1>1, <1>5, SectionFacts
  <2>2. QED
    BY <1>5, <2>1, SectionFacts DEF Together
<1>6. QED
  BY <1>2, <1>3, <1>4, <1>5, SectionFacts

(***************************************************************************)
(* The inductive invariant.  Phase says which locals are in use where.     *)
(* Copied and Restored say how far a dump and a restore have come, section *)
(* by section.  Indexed says what EnsureIndex has left to the restore.     *)
(***************************************************************************)
BackupLabel == {"dump_info", "scan", "read", "encode"}

Phase ==
  /\ pc # "scan" => unscanned = {}
  /\ pc \notin {"scan", "read", "write"} => todo = {}
  /\ pc \notin {"scan", "read", "write", "encode"} => section = 1
  /\ pc = "encode" => section = Len(Section)

\* An entry of a project that was not listed all the time may be missing.
Stable(k) ==
  /\ k \notin touched
  /\ k \in Project \X Session => k[1] \notin touched /\ db[k[1]] # Absent

Copied ==
  pc \in {"scan", "read", "encode"} =>
    /\ \A k \in Key \ touched : snap.entries[k] \in {Absent, db[k]}
    /\ \A i \in Sections : \A k \in Section[i] :
         Stable(k) =>
           \/ i > section
           \/ i = section /\ k \in todo \cup unscanned
           \/ snap.entries[k] = db[k]

\* Since a flush, a key that a server has touched is restored like the others.
Restored ==
  pc = "write" =>
    \A i \in Sections : \A k \in Section[i] :
      k \in Present(file.entries) /\ (clean \/ k \notin touched) =>
        \/ i > section
        \/ i = section /\ k \in todo
        \/ db[k] = file.entries[k]

Clean ==
  clean =>
    /\ pc \notin BackupLabel
    /\ \A k \in Key : db[k] \in {Absent, file.entries[k]}

Indexed == pc \in {"check", "write"} => reindexed \/ index = EnsureDimension

IInv == TypeOK /\ Phase /\ Copied /\ Restored /\ Clean /\ Indexed

(***************************************************************************)
(* The invariant holds at first and each step keeps it.                    *)
(***************************************************************************)
LEMMA InitIInv == Init => IInv
<1> SUFFICES ASSUME Init PROVE IInv
  OBVIOUS
<1>1. NoFile \in Snapshot
  BY DEF NoFile, Snapshot, Empty, snapshotVersion
<1>2. TypeOK
  <2>1. section \in Sections /\ changes \in 0 .. ChangeBound
    BY SectionFacts, BoundAssumption DEF Init
  <2>2. db \in [Key -> Content \cup {Absent}]
    BY ContentAssumption DEF Init
  <2>3. QED
    BY <1>1, <2>1, <2>2, DimensionAssumption DEF Init, TypeOK, Label
<1>3. QED
  BY <1>2 DEF Init, IInv, Phase, Copied, Restored, Clean, Indexed

\* The end of a command resets its locals.
LEMMA ExitPhase ==
  ASSUME IInv, Exit
  PROVE  Phase' /\ Copied' /\ Restored' /\ Indexed'
BY DEF Exit, Phase, Copied, Restored, Indexed

LEMMA ExitType ==
  ASSUME IInv, Exit
  PROVE  /\ pc' \in Label /\ section' \in Sections /\ snap' \in Snapshot
         /\ unscanned' \cup todo' \subseteq Section[section'] /\ touched' \subseteq Key
         /\ reindexed' \in BOOLEAN
<1>1. NoFile \in Snapshot
  BY DEF NoFile, Snapshot, Empty, snapshotVersion
<1>2. section' \in Sections
  BY SectionFacts DEF Exit
<1>3. QED
  BY <1>1, <1>2 DEF Exit, Label

LEMMA BackupType ==
  ASSUME IInv, BackupStep
  PROVE  TypeOK' /\ Phase'
<1> USE DEF IInv, TypeOK, Phase, Label
<1> USE SectionFacts
<1>1. CASE Backup
  <2>1. NoFile \in Snapshot
    BY DEF NoFile, Snapshot, Empty, snapshotVersion
  <2>2. QED
    BY <1>1, <2>1 DEF Backup
<1>2. CASE DumpInfo
  <2>1. snap' \in Snapshot
    BY <1>2 DEF DumpInfo, Snapshot, Empty, snapshotVersion
  <2>2. QED
    BY <1>2, <2>1 DEF DumpInfo, history
<1>3. CASE DumpScan
  BY <1>3 DEF DumpScan, history
<1>4. CASE DumpRead
  <2>1. snap' \in Snapshot
    BY <1>4 DEF DumpRead, Snapshot
  <2>2. QED
    BY <1>4, <2>1 DEF DumpRead, history
<1>5. CASE DumpNext
  BY <1>5 DEF DumpNext, history
<1>6. CASE Encode
  BY <1>6, ExitType, ExitPhase DEF Encode
<1>7. QED
  BY <1>1, <1>2, <1>3, <1>4, <1>5, <1>6 DEF BackupStep

LEMMA RestoreType ==
  ASSUME IInv, RestoreStep
  PROVE  TypeOK' /\ Phase'
<1> USE DEF IInv, TypeOK, Phase, Label, RestoreLabel
<1> USE SectionFacts
<1>1. \A i \in Sections : ToWrite(i) \subseteq Section[i]
  BY DEF ToWrite
<1>2. EnsureDimension \in Dimension
  BY DimensionAssumption DEF EnsureDimension, Snapshot
<1>3. ASSUME NEW flush \in BOOLEAN, Restore(flush) PROVE TypeOK' /\ Phase'
  BY <1>3 DEF Restore, history
<1>4. CASE Flush
  BY <1>4 DEF Flush, Empty
<1>5. CASE EnsureInfo
  BY <1>5 DEF EnsureInfo, history
<1>6. CASE EnsureDrop
  BY <1>6, ExitType, ExitPhase DEF EnsureDrop
<1>7. CASE EnsureCreate
  BY <1>2, <1>7, ExitType, ExitPhase DEF EnsureCreate
<1>8. CASE RestoreCheck
  BY <1>1, <1>8, ExitType, ExitPhase DEF RestoreCheck
<1>9. CASE RestoreWrite
  <2>1. db' \in [Key -> Content \cup {Absent}]
    BY <1>9 DEF RestoreWrite, Snapshot
  <2>2. QED
    BY <1>9, <2>1 DEF RestoreWrite, history
<1>10. CASE RestoreNext
  BY <1>1, <1>10 DEF RestoreNext, history
<1>11. CASE RestoreDone
  BY <1>11, ExitType, ExitPhase DEF RestoreDone
<1>12. QED
  BY <1>3, <1>4, <1>5, <1>6, <1>7, <1>8, <1>9, <1>10, <1>11 DEF RestoreStep

LEMMA NextType == IInv /\ [Next]_vars => TypeOK' /\ Phase'
<1> SUFFICES ASSUME IInv, [Next]_vars PROVE TypeOK' /\ Phase'
  OBVIOUS
<1> USE DEF IInv, TypeOK, Phase
<1>1. CASE BackupStep
  BY <1>1, BackupType
<1>2. CASE RestoreStep
  BY <1>2, RestoreType
<1>3. CASE Fails
  BY <1>3, ExitType, ExitPhase DEF Fails
<1>4. ASSUME NEW k \in Key, NEW content \in Content \cup {Absent}, ServerWrites(k, content)
      PROVE  TypeOK' /\ Phase'
  <2>1. changes' \in 0 .. ChangeBound
    BY <1>4, BoundAssumption DEF ServerWrites
  <2>2. db' \in [Key -> Content \cup {Absent}] /\ touched' \subseteq Key
    BY <1>4 DEF ServerWrites
  <2>3. QED
    BY <1>4, <2>1, <2>2 DEF ServerWrites
<1>5. ASSUME NEW dim \in Dimension, ServerDropsIndex \/ ServerCreatesIndex(dim)
      PROVE  TypeOK' /\ Phase'
  <2>1. index' \in Dimension \cup {0}
    BY <1>5 DEF ServerDropsIndex, ServerCreatesIndex
  <2>2. reindexed' \in BOOLEAN
    <3>1. reindexed' = (pc \in RestoreLabel)
      BY <1>5, Zenon DEF ServerDropsIndex, ServerCreatesIndex, ServerReindexes
    <3>2. QED
      BY <3>1, SMT
  <2>3. UNCHANGED <<db, file, pc, section, unscanned, todo, snap, changes, touched, clean>>
    BY <1>5 DEF ServerDropsIndex, ServerCreatesIndex, ServerReindexes
  <2>4. QED
    BY <2>1, <2>2, <2>3
<1>6. CASE OtherVersion
  <2>1. file' \in Snapshot
    BY <1>6 DEF OtherVersion, Snapshot, snapshotVersion
  <2>2. QED
    BY <1>6, <2>1 DEF OtherVersion, history
<1>7. CASE UNCHANGED vars
  BY <1>7 DEF vars, history
<1>8. Dimension # {}
  BY DimensionAssumption
<1>9. QED
  BY <1>1, <1>2, <1>3, <1>4, <1>5, <1>6, <1>7, <1>8 DEF Next

\* How far a dump has come.
LEMMA NextCopied == IInv /\ [Next]_vars => Copied'
<1> SUFFICES ASSUME IInv, [Next]_vars, pc' \in {"scan", "read", "encode"}
             PROVE  Copied'
  BY DEF Copied
<1> USE DEF IInv, Copied, Stable
<1>1. CASE DumpInfo
  <2>1. \A k \in Key : snap'.entries[k] = Absent
    BY <1>1 DEF DumpInfo, Empty
  <2>2. section' = 1 /\ todo' = {} /\ unscanned' = Section[1]
    BY <1>1 DEF DumpInfo, Phase
  <2>3. \A i \in Sections : i > section' \/ i = section'
    BY <2>2, SectionFacts
  <2>4. QED
    BY <2>1, <2>2, <2>3
<1>2. CASE DumpScan
  <2>1. PICK batch \in SUBSET unscanned :
          unscanned' = unscanned \ batch /\ todo' = todo \cup (batch \cap Present(db))
    BY <1>2 DEF DumpScan
  <2>2. /\ pc = "scan" /\ db' = db /\ snap' = snap /\ section' = section
        /\ touched' = touched
    BY <1>2 DEF DumpScan, history
  <2>3. \A k \in batch \ touched : k \in todo' \/ snap.entries[k] = db[k]
    BY <2>1, <2>2, SectionFacts DEF TypeOK, Present
  <2>4. QED
    BY <2>1, <2>2, <2>3
<1>3. CASE DumpRead
  <2>1. PICK k \in todo :
          /\ snap' = [snap EXCEPT !.entries =
                        [j \in Key |-> IF j \in Together(k) THEN db[j] ELSE @[j]]]
          /\ todo' = todo \ Together(k)
    BY <1>3 DEF DumpRead
  <2>2. /\ pc = "read" /\ db' = db /\ unscanned' = unscanned /\ section' = section
        /\ touched' = touched
    BY <1>3 DEF DumpRead, history
  <2>3. \A j \in Key :
          snap'.entries[j] = IF j \in Together(k) THEN db[j] ELSE snap.entries[j]
    BY <2>1 DEF TypeOK, Snapshot
  <2>4. QED
    BY <2>1, <2>2, <2>3, SectionFacts
<1>4. CASE DumpNext
  <2>1. /\ pc = "read" /\ todo = {} /\ unscanned = {}
        /\ db' = db /\ snap' = snap /\ touched' = touched
    BY <1>4 DEF DumpNext, history, Phase
  <2>2. \A i \in Sections : \A k \in Section[i] :
          Stable(k) => i > section \/ snap.entries[k] = db[k]
    BY <2>1
  <2>3. CASE section = Len(Section)
    BY <1>4, <2>1, <2>2, <2>3 DEF DumpNext
  <2>4. CASE section # Len(Section)
    <3>1. section' = section + 1 /\ section' \in Sections
      BY <1>4, <2>4, SectionFacts DEF DumpNext, TypeOK
    <3>2. \A k \in Section[section'] : Stable(k) => k \in todo' \cup unscanned'
      <4>1. CASE section' # 4
        BY <1>4, <2>4, <3>1, <4>1 DEF DumpNext
      <4>2. CASE section' = 4
        <5>1. todo' = {k \in Section[4] : snap.entries[k[1]] # Absent}
          BY <1>4, <2>4, <4>2 DEF DumpNext
        <5>2. ASSUME NEW k \in Section[4], Stable(k)
              PROVE  snap.entries[k[1]] # Absent
          <6>1. k \in Project \X Session /\ k[1] \in Section[3] /\ db[k[1]] # Absent
            BY <5>2, SectionFacts
          <6>2. k[1] \notin Project \X Session /\ k[1] \notin touched
            BY <5>2, <6>1, SectionFacts, KeyAssumption
          <6>3. QED
            BY <2>2, <3>1, <4>2, <6>1, <6>2, SectionFacts DEF TypeOK
        <5>3. QED
          BY <4>2, <5>1, <5>2
      <4>3. QED
        BY <4>1, <4>2
    <3>3. QED
      BY <2>1, <2>2, <3>1, <3>2, SectionFacts DEF TypeOK
  <2>5. QED
    BY <2>3, <2>4
<1>5. ASSUME NEW k \in Key, NEW content \in Content \cup {Absent}, ServerWrites(k, content)
      PROVE  Copied'
  <2>1. /\ pc # "idle" /\ touched' = touched \cup {k}
        /\ \A j \in Key \ {k} : db'[j] = db[j]
        /\ UNCHANGED <<pc, section, unscanned, todo, snap>>
    BY <1>5 DEF ServerWrites, TypeOK
  <2>2. \A j \in Project \X Session : j[1] \in Key
    BY DEF Key, Section, Sections
  <2>3. QED
    BY <2>1, <2>2, SectionFacts
<1>6. ASSUME NEW dim \in Dimension, ServerDropsIndex \/ ServerCreatesIndex(dim)
      PROVE  Copied'
  <2>1. UNCHANGED <<db, pc, section, unscanned, todo, snap, touched>>
    BY <1>6 DEF ServerDropsIndex, ServerCreatesIndex, ServerReindexes
  <2>2. QED
    BY <2>1
<1>7. CASE UNCHANGED vars
  BY <1>7 DEF vars, history
<1>8. pc' \notin {"scan", "read", "encode"} \/ ~(Backup \/ Encode \/ RestoreStep \/ Fails \/ OtherVersion)
  BY DEF Backup, Encode, RestoreStep, Restore, Flush, EnsureInfo, EnsureDrop, EnsureCreate,
     RestoreCheck, RestoreWrite, RestoreNext, RestoreDone, Fails, Exit, OtherVersion
<1>9. QED
  BY <1>1, <1>2, <1>3, <1>4, <1>5, <1>6, <1>7, <1>8, DimensionAssumption DEF Next, BackupStep

\* How far a restore has come, and what it may rely on.
LEMMA NextRestored == IInv /\ [Next]_vars => Restored'
<1> SUFFICES ASSUME IInv, [Next]_vars, pc' = "write"
             PROVE  Restored'
  BY DEF Restored
<1> USE DEF IInv, Restored
<1>1. CASE RestoreCheck
  <2>1. section' = 1 /\ todo' = ToWrite(1) /\ file' = file
    BY <1>1 DEF RestoreCheck, Phase, Exit
  <2>2. \A i \in Sections : i > section' \/ i = section'
    BY <2>1, SectionFacts
  <2>3. \A i \in Sections : \A k \in Section[i] : k \in Present(file.entries) => k \in ToWrite(i)
    BY DEF ToWrite
  <2>4. QED
    BY <2>1, <2>2, <2>3
<1>2. CASE RestoreWrite
  <2>1. PICK k \in todo :
          /\ db' = [j \in Key |-> IF j \in Together(k) \cap todo THEN file.entries[j] ELSE db[j]]
          /\ todo' = todo \ Together(k)
    BY <1>2 DEF RestoreWrite
  <2>2. pc = "write" /\ UNCHANGED <<file, section, touched, clean>>
    BY <1>2 DEF RestoreWrite, history
  <2>3. QED
    BY <2>1, <2>2, SectionFacts
<1>3. CASE RestoreNext
  <2>1. /\ pc = "write" /\ todo = {} /\ section' = section + 1 /\ todo' = ToWrite(section')
        /\ UNCHANGED <<db, file, touched, clean>>
    BY <1>3 DEF RestoreNext, history
  <2>2. section \in 1 .. 5
    BY SectionFacts DEF TypeOK
  <2>3. \A i \in Sections : i > section => i > section' \/ i = section'
    BY <2>1, <2>2, SectionFacts
  <2>4. \A i \in Sections : \A k \in Section[i] : k \in Present(file.entries) => k \in ToWrite(i)
    BY DEF ToWrite
  <2>5. QED
    BY <2>1, <2>3, <2>4
<1>4. ASSUME NEW k \in Key, NEW content \in Content \cup {Absent}, ServerWrites(k, content)
      PROVE  Restored'
  <2>1. /\ touched' = touched \cup {k} /\ clean' = FALSE
        /\ \A j \in Key \ {k} : db'[j] = db[j]
        /\ UNCHANGED <<file, pc, section, todo>>
    BY <1>4 DEF ServerWrites, TypeOK
  <2>2. QED
    BY <2>1, SectionFacts
<1>5. ASSUME NEW dim \in Dimension, ServerDropsIndex \/ ServerCreatesIndex(dim)
      PROVE  Restored'
  <2>1. UNCHANGED <<db, file, pc, section, todo, touched, clean>>
    BY <1>5 DEF ServerDropsIndex, ServerCreatesIndex, ServerReindexes
  <2>2. QED
    BY <2>1
<1>6. CASE UNCHANGED vars
  BY <1>6 DEF vars, history
<1>7. ~(BackupStep \/ Fails \/ OtherVersion)
  BY DEF BackupStep, Backup, DumpInfo, DumpScan, DumpRead, DumpNext, Encode, Fails, Exit, OtherVersion
<1>8. RestoreStep => RestoreCheck \/ RestoreWrite \/ RestoreNext
  BY DEF RestoreStep, Restore, Flush, EnsureInfo, EnsureDrop, EnsureCreate, RestoreDone, Exit
<1>9. QED
  BY <1>1, <1>2, <1>3, <1>4, <1>5, <1>6, <1>7, <1>8, DimensionAssumption DEF Next

LEMMA NextClean == IInv /\ [Next]_vars => Clean'
<1> SUFFICES ASSUME IInv, [Next]_vars, clean' PROVE Clean'
  BY DEF Clean
<1> USE DEF IInv, Clean
<1>1. CASE BackupStep
  BY <1>1 DEF BackupStep, Backup, DumpInfo, DumpScan, DumpRead, DumpNext, Encode, BackupLabel, history
<1>2. CASE RestoreStep
  <2>1. CASE Flush
    BY <2>1 DEF Flush, Empty, BackupLabel
  <2>2. CASE RestoreWrite
    <3>1. \A k \in Key : db'[k] \in {db[k], file.entries[k]}
      BY <2>2 DEF RestoreWrite
    <3>2. QED
      BY <2>2, <3>1 DEF RestoreWrite, history, BackupLabel
  <2>3. CASE ~Flush /\ ~RestoreWrite
    <3>1. UNCHANGED <<db, file, clean>> /\ pc' \notin BackupLabel
      BY <1>2, <2>3 DEF RestoreStep, Restore, EnsureInfo, EnsureDrop, EnsureCreate, RestoreCheck,
         RestoreNext, RestoreDone, Exit, history, BackupLabel
    <3>2. QED
      BY <3>1
  <2>4. QED
    BY <2>1, <2>2, <2>3
<1>3. CASE Fails
  BY <1>3 DEF Fails, Exit, BackupLabel
<1>4. ASSUME NEW k \in Key, NEW content \in Content \cup {Absent}, ServerWrites(k, content)
      PROVE  FALSE
  BY <1>4 DEF ServerWrites
<1>5. ASSUME NEW dim \in Dimension, ServerDropsIndex \/ ServerCreatesIndex(dim)
      PROVE  Clean'
  <2>1. UNCHANGED <<db, file, pc, clean>>
    BY <1>5 DEF ServerDropsIndex, ServerCreatesIndex, ServerReindexes
  <2>2. QED
    BY <2>1
<1>6. CASE OtherVersion
  BY <1>6 DEF OtherVersion, history, TypeOK, Snapshot
<1>7. CASE UNCHANGED vars
  BY <1>7 DEF vars, history
<1>8. QED
  BY <1>1, <1>2, <1>3, <1>4, <1>5, <1>6, <1>7, DimensionAssumption DEF Next

LEMMA NextIndexed == IInv /\ [Next]_vars => Indexed'
<1> SUFFICES ASSUME IInv, [Next]_vars, pc' \in {"check", "write"}
             PROVE  Indexed'
  BY DEF Indexed
<1> USE DEF IInv, Indexed, EnsureDimension
<1>1. CASE EnsureInfo
  BY <1>1 DEF EnsureInfo, history
<1>2. CASE EnsureCreate
  BY <1>2 DEF EnsureCreate, Exit
<1>3. CASE RestoreCheck \/ RestoreWrite \/ RestoreNext
  BY <1>3 DEF RestoreCheck, RestoreWrite, RestoreNext, Exit, history
<1>4. ASSUME NEW k \in Key, NEW content \in Content \cup {Absent}, ServerWrites(k, content)
      PROVE  Indexed'
  BY <1>4 DEF ServerWrites
<1>5. ASSUME NEW dim \in Dimension, ServerDropsIndex \/ ServerCreatesIndex(dim)
      PROVE  Indexed'
  <2>1. pc \in RestoreLabel
    BY <1>5 DEF ServerDropsIndex, ServerCreatesIndex, ServerReindexes, RestoreLabel
  <2>2. reindexed'
    BY <1>5, <2>1, Zenon DEF ServerDropsIndex, ServerCreatesIndex, ServerReindexes
  <2>3. QED
    BY <2>2
<1>6. CASE UNCHANGED vars
  BY <1>6 DEF vars, history
<1>7. ~(BackupStep \/ Fails \/ OtherVersion)
  BY DEF BackupStep, Backup, DumpInfo, DumpScan, DumpRead, DumpNext, Encode, Fails, Exit, OtherVersion
<1>8. RestoreStep => EnsureInfo \/ EnsureCreate \/ RestoreCheck \/ RestoreWrite \/ RestoreNext
  BY DEF RestoreStep, Restore, Flush, EnsureDrop, RestoreDone, Exit
<1>9. QED
  BY <1>1, <1>2, <1>3, <1>4, <1>5, <1>6, <1>7, <1>8, DimensionAssumption DEF Next

LEMMA Invariant == Spec => []IInv
<1>1. IInv /\ [Next]_vars => IInv'
  BY NextType, NextCopied, NextRestored, NextClean, NextIndexed DEF IInv
<1>2. QED
  BY <1>1, InitIInv, PTL DEF Spec

(***************************************************************************)
(* The theorems.                                                           *)
(***************************************************************************)
\* Every variable keeps its type, and each section goes through its own keys.
THEOREM TypeCorrect == Spec => []TypeOK
BY Invariant, PTL DEF IInv

\* A snapshot that is written holds everything that nobody touched while the
\* dump ran, whatever servers do to the rest.
THEOREM DumpKeepsStable == Spec => []KeepsStable
<1>1. IInv => KeepsStable
  <2> SUFFICES ASSUME IInv, pc = "encode", NEW k \in Key \ touched,
                      k \in Project \X Session => k[1] \notin touched /\ db[k[1]] # Absent
               PROVE  snap.entries[k] = db[k]
    BY DEF KeepsStable
  <2>1. PICK i \in Sections : k \in Section[i]
    BY SectionFacts
  <2>2. ~(i > section) /\ todo = {} /\ unscanned = {}
    BY <2>1, SectionFacts DEF IInv, Phase
  <2>3. QED
    BY <2>1, <2>2 DEF IInv, Copied, Stable
<1>2. QED
  BY <1>1, Invariant, PTL

\* A restore that succeeds has brought back the whole file but for what servers
\* wrote meanwhile; since a flush, the database is the file.
THEOREM RestoreIsComplete == Spec => RestoresSnapshot
<1>1. ASSUME IInv, RestoreDone
      PROVE  /\ \A k \in Present(file.entries) \ touched : db[k] = file.entries[k]
             /\ clean => db = file.entries
  <2>1. pc = "write" /\ todo = {} /\ section = 5
    BY <1>1, SectionFacts DEF RestoreDone
  <2>2. \A k \in Present(file.entries) : clean \/ k \notin touched => db[k] = file.entries[k]
    <3>1. ASSUME NEW k \in Present(file.entries), clean \/ k \notin touched
          PROVE  db[k] = file.entries[k]
      <4>1. PICK i \in Sections : k \in Section[i]
        BY SectionFacts DEF Present
      <4>2. ~(i > section)
        BY <2>1, SectionFacts
      <4>3. QED
        BY <1>1, <2>1, <3>1, <4>1, <4>2 DEF IInv, Restored
    <3>2. QED
      BY <3>1
  <2>3. ASSUME clean PROVE db = file.entries
    <3>1. \A k \in Key : db[k] = file.entries[k]
      BY <1>1, <2>2, <2>3 DEF IInv, Clean, Present
    <3>2. QED
      BY <1>1, <3>1 DEF IInv, TypeOK, Snapshot
  <2>4. QED
    BY <2>2, <2>3
<1>2. IInv /\ [Next]_vars =>
        [RestoreDone => /\ \A k \in Present(file.entries) \ touched : db[k] = file.entries[k]
                        /\ clean => db = file.entries]_vars
  BY <1>1
<1>3. QED
  BY <1>2, Invariant, PTL DEF Spec, RestoresSnapshot

\* A restore leaves the index that its file needs, and never refuses the file
\* for it, unless a server touched the index meanwhile.
THEOREM RestoreIsIndexed == Spec => RestoresIndex
<1>1. IInv /\ [Next]_vars =>
        [/\ RestoreDone => reindexed \/ index = EnsureDimension
         /\ RestoreCheck /\ pc' = "idle" => reindexed \/ file.version # snapshotVersion]_vars
  <2>1. ASSUME IInv, RestoreDone PROVE reindexed \/ index = EnsureDimension
    BY <2>1 DEF IInv, Indexed, RestoreDone
  <2>2. ASSUME IInv, RestoreCheck, pc' = "idle"
        PROVE  reindexed \/ file.version # snapshotVersion
    <3>1. reindexed \/ index = EnsureDimension
      BY <2>2 DEF IInv, Indexed, RestoreCheck
    <3>2. ~(file.version = snapshotVersion /\ file.dim \in {0, index})
      BY <2>2 DEF RestoreCheck
    <3>3. QED
      BY <3>1, <3>2 DEF EnsureDimension
  <2>3. QED
    BY <2>1, <2>2
<1>2. QED
  BY <1>1, Invariant, PTL DEF Spec, RestoresIndex
=============================================================================
