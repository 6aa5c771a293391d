----------------------------- MODULE BackupRestore -----------------------------
(***************************************************************************)
(* The backup and restore commands (cmd/mnemoir/backup_cmd.go and          *)
(* internal/dbops) on a database that servers may go on writing to.        *)
(*                                                                         *)
(* The database is a function from keys to contents.  A key is a memory,   *)
(* a session, a member of "projects", an entry of a project_sessions       *)
(* sorted set, or an entry of tags:frequency; Dump and Restore go through  *)
(* these five sections in this order.  A content is opaque: a hash with    *)
(* all its fields, or a score.  A step is one Redis command: a pipeline is *)
(* no transaction.                                                         *)
(***************************************************************************)
EXTENDS Naturals, Sequences

CONSTANTS
  Memory, Session, Project, Tag,
  Content,          \* what a hash or a score can be
  InitialContent,   \* bound: what it is at first; contents of different keys are never compared
  Absent,           \* the content of a key that does not exist
  Dimension,        \* vector dimensions, positive numbers
  ConfigDimension,  \* config: embedding.dimension, as the command reads it
  ChangeBound,      \* bound: commands of servers on the database
  Faults            \* what may fail: "redis" (a command), "crash" (the command's process)

ASSUME ContentAssumption == InitialContent \subseteq Content /\ Absent \notin Content
ASSUME DimensionAssumption == Dimension \subseteq Nat \ {0} /\ ConfigDimension \in Dimension

VARIABLES
  db,       \* the contents of the database
  index,    \* the dimension of the RediSearch index, 0 when there is none
  file,     \* the snapshot file
  pc,       \* where the command is
  section,  \* the section that Dump or Restore is at
  unscanned, \* the keys that SCAN has not come to yet
  todo,     \* keys still to read or to write
  snap,     \* Dump's snapshot
  changes,  \* bound: commands that servers have sent
  touched,  \* history: keys that servers have written since the command began
  clean,    \* history: all that is in the database came from this file
  reindexed \* history: a server has touched the index since the restore began

history == <<touched, clean, reindexed>>
vars == <<db, index, file, pc, section, unscanned, todo, snap, changes, history>>

Section == <<Memory, Session, Project, Project \X Session, Tag>>
Sections == 1 .. Len(Section)

\* Keys of different kinds have different prefixes.
ASSUME KeyAssumption ==
  \A i, j \in Sections : i # j => Section[i] \cap Section[j] = {}
ASSUME BoundAssumption == ChangeBound \in Nat

Key == UNION {Section[i] : i \in Sections}
Empty == [k \in Key |-> Absent]
Present(contents) == {k \in Key : contents[k] # Absent}

\* The keys that one command reads or writes together with k: HGETALL and HSET
\* take one hash, SMEMBERS and SADD the set, ZRANGE and ZADD a sorted set.
Together(k) ==
  CASE k \in Memory \cup Session -> {k}
    [] k \in Project -> Project
    [] k \in Project \X Session -> {k[1]} \X Session
    [] k \in Tag -> Tag

snapshotVersion == 1
NoFile == [version |-> 0, dim |-> 0, entries |-> Empty]
RestoreLabel == {"flush", "ensure_info", "ensure_drop", "ensure_create", "check", "write"}
Label == {"idle", "dump_info", "scan", "read", "encode"} \cup RestoreLabel

Init ==
  /\ db \in [Key -> InitialContent \cup {Absent}]
  /\ index = ConfigDimension
  /\ file = NoFile
  /\ pc = "idle" /\ section = 1 /\ unscanned = {} /\ todo = {} /\ snap = NoFile
  /\ changes = 0 /\ touched = {} /\ clean = FALSE /\ reindexed = FALSE

\* The process ends.
Exit ==
  /\ pc' = "idle" /\ section' = 1 /\ unscanned' = {} /\ todo' = {} /\ snap' = NoFile
  /\ touched' = {} /\ reindexed' = FALSE

-----------------------------------------------------------------------------
(***************************************************************************)
(* Faulty variants of definitions below, which no specification uses.      *)
(***************************************************************************)
\* DumpScan that takes the first batch for the whole answer.
DumpScanOnce ==
  /\ pc = "scan" /\ pc' = "read"
  /\ \E batch \in (SUBSET unscanned) \ {{}} :
       /\ unscanned' = {}
       /\ todo' = batch \cap Present(db)
  /\ UNCHANGED <<db, index, file, section, snap, changes, history>>

\* RestoreWrite that keeps what the database has.
RestoreWriteMissing ==
  /\ pc = "write"
  /\ \E k \in todo :
       /\ db' = [j \in Key |->
                   IF j \in Together(k) \cap todo /\ db[j] = Absent THEN file.entries[j] ELSE db[j]]
       /\ todo' = todo \ Together(k)
  /\ UNCHANGED <<index, file, pc, section, unscanned, snap, changes, history>>

\* EnsureInfo that takes any index for the right one.
EnsureInfoAny ==
  /\ pc = "ensure_info"
  /\ pc' = IF index = 0 THEN "ensure_create" ELSE "check"
  /\ UNCHANGED <<db, index, file, section, unscanned, todo, snap, changes, history>>

\* DumpInfo before a scan for keys of every kind.
DumpInfoAll ==
  /\ pc = "dump_info" /\ pc' = "scan"
  /\ snap' = [version |-> snapshotVersion, dim |-> index, entries |-> Empty]
  /\ unscanned' = Key
  /\ UNCHANGED <<db, index, file, section, todo, changes, history>>

-----------------------------------------------------------------------------
(***************************************************************************)
(* backup.  The output file is truncated first and written last.           *)
(***************************************************************************)
Backup ==
  /\ pc = "idle" /\ pc' = "dump_info"
  /\ file' = NoFile
  /\ clean' = FALSE
  /\ UNCHANGED <<db, index, section, unscanned, todo, snap, changes, touched, reindexed>>

\* An error of FT.INFO is ignored and leaves the dimension 0.
DumpInfo ==
  /\ pc = "dump_info" /\ pc' = "scan"
  /\ \E dim \in {index} \cup (IF "redis" \in Faults THEN {0} ELSE {}) :
       snap' = [version |-> snapshotVersion, dim |-> dim, entries |-> Empty]
  /\ unscanned' = Section[1]
  /\ UNCHANGED <<db, index, file, section, todo, changes, history>>

\* SCAN returns the keys of the next part of the key space that are there now.
DumpScan ==
  /\ pc = "scan"
  /\ \E batch \in (SUBSET unscanned) \ {{}} :
       /\ unscanned' = unscanned \ batch
       /\ todo' = todo \cup (batch \cap Present(db))
       /\ pc' = IF unscanned' = {} THEN "read" ELSE "scan"
  /\ UNCHANGED <<db, index, file, section, snap, changes, history>>

\* A hash that has gone since the scan is left out.
DumpRead ==
  /\ pc = "read"
  /\ \E k \in todo :
       /\ snap' = [snap EXCEPT !.entries =
                     [j \in Key |-> IF j \in Together(k) THEN db[j] ELSE @[j]]]
       /\ todo' = todo \ Together(k)
  /\ UNCHANGED <<db, index, file, pc, section, unscanned, changes, history>>

\* Memories and sessions are scanned for; the sorted sets are those of the
\* projects that the snapshot lists.
DumpNext ==
  /\ pc = "read" /\ todo = {}
  /\ IF section = Len(Section)
       THEN pc' = "encode" /\ UNCHANGED <<section, unscanned, todo>>
       ELSE /\ section' = section + 1
            /\ IF section' = 2
                 THEN pc' = "scan" /\ unscanned' = Section[2] /\ UNCHANGED todo
                 ELSE /\ todo' = IF section' = 4
                                   THEN {k \in Section[4] : snap.entries[k[1]] # Absent}
                                   ELSE Section[section']
                      /\ UNCHANGED <<pc, unscanned>>
  /\ UNCHANGED <<db, index, file, snap, changes, history>>

Encode ==
  /\ pc = "encode"
  /\ file' = snap
  /\ Exit
  /\ UNCHANGED <<db, index, changes, clean>>

-----------------------------------------------------------------------------
(***************************************************************************)
(* restore.  A file that holds no snapshot is refused before anything is   *)
(* done; its version is looked at after the flush.                         *)
(***************************************************************************)
Restore(flush) ==
  /\ pc = "idle" /\ file # NoFile
  /\ pc' = IF flush THEN "flush" ELSE "ensure_info"
  /\ UNCHANGED <<db, index, file, section, unscanned, todo, snap, changes, history>>

\* FLUSHDB takes the RediSearch index along.
Flush ==
  /\ pc = "flush" /\ pc' = "ensure_info"
  /\ db' = Empty /\ index' = 0
  /\ clean' = TRUE
  /\ UNCHANGED <<file, section, unscanned, todo, snap, changes, touched, reindexed>>

EnsureDimension == IF file.dim = 0 THEN ConfigDimension ELSE file.dim

\* Any error of FT.INFO is taken for a missing index; the other two commands
\* fail when a server has dropped or created the index since.
EnsureInfo ==
  /\ pc = "ensure_info"
  /\ \/ pc' = CASE index = 0 -> "ensure_create"
                 [] index = EnsureDimension -> "check"
                 [] OTHER -> "ensure_drop"
     \/ "redis" \in Faults /\ pc' = "ensure_create"
  /\ UNCHANGED <<db, index, file, section, unscanned, todo, snap, changes, history>>

EnsureDrop ==
  /\ pc = "ensure_drop"
  /\ IF index = 0
       THEN Exit /\ UNCHANGED index
       ELSE /\ pc' = "ensure_create" /\ index' = 0
            /\ UNCHANGED <<section, unscanned, todo, snap, touched, reindexed>>
  /\ UNCHANGED <<db, file, changes, clean>>

EnsureCreate ==
  /\ pc = "ensure_create"
  /\ IF index # 0
       THEN Exit /\ UNCHANGED index
       ELSE /\ pc' = "check" /\ index' = EnsureDimension
            /\ UNCHANGED <<section, unscanned, todo, snap, touched, reindexed>>
  /\ UNCHANGED <<db, file, changes, clean>>

\* The keys of the snapshot that section i is to write.
ToWrite(i) == Section[i] \cap Present(file.entries)

RestoreCheck ==
  /\ pc = "check"
  /\ IF file.version = snapshotVersion /\ file.dim \in {0, index}
       THEN /\ pc' = "write" /\ todo' = ToWrite(1)
            /\ UNCHANGED <<section, unscanned, snap, touched, reindexed>>
       ELSE Exit
  /\ UNCHANGED <<db, index, file, changes, clean>>

RestoreWrite ==
  /\ pc = "write"
  /\ \E k \in todo :
       /\ db' = [j \in Key |-> IF j \in Together(k) \cap todo THEN file.entries[j] ELSE db[j]]
       /\ todo' = todo \ Together(k)
  /\ UNCHANGED <<index, file, pc, section, unscanned, snap, changes, history>>

RestoreNext ==
  /\ pc = "write" /\ todo = {} /\ section < Len(Section)
  /\ section' = section + 1 /\ todo' = ToWrite(section')
  /\ UNCHANGED <<db, index, file, pc, unscanned, snap, changes, history>>

\* Restore waits for the index at most two minutes and succeeds either way.
RestoreDone ==
  /\ pc = "write" /\ todo = {} /\ section = Len(Section)
  /\ Exit
  /\ UNCHANGED <<db, index, file, changes, clean>>

-----------------------------------------------------------------------------
\* An error, or a crash, ends the command; what it has done stays done.
Fails ==
  /\ Faults # {} /\ pc # "idle"
  /\ Exit
  /\ UNCHANGED <<db, index, file, changes, clean>>

\* A server sends a command, for whatever call it serves.
ServerWrites(k, content) ==
  /\ changes < ChangeBound /\ changes' = changes + 1
  /\ db' = [db EXCEPT ![k] = content]
  /\ touched' = IF pc = "idle" THEN {} ELSE touched \cup {k}
  /\ clean' = FALSE
  /\ UNCHANGED <<index, file, pc, section, unscanned, todo, snap, reindexed>>

\* A server that starts runs EnsureIndex too, with the dimension of its own
\* embedding model, whatever the command is doing.
ServerReindexes ==
  /\ reindexed' = (pc \in RestoreLabel)
  /\ UNCHANGED <<db, file, pc, section, unscanned, todo, snap, changes, touched, clean>>

ServerDropsIndex == index # 0 /\ index' = 0 /\ ServerReindexes
ServerCreatesIndex(dim) == index = 0 /\ index' = dim /\ ServerReindexes

\* The file is one that a later release has written.
OtherVersion ==
  /\ pc = "idle" /\ file # NoFile
  /\ file' = [file EXCEPT !.version = snapshotVersion + 1]
  /\ UNCHANGED <<db, index, pc, section, unscanned, todo, snap, changes, history>>

BackupStep == Backup \/ DumpInfo \/ DumpScan \/ DumpRead \/ DumpNext \/ Encode

RestoreStep ==
  \/ \E flush \in BOOLEAN : Restore(flush)
  \/ Flush \/ EnsureInfo \/ EnsureDrop \/ EnsureCreate
  \/ RestoreCheck \/ RestoreWrite \/ RestoreNext \/ RestoreDone

Next ==
  \/ BackupStep \/ RestoreStep \/ Fails
  \/ \E k \in Key, content \in Content \cup {Absent} : ServerWrites(k, content)
  \/ ServerDropsIndex \/ \E dim \in Dimension : ServerCreatesIndex(dim)
  \/ OtherVersion

Spec == Init /\ [][Next]_vars

-----------------------------------------------------------------------------
(***************************************************************************)
(* Properties.                                                             *)
(***************************************************************************)
Snapshot ==
  [version : 0 .. snapshotVersion + 1, dim : Dimension \cup {0},
   entries : [Key -> Content \cup {Absent}]]

\* Every variable keeps its type; each section goes through its own keys.
TypeOK ==
  /\ db \in [Key -> Content \cup {Absent}]
  /\ index \in Dimension \cup {0}
  /\ file \in Snapshot /\ snap \in Snapshot
  /\ pc \in Label /\ section \in Sections
  /\ unscanned \cup todo \subseteq Section[section] /\ touched \subseteq Key
  /\ changes \in 0 .. ChangeBound /\ clean \in BOOLEAN /\ reindexed \in BOOLEAN

\* A backup on a busy database still holds, with its content, everything that
\* nobody wrote while it ran; of the sorted sets, those of projects that were
\* listed all that time.
KeepsStable ==
  pc = "encode" =>
    \A k \in Key \ touched :
      (k \in Project \X Session => k[1] \notin touched /\ db[k[1]] # Absent) =>
        snap.entries[k] = db[k]

\* A restore that succeeds has brought back every entry of the file that no
\* server wrote meanwhile; and if since a flush nobody else has written, the
\* database is what the file says, however many restores broke off before.
RestoresSnapshot ==
  [][RestoreDone =>
       /\ \A k \in Present(file.entries) \ touched : db[k] = file.entries[k]
       /\ clean => db = file.entries]_vars

\* A restore that succeeds leaves an index of the dimension of the file, of the
\* configuration if the file says none, and one of a file of this version is
\* refused for its dimension never, unless a server meddles with the index
\* meanwhile.
RestoresIndex ==
  [][/\ RestoreDone => reindexed \/ index = EnsureDimension
     /\ RestoreCheck /\ pc' = "idle" => reindexed \/ file.version # snapshotVersion]_vars
=============================================================================
