------------------------ MODULE ServerStartup_proofs ------------------------
(***************************************************************************)
(* Theorems about ServerStartup, for any processes, files, chunks, tags,   *)
(* dimensions, bounds and faults.                                          *)
(***************************************************************************)
EXTENDS ServerStartup, TLAPS

(***************************************************************************)
(* The inductive invariant.                                                *)
(***************************************************************************)
\* The locals of the download, and the files that a process can write to.
Downloads ==
  \A p \in Process :
    /\ pc[p] \in {"copy", "rename"} => \E f \in File : current[p] = {f}
    /\ pc[p] \notin {"copy", "rename"} => current[p] = {}
    /\ pc[p] # "copy" => offset[p] = 0
    /\ \A f \in current[p] :
         /\ open[p] = "temp" => temp[f] # NoFile
         /\ open[p] = "published" => published[f] # NoFile

\* Of a file that was not raced there is one writer at most, and what it has
\* written is what it has copied.
Alone(f) ==
  /\ published[f] \in {NoFile, Chunk}
  /\ \A p \in Process : f \in current[p] =>
       /\ \A q \in Process \ {p} : f \notin current[q]
       /\ \/ pc[p] = "copy" /\ open[p] = "temp" /\ temp[f] = 1 .. offset[p]
          \/ pc[p] = "rename" /\ temp[f] = Chunk

\* One of the processes that have the file open under this name has written it
\* from the start, and will complete it.
Completes(name, content, f) ==
  \E p \in Process :
    f \in current[p] /\ open[p] = name /\ 1 .. offset[p] \subseteq content

\* Of a file that was raced and not spoiled, the temporary file and the published
\* one are whole or being completed.
Completed(f) ==
  /\ temp[f] \in {NoFile, Chunk} \/ Completes("temp", temp[f], f)
  /\ published[f] \in {NoFile, Chunk} \/ Completes("published", published[f], f)

Whole ==
  \A f \in File :
    /\ f \notin raced => Alone(f)
    /\ f \in raced \ spoiled => Completed(f)

\* A process that has come past EnsureIndex.
Serving(p) ==
  /\ command[p] = "serve"
  /\ pc[p] \notin {"down", "index_info", "index_drop", "index_create"}

\* A prewarm does not come past the model.
Prewarmed ==
  \A p \in Process : command[p] = "prewarm" => pc[p] \notin {"tags_count", "tags_add", "up"}

\* An index of another dimension never comes back.
Indexed ==
  (\E p \in Process : Serving(p)) =>
    /\ index \in {0, Dimension}
    /\ index = Dimension \/ unindexed \/ \E q \in Process : At(q, "index_create")

\* A tag that nobody has added has no score, and a server that takes calls has
\* seen the defaults.
Seeded ==
  /\ SeedsAndLearns
  /\ \A t \in Tag \ vocabulary : frequency[t] = 0
  /\ (\E p \in Process : At(p, "up")) => unseeded \/ DefaultTag \subseteq vocabulary

IInv == TypeOK /\ Downloads /\ Whole /\ Prewarmed /\ Indexed /\ Seeded

USE DEF At, Goto

LEMMA InitIInv == Init => IInv
<1> SUFFICES ASSUME Init PROVE IInv
  OBVIOUS
<1>1. TypeOK
  <2>1. 0 \in 0 .. Chunks - 1 /\ 0 \in 0 .. FrequencyBound /\ NoFile \in Contents
    BY FileAssumption, TagAssumption DEF Contents
  <2>2. /\ published \in [File -> Contents] /\ temp \in [File -> Contents]
        /\ frequency \in [Tag -> 0 .. FrequencyBound] /\ learned \in [Tag -> 0 .. FrequencyBound]
        /\ offset \in [Process -> 0 .. Chunks - 1]
    BY <2>1 DEF Init
  <2>3. QED
    BY <2>2 DEF Init, TypeOK, Label
<1>2. Downloads
  BY DEF Init, Downloads
<1>3. Whole
  BY DEF Init, Whole, Alone, Completed
<1>4. Prewarmed /\ Indexed /\ Seeded
  BY DEF Init, Prewarmed, Indexed, Serving, Seeded, SeedsAndLearns
<1>5. QED
  BY <1>1, <1>2, <1>3, <1>4 DEF IInv

(***************************************************************************)
(* Types and locals.                                                       *)
(***************************************************************************)
LEMMA ChunkFacts ==
  /\ Chunks \in Nat /\ Chunks >= 1
  /\ Chunk \in SUBSET Nat /\ NoFile \notin SUBSET Chunk
  /\ \A n \in 0 .. Chunks - 1 : n + 1 \in Chunk
BY FileAssumption DEF Chunk, NoFile

LEMMA RememberType == Remember => raced' \subseteq File /\ spoiled' \subseteq File
BY DEF Remember

\* The types of what a process holds.
LocalsOK ==
  /\ pc \in [Process -> Label] /\ command \in [Process -> {"serve", "prewarm"}]
  /\ files \in [Process -> SUBSET File] /\ current \in [Process -> SUBSET File]
  /\ open \in [Process -> {"temp", "published", "lost", "none"}]
  /\ \A p \in Process : open[p] = "none" <=> pc[p] # "copy"
  /\ offset \in [Process -> 0 .. Chunks - 1]

FilesOK == published \in [File -> Contents] /\ temp \in [File -> Contents]

TagsOK ==
  /\ vocabulary \subseteq Tag
  /\ frequency \in [Tag -> 0 .. FrequencyBound] /\ learned \in [Tag -> 0 .. FrequencyBound]
  /\ unseeded \in BOOLEAN

IndexOK == index \in {0, Dimension} \cup OtherDimension /\ unindexed \in BOOLEAN

LEMMA TypeParts ==
  TypeOK <=> LocalsOK /\ FilesOK /\ TagsOK /\ IndexOK /\ raced \subseteq File /\ spoiled \subseteq File
BY DEF TypeOK, LocalsOK, FilesOK, TagsOK, IndexOK

\* A step of a process that is not at a file and does not go to one.
LEMMA QuietLocals ==
  ASSUME LocalsOK, Downloads, NEW p \in Process, NEW label \in Label \ {"copy", "rename"},
         pc[p] \notin {"copy", "rename"}, Goto(p, label),
         UNCHANGED <<fileVars, current, open, offset>>,
         command' \in [Process -> {"serve", "prewarm"}], files' \in [Process -> SUBSET File]
  PROVE  LocalsOK' /\ Downloads'
BY DEF LocalsOK, Downloads, fileVars

LEMMA ExitLocals ==
  ASSUME LocalsOK, Downloads, NEW p \in Process, Exit(p), UNCHANGED fileVars
  PROVE  LocalsOK' /\ Downloads'
BY ChunkFacts DEF Exit, ExitWith, LocalsOK, Downloads, fileVars, Label

LEMMA CommandType ==
  ASSUME IInv, NEW p \in Process, Serve(p) \/ Prewarm(p) \/ Stop(p) \/ Crash(p)
  PROVE  LocalsOK' /\ Downloads' /\ FilesOK' /\ TagsOK' /\ IndexOK'
<1> LocalsOK /\ FilesOK /\ TagsOK /\ IndexOK /\ Downloads
  BY TypeParts DEF IInv
<1>1. UNCHANGED index /\ UNCHANGED fileVars /\ UNCHANGED tagVars /\ unindexed' \in BOOLEAN
  BY DEF Serve, Prewarm, Start, Stop, Crash, indexVars, IndexOK
<1>2. FilesOK' /\ TagsOK' /\ IndexOK'
  BY <1>1 DEF FilesOK, TagsOK, IndexOK, fileVars, tagVars
<1>3. ASSUME NEW what \in {"serve", "prewarm"}, NEW label \in {"index_info", "check"},
             Start(p, what, label)
      PROVE  LocalsOK' /\ Downloads'
  <2>1. /\ command' \in [Process -> {"serve", "prewarm"}] /\ files' \in [Process -> SUBSET File]
        /\ pc[p] \notin {"copy", "rename"} /\ label \in Label \ {"copy", "rename"}
    BY <1>3 DEF Start, LocalsOK, Label
  <2>2. QED
    BY <1>3, <2>1, QuietLocals DEF Start
<1>4. ASSUME Stop(p) \/ Crash(p) PROVE LocalsOK' /\ Downloads'
  <2>1. Exit(p)
    BY <1>4, Zenon DEF Stop, Crash
  <2>2. QED
    BY <1>1, <2>1, ExitLocals
<1>5. QED
  BY <1>2, <1>3, <1>4 DEF Serve, Prewarm

LEMMA IndexType ==
  ASSUME IInv, NEW p \in Process, IndexStep(p)
  PROVE  LocalsOK' /\ Downloads' /\ FilesOK' /\ TagsOK' /\ IndexOK'
<1> LocalsOK /\ FilesOK /\ TagsOK /\ IndexOK /\ Downloads
  BY TypeParts DEF IInv
<1>1. UNCHANGED <<fileVars, tagVars>>
  BY DEF IndexStep, IndexInfo, IndexInfoFails, IndexDrop, IndexCreate, IndexFails
<1>2. FilesOK' /\ TagsOK'
  BY <1>1 DEF FilesOK, TagsOK, fileVars, tagVars
<1>3. IndexOK'
  <2>1. CASE IndexFails(p)
    BY <2>1 DEF IndexFails, IndexOK
  <2>2. CASE ~IndexFails(p)
    BY <2>2 DEF IndexStep, IndexInfo, IndexInfoFails, IndexDrop, IndexCreate, IndexOK, indexVars
  <2>3. QED
    BY <2>1, <2>2
<1>4. LocalsOK' /\ Downloads'
  <2>1. CASE Exit(p)
    BY <1>1, <2>1, ExitLocals
  <2>2. CASE ~Exit(p)
    <3>1. PICK label \in {"index_create", "check", "index_drop"} : Goto(p, label)
      BY <2>2 DEF IndexStep, IndexInfo, IndexInfoFails, IndexDrop, IndexCreate, IndexFails
    <3>2. UNCHANGED locals /\ pc[p] \notin {"copy", "rename"}
      BY <2>2 DEF IndexStep, IndexInfo, IndexInfoFails, IndexDrop, IndexCreate, IndexFails
    <3>3. QED
      BY <1>1, <3>1, <3>2, QuietLocals DEF locals, Label, LocalsOK
  <2>3. QED
    BY <2>1, <2>2
<1>5. QED
  BY <1>2, <1>3, <1>4

LEMMA TagType ==
  ASSUME IInv, NEW p \in Process, TagStep(p)
  PROVE  LocalsOK' /\ Downloads' /\ FilesOK' /\ TagsOK' /\ IndexOK'
<1> LocalsOK /\ FilesOK /\ TagsOK /\ IndexOK /\ Downloads
  BY TypeParts DEF IInv
<1>1. UNCHANGED <<indexVars, fileVars, locals>>
  BY DEF TagStep, TagsCount, TagsAdd, SeedFails, IncrementTag
<1>2. FilesOK' /\ IndexOK'
  BY <1>1 DEF FilesOK, IndexOK, fileVars, indexVars
<1>3. TagsOK'
  <2>1. CASE TagsCount(p)
    BY <2>1 DEF TagsCount, TagsOK, tagVars
  <2>2. CASE TagsAdd(p)
    <3>1. vocabulary' \subseteq Tag
      BY <2>2 DEF TagsAdd, TagsOK, Tag
    <3>2. frequency' \in [Tag -> 0 .. FrequencyBound]
      BY <2>2, TagAssumption DEF TagsAdd, TagsOK
    <3>3. learned' = learned /\ unseeded' \in BOOLEAN
      BY <2>2 DEF TagsAdd
    <3>4. QED
      BY <3>1, <3>2, <3>3 DEF TagsOK
  <2>3. CASE SeedFails(p)
    <3>1. unseeded' = ~(DefaultTag \subseteq vocabulary)
      BY <2>3, Zenon DEF SeedFails
    <3>2. unseeded' \in BOOLEAN
      BY <3>1, SMT
    <3>3. UNCHANGED vocabulary /\ UNCHANGED frequency /\ UNCHANGED learned
      BY <2>3, Zenon DEF SeedFails
    <3>4. QED
      BY <3>2, <3>3 DEF TagsOK
  <2>4. ASSUME NEW t \in UsedTag, IncrementTag(p, t) PROVE TagsOK'
    <3>1. t \in Tag /\ learned[t] = frequency[t] /\ frequency[t] + 1 \in 0 .. FrequencyBound
      BY <2>4, TagAssumption DEF IncrementTag, TagsOK, IInv, Seeded, SeedsAndLearns, Tag
    <3>2. QED
      BY <2>4, <3>1 DEF IncrementTag, TagsOK
  <2>5. QED
    BY <2>1, <2>2, <2>3, <2>4 DEF TagStep
<1>4. LocalsOK' /\ Downloads'
  <2>1. CASE \E t \in UsedTag : IncrementTag(p, t)
    BY <1>1, <2>1 DEF IncrementTag, LocalsOK, Downloads, fileVars, locals
  <2>2. CASE TagsCount(p) \/ TagsAdd(p) \/ SeedFails(p)
    BY <1>1, <2>2, QuietLocals DEF TagsCount, TagsAdd, SeedFails, LocalsOK, locals, Label
  <2>3. QED
    BY <2>1, <2>2 DEF TagStep
<1>5. QED
  BY <1>2, <1>3, <1>4

\* How the others have their files open, when p loses its own.
LEMMA MissedLocals ==
  ASSUME LocalsOK, Downloads, NEW p \in Process, NEW f \in File,
         NEW opened \in [Process -> {"temp", "published", "lost", "none"}], Missed(p, f, opened),
         \A q \in Process : opened[q] = "none" <=> open[q] = "none",
         \A q \in Process \ {p} : \A g \in current[q] :
           /\ opened[q] = "temp" => temp'[g] # NoFile
           /\ opened[q] = "published" => published'[g] # NoFile
  PROVE  LocalsOK' /\ Downloads'
<1>1. PICK label \in {"down", "fetch"} :
        /\ pc' = [pc EXCEPT ![p] = label] /\ current' = [current EXCEPT ![p] = {}]
        /\ open' = [opened EXCEPT ![p] = "none"] /\ offset' = [offset EXCEPT ![p] = 0]
  BY DEF Missed, ExitWith
<1>2. command' \in [Process -> {"serve", "prewarm"}] /\ files' \in [Process -> SUBSET File]
  BY DEF Missed, ExitWith, LocalsOK
<1>3. LocalsOK'
  <2>1. pc' \in [Process -> Label] /\ current' \in [Process -> SUBSET File]
    BY <1>1 DEF LocalsOK, Label
  <2>2. offset' \in [Process -> 0 .. Chunks - 1]
    BY <1>1, ChunkFacts DEF LocalsOK
  <2>3. /\ open' \in [Process -> {"temp", "published", "lost", "none"}]
        /\ \A q \in Process : open'[q] = "none" <=> pc'[q] # "copy"
    BY <1>1 DEF LocalsOK
  <2>4. QED
    BY <1>2, <2>1, <2>2, <2>3 DEF LocalsOK
<1>4. Downloads'
  BY <1>1 DEF Downloads, LocalsOK
<1>5. QED
  BY <1>3, <1>4

LEMMA FetchType ==
  ASSUME IInv, NEW p \in Process, NEW f \in File, Fetch(p, f)
  PROVE  LocalsOK' /\ Downloads' /\ FilesOK'
<1> LocalsOK /\ FilesOK /\ Downloads
  BY TypeParts DEF IInv
<1>1. LocalsOK'
  BY DEF Fetch, LocalsOK, Label
<1>2. FilesOK'
  BY DEF Fetch, FilesOK, Contents
<1>3. Downloads'
  BY ChunkFacts DEF Fetch, Downloads, LocalsOK, FilesOK, Contents
<1>4. QED
  BY <1>1, <1>2, <1>3

LEMMA CopyType ==
  ASSUME IInv, NEW p \in Process, NEW f \in File, Copy(p, f)
  PROVE  LocalsOK' /\ Downloads' /\ FilesOK'
<1> LocalsOK /\ FilesOK /\ Downloads
  BY TypeParts DEF IInv
<1> DEFINE n == offset[p] + 1
<1>1. current[p] = {f} /\ n \in Chunk /\ (n < Chunks => n \in 0 .. Chunks - 1)
  BY ChunkFacts DEF Copy, Downloads, LocalsOK
<1>2. /\ open[p] = "temp" => temp[f] \in SUBSET Chunk
      /\ open[p] = "published" => published[f] \in SUBSET Chunk
  BY <1>1 DEF Downloads, FilesOK, Contents
<1> HIDE DEF n
<1>3. /\ temp' = IF open[p] = "temp" THEN [temp EXCEPT ![f] = @ \cup {n}] ELSE temp
      /\ published' = IF open[p] = "published" THEN [published EXCEPT ![f] = @ \cup {n}]
                                               ELSE published
  BY DEF Copy, n
<1>4. FilesOK'
  BY <1>1, <1>2, <1>3 DEF FilesOK, Contents
<1>5. \A g \in File : /\ temp[g] # NoFile => temp'[g] # NoFile
                      /\ published[g] # NoFile => published'[g] # NoFile
  BY <1>1, <1>2, <1>3, ChunkFacts DEF FilesOK
<1>6. CASE n < Chunks
  <2>1. offset' = [offset EXCEPT ![p] = n] /\ UNCHANGED <<pc, open, command, files, current>>
    BY <1>6 DEF Copy, n
  <2>2. LocalsOK'
    BY <1>1, <1>6, <2>1 DEF LocalsOK
  <2>3. Downloads'
    BY <1>5, <2>1 DEF Downloads, LocalsOK, Copy
  <2>4. QED
    BY <1>4, <2>2, <2>3
<1>7. CASE ~(n < Chunks)
  <2>1. /\ offset' = [offset EXCEPT ![p] = 0] /\ open' = [open EXCEPT ![p] = "none"]
        /\ pc' = [pc EXCEPT ![p] = "rename"] /\ UNCHANGED <<command, files, current>>
    BY <1>7 DEF Copy, n
  <2>2. LocalsOK'
    BY <2>1, ChunkFacts DEF LocalsOK, Label
  <2>3. Downloads'
    BY <1>1, <1>5, <2>1 DEF Downloads, LocalsOK
  <2>4. QED
    BY <1>4, <2>2, <2>3
<1>8. QED
  BY <1>6, <1>7

\* How processes have their files open after f has lost its temporary name.
LEMMA RenamedOpen ==
  ASSUME LocalsOK, Downloads, NEW f \in File, NEW to \in {"lost", "published"}
  PROVE  /\ Renamed(f, "temp", to) \in [Process -> {"temp", "published", "lost", "none"}]
         /\ \A q \in Process : Renamed(f, "temp", to)[q] = "none" <=> open[q] = "none"
         /\ \A q \in Process : \A g \in current[q] :
              Renamed(f, "temp", to)[q] = IF g = f /\ open[q] = "temp" THEN to ELSE open[q]
BY DEF Renamed, LocalsOK, Downloads

LEMMA CopyFailsType ==
  ASSUME IInv, NEW p \in Process, NEW f \in File, CopyFails(p, f)
  PROVE  LocalsOK' /\ Downloads' /\ FilesOK'
<1> LocalsOK /\ FilesOK /\ Downloads
  BY TypeParts DEF IInv
<1>1. FilesOK'
  BY DEF CopyFails, FilesOK, Contents
<1> DEFINE opened == Renamed(f, "temp", "lost")
<1>2. \A q \in Process : \A g \in current[q] :
        /\ opened[q] = "temp" => temp'[g] # NoFile
        /\ opened[q] = "published" => published'[g] # NoFile
  BY RenamedOpen DEF CopyFails, Downloads, FilesOK, LocalsOK
<1>3. /\ opened \in [Process -> {"temp", "published", "lost", "none"}]
      /\ \A q \in Process : opened[q] = "none" <=> open[q] = "none"
  BY RenamedOpen
<1> HIDE DEF opened
<1>4. QED
  BY <1>1, <1>2, <1>3, MissedLocals DEF CopyFails, opened

LEMMA RenameType ==
  ASSUME IInv, NEW p \in Process, NEW f \in File, Rename(p, f)
  PROVE  LocalsOK' /\ Downloads' /\ FilesOK'
<1> LocalsOK /\ FilesOK /\ Downloads
  BY TypeParts DEF IInv
<1>1. FilesOK'
  BY DEF Rename, FilesOK, Contents
<1>2. CASE temp[f] = NoFile
  <2>1. Missed(p, f, open) /\ UNCHANGED <<published, temp>>
    BY <1>2 DEF Rename
  <2>2. LocalsOK' /\ Downloads'
    BY <2>1, MissedLocals DEF LocalsOK, Downloads
  <2>3. QED
    BY <1>1, <2>2
<1>3. CASE temp[f] # NoFile
  <2>1. /\ published' = [published EXCEPT ![f] = temp[f]]
        /\ temp' = [temp EXCEPT ![f] = NoFile]
        /\ open' = [q \in Process |->
                      IF f \in current[q] /\ open[q] = "published" THEN "lost"
                                              ELSE Renamed(f, "temp", "published")[q]]
        /\ pc' = [pc EXCEPT ![p] = "fetch"]
        /\ current' = [current EXCEPT ![p] = {}]
        /\ UNCHANGED <<command, files, offset>>
        /\ pc[p] = "rename"
    BY <1>3 DEF Rename
  <2>2. LocalsOK'
    <3>1. /\ open' \in [Process -> {"temp", "published", "lost", "none"}]
          /\ \A q \in Process : open'[q] = "none" <=> open[q] = "none"
      BY <2>1, RenamedOpen DEF LocalsOK
    <3>2. \A q \in Process : open'[q] = "none" <=> pc'[q] # "copy"
      BY <2>1, <3>1 DEF LocalsOK
    <3>3. pc' \in [Process -> Label] /\ current' \in [Process -> SUBSET File]
      BY <2>1 DEF LocalsOK, Label
    <3>4. QED
      BY <2>1, <3>1, <3>2, <3>3 DEF LocalsOK
  <2>3. \A q \in Process : \A g \in current'[q] :
          /\ open'[q] = "temp" => temp'[g] # NoFile
          /\ open'[q] = "published" => published'[g] # NoFile
    <3> SUFFICES ASSUME NEW q \in Process, NEW g \in current'[q]
                 PROVE  /\ open'[q] = "temp" => temp'[g] # NoFile
                        /\ open'[q] = "published" => published'[g] # NoFile
      OBVIOUS
    <3>1. g \in current[q] /\ g \in File
      BY <2>1 DEF LocalsOK
    <3>2. Renamed(f, "temp", "published")[q]
            = IF g = f /\ open[q] = "temp" THEN "published" ELSE open[q]
      BY <3>1, RenamedOpen
    <3>3. g = f => open'[q] # "temp"
      BY <2>1, <3>1, <3>2
    <3>4. g # f => open'[q] = open[q]
      BY <2>1, <3>1, <3>2 DEF Downloads, LocalsOK
    <3>5. QED
      BY <1>3, <2>1, <3>1, <3>3, <3>4 DEF Downloads, FilesOK
  <2>4. Downloads'
    BY <2>1, <2>3 DEF Downloads, LocalsOK
  <2>5. QED
    BY <1>1, <2>2, <2>4
<1>4. QED
  BY <1>2, <1>3

LEMMA ModelType ==
  ASSUME IInv, NEW p \in Process, ModelStep(p)
  PROVE  LocalsOK' /\ Downloads' /\ FilesOK' /\ TagsOK' /\ IndexOK'
<1> LocalsOK /\ FilesOK /\ TagsOK /\ IndexOK /\ Downloads
  BY TypeParts DEF IInv
<1>1. UNCHANGED <<indexVars, tagVars>>
  BY DEF ModelStep, CheckModel, DownloadModel, Fetched, Load, Fetch, FetchFails, Copy, CopyFails,
         Rename
<1>2. TagsOK' /\ IndexOK'
  BY <1>1 DEF TagsOK, IndexOK, tagVars, indexVars
<1>3. ASSUME UNCHANGED fileVars, Exit(p) PROVE LocalsOK' /\ Downloads' /\ FilesOK'
  BY <1>3, ExitLocals DEF FilesOK, fileVars
<1>4. ASSUME UNCHANGED fileVars, UNCHANGED <<current, open, offset, command>>,
             files' \in [Process -> SUBSET File], pc[p] \notin {"copy", "rename"},
             NEW label \in {"load", "hub", "fetch", "tags_count"}, Goto(p, label)
      PROVE  LocalsOK' /\ Downloads' /\ FilesOK'
  BY <1>4, QuietLocals DEF FilesOK, fileVars, Label, LocalsOK
<1>5. CASE CheckModel(p)
  <2>1. PICK label \in {"load", "hub"} : Goto(p, label)
    BY <1>5 DEF CheckModel
  <2>2. QED
    BY <1>2, <1>4, <1>5, <2>1 DEF CheckModel, locals, LocalsOK
<1>6. CASE Fetched(p)
  BY <1>2, <1>4, <1>6 DEF Fetched, locals, LocalsOK
<1>7. CASE Load(p)
  BY <1>2, <1>3, <1>4, <1>7 DEF Load, locals, LocalsOK
<1>8. CASE DownloadModel(p)
  <2>1. CASE pc' = [pc EXCEPT ![p] = "fetch"]
    <3>1. UNCHANGED <<published, temp, current, open, offset, command>>
      BY <1>8, <2>1 DEF DownloadModel, LocalsOK
    <3>2. files' \in [Process -> SUBSET File] /\ pc[p] \notin {"copy", "rename"}
      BY <1>8 DEF DownloadModel, LocalsOK
    <3>3. QED
      BY <1>2, <1>4, <2>1, <3>1, <3>2 DEF fileVars
  <2>2. CASE pc' # [pc EXCEPT ![p] = "fetch"]
    <3>1. /\ published' = [f \in File |-> Chunk]
          /\ open' = [q \in Process |-> IF open[q] = "published" THEN "lost" ELSE open[q]]
          /\ pc' = [pc EXCEPT ![p] = "load"] /\ pc[p] = "hub"
          /\ UNCHANGED <<files, temp, command, current, offset>>
      BY <1>8, <2>2 DEF DownloadModel
    <3>2. FilesOK'
      BY <3>1 DEF FilesOK, Contents
    <3>3. LocalsOK'
      BY <3>1 DEF LocalsOK, Label
    <3>4. Downloads'
      BY <3>1 DEF LocalsOK, Downloads
    <3>5. QED
      BY <1>2, <3>2, <3>3, <3>4
  <2>3. QED
    BY <2>1, <2>2
<1>9. ASSUME NEW f \in File,
             Fetch(p, f) \/ FetchFails(p, f) \/ Copy(p, f) \/ CopyFails(p, f) \/ Rename(p, f)
      PROVE  LocalsOK' /\ Downloads' /\ FilesOK'
  <2>1. CASE FetchFails(p, f)
    <3>1. CASE f \in RequiredModelFile
      BY <1>3, <2>1, <3>1 DEF FetchFails
    <3>2. CASE f \notin RequiredModelFile
      BY <2>1, <3>2 DEF FetchFails, LocalsOK, Downloads, FilesOK, fileVars
    <3>3. QED
      BY <3>1, <3>2
  <2>2. QED
    BY <1>9, <2>1, FetchType, CopyType, CopyFailsType, RenameType
<1>10. QED
  BY <1>2, <1>5, <1>6, <1>7, <1>8, <1>9 DEF ModelStep

(***************************************************************************)
(* Every step of the specification is one process's, and memory of it.     *)
(***************************************************************************)
LEMMA NextType == IInv /\ Next => (TypeOK /\ Downloads)'
<1> SUFFICES ASSUME IInv, Next PROVE (TypeOK /\ Downloads)'
  OBVIOUS
<1>1. raced' \subseteq File /\ spoiled' \subseteq File
  BY RememberType DEF Next
<1>2. PICK p \in Process :
        Serve(p) \/ Prewarm(p) \/ Stop(p) \/ Crash(p) \/ IndexStep(p) \/ ModelStep(p) \/ TagStep(p)
  BY DEF Next
<1>3. LocalsOK' /\ Downloads' /\ FilesOK' /\ TagsOK' /\ IndexOK'
  BY <1>2, CommandType, IndexType, ModelType, TagType
<1>4. QED
  BY <1>1, <1>3 DEF TypeOK, LocalsOK, FilesOK, TagsOK, IndexOK

(***************************************************************************)
(* The index.                                                              *)
(***************************************************************************)
\* A process begins to serve only where it finds the index of its dimension, or
\* has created it; nobody drops an index of that dimension.
LEMMA NextIndexed == IInv /\ Next => Indexed'
<1> SUFFICES ASSUME IInv, Next, NEW s \in Process, Serving(s)'
             PROVE  /\ index' \in {0, Dimension}
                    /\ index' = Dimension \/ unindexed' \/ \E q \in Process : At(q, "index_create")'
  BY DEF Indexed
<1> LocalsOK /\ IndexOK /\ Indexed
  BY TypeParts DEF IInv
<1>1. PICK p \in Process :
        Serve(p) \/ Prewarm(p) \/ Stop(p) \/ Crash(p) \/ IndexStep(p) \/ ModelStep(p) \/ TagStep(p)
  BY DEF Next
<1>2. ASSUME UNCHANGED indexVars, Serving(s),
             \A q \in Process : At(q, "index_create") => At(q, "index_create")'
      PROVE  /\ index' \in {0, Dimension}
             /\ index' = Dimension \/ unindexed' \/ \E q \in Process : At(q, "index_create")'
  BY <1>2 DEF Indexed, indexVars
<1>3. CASE ModelStep(p) \/ TagStep(p) \/ Serve(p) \/ Prewarm(p) \/ Stop(p)
  <2>1. UNCHANGED indexVars /\ pc[p] # "index_create"
    BY <1>3 DEF ModelStep, TagStep, CheckModel, DownloadModel, Fetched, Load, Fetch, FetchFails, Copy,
         CopyFails, Rename, TagsCount, TagsAdd, SeedFails, IncrementTag, Serve, Prewarm, Start, Stop
  <2>2. \A q \in Process \ {p} : pc'[q] = pc[q] /\ command'[q] = command[q]
    BY <1>3 DEF ModelStep, TagStep, CheckModel, DownloadModel, Fetched, Load, Fetch, FetchFails, Copy,
         CopyFails, Rename, TagsCount, TagsAdd, SeedFails, IncrementTag, Serve, Prewarm, Start, Stop,
         Exit, ExitWith, Missed, LocalsOK, locals
  <2>3. CASE s = p
    <3>1. UNCHANGED command /\ Serving(p)
      BY <1>3, <2>3 DEF ModelStep, TagStep, CheckModel, DownloadModel, Fetched, Load, Fetch, FetchFails,
         Copy, CopyFails, Rename, TagsCount, TagsAdd, SeedFails, IncrementTag, Serve, Prewarm, Start,
         Stop, Exit, ExitWith, Missed, LocalsOK, locals, Serving
    <3>2. QED
      BY <1>2, <2>1, <2>2, <2>3, <3>1 DEF LocalsOK
  <2>4. CASE s # p
    BY <1>2, <2>1, <2>2, <2>4 DEF Serving
  <2>5. QED
    BY <2>3, <2>4
<1>4. CASE Crash(p)
  <2>1. Exit(p) /\ UNCHANGED index
    BY <1>4, Zenon DEF Crash
  <2>2. s # p /\ Serving(s) /\ \A q \in Process \ {p} : pc'[q] = pc[q]
    BY <2>1 DEF Exit, ExitWith, LocalsOK, Serving
  <2>3. unindexed' = (unindexed \/ (pc[p] = "index_create" /\ index = 0))
    BY <1>4, Zenon DEF Crash
  <2>4. unindexed \/ (pc[p] = "index_create" /\ index = 0) => unindexed'
    BY <2>3, Zenon
  <2>5. QED
    BY <2>1, <2>2, <2>4 DEF Indexed
<1>5. CASE IndexStep(p)
  <2>1. /\ pc[p] \in {"index_info", "index_drop", "index_create"}
        /\ \A q \in Process \ {p} : pc'[q] = pc[q] /\ command'[q] = command[q]
    BY <1>5 DEF IndexStep, IndexInfo, IndexInfoFails, IndexDrop, IndexCreate, IndexFails, Exit, ExitWith,
         LocalsOK, locals
  <2>2. s # p => Serving(s)
    BY <2>1 DEF Serving
  <2>3. CASE IndexInfo(p) \/ IndexInfoFails(p)
    <3>1. UNCHANGED indexVars /\ pc[p] = "index_info"
      BY <2>3 DEF IndexInfo, IndexInfoFails
    <3>2. CASE s = p
      <4>1. pc'[p] \notin {"index_create", "index_drop"}
        BY <3>2 DEF Serving
      <4>2. index = Dimension
        BY <2>3, <4>1 DEF IndexInfo, IndexInfoFails, LocalsOK
      <4>3. QED
        BY <3>1, <4>2 DEF indexVars
    <3>3. CASE s # p
      BY <1>2, <2>1, <2>2, <3>1, <3>3
    <3>4. QED
      BY <3>2, <3>3
  <2>4. CASE IndexDrop(p)
    <3>1. pc[p] = "index_drop" /\ unindexed' = unindexed
      BY <2>4 DEF IndexDrop
    <3>2. CASE index = 0
      BY <1>2, <2>1, <2>2, <2>4, <3>1, <3>2 DEF IndexDrop, Exit, ExitWith, Serving, LocalsOK, indexVars
    <3>3. CASE index # 0
      BY <2>4, <3>3 DEF IndexDrop, LocalsOK
    <3>4. QED
      BY <3>2, <3>3
  <2>5. CASE IndexCreate(p)
    <3>1. CASE index = 0
      BY <2>5, <3>1 DEF IndexCreate
    <3>2. CASE index # 0
      <4>1. Exit(p) /\ UNCHANGED indexVars
        BY <2>5, <3>2 DEF IndexCreate
      <4>2. s # p
        BY <4>1 DEF Exit, ExitWith, Serving, LocalsOK
      <4>3. index = Dimension
        BY <2>2, <3>2, <4>2 DEF Indexed
      <4>4. QED
        BY <4>1, <4>3 DEF indexVars
    <3>3. QED
      BY <3>1, <3>2
  <2>6. CASE IndexFails(p)
    <3>1. /\ index' \in {index, 0, Dimension} /\ Exit(p)
      BY <2>6 DEF IndexFails
    <3>2. unindexed' = (index' = 0)
      BY <2>6, Zenon DEF IndexFails
    <3>3. index' = 0 => unindexed'
      BY <3>2, Zenon
    <3>4. s # p
      BY <3>1 DEF Exit, ExitWith, Serving, LocalsOK
    <3>5. index \in {0, Dimension}
      BY <2>2, <3>4 DEF Indexed
    <3>6. QED
      BY <3>1, <3>3, <3>5
  <2>7. QED
    BY <1>5, <2>3, <2>4, <2>5, <2>6 DEF IndexStep
<1>6. QED
  BY <1>1, <1>3, <1>4, <1>5

\* Only a server goes on from the model to the tags.
LEMMA NextPrewarmed == IInv /\ Next => Prewarmed'
<1> SUFFICES ASSUME IInv, Next PROVE Prewarmed'
  OBVIOUS
<1> LocalsOK /\ Prewarmed
  BY TypeParts DEF IInv
<1>1. PICK p \in Process :
        Serve(p) \/ Prewarm(p) \/ Stop(p) \/ Crash(p) \/ IndexStep(p) \/ ModelStep(p) \/ TagStep(p)
  BY DEF Next
<1>2. CASE Exit(p)
  BY <1>2 DEF Exit, ExitWith, LocalsOK, Prewarmed
<1>3. CASE Serve(p) \/ Prewarm(p)
  BY <1>3 DEF Serve, Prewarm, Start, LocalsOK, Prewarmed
<1>4. CASE Stop(p) \/ Crash(p)
  BY <1>2, <1>4, Zenon DEF Stop, Crash
<1>5. CASE IndexStep(p) /\ ~Exit(p)
  BY <1>5 DEF IndexStep, IndexInfo, IndexInfoFails, IndexDrop, IndexCreate, IndexFails, LocalsOK, locals,
     Prewarmed
<1>6. CASE ModelStep(p) /\ ~Exit(p)
  <2>1. CASE Load(p)
    BY <1>6, <2>1 DEF Load, LocalsOK, locals, Prewarmed
  <2>2. CASE ~Load(p)
    <3>1. PICK label \in {"load", "hub", "check", "fetch", "copy", "rename", "down"} :
            \/ pc' = pc /\ command' = command
            \/ /\ pc' = [pc EXCEPT ![p] = label]
               /\ command' \in {command, [command EXCEPT ![p] = "serve"]}
      BY <1>6, <2>2 DEF ModelStep, CheckModel, DownloadModel, Fetched, Fetch, FetchFails, Copy, CopyFails,
         Rename, Missed, ExitWith, locals
    <3>2. QED
      BY <3>1 DEF LocalsOK, Prewarmed
  <2>3. QED
    BY <2>1, <2>2
<1>7. CASE TagStep(p)
  BY <1>7 DEF TagStep, TagsCount, TagsAdd, SeedFails, IncrementTag, LocalsOK, locals, Prewarmed
<1>8. QED
  BY <1>1, <1>2, <1>3, <1>4, <1>5, <1>6, <1>7

(***************************************************************************)
(* The vocabulary.                                                         *)
(***************************************************************************)
\* A server comes up after it has counted members, which were there with the
\* defaults, or after it has tried to add the defaults.
LEMMA NextSeeded == IInv /\ Next => Seeded'
<1> SUFFICES ASSUME IInv, Next PROVE Seeded'
  OBVIOUS
<1> LocalsOK /\ TagsOK /\ Seeded
  BY TypeParts DEF IInv
<1>1. PICK p \in Process :
        Serve(p) \/ Prewarm(p) \/ Stop(p) \/ Crash(p) \/ IndexStep(p) \/ ModelStep(p) \/ TagStep(p)
  BY DEF Next
<1>2. ASSUME UNCHANGED tagVars, \A q \in Process : At(q, "up")' => At(q, "up") PROVE Seeded'
  BY <1>2 DEF Seeded, SeedsAndLearns, tagVars
<1>3. CASE Serve(p) \/ Prewarm(p) \/ Stop(p) \/ Crash(p) \/ IndexStep(p) \/ ModelStep(p)
  <2>1. UNCHANGED tagVars
    BY <1>3 DEF Serve, Prewarm, Start, Stop, Crash, IndexStep, IndexInfo, IndexInfoFails, IndexDrop,
       IndexCreate, IndexFails, ModelStep, CheckModel, DownloadModel, Fetched, Load, Fetch, FetchFails,
       Copy, CopyFails, Rename
  <2>2. UNCHANGED pc \/ \E label \in Label \ {"up"} : Goto(p, label)
    BY <1>3 DEF Serve, Prewarm, Start, Stop, Crash, IndexStep, IndexInfo, IndexInfoFails, IndexDrop,
       IndexCreate, IndexFails, ModelStep, CheckModel, DownloadModel, Fetched, Load, Fetch, FetchFails,
       Copy, CopyFails, Rename, Missed, Exit, ExitWith, Label
  <2>3. QED
    BY <1>2, <2>1, <2>2 DEF LocalsOK
<1>4. CASE TagsCount(p)
  <2>1. UNCHANGED tagVars /\ pc' = [pc EXCEPT ![p] = IF vocabulary = {} THEN "tags_add" ELSE "up"]
    BY <1>4 DEF TagsCount
  <2>2. (\E q \in Process : At(q, "up"))' => unseeded \/ DefaultTag \subseteq vocabulary
    BY <2>1 DEF Seeded, SeedsAndLearns, LocalsOK
  <2>3. QED
    BY <2>1, <2>2 DEF Seeded, SeedsAndLearns, tagVars
<1>5. CASE TagsAdd(p)
  <2>1. /\ vocabulary' = vocabulary \cup DefaultTag /\ learned' = learned
        /\ frequency' = [t \in Tag |-> IF t \in DefaultTag \ vocabulary THEN 0 ELSE frequency[t]]
    BY <1>5 DEF TagsAdd
  <2>2. frequency' = frequency
    BY <2>1 DEF Seeded, TagsOK, Tag
  <2>3. QED
    BY <2>1, <2>2 DEF Seeded, SeedsAndLearns
<1>6. CASE SeedFails(p)
  <2>1. unseeded' = ~(DefaultTag \subseteq vocabulary)
    BY <1>6, Zenon DEF SeedFails
  <2>2. unseeded' \/ DefaultTag \subseteq vocabulary
    BY <2>1, Zenon
  <2>3. UNCHANGED vocabulary /\ UNCHANGED frequency /\ UNCHANGED learned
    BY <1>6, Zenon DEF SeedFails
  <2>4. QED
    BY <2>2, <2>3 DEF Seeded, SeedsAndLearns
<1>7. ASSUME NEW t \in UsedTag, IncrementTag(p, t) PROVE Seeded'
  <2>1. /\ vocabulary' = vocabulary \cup {t} /\ UNCHANGED <<unseeded, pc>> /\ pc[p] = "up"
        /\ frequency' = [frequency EXCEPT ![t] = @ + 1] /\ learned' = [learned EXCEPT ![t] = @ + 1]
    BY <1>7 DEF IncrementTag
  <2>2. frequency' = learned' /\ \A u \in Tag \ vocabulary' : frequency'[u] = 0
    BY <2>1 DEF Seeded, SeedsAndLearns, TagsOK
  <2>3. QED
    BY <2>1, <2>2 DEF Seeded, SeedsAndLearns
<1>8. QED
  BY <1>1, <1>3, <1>4, <1>5, <1>6, <1>7 DEF TagStep

(***************************************************************************)
(* The files.                                                              *)
(***************************************************************************)
\* Two processes are at the file.
Two(f) == \E p, q \in Process : p # q /\ f \in current[p] /\ f \in current[q]

\* What history says of a file that it does not count as raced, or as spoiled.
LEMMA RememberFacts ==
  ASSUME Remember, NEW f \in File
  PROVE  /\ f \notin raced' =>
              \/ published'[f] \in {NoFile, Chunk} /\ \A p \in Process : f \notin current'[p]
              \/ f \notin raced /\ ~Two(f)'
         /\ f \in raced' => f \in raced \/ Two(f)'
         /\ f \in raced' \ spoiled' =>
              /\ f \notin spoiled
              /\ \A p \in Process : pc[p] = "copy" /\ f \in current[p] => f \in current'[p]
<1>1. f \in raced' <=> (f \in raced \/ Two(f)')
                        /\ ~(published'[f] \in {NoFile, Chunk} /\ \A p \in Process : f \notin current'[p])
  BY DEF Remember, Two
<1>2. f \in spoiled' <=> /\ f \in raced'
                         /\ f \in spoiled \/ \E p \in Process :
                              pc[p] = "copy" /\ f \in current[p] /\ f \notin current'[p]
  BY DEF Remember
<1>3. QED
  BY <1>1, <1>2

\* A step that is not about f.
Untouched(f) ==
  /\ temp'[f] = temp[f] /\ published'[f] \in {published[f], Chunk}
  /\ \A q \in Process : f \in current'[q] =>
       /\ f \in current[q] /\ pc'[q] = pc[q] /\ offset'[q] = offset[q]
       /\ \/ open'[q] = open[q]
          \/ published'[f] = Chunk /\ open[q] = "published" /\ open'[q] = "lost"

\* Any other step is the download of f.
Downloading(p, f) == Fetch(p, f) \/ Copy(p, f) \/ CopyFails(p, f) \/ Rename(p, f)

LEMMA UntouchedByMissed ==
  ASSUME LocalsOK, Downloads, NEW p \in Process, NEW f \in File, NEW g \in File, NEW opened,
         Missed(p, g, opened), temp'[f] = temp[f], published'[f] = published[f],
         \A q \in Process : f \in current[q] /\ q # p => opened[q] = open[q],
         opened \in [Process -> {"temp", "published", "lost", "none"}]
  PROVE  Untouched(f)
<1>1. PICK label \in {"down", "fetch"} :
        /\ pc' = [pc EXCEPT ![p] = label] /\ current' = [current EXCEPT ![p] = {}]
        /\ open' = [opened EXCEPT ![p] = "none"] /\ offset' = [offset EXCEPT ![p] = 0]
  BY DEF Missed, ExitWith
<1>2. QED
  BY <1>1 DEF Untouched, LocalsOK

LEMMA UntouchedByExit ==
  ASSUME LocalsOK, NEW p \in Process, NEW f \in File, Exit(p), UNCHANGED fileVars
  PROVE  Untouched(f)
BY DEF Exit, ExitWith, LocalsOK, Untouched, fileVars

LEMMA UntouchedByGoto ==
  ASSUME LocalsOK, Downloads, NEW p \in Process, NEW f \in File, NEW label, Goto(p, label),
         pc[p] \notin {"copy", "rename"}, UNCHANGED <<fileVars, current, open, offset>>
  PROVE  Untouched(f)
BY DEF LocalsOK, Downloads, Untouched, fileVars

LEMMA UntouchedByOther ==
  ASSUME IInv, NEW p \in Process, NEW f \in File,
         Serve(p) \/ Prewarm(p) \/ Stop(p) \/ Crash(p) \/ IndexStep(p) \/ TagStep(p)
  PROVE  Untouched(f)
<1> LocalsOK /\ Downloads
  BY TypeParts DEF IInv
<1>1. UNCHANGED fileVars
  BY DEF Serve, Prewarm, Start, Stop, Crash, IndexStep, IndexInfo, IndexInfoFails, IndexDrop,
     IndexCreate, IndexFails, TagStep, TagsCount, TagsAdd, SeedFails, IncrementTag
<1>2. CASE Exit(p)
  BY <1>1, <1>2, UntouchedByExit
<1>3. CASE ~Exit(p)
  <2>1. /\ UNCHANGED <<current, open, offset>> /\ pc[p] \notin {"copy", "rename"}
        /\ pc' = [pc EXCEPT ![p] = pc'[p]]
    BY <1>3 DEF Serve, Prewarm, Start, Stop, Crash, IndexStep, IndexInfo, IndexInfoFails, IndexDrop,
       IndexCreate, IndexFails, TagStep, TagsCount, TagsAdd, SeedFails, IncrementTag, LocalsOK, locals
  <2>2. QED
    BY <1>1, <2>1, UntouchedByGoto
<1>4. QED
  BY <1>2, <1>3

LEMMA UntouchedByModel ==
  ASSUME IInv, NEW p \in Process, NEW f \in File, ModelStep(p), ~Downloading(p, f)
  PROVE  Untouched(f)
<1> LocalsOK /\ Downloads /\ FilesOK
  BY TypeParts DEF IInv
<1>1. CASE CheckModel(p) \/ Fetched(p) \/ Load(p)
  <2>1. UNCHANGED fileVars
    BY <1>1 DEF CheckModel, Fetched, Load
  <2>2. CASE Exit(p)
    BY <2>1, <2>2, UntouchedByExit
  <2>3. CASE ~Exit(p)
    <3>1. /\ UNCHANGED <<current, open, offset>> /\ pc[p] \notin {"copy", "rename"}
          /\ pc' = [pc EXCEPT ![p] = pc'[p]]
      BY <1>1, <2>3 DEF CheckModel, Fetched, Load, LocalsOK, locals
    <3>2. QED
      BY <2>1, <3>1, UntouchedByGoto
  <2>4. QED
    BY <2>2, <2>3
<1>2. CASE DownloadModel(p)
  BY <1>2 DEF DownloadModel, Untouched, LocalsOK, Downloads, FilesOK
<1>3. ASSUME NEW g \in File, FetchFails(p, g) PROVE Untouched(f)
  <2>1. UNCHANGED fileVars
    BY <1>3 DEF FetchFails
  <2>2. CASE g \in RequiredModelFile
    BY <1>3, <2>1, <2>2, UntouchedByExit DEF FetchFails
  <2>3. CASE g \notin RequiredModelFile
    BY <1>3, <2>1, <2>3 DEF FetchFails, Untouched, fileVars
  <2>4. QED
    BY <2>2, <2>3
<1>4. ASSUME NEW g \in File, g # f, Fetch(p, g) PROVE Untouched(f)
  BY <1>4 DEF Fetch, Untouched, LocalsOK, FilesOK
<1>5. ASSUME NEW g \in File, g # f, Copy(p, g) PROVE Untouched(f)
  <2>1. temp'[f] = temp[f] /\ published'[f] = published[f]
    BY <1>5 DEF Copy, FilesOK
  <2>2. f \notin current[p] /\ UNCHANGED current
    BY <1>5 DEF Copy, Downloads
  <2>3. \A q \in Process \ {p} : pc'[q] = pc[q] /\ offset'[q] = offset[q] /\ open'[q] = open[q]
    BY <1>5 DEF Copy, LocalsOK
  <2>4. QED
    BY <2>1, <2>2, <2>3 DEF Untouched
<1>6. ASSUME NEW g \in File, g # f, CopyFails(p, g) PROVE Untouched(f)
  <2>1. \A q \in Process : f \in current[q] => Renamed(g, "temp", "lost")[q] = open[q]
    BY <1>6, RenamedOpen
  <2>2. temp'[f] = temp[f] /\ published'[f] = published[f]
    BY <1>6 DEF CopyFails, FilesOK
  <2>3. QED
    BY <1>6, <2>1, <2>2, UntouchedByMissed, RenamedOpen DEF CopyFails
<1>7. ASSUME NEW g \in File, g # f, Rename(p, g) PROVE Untouched(f)
  <2>1. CASE temp[g] = NoFile
    <3>1. Missed(p, g, open) /\ temp' = temp /\ published' = published
      BY <1>7, <2>1 DEF Rename
    <3>2. QED
      BY <3>1, UntouchedByMissed DEF LocalsOK
  <2>2. CASE temp[g] # NoFile
    <3>1. \A q \in Process : f \in current[q] =>
            /\ g \notin current[q]
            /\ Renamed(g, "temp", "published")[q] = open[q]
      BY <1>7, RenamedOpen DEF Downloads, LocalsOK
    <3>2. /\ temp'[f] = temp[f] /\ published'[f] = published[f] /\ offset' = offset
          /\ open' = [q \in Process |->
                        IF g \in current[q] /\ open[q] = "published" THEN "lost"
                                                ELSE Renamed(g, "temp", "published")[q]]
          /\ pc' = [pc EXCEPT ![p] = "fetch"] /\ current' = [current EXCEPT ![p] = {}]
      BY <1>7, <2>2 DEF Rename, FilesOK
    <3>3. QED
      BY <3>1, <3>2 DEF Untouched, LocalsOK
  <2>3. QED
    BY <2>1, <2>2
<1>8. QED
  BY <1>1, <1>2, <1>3, <1>4, <1>5, <1>6, <1>7 DEF ModelStep, Downloading

\* A step of the download of a file that is nobody else's.
LEMMA AloneStep ==
  ASSUME IInv, NEW p \in Process, NEW f \in File, Untouched(f) \/ Downloading(p, f),
         Alone(f), ~Two(f)'
  PROVE  Alone(f)'
<1> LocalsOK /\ Downloads /\ FilesOK
  BY TypeParts DEF IInv
<1>1. CASE Untouched(f)
  BY <1>1 DEF Untouched, Alone
<1>2. CASE Fetch(p, f)
  <2>1. /\ temp'[f] = {} /\ published' = published /\ current'[p] = {f}
        /\ pc'[p] = "copy" /\ open'[p] = "temp" /\ offset'[p] = 0
    BY <1>2 DEF Fetch, LocalsOK, FilesOK, Downloads
  <2>2. \A q \in Process \ {p} : f \notin current'[q]
    BY <2>1 DEF Two
  <2>3. 1 .. 0 = {}
    OBVIOUS
  <2>4. QED
    BY <2>1, <2>2, <2>3 DEF Alone
<1>3. CASE Copy(p, f)
  <2> DEFINE n == offset[p] + 1
  <2>1. /\ pc[p] = "copy" /\ f \in current[p] /\ open[p] = "temp" /\ temp[f] = 1 .. offset[p]
        /\ \A q \in Process \ {p} : f \notin current[q]
    BY <1>3 DEF Copy, Alone
  <2>2. temp'[f] = 1 .. n /\ published' = published /\ current' = current
    <3>1. temp' = [temp EXCEPT ![f] = @ \cup {n}] /\ published' = published /\ current' = current
      BY <1>3, <2>1 DEF Copy
    <3>2. (1 .. offset[p]) \cup {n} = 1 .. n
      BY ChunkFacts DEF LocalsOK
    <3>3. QED
      BY <2>1, <3>1, <3>2 DEF FilesOK
  <2>3. n <= Chunks /\ n \in Nat
    BY ChunkFacts DEF LocalsOK
  <2>4. CASE n < Chunks
    <3>1. offset'[p] = n /\ pc' = pc /\ open' = open
      BY <1>3, <2>4 DEF Copy, LocalsOK
    <3>2. QED
      BY <2>1, <2>2, <3>1 DEF Alone
  <2>5. CASE ~(n < Chunks)
    <3>1. pc'[p] = "rename" /\ n = Chunks
      BY <1>3, <2>3, <2>5, ChunkFacts DEF Copy, LocalsOK
    <3>2. QED
      BY <2>1, <2>2, <3>1 DEF Alone, Chunk
  <2>6. QED
    BY <2>4, <2>5
<1>4. CASE CopyFails(p, f) \/ Rename(p, f)
  <2>1. f \in current[p] /\ \A q \in Process \ {p} : f \notin current[q]
    BY <1>4 DEF CopyFails, Rename, Alone
  <2>2. current' = [current EXCEPT ![p] = {}]
    BY <1>4 DEF CopyFails, Rename, Missed, ExitWith
  <2>3. published'[f] \in {NoFile, Chunk}
    BY <1>4 DEF CopyFails, Rename, Alone, FilesOK
  <2>4. QED
    BY <2>1, <2>2, <2>3 DEF Alone, LocalsOK
<1>5. QED
  BY <1>1, <1>2, <1>3, <1>4 DEF Downloading

\* What is open is being copied.
LEMMA CompletesFacts ==
  ASSUME LocalsOK, NEW q \in Process, open[q] # "none"
  PROVE  pc[q] = "copy"
BY DEF LocalsOK

\* The same of a raced file, as long as no download of it breaks off.
LEMMA CompletedStep ==
  ASSUME IInv, NEW p \in Process, NEW f \in File, Untouched(f) \/ Downloading(p, f),
         Completed(f),
         \A q \in Process : pc[q] = "copy" /\ f \in current[q] => f \in current'[q]
  PROVE  Completed(f)'
<1> LocalsOK /\ Downloads /\ FilesOK
  BY TypeParts DEF IInv
<1>1. CASE Untouched(f)
  <2>1. ASSUME NEW q \in Process, f \in current[q], open[q] = "temp", 1 .. offset[q] \subseteq temp[f]
        PROVE  Completes("temp", temp[f], f)'
    BY <1>1, <2>1, CompletesFacts DEF Untouched, Completes
  <2>2. ASSUME NEW q \in Process, f \in current[q], open[q] = "published",
               1 .. offset[q] \subseteq published[f], published'[f] # Chunk
        PROVE  Completes("published", published[f], f)'
    BY <1>1, <2>2, CompletesFacts DEF Untouched, Completes
  <2>3. QED
    BY <1>1, <2>1, <2>2 DEF Untouched, Completed, Completes
<1>2. CASE Fetch(p, f)
  <2>1. /\ temp'[f] = {} /\ published' = published /\ pc[p] = "fetch"
        /\ open' = [open EXCEPT ![p] = "temp"] /\ current' = [current EXCEPT ![p] = {f}]
        /\ offset' = offset /\ offset[p] = 0
    BY <1>2 DEF Fetch, LocalsOK, FilesOK, Downloads
  <2>2. f \in current'[p] /\ open'[p] = "temp" /\ 1 .. offset'[p] \subseteq temp'[f]
    BY <2>1 DEF LocalsOK
  <2>3. ASSUME NEW q \in Process, f \in current[q], open[q] = "published",
               1 .. offset[q] \subseteq published[f]
        PROVE  Completes("published", published[f], f)'
    BY <2>1, <2>3, CompletesFacts DEF Completes, LocalsOK
  <2>4. QED
    BY <2>1, <2>2, <2>3 DEF Completed, Completes
<1>3. CASE Copy(p, f)
  <2> DEFINE n == offset[p] + 1
  <2>1. n \in Chunk /\ n \in Nat /\ n <= Chunks /\ 1 .. n = (1 .. offset[p]) \cup {n}
    <3>1. offset[p] \in Nat /\ n \in Nat /\ n >= 1 /\ n <= Chunks
      BY ChunkFacts DEF LocalsOK
    <3>2. QED
      BY <3>1, ChunkFacts DEF Chunk
  <2>2. /\ temp' = IF open[p] = "temp" THEN [temp EXCEPT ![f] = @ \cup {n}] ELSE temp
        /\ published' = IF open[p] = "published" THEN [published EXCEPT ![f] = @ \cup {n}]
                                                 ELSE published
        /\ current' = current /\ f \in current[p]
    BY <1>3 DEF Copy
  <2>3. IF n < Chunks THEN offset' = [offset EXCEPT ![p] = n] /\ open' = open
                      ELSE offset' = [offset EXCEPT ![p] = 0] /\ open' = [open EXCEPT ![p] = "none"]
    BY <1>3 DEF Copy
  <2> HIDE DEF n
  <2>4. ASSUME NEW name \in {"temp", "published"}, NEW before, NEW after,
               before \in {NoFile, Chunk} \/ Completes(name, before, f),
               open[p] # name => after = before,
               open[p] = name => before \in SUBSET Chunk /\ after = before \cup {n}
        PROVE  after \in {NoFile, Chunk} \/ \E q \in Process :
                 f \in current'[q] /\ open'[q] = name /\ 1 .. offset'[q] \subseteq after
    <3>1. CASE before \in {NoFile, Chunk}
      BY <2>1, <2>4, <3>1, ChunkFacts
    <3>2. CASE Completes(name, before, f)
      <4>1. PICK q \in Process : f \in current[q] /\ open[q] = name /\ 1 .. offset[q] \subseteq before
        BY <3>2 DEF Completes
      <4>2. CASE q # p
        <5>1. open'[q] = open[q] /\ offset'[q] = offset[q]
          BY <2>3, <4>2 DEF LocalsOK
        <5>2. before \subseteq after
          BY <2>4
        <5>3. QED
          BY <2>2, <4>1, <5>1, <5>2
      <4>3. CASE q = p
        <5>1. 1 .. n \subseteq after /\ after \subseteq Chunk
          BY <2>1, <2>4, <4>1, <4>3
        <5>2. CASE n < Chunks
          <6>1. open'[p] = name /\ offset'[p] = n
            BY <2>3, <4>1, <4>3, <5>2 DEF LocalsOK
          <6>2. QED
            BY <2>2, <5>1, <6>1
        <5>3. CASE ~(n < Chunks)
          <6>1. n = Chunks
            BY <2>1, <5>3, ChunkFacts
          <6>2. QED
            BY <5>1, <6>1 DEF Chunk
        <5>4. QED
          BY <5>2, <5>3
      <4>4. QED
        BY <4>2, <4>3
    <3>3. QED
      BY <2>4, <3>1, <3>2
  <2>5. /\ open[p] # "temp" => temp'[f] = temp[f]
        /\ open[p] = "temp" => temp[f] \in SUBSET Chunk /\ temp'[f] = temp[f] \cup {n}
    BY <2>2 DEF FilesOK, Contents, Downloads
  <2>6. /\ open[p] # "published" => published'[f] = published[f]
        /\ open[p] = "published" => published[f] \in SUBSET Chunk /\ published'[f] = published[f] \cup {n}
    BY <2>2 DEF FilesOK, Contents, Downloads
  <2>7. temp'[f] \in {NoFile, Chunk} \/ Completes("temp", temp[f], f)'
    BY <2>4, <2>5 DEF Completed, Completes
  <2>8. published'[f] \in {NoFile, Chunk} \/ Completes("published", published[f], f)'
    BY <2>4, <2>6 DEF Completed, Completes
  <2>9. QED
    BY <2>7, <2>8 DEF Completed
<1>4. CASE CopyFails(p, f)
  <2>1. pc[p] = "copy" /\ f \in current[p] /\ current' = [current EXCEPT ![p] = {}]
    BY <1>4 DEF CopyFails, Missed, ExitWith
  <2>2. QED
    BY <2>1 DEF LocalsOK
<1>5. CASE Rename(p, f)
  <2>1. CASE temp[f] = NoFile
    <3>1. Missed(p, f, open) /\ temp' = temp /\ published' = published /\ pc[p] = "rename"
      BY <1>5, <2>1 DEF Rename
    <3>2. ASSUME NEW q \in Process, f \in current[q], open[q] = "published",
                 1 .. offset[q] \subseteq published[f]
          PROVE  Completes("published", published[f], f)'
      <4>1. q # p
        BY <3>1, <3>2, CompletesFacts
      <4>2. current'[q] = current[q] /\ open'[q] = open[q] /\ offset'[q] = offset[q]
        BY <3>1, <4>1 DEF Missed, ExitWith, LocalsOK
      <4>3. QED
        BY <3>1, <3>2, <4>2 DEF Completes
    <3>3. QED
      BY <2>1, <3>1, <3>2 DEF Completed, Completes
  <2>2. CASE temp[f] # NoFile
    <3>1. /\ published'[f] = temp[f] /\ temp'[f] = NoFile /\ offset' = offset /\ pc[p] = "rename"
          /\ open' = [q \in Process |->
                        IF f \in current[q] /\ open[q] = "published" THEN "lost"
                                                ELSE Renamed(f, "temp", "published")[q]]
          /\ current' = [current EXCEPT ![p] = {}]
      BY <1>5, <2>2 DEF Rename, FilesOK
    <3>2. ASSUME NEW q \in Process, f \in current[q], open[q] = "temp",
                 1 .. offset[q] \subseteq temp[f]
          PROVE  Completes("published", published[f], f)'
      <4>1. q # p
        BY <3>1, <3>2, CompletesFacts
      <4>2. Renamed(f, "temp", "published")[q] = "published"
        BY <3>2, RenamedOpen
      <4>3. current'[q] = current[q] /\ open'[q] = "published"
        BY <3>1, <3>2, <4>1, <4>2 DEF LocalsOK
      <4>4. QED
        BY <3>1, <3>2, <4>3 DEF Completes
    <3>3. QED
      BY <2>2, <3>1, <3>2 DEF Completed, Completes
  <2>3. QED
    BY <2>1, <2>2
<1>6. QED
  BY <1>1, <1>2, <1>3, <1>4, <1>5 DEF Downloading

\* A file begins to be raced when a second process creates the temporary file.
LEMMA RaceBegins ==
  ASSUME IInv, NEW p \in Process, NEW f \in File, Untouched(f) \/ Downloading(p, f),
         Alone(f), Two(f)'
  PROVE  Completed(f)'
<1> LocalsOK /\ Downloads /\ FilesOK
  BY TypeParts DEF IInv
<1>1. CASE Fetch(p, f)
  <2>1. /\ temp'[f] = {} /\ published' = published /\ f \in current'[p] /\ open'[p] = "temp"
        /\ offset'[p] = 0
    BY <1>1 DEF Fetch, LocalsOK, FilesOK, Downloads
  <2>2. 1 .. 0 = {}
    OBVIOUS
  <2>3. QED
    BY <2>1, <2>2 DEF Completed, Completes, Alone
<1>2. CASE ~Fetch(p, f)
  <2>1. \A q \in Process : f \in current'[q] => f \in current[q]
    BY <1>2 DEF Downloading, Untouched, Copy, CopyFails, Rename, Missed, ExitWith, LocalsOK
  <2>2. QED
    BY <2>1 DEF Two, Alone
<1>3. QED
  BY <1>1, <1>2

LEMMA NextWhole == IInv /\ Next => Whole'
<1> SUFFICES ASSUME IInv, Next, NEW f \in File
             PROVE  /\ f \notin raced' => Alone(f)'
                    /\ f \in raced' \ spoiled' => Completed(f)'
  BY DEF Whole
<1>1. PICK p \in Process :
        Serve(p) \/ Prewarm(p) \/ Stop(p) \/ Crash(p) \/ IndexStep(p) \/ ModelStep(p) \/ TagStep(p)
  BY DEF Next
<1>2. Untouched(f) \/ Downloading(p, f)
  BY <1>1, UntouchedByOther, UntouchedByModel
<1>3. Remember /\ (f \notin raced => Alone(f)) /\ (f \in raced \ spoiled => Completed(f))
  BY DEF Next, IInv, Whole
<1>4. ASSUME f \notin raced' PROVE Alone(f)'
  <2>1. CASE published'[f] \in {NoFile, Chunk} /\ \A q \in Process : f \notin current'[q]
    BY <2>1 DEF Alone
  <2>2. CASE f \notin raced /\ ~Two(f)'
    BY <1>2, <1>3, <2>2, AloneStep
  <2>3. QED
    BY <1>3, <1>4, <2>1, <2>2, RememberFacts
<1>5. ASSUME f \in raced' \ spoiled' PROVE Completed(f)'
  <2>1. /\ f \notin spoiled /\ (f \in raced \/ Two(f)')
        /\ \A q \in Process : pc[q] = "copy" /\ f \in current[q] => f \in current'[q]
    BY <1>3, <1>5, RememberFacts
  <2>2. CASE f \in raced
    BY <1>2, <1>3, <2>1, <2>2, CompletedStep
  <2>3. CASE f \notin raced
    BY <1>2, <1>3, <2>1, <2>3, RaceBegins
  <2>4. QED
    BY <2>2, <2>3
<1>6. QED
  BY <1>4, <1>5

(***************************************************************************)
(* The theorems.                                                           *)
(***************************************************************************)
LEMMA InvStep == IInv /\ [Next]_vars => IInv'
<1>1. CASE Next
  BY <1>1, NextType, NextWhole, NextPrewarmed, NextIndexed, NextSeeded DEF IInv
<1>2. CASE UNCHANGED vars
  BY <1>2 DEF IInv, TypeOK, Downloads, Whole, Alone, Completed, Completes, Prewarmed, Indexed, Serving,
     Seeded, SeedsAndLearns, vars, indexVars, fileVars, tagVars, history, locals
<1>3. QED
  BY <1>1, <1>2

LEMMA IInvHolds == Spec => []IInv
BY InitIInv, InvStep, PTL DEF Spec

\* Every variable keeps its type, and a file is open only while it is copied.
THEOREM TypeCorrect == Spec => []TypeOK
<1>1. IInv => TypeOK
  BY DEF IInv
<1>2. QED
  BY <1>1, IInvHolds, PTL

\* Whatever number of servers and prewarms download, break off and start again, a
\* model file appears under its name only whole, unless two were at it at once;
\* and then it becomes whole if none of these broke off.
THEOREM PublishesWhole == Spec => []PublishedWhole
<1>1. IInv => PublishedWhole
  BY DEF IInv, Whole, Alone, Completed, Completes, PublishedWhole
<1>2. QED
  BY <1>1, IInvHolds, PTL

\* EnsureIndex of any number of servers leaves whoever serves with an index of
\* the configured dimension, up to a drop without its creation.
THEOREM IndexServed == Spec => []ServesIndexed
<1>1. IInv => ServesIndexed
  <2>1. ASSUME IInv, NEW p \in Process, At(p, "up") PROVE Serving(p)
    BY <2>1 DEF IInv, TypeOK, Prewarmed, Serving
  <2>2. QED
    BY <2>1 DEF IInv, Indexed, ServesIndexed
<1>2. QED
  BY <1>1, IInvHolds, PTL

\* No seeding takes back what a call has learned, and none is skipped but after
\* a failure.
THEOREM SeedsKeepLearned == Spec => []SeedsAndLearns
<1>1. IInv => SeedsAndLearns
  BY DEF IInv, Seeded
<1>2. QED
  BY <1>1, IInvHolds, PTL
=============================================================================
