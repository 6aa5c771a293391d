----------------------------- MODULE ServerStartup -----------------------------
(***************************************************************************)
(* What a process of mnemoir does before it serves (cmd/mnemoir/main.go):  *)
(* a server ensures the search index (EnsureIndex in                       *)
(* internal/redis/schema.go), loads the local embedding model and          *)
(* downloads it when it is not there (internal/embedding/local.go), and    *)
(* seeds the tag vocabulary (internal/compressor/local.go), which calls    *)
(* then add to; the prewarm command does the second only.  The processes   *)
(* share Redis, the model directory and the configuration, which says      *)
(* "local" for both providers.                                             *)
(*                                                                         *)
(* A file is the set of its chunks that have been written, in order by any *)
(* one process.  What matters of a file's identity is kept with the        *)
(* process that writes it: the file it has open can still be the one with  *)
(* the temporary name, be the published one after another process has      *)
(* renamed it, or have lost its name.                                      *)
(***************************************************************************)
EXTENDS Naturals

CONSTANTS
  Process,           \* places in which a server or a prewarm can run
  RequiredModelFile, \* model.onnx, tokenizer.json
  OptionalModelFile, \* config.json and the others
  Chunks,            \* chunks in a file
  Dimension,         \* config: embedding.dimension
  OtherDimension,    \* dimensions of an index that an earlier configuration left
  DefaultTag,        \* defaultTechKeywords
  UsedTag,           \* the tags of the memories that calls store
  FrequencyBound,    \* bound: a tag is incremented at most this often
  Faults             \* what may fail: "redis", "network", "crash"

ASSUME FileAssumption ==
  /\ RequiredModelFile \cap OptionalModelFile = {}
  /\ Chunks \in Nat \ {0}
ASSUME IndexAssumption ==
  /\ Dimension \in Nat \ {0} /\ OtherDimension \subseteq Nat \ {0, Dimension}
ASSUME TagAssumption == FrequencyBound \in Nat

VARIABLES
  pc,         \* where each process is
  command,    \* what it runs: "serve" or "prewarm"
  index,      \* the dimension of the index, 0 when there is none
  published,  \* the files under their names
  temp,       \* the files with the suffix .downloading
  files,      \* files that a download has still to fetch
  current,    \* the file it is at
  open,       \* what the file it has open is: "temp", "published", "lost", "none"
  offset,     \* chunks it has written to it
  vocabulary, \* the members of tags:frequency
  frequency,  \* their scores
  learned,    \* history: how often each tag has been incremented
  raced,      \* history: files that two processes have downloaded at once
  spoiled,    \* history: those of which a download has broken off since
  unindexed,  \* history: a process stopped between the drop and the creation
  unseeded    \* history: a seeding failed, and none has come through since

indexVars == <<index, unindexed>>
fileVars == <<published, temp>>
tagVars == <<vocabulary, frequency, learned, unseeded>>
history == <<raced, spoiled>>
locals == <<command, files, current, open, offset>>
vars == <<pc, indexVars, fileVars, tagVars, history, locals>>

Tag == DefaultTag \cup UsedTag
File == RequiredModelFile \cup OptionalModelFile
Chunk == 1 .. Chunks
NoFile == {0}
Contents == (SUBSET Chunk) \cup {NoFile}
Label ==
  {"down", "index_info", "index_drop", "index_create", "check", "hub", "fetch", "copy",
   "rename", "load", "tags_count", "tags_add", "up"}

At(p, label) == pc[p] = label
Goto(p, label) == pc' = [pc EXCEPT ![p] = label]

Init ==
  /\ pc = [p \in Process |-> "down"] /\ command = [p \in Process |-> "serve"]
  /\ index \in {0, Dimension} \cup OtherDimension
  /\ published = [f \in File |-> NoFile] /\ temp = [f \in File |-> NoFile]
  /\ files = [p \in Process |-> {}] /\ current = [p \in Process |-> {}]
  /\ open = [p \in Process |-> "none"] /\ offset = [p \in Process |-> 0]
  /\ vocabulary = {} /\ frequency = [t \in Tag |-> 0] /\ learned = [t \in Tag |-> 0]
  /\ raced = {} /\ spoiled = {} /\ unindexed = FALSE /\ unseeded = FALSE

\* The process is gone, with all that it held.  Others have their files open as
\* opened says.
ExitWith(p, opened) ==
  /\ Goto(p, "down") /\ command' = [command EXCEPT ![p] = "serve"]
  /\ files' = [files EXCEPT ![p] = {}] /\ current' = [current EXCEPT ![p] = {}]
  /\ open' = [opened EXCEPT ![p] = "none"] /\ offset' = [offset EXCEPT ![p] = 0]

Exit(p) == ExitWith(p, open)

\* How processes have file f open once its names have changed from one kind to
\* another.
Renamed(f, from, to) ==
  [q \in Process |-> IF f \in current[q] /\ open[q] = from THEN to ELSE open[q]]

-----------------------------------------------------------------------------
(***************************************************************************)
(* Faulty variants of definitions below, which no specification uses.      *)
(***************************************************************************)
\* IndexInfo that takes any index for its own.
IndexInfoAny(p) ==
  /\ At(p, "index_info")
  /\ Goto(p, IF index = 0 THEN "index_create" ELSE "check")
  /\ UNCHANGED <<indexVars, fileVars, tagVars, locals>>

\* Fetch that creates the file under the name it is to have.
FetchInPlace(p, f) ==
  /\ At(p, "fetch") /\ f \in files[p]
  /\ Goto(p, "copy")
  /\ files' = [files EXCEPT ![p] = @ \ {f}] /\ current' = [current EXCEPT ![p] = {f}]
  /\ published' = [published EXCEPT ![f] = {}]
  /\ open' = [open EXCEPT ![p] = "published"]
  /\ UNCHANGED <<indexVars, temp, tagVars, command, offset>>

\* Missed that does not close the file.
MissedOpen(p, f, opened) ==
  IF f \in RequiredModelFile
    THEN ExitWith(p, opened)
    ELSE /\ Goto(p, "fetch")
         /\ current' = [current EXCEPT ![p] = {}]
         /\ open' = opened /\ offset' = [offset EXCEPT ![p] = 0]
         /\ UNCHANGED <<command, files>>

\* TagsAdd without NX.
TagsAddOverwrite(p) ==
  /\ At(p, "tags_add") /\ Goto(p, "up")
  /\ vocabulary' = vocabulary \cup DefaultTag
  /\ frequency' = [t \in Tag |-> IF t \in DefaultTag THEN 0 ELSE frequency[t]]
  /\ unseeded' = FALSE
  /\ UNCHANGED <<indexVars, fileVars, learned, locals>>

-----------------------------------------------------------------------------
(***************************************************************************)
(* The commands of main.  A server has read its configuration and reached  *)
(* Redis.                                                                  *)
(***************************************************************************)
Start(p, what, label) ==
  /\ At(p, "down") /\ Goto(p, label)
  /\ command' = [command EXCEPT ![p] = what]
  /\ UNCHANGED <<indexVars, fileVars, tagVars, files, current, open, offset>>

Serve(p) == Start(p, "serve", "index_info")
Prewarm(p) == Start(p, "prewarm", "check")

\* The client closes the input of a server.
Stop(p) ==
  /\ At(p, "up") /\ Exit(p)
  /\ UNCHANGED <<indexVars, fileVars, tagVars>>

Crash(p) ==
  /\ "crash" \in Faults /\ ~At(p, "down")
  /\ Exit(p)
  /\ unindexed' = (unindexed \/ (At(p, "index_create") /\ index = 0))
  /\ UNCHANGED <<index, fileVars, tagVars>>

-----------------------------------------------------------------------------
(***************************************************************************)
(* EnsureIndex.  Any error of FT.INFO is taken for a missing index; an     *)
(* error of the other two ends the process.                                *)
(***************************************************************************)
IndexInfo(p) ==
  /\ At(p, "index_info")
  /\ Goto(p, CASE index = 0 -> "index_create"
               [] index = Dimension -> "check"
               [] OTHER -> "index_drop")
  /\ UNCHANGED <<indexVars, fileVars, tagVars, locals>>

IndexInfoFails(p) ==
  /\ "redis" \in Faults
  /\ At(p, "index_info") /\ Goto(p, "index_create")
  /\ UNCHANGED <<indexVars, fileVars, tagVars, locals>>

IndexDrop(p) ==
  /\ At(p, "index_drop")
  /\ IF index = 0
       THEN Exit(p) /\ UNCHANGED index
       ELSE Goto(p, "index_create") /\ index' = 0 /\ UNCHANGED locals
  /\ UNCHANGED <<unindexed, fileVars, tagVars>>

IndexCreate(p) ==
  /\ At(p, "index_create")
  /\ IF index = 0
       THEN Goto(p, "check") /\ index' = Dimension /\ unindexed' = FALSE /\ UNCHANGED locals
       ELSE Exit(p) /\ UNCHANGED indexVars
  /\ UNCHANGED <<fileVars, tagVars>>

\* The command was applied when only its reply is lost.
IndexFails(p) ==
  /\ "redis" \in Faults
  /\ \/ At(p, "index_drop") /\ index' \in {index, 0}
     \/ At(p, "index_create") /\ index' \in {index, IF index = 0 THEN Dimension ELSE index}
  /\ unindexed' = (index' = 0)
  /\ Exit(p)
  /\ UNCHANGED <<fileVars, tagVars>>

-----------------------------------------------------------------------------
(***************************************************************************)
(* NewLocalEmbedder.                                                       *)
(***************************************************************************)
\* downloadFile returns an error: fatal for a required file.
Missed(p, f, opened) ==
  IF f \in RequiredModelFile
    THEN ExitWith(p, opened)
    ELSE /\ Goto(p, "fetch")
         /\ current' = [current EXCEPT ![p] = {}]
         /\ open' = [opened EXCEPT ![p] = "none"] /\ offset' = [offset EXCEPT ![p] = 0]
         /\ UNCHANGED <<command, files>>

\* localModelComplete: the required files exist and have a size.
CheckModel(p) ==
  /\ At(p, "check")
  /\ Goto(p, IF \A f \in RequiredModelFile : published[f] \notin {NoFile, {}} THEN "load" ELSE "hub")
  /\ UNCHANGED <<indexVars, fileVars, tagVars, locals>>

\* hugot.DownloadModel leaves all files in place, or reports an error.
DownloadModel(p) ==
  /\ At(p, "hub")
  /\ \/ /\ published' = [f \in File |-> Chunk]
        /\ open' = [q \in Process |-> IF open[q] = "published" THEN "lost" ELSE open[q]]
        /\ Goto(p, "load")
        /\ UNCHANGED files
     \/ /\ Goto(p, "fetch")
        /\ files' = [files EXCEPT ![p] = File]
        /\ UNCHANGED <<published, open>>
  /\ UNCHANGED <<indexVars, temp, tagVars, command, current, offset>>

\* downloadModelDirect takes the files of a map in any order.  os.Create
\* truncates the temporary file, whoever may have it open.
Fetch(p, f) ==
  /\ At(p, "fetch") /\ f \in files[p]
  /\ Goto(p, "copy")
  /\ files' = [files EXCEPT ![p] = @ \ {f}] /\ current' = [current EXCEPT ![p] = {f}]
  /\ temp' = [temp EXCEPT ![f] = {}]
  /\ open' = [open EXCEPT ![p] = "temp"]
  /\ UNCHANGED <<indexVars, published, tagVars, command, offset>>

FetchFails(p, f) ==
  /\ "network" \in Faults
  /\ At(p, "fetch") /\ f \in files[p]
  /\ IF f \in RequiredModelFile
       THEN Exit(p)
       ELSE files' = [files EXCEPT ![p] = @ \ {f}] /\ UNCHANGED <<pc, command, current, open, offset>>
  /\ UNCHANGED <<indexVars, fileVars, tagVars>>

Fetched(p) ==
  /\ At(p, "fetch") /\ files[p] = {}
  /\ Goto(p, "load")
  /\ UNCHANGED <<indexVars, fileVars, tagVars, locals>>

\* io.Copy writes to the file it has open, whatever name that has by now; with
\* the last chunk the file is closed.
Copy(p, f) ==
  /\ At(p, "copy") /\ f \in current[p]
  /\ LET n == offset[p] + 1 IN
       /\ temp' = IF open[p] = "temp" THEN [temp EXCEPT ![f] = @ \cup {n}] ELSE temp
       /\ published' = IF open[p] = "published" THEN [published EXCEPT ![f] = @ \cup {n}]
                                                ELSE published
       /\ IF n < Chunks
            THEN offset' = [offset EXCEPT ![p] = n] /\ UNCHANGED <<pc, open>>
            ELSE /\ offset' = [offset EXCEPT ![p] = 0]
                 /\ open' = [open EXCEPT ![p] = "none"]
                 /\ Goto(p, "rename")
  /\ UNCHANGED <<indexVars, tagVars, command, files, current>>

\* After an error the temporary name is removed, whosever file it is.
CopyFails(p, f) ==
  /\ "network" \in Faults
  /\ At(p, "copy") /\ f \in current[p]
  /\ temp' = [temp EXCEPT ![f] = NoFile]
  /\ Missed(p, f, Renamed(f, "temp", "lost"))
  /\ UNCHANGED <<indexVars, published, tagVars>>

\* A rename replaces the published file; a temporary name that is gone is an
\* error.
Rename(p, f) ==
  /\ At(p, "rename") /\ f \in current[p]
  /\ IF temp[f] = NoFile
       THEN Missed(p, f, open) /\ UNCHANGED <<published, temp>>
       ELSE /\ published' = [published EXCEPT ![f] = temp[f]]
            /\ temp' = [temp EXCEPT ![f] = NoFile]
            /\ open' = [q \in Process |->
                          IF f \in current[q] /\ open[q] = "published" THEN "lost"
                                                  ELSE Renamed(f, "temp", "published")[q]]
            /\ Goto(p, "fetch")
            /\ current' = [current EXCEPT ![p] = {}]
            /\ UNCHANGED <<command, files, offset>>
  /\ UNCHANGED <<indexVars, tagVars>>

\* hugot.NewPipeline reads the model and refuses one that is cut short.
Load(p) ==
  /\ At(p, "load")
  /\ IF command[p] = "serve" /\ \A f \in RequiredModelFile : published[f] = Chunk
       THEN Goto(p, "tags_count") /\ UNCHANGED locals
       ELSE Exit(p)
  /\ UNCHANGED <<indexVars, fileVars, tagVars>>

-----------------------------------------------------------------------------
(***************************************************************************)
(* seedTags, and IncrementTags of the calls that a server then takes.      *)
(***************************************************************************)
TagsCount(p) ==
  /\ At(p, "tags_count")
  /\ Goto(p, IF vocabulary = {} THEN "tags_add" ELSE "up")
  /\ UNCHANGED <<indexVars, fileVars, tagVars, locals>>

\* ZADD NX leaves the members alone that are there by now.
TagsAdd(p) ==
  /\ At(p, "tags_add") /\ Goto(p, "up")
  /\ vocabulary' = vocabulary \cup DefaultTag
  /\ frequency' = [t \in Tag |-> IF t \in DefaultTag \ vocabulary THEN 0 ELSE frequency[t]]
  /\ unseeded' = FALSE
  /\ UNCHANGED <<indexVars, fileVars, learned, locals>>

\* A server that could not seed the vocabulary serves all the same.
SeedFails(p) ==
  /\ "redis" \in Faults
  /\ At(p, "tags_count") \/ At(p, "tags_add")
  /\ Goto(p, "up")
  /\ unseeded' = ~(DefaultTag \subseteq vocabulary)
  /\ UNCHANGED <<indexVars, fileVars, vocabulary, frequency, learned, locals>>

IncrementTag(p, t) ==
  /\ At(p, "up") /\ frequency[t] < FrequencyBound
  /\ vocabulary' = vocabulary \cup {t}
  /\ frequency' = [frequency EXCEPT ![t] = @ + 1]
  /\ learned' = [learned EXCEPT ![t] = @ + 1]
  /\ UNCHANGED <<pc, command, indexVars, fileVars, unseeded, locals>>

-----------------------------------------------------------------------------
IndexStep(p) ==
  IndexInfo(p) \/ IndexInfoFails(p) \/ IndexDrop(p) \/ IndexCreate(p) \/ IndexFails(p)

ModelStep(p) ==
  \/ CheckModel(p) \/ DownloadModel(p) \/ Fetched(p) \/ Load(p)
  \/ \E f \in File : Fetch(p, f) \/ FetchFails(p, f) \/ Copy(p, f) \/ CopyFails(p, f) \/ Rename(p, f)

TagStep(p) == TagsCount(p) \/ TagsAdd(p) \/ SeedFails(p) \/ \E t \in UsedTag : IncrementTag(p, t)

\* History: a file is raced from the moment that two processes are at it until
\* none is and what is published is whole; spoiled once one of them stops early.
Remember ==
  LET Fetching(p, f) == f \in current[p]
      Two(f) == \E p, q \in Process : p # q /\ Fetching(p, f) /\ Fetching(q, f)
      Settled(f) == published[f] \in {NoFile, Chunk} /\ \A p \in Process : ~Fetching(p, f)
      BreaksOff(p, f) == At(p, "copy") /\ Fetching(p, f) /\ ~Fetching(p, f)'
  IN /\ raced' = {f \in File : (f \in raced \/ Two(f)') /\ ~Settled(f)'}
     /\ spoiled' = {f \in raced' : f \in spoiled \/ \E p \in Process : BreaksOff(p, f)}

Next ==
  /\ \E p \in Process :
       Serve(p) \/ Prewarm(p) \/ Stop(p) \/ Crash(p) \/ IndexStep(p) \/ ModelStep(p) \/ TagStep(p)
  /\ Remember

Spec == Init /\ [][Next]_vars

-----------------------------------------------------------------------------
(***************************************************************************)
(* Properties.                                                             *)
(***************************************************************************)
\* Every variable keeps its type; a file is open only while it is copied.
TypeOK ==
  /\ pc \in [Process -> Label] /\ command \in [Process -> {"serve", "prewarm"}]
  /\ index \in {0, Dimension} \cup OtherDimension
  /\ published \in [File -> Contents] /\ temp \in [File -> Contents]
  /\ files \in [Process -> SUBSET File] /\ current \in [Process -> SUBSET File]
  /\ open \in [Process -> {"temp", "published", "lost", "none"}]
  /\ \A p \in Process : open[p] = "none" <=> pc[p] # "copy"
  /\ offset \in [Process -> 0 .. Chunks - 1]
  /\ vocabulary \subseteq Tag
  /\ frequency \in [Tag -> 0 .. FrequencyBound] /\ learned \in [Tag -> 0 .. FrequencyBound]
  /\ raced \subseteq File /\ spoiled \subseteq File
  /\ unindexed \in BOOLEAN /\ unseeded \in BOOLEAN

\* A file appears under its name only whole ("atomically"), wherever a download
\* breaks off and whoever starts another, unless two processes fetched it at
\* the same time; and then it becomes whole if none of these breaks off.
PublishedWhole ==
  \A f \in File : published[f] \notin {NoFile, Chunk} =>
    /\ f \in raced
    /\ f \in spoiled \/ \E p \in Process : f \in current[p] /\ open[p] = "published"

\* A server that serves has an index of its dimension, however many others
\* start, drop and create beside it, except while one of them is between the
\* drop and the creation, or after one has stopped there.
ServesIndexed ==
  (\E p \in Process : At(p, "up")) =>
    index = Dimension \/ unindexed \/ \E q \in Process : At(q, "index_create")

\* Seeding and learning do not get into each other's way: no seeding takes back
\* an increment, and unless a seeding failed no increment comes before it and
\* keeps the defaults out of the vocabulary.
SeedsAndLearns ==
  /\ frequency = learned
  /\ vocabulary # {} /\ ~unseeded => DefaultTag \subseteq vocabulary
=============================================================================
