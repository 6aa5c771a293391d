# mnemoir in TLA+

mnemoir is a memory server for language-model clients. A server process
(`cmd/mnemoir`) answers MCP tool calls and a small HTTP interface; all that lasts
is in one Redis with RediSearch, which several servers may share. There are no
locks but a mutex inside each server, and no transactions: a go-redis `Pipeline`
sends its commands together, but other clients' commands may come between them
and an error or a crash leaves a prefix of them done. That is what these
specifications are about.

## 1. The system

| component | source | state | operations |
|---|---|---|---|
| sessions | `internal/mcp/handlers.go`, `SaveSession`, `GetLastSession` of `internal/memory/store.go`, `pruneSessions` and `cleanupOrphans` of `maintenance.go` | one `activeSession` slot per server; `session:{id}` hashes, `project_sessions:{p}` sorted sets, `maint:last_run:{p}` | `start_session`, `end_session`, `POST /end-session` (the SessionEnd hook), maintenance |
| project directory | `store.go` (`Save`, `SaveSession`, `DeleteByFilter`, `RenameProject`), `cleanupOrphans` of `maintenance.go` | the project of every memory and session, the sorted sets, the `projects` set | store, forget by project, session start and end, `rename_project`, clean-up of an empty project |
| memories | `store.go`, `search.go`, `maintenance.go`, `types.go`, two Lua scripts | `mem:{id}` hashes | `store_memory`, the memories `end_session` extracts, `update_memory`, `recall` (vector, full text, hybrid) with access tracking, `forget`, auto-forget |
| ranking | `mergeResults`, `maxScore`, `truncate` of `search.go` | none | the order of what `recall` returns |
| backup and restore | `internal/dbops`, `cmd/mnemoir/backup_cmd.go` | the file, the database | `backup`, `restore [--flush]` |
| search index | `internal/redis/schema.go` | the index and its dimension | `EnsureIndex`, called by servers and by `restore` |
| local embedder | `internal/embedding/local.go` | the model directory | look for the model, download it, load it; `prewarm` |
| tag vocabulary | `internal/compressor/local.go` | `tags:frequency` | `seedTags`, `IncrementTags` |
| statistics, compressors, inference, configuration, transports, scripts | see `PROJECT.json` | none, or not the program's | mostly reads |

How they meet: every handler runs in a goroutine of its own. `start_session`
takes the slot, saves, runs maintenance, and then reads its context;
`end_session` takes the session out of the slot, stores what the compressor
found, and saves the session a second time. `recall` reads, then writes access
counts. A rename walks through everything a project has. Backup reads all keys
while servers go on writing. Every server ensures the index, loads the model and
seeds the tags before it serves, and each MCP client has a server of its own, so that
several start side by side. A server may stop at any point.

What makes each part correct, and what is hard about it:

* **Sessions.** One session per server; a session is ended by one call; once ended
  it stays ended; maintenance keeps the newest *N* and no entry without a record.
  Hard: two critical sections with a window between them, saves outside the
  mutex, a roll-back, ranks used several commands after they were read.
* **Project directory.** A rename moves everything, can be repeated after a failure,
  and loses no session; whatever exists is listed. Hard: batches, three pipelines
  that may each break off, other calls at work on the same project.
* **Memories.** Every recall counts once; forgetting forgets what it should and
  spares what is in use; no half-deleted memory; the importance of what is recalled
  stays within its bounds. Hard:
  check and write with an embedding between them, tracking after the answer,
  repeated rounding of a number that feeds back into itself, batch loops.
* **Ranking.** A hybrid recall cuts off no memory that beats one it returns. Hard: two
  scales divided by their maximum, scores below zero, copies that have gone stale.
* **Backup.** What nobody touches is in the snapshot, and a restore that succeeds
  brings it all back, with its index, however often it was tried. Hard: SCAN on a
  changing database, five sections that can break off, flush and index recreation,
  servers that drop and create the index meanwhile.
* **Start-up.** Servers serve with an index of the right dimension, from a whole
  model, with the default tags known. Hard: all three look first and act later,
  with no lock between the processes, and the download has a name for its
  temporary file that all of them share.

The hazards, each at its line with the properties that bear on it, are in
`PROJECT.json`.

## 2. The modules

| module | models | checked by |
|---|---|---|
| `SessionLifecycle` | sessions, each Redis command a step | `MCSession` |
| `SessionContract` | what the session calls promise, without Redis | refined by `SessionLifecycle` |
| `SessionLifecycle_proofs` | theorems about `SessionLifecycle` and its contract | tlapm |
| `ProjectDirectory` | membership and listing of projects | `MCProject` |
| `ProjectDirectory_proofs` | theorems about `ProjectDirectory` | tlapm |
| `Scoring` | importance: decay, boost, clamp, rounding | through `MemoryLifecycle` |
| `Ranking` | scores of a hybrid recall and their order | through `MemoryLifecycle` |
| `MemoryLifecycle` | memories | `MCMemory` |
| `Scoring_proofs` | lemmas about the arithmetic of `Scoring` | tlapm |
| `MemoryLifecycle_proofs` | theorems about `MemoryLifecycle` | tlapm |
| `Retention_proofs` | theorems about its forget and auto-forget | tlapm |
| `Ranking_proofs` | lemmas about `Ranking`, the theorem about its order | tlapm |
| `BackupRestore` | backup, restore, index dimension | `MCBackup` |
| `BackupRestore_proofs` | theorems about `BackupRestore` | tlapm |
| `ServerStartup` | index, model files and tag vocabulary as processes start | `MCStartup` |
| `ServerStartup_proofs` | theorems about `ServerStartup` | tlapm |

Conventions they share:

* A **worker** is a goroutine that serves one call at a time (in
  `ProjectDirectory` a server with one client). `pc[w]` is its place in the call;
  the handler's locals are variables indexed by worker, reset by `Return`.
* **A step is one Redis command**, or one critical section of the mutex. A Lua
  script and a `SCAN`, `FT.SEARCH` or `SMEMBERS` are single commands.
* An **error** of a command (`"redis" \in Faults`) takes the code's error path. The
  command itself may or may not have been applied where only its reply can be
  lost. A **crash** (`"crash" \in Faults`) resets the server's own state only.
* Definitions under *Faulty variants* are used by no specification. Each is an
  action with a likely mistake in it; put in place of the action, it makes TLC
  refute the property it is listed with under `mutants`.

### SessionLifecycle

`active` is `Handlers.activeSession`, `object` the `memory.Session` struct that
server and goroutines share by pointer, `hash` the stored records (`"open"` has an
empty `ended_at`, `"closed"` has one), `index` the sorted sets, `throttle` the maintenance
key, which is `"forever"` between its HSET and its EXPIRE. `StartSession`
is the critical section of `handlers.go:273`; `StartRead`, `StartHash`,
`StartIndex` are `SaveSession`, which reads the struct before it writes; then
`MaintThrottle` to `MarkTTL` for maintenance and `LastId`, `LastHash` for
`GetLastSession`. `PostEndSession` and `EndTake` are the two critical sections
of the hook; `end_session` has the second only. `EndWrite`, `EndHash`, `EndIndex`
follow outside the mutex.

Abstractions: sessions are numbered in the order of creation, which is taken to be
the order of the sorted set (score `started_at`, then id); the ULIDs are not
monotonic within one second, so two sessions of a project started in the same second
may rank the other way round. `PruneDel` is one DEL of the pipeline; the `EXISTS` of all
entries are one step. The memories `end_session` stores are in `MemoryLifecycle`
(`Extract`).

`SessionContract` knows the slot of a server, the sessions whose start has yet to store
them, those that calls have taken to end, and the run of the process. Each way in which a
session may leave its slot shows in one of these: its own start failed (`Withdraw`, which
leaves another session where it is), a call took it (`Take`), or the server stopped (`Crash`,
which starts another run). A step that empties a slot and does none of this, such as the
roll-back of the start of another session, is no step of the contract. `boot`, the parity of
the run, is history in `SessionLifecycle`.

### ProjectDirectory

`memory`, `session`, `index`, `projects` are what Redis holds; `origin` is the
`Project` of a Session struct, which no rename changes; `ids` and `entries` are the
slices of a handler. `RenameSearch`/`RenameMove` are the loop over memories,
`RenameEntries` to `RenameSessionDel` the sessions, `RenameListRem` and
`RenameListAdd` the set of projects. `scope` and `broken` are history: the
memories a rename found when it began, and the projects of calls that broke off.

### MemoryLifecycle, Scoring and Ranking

A hash is reduced to the fields the code computes with, whether it is `there`, and
whether it is `full`. A recall's two searches answer at different times, from
different states (`VectorSearch`, `FullTextSearch`), each with copies of the
hashes it found and any scores of a small set. `MergeResults` joins them, ranks by
`FinalScore` and returns the best; the access script then works on the hashes as
they are by then. Searches carry the project filter and see a hash as it is at that
moment. `Extract` to `Extracted` are the memories that `end_session` gets from the
compressor, each saved or given up on its own. What `store_memory` and `end_session` write
as importance is any integer, as nothing checks it (`handlers.go:103`, `567`);
`update_memory` cuts it to 10 and leaves it alone when it is not positive.

`returned`, `orphaned` and `accessed` are history: the answers a memory was in, the memories
deleted while a call had seen them and was going to write their hash (`InHand`), and those of
an auto-forget batch that were accessed between its search and its script. The last two say
exactly which races `NoRemnant` and `SparesActive` exempt.

Both helpers compute in integers. `Scoring`: a point is `Unit` units, time is in
whole intervals, in each of which importance decays by a ratio of two integers (9/10 for a
`decay_factor` of 0.9; its root for a part of a `decay_interval` is not of this form), and the
instances choose `Unit` and the ratio 1/2 so that no division has a remainder.
`Ranking`: weights are in percent, and the sum is multiplied by the three
divisors of the code, which leaves the order of memories as it is.

### BackupRestore

The database is a function from keys to opaque contents, in the five sections
that `Dump` and `Restore` go through. `DumpScan` takes any part of the keys not yet
scanned, `DumpRead` one hash or set. Servers write, drop the index and create it
at any moment, up to `ChangeBound` of these. `clean`, `touched` and `reindexed` are
history. A content is a whole hash: what restore does to a hash that lacks fields is
not in the model. The wait for indexing (`waitForReindex`) changes nothing and is
left out.

### ServerStartup

A process is a server or a `prewarm`. It goes through `EnsureIndex` (`IndexInfo`,
`IndexDrop`, `IndexCreate`), the local embedder (`CheckModel` to `Load`) and the tags
(`TagsCount`, `TagsAdd`), and may crash in between.

A file is the set of its chunks that have been written. A process that copies has a
file *open*, and what it writes goes to that file under whatever name it has by then:
another process may have truncated it, removed its name, or renamed it to the
published one. `open` keeps which of these it is. `hugot.DownloadModel` and
`hugot.NewPipeline` are libraries: the first leaves all files in place or fails, the second
refuses a model that is cut short. `DownloadModel` is tried first, and the program's own
download follows when it fails.

`raced`, `spoiled`, `unindexed`, `unseeded` and `learned` are history. The first four say
exactly which mishap a property exempts: two processes at one file, one of them
breaking off since, a stop between the drop of the index and its creation, and a
seeding that failed.

## 3. The runs

| run | instance | shows |
|---|---|---|
| `session_hook` | one server, an MCP client and the hook, errors and crashes, 3 sessions, cap 1 | `SingleEnder`; `KeepsContract` (the refinement of `SessionContract`); `PrunedIsOld` |
| `session_pair` | two servers on one project, with fairness, 3 sessions, cap 1 | `EndedForGood`: ended means ended, whatever the other server prunes; `ThrottleLifts`: maintenance is never throttled for good |
| `session_solo` | one client, two projects, crashes, 4 sessions, cap 2 | `MaintenanceDone`, `UnindexedIsGone` |
| `session_previous` | one client, 2 sessions | *violated*: `ReturnsPrevious` |
| `project_pair` | one client renames, one does the rest, errors | `MigratesMemories` |
| `project_solo` | one client, every call, errors and crashes | `Listed`, `RenameEmptiesOld`, `StaysIndexed` |
| `project_active` | one client, no faults | *violated*: `OneProjectPerSession` |
| `memory_recall` | one client stores, recalls and updates, the other recalls, forgets and does maintenance | `CountsEveryRecall`, `KeepsTheBest`, `NoRemnant`, `SparesActive` |
| `memory_retention` | one client, every call, errors, crashes, time, importances of 0 and 12 | `ForgetsAll`, `SweepsUpToBatch` |
| `memory_batch` | as before, no faults and no recalls | *violated*: `ForgetsFaded` |
| `backup_restore` | 2 memories, a session, a project, a tag; one command of a server | `KeepsStable`, `RestoresSnapshot`, `RestoresIndex` |
| `startup_pair` | two processes, an index of another dimension or none, no model, no tags; every fault | `PublishedWhole`, `ServesIndexed`, `SeedsAndLearns` |

Each module's `TypeOK` is checked in one of its runs.

**Bounds.** Sessions are one or two above the cap, so that surplus, pruning by rank
and an entry left over from a crash all occur. Batches hold one element and there are
two, so a loop goes round again, meets its limit on rounds (`project_pair`) or
ends before it. Two servers and two clients are what the interleavings need: every hazard
listed is between two calls. Time goes to 4 with inactivity after 2 intervals, so that a memory
can be stored, fade, and be forgotten, or be kept alive by a recall; with two clients it goes
to 2 with inactivity after 1, which is enough for a delete or an access to come between the
look of one call and its write. An importance of 0 fades at once, one of 12 is above what a
recalled memory may have. A backup has two memories
so that a scan has several batches; its initial contents are alike (`InitialContent`), which
loses nothing as contents of different keys are never compared. A start-up has two
processes, files of two chunks, so that a copy can be under way and break off, one
required file and an optional one, whose failures end differently. Of the tags one is
used and the other is not. Scores are two positive ones, so that memories can tie or
not, and a negative similarity. The limits on ids, sessions, time, recalls,
increments and server writes are bounds of the models, marked `bound:` at the constant.

**Fairness.** Only `FairSpec` of `SessionLifecycle` assumes any: weak fairness of
`Proceed(w)`, a step of a call already under way. The Go scheduler runs a
goroutine that is not blocked, the mutex is held for a few assignments only, and
go-redis answers or times out. And weak fairness of `ThrottleExpires(p)`: Redis
removes a key whose time is over. Nothing makes a client call, so the calls
themselves are not fair.

**Deadlock** is not checked: a system whose bounded ids are used up and whose
calls have returned has nothing left to do.

### What the violated runs found

1. `start_session` saves its own session before it looks for the newest one, so it finds
   itself and returns no previous summary (`handlers.go:298`, `325`).
2. `end_session` saves the struct it has held since the start. After a rename this
   puts the session back under the old project, in two sorted sets (`store.go:431`).
3. Auto-forget looks at a batch of 200 and stops when nothing in it can go;
   memories that have faded are never reached behind a batch of important ones
   (`maintenance.go:150`). `SweepsUpToBatch` says what the loop does promise.

Of lesser weight, in the models but without a run of their own:

* A recall stores the boosted importance as the base of the next one, which adds the boost
  again (`store.go:179`): the boosts add up to more than `access_boost_cap`, which
  `config/default.toml:45` calls "max boost from recalls".
* The tool schema asks for an "Importance level 1-10" (`tools.go:76`), and `store_memory`
  and `end_session` store any number. The first recall of such a memory puts it in range.
* An `update_memory` or a recall that overlaps a delete brings back a part of the memory,
  which no search with a project finds, and auto-forget deletes a memory that was accessed
  between its search and its script, if its importance is still low.

### Where a property needs its instance

Some properties hold in the instance they are checked in and not in a larger one.
The instance is part of the claim:

* `EndedForGood` needs clients that send one call at a time and no Redis errors.
  A hook that comes during a slow `start_session` ends the session first, and the
  late save of the start marks it open again; an error while saving the end leaves
  it open too.
* `KeepsContract` needs one start at a time per server. With two, TLC refutes it: the hook
  ends a session that is still being saved, the second start takes the slot, and the
  roll-back of the first clears it without looking whose session is in it (`handlers.go:301`).
* `PrunedIsOld`, `UnindexedIsGone` and `MaintenanceDone` need one pruner per project; two
  servers take the same surplus twice. The last also needs a Redis that answers, as the
  throttle is marked even when the tasks before it have failed.
* `StaysIndexed`, `RenameEmptiesOld` and `Listed` need a rename to have the project for
  itself: a memory stored under the old name after the last search is left there, and
  the rename takes its project off the list.
* `MigratesMemories` needs one renamer and no more memories than the rounds of a rename hold.
* `NoRemnant` exempts memories that were deleted while a call had seen them and was about to
  write, `SparesActive` those accessed between a search of auto-forget and its script. In
  `memory_recall` both happen, and without the exemptions TLC refutes both.
* `CountsEveryRecall` needs every answer of Redis to arrive.
* `ForgetsAll` and `SweepsUpToBatch` need a client that is alone, as another may store or
  access while they go round. `ForgetsAll` also needs rounds with room for all that matches,
  and speaks of what is left over, not of what is deleted too much: an `older_than` of 0 or
  less matches everything.
* `ThrottleLifts` needs a run without faults: a crash or an error between HSET and
  EXPIRE leaves the throttle key for ever.
* `KeepsTheBest` speaks of weights that are all positive, which `Validate` does not
  require, and counts similarities only if one of them is positive, as `maxScore` does.
* `RestoresIndex` exempts restores during which a server touched the index.
* `PublishedWhole` exempts files that two processes downloaded at once, one of which broke
  off: then a cut-short file can stay published, and each later start fails to load it.
* `ServesIndexed` exempts the time after a process stopped between drop and creation, and
  has one dimension for all servers; with two, the last to start wins.
* `SeedsAndLearns` loses the default tags for good when a seeding fails and a call then
  learns a tag, as the seeding is for an empty vocabulary only.

## 4. Proofs

Every safety invariant and action property of the passing runs is proved, for any values of
the constants that satisfy the named assumptions of the modules, which TLC evaluates on each
run; so is the refinement of `SessionContract`. Where a theorem has a further hypothesis, a
named operator of the proof module or a condition on a constant, it is in its `ASSUME`, and
section 3 says what happens without it. All inductive invariants were first checked by TLC.

What the assumptions are for: sets of ids are finite (`FiniteAssumption`), as the loops over
batches are counted against their cardinality; the kinds of keys are disjoint
(`KeyAssumption`), as in Redis, where each has its prefix; `PowerAssumption` is a fact of
arithmetic that tlapm cannot derive, as it does not know `^`: a power of a positive natural
number is one.

**SessionLifecycle** (any servers, workers, projects, sessions, cap; any faults unless said)

| theorem | property | hypothesis | invariant |
|---|---|---|---|
| `TypeCorrect` | `TypeOK` | | `TypeOK`, inductive because it says that a worker inside a handler holds a session |
| `OneEnder` | `SingleEnder` | | `Ownership`: no session in two slots, none in use newer than the last one created |
| `ImplementsContract` | `KeepsContract` | `OneStarter`: the starts of a server come one at a time | `Starters`: while a worker stores its session the slot holds that one or none |
| `PrunesOldOnly` | `PrunedIsOld` | `OnePruner`: one worker starts sessions | `Filed`, `Surplus`: what is about to be pruned has as many newer sessions indexed as the cap |
| `UnindexesGoneOnly` | `UnindexedIsGone` | `OneWorker` | `Pruned`: the ranks still name the sessions whose records were deleted |
| `MaintainsCap` | `MaintenanceDone` | `OneWorker`, no `"redis"` fault | `Tidy`: the surplus as counted, then the cap, then entries without a record |

`SingleEnder` alone is not inductive: a session could be in two slots, or a start could
create a session that is being ended. The refinement is a step simulation. The steps
that change no slot and none of the sessions a worker stores or ends are stutters
(`QuietContract`); `HeldStays`, `HeldEnters` and `HeldLeaves` say what a step makes of those
sets, and each other step has a lemma that names the step of the contract it is. `OneStarter`
is there for `StartRollback`, which clears the slot without looking (`RollbackWithdraws`):
with two starters it may clear the session of the other.

In the maintenance proofs all the weight is on the distance between reading and
acting: the surplus is counted, ids are read by rank, records are deleted by id and entries
removed by rank, each in a command of its own.

**ProjectDirectory** (any workers, projects, memories, sessions, batches, any faults)

| theorem | property | hypothesis | invariant |
|---|---|---|---|
| `TypeCorrect` | `TypeOK` | | `SharedOK`, `LocalsOK`: what each call has been given at each of its steps |
| `SessionsStayIndexed` | `StaysIndexed` | `RenamesAlone`: nobody renames or saves sessions beside a rename | `Carried`: what the rename has read is what the old set holds, and before the DEL the new one holds it too |
| `RenameMigrates` | `MigratesMemories` | `OneRenamer`, `RoomForAll` | `Fresh`, `Migrating` |
| `RenameLeavesNone` | `RenameEmptiesOld` | `OneWorker`, `RoomForAll` | `Migrating`, `Emptied` |
| `ListsAll` | `Listed` | `OneWorker`, `RoomForAll` | `Emptied`, `OnList`: listed, or about to be put on the list |

`RenameMigrates` is the one with many actors: others store into the old project and forget
from it while the rename pages through it. The measure of its progress cannot be what is
left in the project, which may grow. It is the set of memories that are *settled*: stored
already, and not in the old project. `Fresh` says that an id is stored once, so nothing that
is settled comes back (which is what `OneRenamer` is for), and `Migrating` that each round
settles a batch, unless the search brought all there was. After `MaxIterations` rounds
everything is settled, by `RoomForAll`: there are no more memories than the rounds hold
(100 times 1000 in the code).

**MemoryLifecycle** (any workers, memories, clock, limits and scoring parameters)

The basis is `IInv`: types; what each call holds where it is (`Calls`); that accesses
counted and still to be counted are no more than the answers given (`Counted`); that nobody
but the call that stores it knows of a memory without a hash (`Births`). `Scoring_proofs`
gives the range of the arithmetic, from any stored importance.

| theorem | property | hypothesis | invariant on top of `IInv` |
|---|---|---|---|
| `TypeCorrect` | `TypeOK` | | |
| `CountsRecalls` | `CountsEveryRecall` | `Faults = {}` | `Exact`: count and pending accesses are exactly the answers |
| `LeavesNoRemnant` | `NoRemnant` | | `Whole`: what a call is about to write exists, or was deleted under its hands |
| `SparesInUse` | `SparesActive` | | `Aimed`: the keys of the script were not accessed since the cut-off, or were since the search |
| `ForgetLeavesNone` | `ForgetsAll` | `OneClient`, rounds with room for all | `Emptied`: each round takes a batch off what matches |
| `SweepsUpTo` | `SweepsUpToBatch` | `OneClient` | `Batched`: the script gets a full batch of what is stale, or all of it |
| `KeepsBest` | `KeepsTheBest` | positive weights | `IInv` |

`CountsEveryRecall` itself is about moments when no call is under way, so it says nothing on
which to build; `Exact` counts the pipelines that are out. `KeepsBest` is about a formula
rather than about steps: that `maxScore` is a maximum, that dividing by it keeps the order
also below zero, and that a cut by rank keeps what is above it; each is a lemma of
`Ranking_proofs`. `ForgetLeavesNone`, `SweepsUpTo` and `SparesInUse` are in
`Retention_proofs`. `LeavesNoRemnant` and `SparesInUse` are about any number of clients that
overlap in any way; their exemptions are sets that only the race itself can fill.

**BackupRestore** (any keys, contents, dimensions, number of changes and faults)

`IInv` says which locals are in use where (`Phase`), and for each section before, at and
after the current one what has been copied (`Copied`), written back (`Restored`), flushed
(`Clean`) and left by `EnsureIndex` (`Indexed`). `TypeCorrect`, `DumpKeepsStable`
(`KeepsStable`), `RestoreIsComplete` (`RestoresSnapshot`) and `RestoreIsIndexed`
(`RestoresIndex`) follow without any hypothesis. The properties alone are not inductive:
they speak of the end of a dump or a restore.

**ServerStartup** (any processes, files, chunks, tags, dimensions and faults)

`IInv` has a part for each of the three things that processes share. `Whole`: of a file that
was never raced there is one writer, and what it has written is what it has copied
(`Alone`); of a file that was raced, some process that has it open under its name will
complete it (`Completed`), until one of them breaks off. `Indexed`: an index of another
dimension never comes back once a process serves. `Seeded`: who takes calls has seen the
defaults. `TypeCorrect`, `PublishesWhole` (`PublishedWhole`), `IndexServed`
(`ServesIndexed`) and `SeedsKeepLearned` (`SeedsAndLearns`) follow without any hypothesis.

Only model-checked: `EndedForGood` and `ThrottleLifts`, which are liveness under fairness
and out of the prover's reach. The three properties of the violated runs (`ReturnsPrevious`,
`OneProjectPerSession`, `ForgetsFaded`) are false.

## 5. Not modelled

* Compressors and the inference of embedders: text in, text or a vector out, by
  regular expressions, a neural network or HTTP. They keep no state; that they fail, and
  that what they return is stored, is in `MemoryLifecycle`.
* Statistics and lists (`memory_stats`, `list_projects`, the memories that
  `start_session` returns): reads that change nothing.
* Configuration: read once, the CONSTANTS here.
* Transport, tool schemas, health checks, and the choice of the one server that owns the
  HTTP port: `SessionLifecycle` has a hook for its own server; which client a hook was
  meant for is known to nobody in the program.
* Redis clients that send a command again (go-redis does, when an answer is lost), and
  crashes inside `hugot.DownloadModel`. Searches without a project, which would find partial
  hashes too. A failed rename of a download and the removal of the temporary file that
  follows are one step.
* Scripts, which drive Docker and Redis from outside.

## 6. Plan

Written so far, in this order: `SessionLifecycle` with its contract, `ProjectDirectory`,
`Scoring` and `MemoryLifecycle`, `BackupRestore`, `ServerStartup`, `Ranking`, and
then the proofs of section 4.

Next, to extend the model:

1. An abstract specification of memories (a memory is stored, changed, forgotten,
   and never comes back in part), which `MemoryLifecycle` implements for one call
   at a time.
2. `list_projects` and `memory_stats` as reads of the directory.
3. A Redis client that sends a command again when its answer is lost, which the access
   script does not bear.
4. Several servers behind one health port.

Next, to prove:

1. `StaysIndexed` with sessions saved beside a rename, as long as none is saved under its
   old name: `RenamesAlone` is stronger than that.
2. `PrunedIsOld` for several workers that start sessions in projects of their own.
3. The safety part of `EndedForGood`: without Redis errors a record that says that its
   session has ended never says the opposite again, for clients with one call at a time.
4. `KeepsContract` for starts that overlap, up to the session that the roll-back of another
   start dropped.
