# A verification of OutOfMatrix in TLA+

OutOfMatrix is a self-hosted media library: a Go server (HTTP API, PostgreSQL,
files under one storage root, FFmpeg subprocesses on a worker pool) and a React
client. This directory holds TLA+ models of its stateful parts, the TLC
configurations that check them on small instances, and TLAPS proofs of their
main properties for instances of every size. Paths below are relative to the
repository's root.

To repeat the results, in this directory: `tlc -config Pipeline.cfg
MCMediaPipeline.tla` (likewise for every row of the table of runs) and `tlapm
MediaPipelineProofs.tla` (likewise for the other `*Proofs` modules).

## 1. The system

| Component | State | Operations | What is hard about it |
|---|---|---|---|
| Resumable uploads (`upload_usecase.go`, `upload_repository.go`) | rows of `upload_sessions` and `upload_chunks`, one sparse staging file per session | CreateSession, SaveChunk, Complete, Abort, Status; hourly CleanupExpired | three stores and no transaction across them; handlers of one session overlap; the process may stop between any two calls; a statement may commit and still report an error |
| Media pipeline (`media_usecase.go`, `media_repository.go`) | rows of `media_items`; original, thumbnail and HLS directory of each item | CreateFromUpload, CreateFromFile, Edit, SetFavorite, Delete, Process, RecoverUnfinished | handlers and workers write whole rows from copies read earlier; jobs have deadlines; deletes race encoders |
| Worker pool (`internal/worker/pool.go`) | buffered channel, closed flag, context, goroutines | Enqueue, worker loop, runJob, Shutdown | a select with several ready cases; send on a closed channel; drain against cancel |
| Server life (`cmd/server/main.go`) | phase of `run()` | migrate, start pool, recover, listen, janitor, signal, HTTP shutdown, pool shutdown | the order of these is all that keeps recovery and uploads apart, and sends off a closed channel |
| FFmpeg driver (`pkg/ffmpeg`) | output files of one item | ProbeMedia, thumbnails, GenerateHLS with encoder fallback | partial output of a failed or killed run; progress that starts over; odd source heights |
| Event hub (`internal/delivery/ws`) | clients and their 64-slot channels | register, unregister, broadcast | close against send; a lock held over a broadcast; two goroutines that end through each other; dropped events |
| Web client: library and events (`web/src/App.tsx`, `use-media-events.ts`) | pages, filters, the open item | load, loadMore, patch, event handlers | answers and events arrive out of order, and not at all while the socket is down |
| Web client: uploads (`web/src/lib/api.ts`) | chunks left to send, retries | create a session, send chunks, complete; cancelling only stops sending | lost answers, retries |
| Collections | `collections`, `collection_items` | create, add (again: move), remove, delete, list | checks and statements are separate; cascades |
| Accounts and tokens | `users`; signed tokens; the secret | register, login, middleware | a token outlives what it says of its account; a secret that may change at every start |
| Migrations runner | `schema_migrations` | apply and record each file | crash between the two |
| Streaming, routing, configuration, presentation | none of their own | | |

How they interact: an HTTP handler of Complete calls CreateFromFile of the media
usecase in the same goroutine, which inserts the media row and calls Enqueue of
the pool; a worker of the pool calls Process, which reads and writes the row and
the files; both notify the hub, which the client listens to. `run()` starts the
pool, then recovers unfinished items into it, then listens; on a signal it
cancels the context that workers, jobs and the janitor run on, shuts HTTP down
(for up to 30 s) and then the pool.

What makes each part correct:

- uploads: one upload makes at most one item, and only of all its bytes; what
  was acknowledged can be resumed; what was aborted or has expired goes away,
  row and file;
- pool: an accepted job is handed out once and never lost while the context
  lives; Shutdown ends;
- collections: they hold items of their owner and are changed by their owner
  (admins excepted), whatever happens between a check and its statement;
- start-up: nothing is served before the whole schema is there;
- encode: what a call leaves behind is one complete set or nothing;
- events: a broadcast neither panics nor waits, a broken connection is gone in
  the end, and the page ends up showing what the database says;
- pipeline: no row points at a missing file; an item is processed by one worker
  at a time; nothing unfinished is forgotten; a ready item is complete; what the
  user set stays set.

`PROJECT.json` lists the hazards behind these, each at its line with the
properties that would catch it.

## 2. The models

### UploadSessions

`internal/usecase/upload_usecase.go` with the SQL of `upload_repository.go` and
the part of `media_usecase.go` that Complete runs.

| In the model | In the code |
|---|---|
| `rows`, `receipts` | `upload_sessions`, `upload_chunks` (the receipts go with their row, by the foreign key's cascade) |
| `place`, `content` | where the one file of a session is linked (`.uploads/<id>.part`, `originals/`, nowhere), and the chunks whose bytes it holds |
| `items` | rows of `media_items` made from the session |
| `expired` | sessions whose `expires_at` has passed |
| `opened`, `acked`, `aborted` | what clients have been told |
| `req` | the next statement or system call of each handler goroutine |
| `batch`, `removing` | the janitor's loop in CleanupExpired |

Each SQL statement and each system call is one step, because nothing in the code
spans two of them: CreateStaging, InsertSession, UndoStaging (CreateSession);
Begin (getOwned of the three other handlers); OpenStaging, CopyChunk,
RecordChunk (SaveChunk); CountChunks, StatStaging, MoveStaged, SaveItem,
DiscardOriginal, DisposeSession (Complete with CreateFromFile); AbortDelete,
AbortRemove (Abort); JanitorList, JanitorDelete, JanitorRemove; Expire; Crash. A
statement may succeed, fail, or commit and report an error all the same (the
context is cancelled because the client hung up, or the connection drops after
the commit).

### WorkerPool, PoolLifecycle

WorkerPool has the pool's state and one action for each thing a goroutine does
with it: Enqueue (with `Full` for ErrQueueFull), Take, Finish, Stop (the three
outcomes of the select), Cancel, Close. PoolLifecycle drives it as `run()` does;
`Stops` chooses between the stop of `main.go` (`"hard"`: the signal cancels the
workers' context) and Shutdown without a cancelled context (`"soft"`), which the
pool's own comments describe. A select with several ready cases picks any. An
Enqueue on the closed channel is a panic, which net/http recovers.

### MediaPipeline

`internal/usecase/media_usecase.go` on top of WorkerPool, whose operations are
conjuncts of its actions, and of `cmd/server/main.go` from boot to stop.

| In the model | In the code |
|---|---|
| `row` | `media_items`: status, title, thumbnail path, HLS path, favorite |
| `files` | which of original, thumbnail and HLS directory exist |
| `req` | an HTTP handler: its stage and the copy of the row it read (`snap`) |
| `proc` | a worker in Process: its stage and the copy it holds |
| `late` | workers whose job has outlived the pool's job timeout |
| `todo`, `phase` | RecoverUnfinished and `run()` |
| `adrift`, `unseen`, `liked`, `interrupted`, `saved` | history, for the properties |

A handler that saves, edits or deletes and a worker in Process are sequences of
steps, one per SQL statement or ffmpeg run. `Update` writes every column but
`is_favorite`, as MediaRepository.Update does, from whatever copy its caller
holds. A job's context is done when the server's is cancelled or its timeout has
passed: statements and ffmpeg runs with it then fail, while the failure itself is
recorded with a context of its own (SaveFailure). An ffmpeg run may fail on the
jobs in `Breakable`, and on all when the original is gone. An INSERT is carried
out, or not, or is carried out and reports an error (SaveItem): the handler then
removes the original under a row that exists, and does not queue it. `unseen`
holds these items. RowsPointAtFiles says that they are the only rows without an
original and never become ready, and NothingForgotten names them among what is
left lying until the next boot.

### UploadContract

What UploadSessions amounts to for the client of one upload: a session that is
new, open or closed, one file that is staged, taken and published or discarded,
bytes received and acknowledged. UploadSessions implements it under the mapping
`Contract` (ImplementsContract): `rows` and `opened` give the session, `place`
and `items` the file. Janitor, expiry, crashes, failing and unseen statements
and overlapping handlers all map to its steps or to none. The contract says in
eight actions what the code relies on: the file is there before the session is
announced, bytes before their receipt, a file is taken at most once and whole,
and under an open session only the completion that took a file may discard it.

### Api: Migrations, Accounts, Collections

Api puts three modules behind one process that is down, migrating or serving.

| In the model | In the code |
|---|---|
| `phase`, `at` | where `run()` and Migrate's loop are |
| `applied`, `recorded` | files whose statements are in the database, rows of `schema_migrations` |
| `accounts`, `tokens` | `users`; tokens handed out and not past `exp`, each with the role of its account at login |
| `key`, `fixedKey` | the signing secret, and whether JWT_SECRET is set |
| `cols`, `members`, `media` | rows of `collections`, `collection_items`, `media_items` (ID and owner) |
| `gone` | IDs whose row has been deleted, since no UUID comes back |
| `req` | a collection handler between its checks and its statement |

A handler is Begin (middleware and getOwned), FindItem (AddItem's second check,
which also takes the time) and its statement: Upsert, RemoveItem or
DeleteCollection. Unique keys refuse rows, foreign keys refuse an Upsert whose
collection or item is gone, deletes cascade. `via`, the role that put an item
where it is, and the counters are history. Docker's initdb may have applied
files without recording any. An admin may put anyone's item into anyone's
collection although AddItem's comment (`collection_usecase.go:62`) says both
"must belong to the requester": ItemsOfOwner is stated as the code has it.

### HlsTranscode

`GenerateHLS` of `pkg/ffmpeg/transcoder.go`, with the closure of
`buildDerivatives` that turns encode progress into events. Each call goes
through Clean, MakeDir, StartEncoder and the encode itself for every candidate
of `encoderCandidates`, and Remove when it gives up. `dir` is the set of encodes
whose files are in the output directory, so "no partial rendition survives" is
a statement about `dir` and `whole`. `buildLadder` and `buildHLSArgs` are
operators on heights. Progress is in thousandths (the code's floating point,
rounded down).

### EventHub, LibraryView

EventHub is `hub.go` and `client.go`: NotifyMedia takes the read lock (Notify),
sends to one client after another (Send) and skips those whose channel is full;
`telling` is a broadcast under way, and Register and Unregister, which need the
write lock, wait until there is none. A connection's reader and writer each end
through the other. LibraryView adds the server that announces one upload and a
page: `card` and `live` are the page's item and its last event, `gen` is
`viewGen`, `asked` and `answers` are calls under way, answered in any order.
`Library` says which of the lists show the item; the others are of a view
without it (favorites, a search). The server's statements may fail: the INSERT
(Save), those before the event "processing" (Begin), the save of a failure,
which is ignored and announced all the same (`media_usecase.go:271`), and the
UPDATE to ready, after which nothing is announced (Build; `work` is then
"gone"). Two properties speak of the page. NothingInvented, in every state: an
item shown as ready or failed is so, but for a failure that could not be saved.
ViewConverges, once all is quiet: the page shows what the database says, but for
the ways that `astray` records, which last until an up-to-date list is loaded:

- the last event finds the page off line, or its channel full, or is lost with
  the connection (nothing is fetched when the socket is back, `use-media-events.ts:39`);
- the row became ready and the UPDATE reported an error, so no event is sent;
- "queued", or the upload's answer, comes after the last event and covers it
  (`App.tsx:404`): a ready card keeps its stale live state, an unready one shows
  as waiting;
- the upload fails although its row is there, or getMedia fails;
- a list that is not up to date any more arrives after the upload's answer or
  the last event, or fails.

## 3. The runs

| Run | Configuration | What it shows |
|---|---|---|
| uploads | Uploads.cfg | One session of two chunks, three handlers and the janitor, one crash, one failed and one unseen statement: at most one item, whole originals, acknowledged chunks kept, aborted sessions gone, every file owned; UploadContract is implemented |
| uploads_live | UploadsLive.cfg | Two sessions crowd a janitor that takes one per pass: every session row and every staging file is reclaimed in the end |
| uploads_resume | UploadsResume.cfg | Violation: see section 6 |
| pool | Pool.cfg | Two workers, a buffer of two, four jobs, both ways of stopping: jobs run once, drain, no late panic, every accepted job is run, Shutdown ends |
| pipeline | Pipeline.cfg | One video, two workers, two handlers, two edits or deletes, one restart, two failures: rows point at files, ready is complete, nothing forgotten, favorites kept, finished items stay |
| pipeline_queue | PipelineQueue.cfg | Two items (a photo and an audio track), two workers, a queue of one, two restarts and a failure: one worker per item, everything settles |
| pipeline_unseen | PipelineUnseen.cfg | Violation: see section 6 |
| pipeline_shutdown | PipelineShutdown.cfg | Violation: see section 6 |
| pipeline_delete | PipelineDelete.cfg | Violation: see section 6 |
| api | Api.cfg | Two users (one role change), two handlers, one collection, two items, an exit of the process at any point, two migration files: served only when migrated, collections hold and lose only what they may, their order is stable, sessions end with the secret and not otherwise |
| transcode | Transcode.cfg | Thirteen heights, both encoders, two runs of a job with deadline, kill and a failing disk operation: clean ends, a fitting ladder, rising progress, every call ends |
| events | Events.cfg | One upload whose statements may fail, a page with up to two connections or three lists, a channel of one event: no panic, no stuck pump or broadcast, and a page that converges and invents no end |

Every property has a mutant in `PROJECT.json`: a change of one definition that a
plausible bug would make (written above the definition it replaces, and marked
`Mutant`), under which TLC finds the property violated.

### Bounds

Stop conditions are in the guards of the actions they bound, with these names:
`MaxCrashes`, `MaxFaults`, `MaxLost` (uploads); `MaxEdits`, `MaxRestarts`,
`MaxFaults` (pipeline), `MaxStops`, `MaxTime`, `MaxLogins`, `MaxRoleChanges`
(api), `MaxTicks`, `MaxCalls`, `MaxFaults` (transcode), `MaxConns`, `MaxLoads`,
`MaxTrouble` (events). No property mentions a bound, apart from `lost`, `crashes` and
`faults`, which say which disasters a promise does not survive.

- Uploads: sessions do not share state but for the janitor's limit, so one
  session carries the safety run and two the liveness run. Two handlers race;
  the third is there for a chunk write under two completions or an abort. Two
  chunks tell "all" from "some" and the last chunk, which gives the file its
  length, from the others. One disaster of each kind in any order is one more
  than the code tries to handle.
- Pool: with four jobs and two workers the buffer of two fills while both
  workers are busy, which is when ErrQueueFull and the closing matter.
- Pipeline: two items are needed for the queue, not for one item's row and
  files; a video has the longest Process. Two handlers race each other and a
  worker. The second worker of `Pipeline.cfg` is idle if the properties hold.
  Two failures there are an unseen INSERT and whatever fails afterwards. The
  run with two items has no edits: with them it does not end in minutes, and a
  stale rename needs no second item, so NothingForgotten is checked with edits
  in `Pipeline.cfg`.
- Api: a race needs two handlers, on one collection and two items, of which each
  user may own one; two valid tokens at a time, one of them possibly older than
  a change of its account's role. Two migration files tell "all" from "some" and
  let a process stop between them. Positions are all equal, so that only the
  time of adding orders items (a change of position makes no promise). The
  sets of users, names, items and handlers are symmetric: no definition tells
  their members apart.
- Transcode: a second call follows a kill or a failure of the first and finds
  what it left. The heights are those around each rung, around the even
  rounding, and none; the encode may overrun the probed duration (MaxTicks).
- Events: two connections are a page that reconnects once; a channel of one
  event is full as soon as two come, which the 64 of the code only delays. The
  page loads the library twice and then a view without the item. MaxTrouble
  lets it open two connections, or change its view twice, or do each once; in
  the last case a list of the library that was made before an event arrives
  after it, and in the second the list of an earlier view under a later one. A
  page that misses events while it is off line is one whose connection comes
  late, or breaks, before it loads its list.

The proofs have none of these bounds.

### Fairness

- Handlers and workers run: goroutines are scheduled, and each blocking call has
  a deadline or a server behind it. ffmpeg ends because it is started with the
  job's context, which has a deadline and kills it. The body of a chunk is
  supplied by a client, so CopyChunk is not fair.
- The janitor's ticker fires, and time passes, so sessions expire.
- The steps of `run()` follow each other, and a server that is down is started
  again by its supervisor (`restart: unless-stopped` in the compose file).
- An encode has the job's deadline (PROCESS_TIMEOUT, `pool.go:104`), and
  `exec.CommandContext` kills it then; nothing else ends an ffmpeg.
- The hub's goroutines and the senders of a broadcast run; a reader of a dead
  connection gets its error in time because of the read deadline (`pongWait`).
  Nothing is assumed about the network, about writes that do not fail, or about
  the page.
- Nothing is assumed about users, signals, crashes, failures or timeouts.

All of it is weak fairness. `Settles` allows for the items stranded until the
next boot; without crashes and failures only a full queue, a cancelled context
and a racing rename strand any.

## 4. The proofs

Each is `Spec => []Inv`, `Spec => [][A]_vars` or, for the refinement, `Spec =>
ImplementsContract`, from the named assumptions of the modules: finite chunk sets
with a last chunk in them, a queue capacity of at least one and at least one
worker (what `New` enforces), kinds that partition the items, heights and
durations that are naturals, a media ID and a position to name, natural bounds.
No bound, number of actors or capacity is fixed. Every invariant of the passing
runs is proved, and every property of single steps.

**UploadSessionsProofs.** `TypeCorrect`, `OneItemPerUpload`, `ItemsAreWhole`,
`AcknowledgedChunksAreKept`, `AbortIsClean`, `FilesHaveOwners`. The properties
are not inductive: a rename may find the file only if no one else has moved it,
which depends on what other handlers know. `IndInv` adds `OwnershipInv` (a
session's creator is alone with it until its ID is out), `OpenedInv` (a row is
inserted once, so nothing brings back what an end has removed), `BytesInv`
(bytes before receipts; a completion past its count knows the file to be whole,
also across its rename, since open descriptors follow the file) and `HoldInv`
(between rename and INSERT a completion is alone with the original).

**UploadContractProofs.** `UploadsImplementContract`: every step of UploadSessions
is a step of UploadContract or a stutter; `PromiseIsKept`: so what the contract
promises of a session (a file that is taken or published has every chunk, what
was acknowledged was received) holds of UploadSessions, read through the
refinement mapping. The mapping computes a session's state from `rows` and
`opened` and its file's from `items` and `place`. Most steps move one session's
pair of states along one edge of the contract (`Moves`, `MoveMaps`), bytes and
receipts are `ChunkMaps`, and the rest stutters. Beyond `IndInv` one thing is
needed, `RowlessInv`: a session whose handler is about to insert its row has its
file and no row, and one whose file the janitor is about to remove has no row, so
the contract's Open and Discard are allowed. PromiseIsKept is proved of the
contract's own steps (`PromiseStep`) and carried over.

**WorkerPoolProofs, PoolLifecycleProofs.** `PoolTypeCorrect`, `JobsRunOnce`,
`NoPanicInTime`, `ShutdownDrains`. WorkerPoolProofs has what each operation does
to the buffer (EnqueueStep, TakeStep, OtherPoolSteps); MediaPipelineProofs cites
the same lemmas. `IndInv` adds `NoRepeats` and `ClosingInv`: the channel is
closed exactly once HTTP is shut down, and a worker that has returned has seen
the context done, or the channel closed and empty.

**MediaPipelineProofs.** `PipelineTypeCorrect`, `ItemsWorkedOnOnce`,
`RowsNeverPointAtNothing`, `ReadyMeansComplete`, `FavoriteIsTheUsers`,
`UnfinishedIsAccountedFor`, `FinishedItemsStay`. The argument:

1. `PhaseInv`: while the server is booting or down no handler is active, which
   is what the order of `run()` gives.
2. `ClaimInv`: an item has one claim on the pipeline, carried by its creator,
   listed for recovery, queued or on a worker. Three steps move a claim on
   (EnqueueItem, Recover, TakeJob), two make one (StoreOriginal for a fresh ID,
   Boot when all others are gone), and all others make none (NoNewClaim).
3. `UnfinishedInv`: while an item has a claim, its row and every handler's copy
   of it are unfinished. So a rename cannot set a claimed item ready, and the HLS
   directory that an encoder removes is in no row and no copy.
4. `CopyInv`: every copy, wherever it is held, names only files that exist and
   is complete if it says ready, but for the originals of `unseen`. Three lemmas
   say where copies and rows come from and where files go (WhereCopiesComeFrom,
   WhereRowsComeFrom, WhereFilesGo); the invariants follow from these rather
   than from the actions.
5. `FreshInv`: an ID is used once, so a new row meets no old file or favorite.
6. `UnseenInv`: an item whose INSERT was carried out unseen has no file, no
   handler carries it, every copy of it is without derivatives and not ready, and
   a worker that takes it up after a boot gets no further than the probe. So the
   exception that RowsPointAtFiles makes is for rows that are never played.

**HlsTranscodeProofs.** `TranscodeTypeCorrect`, `CallsEndClean`,
`ProgressOnlyClimbs`, `LadderAlwaysFits`. EndsClean is about the moment a call
ends; `IndInv` adds what the steps before rely on: `EncodersInv` (the encoders
left to try are the tail of one of two lists, the software encoder is last, and
none is left only when it has been tried) and `FilesInv` (an encoder starts on an
empty directory, and all that is there while it runs is its own). Progress rises
because Tell skips what is not a percent more, within the range that
`PercentRange` and `OverallRange` give; LadderFits is arithmetic on the probe's
height (`Rungs`), which may be any positive number. It says that rungs are even
and fit, and that the one rendition of height zero is that of a source of height
one (`transcoder.go:170`).

**ApiProofs.** `SchemaBeforeRequests`, `ItemsStayOwned`,
`OnlyOwnersChangeCollections`, `OrderStaysStable`, `SessionsEndAsSaid`,
`ApiTypeCorrect`. Three lemmas split a step of the server into one of its parts
(MigrationSteps, AccountSteps, CollectionSteps); each part has its invariant:

1. Migrations: `ProgressInv` says that every file before the one Migrate is at is
   recorded, across stops. With it the applied files stay a prefix of all
   (`PrefixGrows`), and all of them once Migrate is through.
2. Accounts: `TokensInv`, no token was signed with a secret still to come. A
   restart's new secret is therefore not that of any token.
3. Collections: `HandlerInv`, the heart of it. A handler whose checks have passed
   holds on to nothing, so what it found is either there now with an owner it may
   touch, or gone for good: owners do not change and IDs are not used twice. The
   foreign keys refuse an insert for what is gone, so ItemsOfOwner holds, and the
   handler at work is entitled to what it changes (`AtWork`). `UpsertEffect` has
   from the unique key that an upsert replaces one row at most, from which
   `TimesKept` and OrderStable follow. `MaxIs`, that Max is among the numbers it
   is taken of, rests on the well-foundedness of the naturals.

**EventHubProofs.** `BroadcastsNeverPanic`, `ViewTypeCorrect`,
`ViewAlwaysConverges`, `NothingIsInvented`, all of LibraryView's specification,
for any number of connections, of goroutines that notify and of lists, whichever
of them show the item, and channels of any size.
The assumption (NotifiersAssumption) is that the handler and the worker are among
those who notify.

- NoPanic says nothing of why it holds; its `IndInv` adds `LockInv`: a broadcast
  under way addresses only connections that are in the map now, because it holds
  the lock that every change of the map waits for, and a connection in the map has
  its channel open, because only the reader that takes it out closes the channel.
- ViewConverges is about quiet states; `PageInv` says what has to hold while
  events and answers are still on their way. Whatever says that the item has
  ended is right (`Told`, `Truth`). The list of the current view is asked for once
  and answered once (`ListsInv`). A page that is not astray has the item where it
  belongs, unless the list or the upload's answer is to come (`Placed`); if it has
  heard the last event it shows how the item ended, or the copy or list that will
  say so is to come (`Heard`); if it has not, the event is to come
  (`EventComing`), or any list on its way is up to date (`Unheard`). The history
  variable `astray` is set by the steps that would break one of the three.
  Lemmas on sequences (`Others`, `OnceStill`, `Appended`, `Tailed`) say what
  answers and events are left when one is taken or added.

TLC has checked the inductive invariants before they were proved, and can again:
name `IndInv` under `INVARIANTS` of `Uploads.cfg` (or `RowlessInv`), `Pool.cfg` or
`Pipeline.cfg`. Those of HlsTranscodeProofs, ApiProofs and EventHubProofs
(`IndInv`, `PageInv`) are defined in these modules: check a module that extends
the proofs instead of the component, with the run's constants.

Model-checked only: the liveness properties (RowsReclaimed, StagingReclaimed,
AcceptedIsRun, StopEnds, Settles, CallsEnd, PumpsEnd, BroadcastEnds), which need
fairness and ENABLED, out of the prover's reach; and the counterexamples of
section 6.

## 5. What the models leave out

- Data no property tells apart: metadata, BlurHash, captured_at, descriptions,
  progress events. JSON, validation and ownership checks of requests (a request
  that fails them changes nothing).
- A client sends the same bytes for the same chunk every time. Failures of
  `os.Remove` and of the disk (writes that fail after a success was reported,
  missing fsync) are not modelled.
- Failed statements are bounded, but for an INSERT that fails and for the
  statements of LibraryView; and a failed `SELECT` or `UPDATE` is told from one
  that commits unseen where it makes a difference.
- What becomes of an item whose row is committed unseen is MediaPipeline's;
  UploadSessions only has that its file is removed (DiscardOriginal).
- In MediaPipeline GenerateHLS is a directory that is created and one encoder
  run that succeeds, fails or is killed; HlsTranscode has the rest. The paths of
  thumbnails and cover art are steps that may fail.
- HlsTranscode takes the probe's height for the picture's; a picture that is
  lower than the probe says is scaled by ffmpeg's own `min(H,ih)`. A kill of the
  server takes its ffmpeg with it, as in a container.
- LibraryView saves and enqueues an item in one step, tells of a processing item
  once (the code repeats it with other progress), and has no server that
  restarts. The page's loadMore, favorites, renames, deletes and albums are not
  there. In Api the roles of accounts are changed in the database, the only way
  the code leaves for it.
- The web client's uploads have no module: UploadSessions lets its clients make
  any call on any session at any time, any number of times and overlapping, which
  includes all that `uploadFile` does.
- The order of the janitor's pass and of RecoverUnfinished is left open (the code
  takes the oldest first); RecoverUnfinished's limit of 1000 rows is not there:
  the queue's capacity stops it first in any configuration below that.
- A listener that fails ends the process as a crash does.
- Not modelled at all: the components marked so in `PROJECT.json`, with reasons.

## 6. Where code and documents disagree

Each of the following has a run in which TLC finds the counterexample.

- `uploads_resume` (Resumable): `domain/upload.go:13` promises that an upload
  resumes exactly where it stopped, across restarts. Complete renames the staging
  file before it inserts the media row; a process that stops between the two
  leaves a session with all receipts and no file. A failing INSERT does the same
  without a crash.
- `pipeline_shutdown` (InterruptedIsRequeued): `main.go:98` says what was
  mid-processing at the last shutdown is re-queued. The signal kills ffmpeg, and
  Process records that as a failure of the item, which recovery leaves alone.
- `pipeline_delete` (DeleteRemovesAll): `media_usecase.go:532` says Delete removes
  every derived file. It removes those its earlier copy of the row names; a
  worker that is still processing writes others, and nothing collects them.
- `pipeline_unseen` (RowsNameFiles): `media_usecase.go:541` promises "never a
  database row pointing at nothing". An INSERT that is committed but reports an
  error makes persistAndEnqueue remove the original (`:231`) under its row.

Two disagreements have no run of their own:

- `config.go:35` says the janitor reclaims the staging file of an unfinished
  upload. CleanupExpired deletes the row before the file
  (`upload_usecase.go:236`); a process that stops between the two leaves a file
  that no later pass looks for. StagingReclaimed exempts crashes.
- `main.go:166` says the stop drains the job queue. The signal cancels the
  context the workers select on (`pool.go:82`), so jobs may remain; the next boot
  takes them up. SoftStopDrains is about a Shutdown whose context is not
  cancelled.

No document speaks of these, which the models have and the properties allow for:
an abort that is answered with success while a completion has already renamed
the file does not stop the item from appearing; a token keeps the role its
account had at login until it expires; and the ways of a page to go astray in
section 2.

## 7. Plan

Done: UploadSessions and UploadContract, WorkerPool, PoolLifecycle, MediaPipeline,
HlsTranscode, Api with Migrations, Accounts and Collections, EventHub and
LibraryView, checked; all their invariants and step properties proved, and that
UploadSessions implements UploadContract. Next:

1. LibraryView's patchMedia and loadMore, with the proof of ViewConverges
   extended to them.
2. What a delete leaves behind (DeleteRemovesAll fails): which files can be left,
   as an invariant of MediaPipeline, and its proof.
3. An abstract specification of the pipeline (an item is unfinished, then final
   once) that MediaPipeline implements.
