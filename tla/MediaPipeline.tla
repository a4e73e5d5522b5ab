---------------------------- MODULE MediaPipeline ----------------------------
(***************************************************************************)
(* The life of media items: internal/usecase/media_usecase.go over the     *)
(* media_items table, the files under the storage root and the worker pool *)
(* of WorkerPool, from boot to crash or graceful stop and back.            *)
(*                                                                         *)
(* HTTP handlers (save, edit, delete) and workers (Process) each hold a    *)
(* copy of the row they read at their start and write all of it but the    *)
(* favorite flag back; every SQL statement and every ffmpeg run is a step. *)
(***************************************************************************)
EXTENDS WorkerPool, FiniteSets

CONSTANTS
  Videos, Audios,   \* the jobs that are videos and audio tracks; others are photos
  Breakable,        \* jobs whose file may make ffmpeg fail
  Requests,         \* HTTP handler goroutines
  MaxEdits,         \* bound: requests that edit or delete
  MaxRestarts,      \* bound: crashes and graceful stops
  MaxFaults         \* bound: failed statements of workers, lost answers, panics

ASSUME KindAssumption ==
  Videos \subseteq Jobs /\ Audios \subseteq Jobs \ Videos /\ Breakable \subseteq Jobs
ASSUME BoundsAssumption == MaxEdits \in Nat /\ MaxRestarts \in Nat /\ MaxFaults \in Nat

VARIABLES
  row,       \* row[m]: the media_items row of m
  files,     \* files[m]: which of m's files exist
  saved,     \* items whose upload has been saved (an ID is used once)
  unseen,    \* history: items whose INSERT was carried out and reported an error
  req,       \* req[r]: what handler r is doing
  proc,      \* proc[w]: where worker w is in Process
  late,      \* workers whose job has outlived its timeout
  todo,      \* items RecoverUnfinished has listed and not yet queued
  phase,     \* of the server process
  edits, restarts, faults,
  liked,     \* history: the favorite flag the user set last
  adrift,    \* history: unfinished items nothing will pick up before a boot
  interrupted \* history: items whose processing was in order at the signal to stop

stores  == <<row, files, saved, unseen>>
work    == <<pool, proc, late>>
server  == <<todo, phase, restarts, edits>>
history == <<liked, adrift, interrupted>>
vars    == <<stores, req, work, server, faults, history>>

NoRow == [status |-> "none"]
Rows == [status : {"pending", "processing", "ready", "failed"},
         title : {"given", "renamed"},
         thumb : BOOLEAN, hls : BOOLEAN, fav : BOOLEAN]
NewRow == [status |-> "pending", title |-> "given",
           thumb |-> FALSE, hls |-> FALSE, fav |-> FALSE]

Idle == [stage |-> "idle"]
Marks == {"keep", "on", "off"}     \* the favorite field of a PATCH
Handlers ==
  {Idle} \cup [stage : {"save", "enqueue"}, m : Jobs]
         \cup [stage : {"retitle", "favorite", "delete"}, m : Jobs, snap : Rows, mark : Marks]
         \cup [stage : {"unlink"}, m : Jobs, left : Seq({"original", "thumb", "hls"}) \ {<<>>}]

NoProc == [stage |-> "none"]
Steps == {"begin", "probe", "thumb", "hls", "encode", "fail", "ready"}
Procs == {NoProc, [stage |-> "find"]} \cup [stage : Steps, snap : Rows]

TypeOK ==
  /\ PoolTypeOK
  /\ row \in [Jobs -> {NoRow} \cup Rows]
  /\ files \in [Jobs -> SUBSET {"original", "thumb", "hls"}]
  /\ saved \subseteq Jobs /\ unseen \subseteq Jobs
  /\ req \in [Requests -> Handlers]
  /\ proc \in [Workers -> Procs]
  /\ late \subseteq Workers
  /\ todo \subseteq Jobs
  /\ phase \in {"boot", "serving", "stopping", "down"}
  /\ edits \in 0 .. MaxEdits
  /\ restarts \in 0 .. MaxRestarts
  /\ faults \in 0 .. MaxFaults
  /\ liked \in [Jobs -> BOOLEAN]
  /\ adrift \subseteq Jobs /\ interrupted \subseteq Jobs

Init ==
  /\ PoolInit
  /\ row = [m \in Jobs |-> NoRow]
  /\ files = [m \in Jobs |-> {}]
  /\ saved = {} /\ unseen = {}
  /\ req = [r \in Requests |-> Idle]
  /\ proc = [w \in Workers |-> NoProc]
  /\ late = {}
  /\ todo = {}
  /\ phase = "serving"
  /\ edits = 0 /\ restarts = 0 /\ faults = 0
  /\ liked = [m \in Jobs |-> FALSE]
  /\ adrift = {} /\ interrupted = {}
-----------------------------------------------------------------------------
Exists(m) == row[m] # NoRow
Unfinished(m) == row[m].status \in {"pending", "processing"}
OnWorker(m) == \E w \in Workers : Runs(w, m)

In(r, stage) == req[r].stage = stage
Reply(r) == req' = [req EXCEPT ![r] = Idle]

Fault == faults < MaxFaults /\ faults' = faults + 1
NoFault == UNCHANGED faults

\* Mutant: the UPDATE writes is_favorite too.
UpdateAll(m, item) == row' = [row EXCEPT ![m] = item]

\* MediaRepository.Update of an existing row: every column but is_favorite.
Update(m, item) == row' = [row EXCEPT ![m] = [item EXCEPT !.fav = row[m].fav]]

\* An UPDATE that answers with an error may have been carried out.
MayUpdate(m, item) == UNCHANGED row \/ (Exists(m) /\ Update(m, item))
-----------------------------------------------------------------------------
(* HTTP handlers.  Those whose statement fails change nothing: GiveUp.     *)

\* CreateFromUpload has written the body, or CreateFromFile has renamed the
\* staged file.
StoreOriginal(r) == \E m \in Jobs \ saved :
  /\ In(r, "idle") /\ phase = "serving"
  /\ saved' = saved \cup {m}
  /\ files' = [files EXCEPT ![m] = {"original"}]
  /\ req' = [req EXCEPT ![r] = [stage |-> "save", m |-> m]]
  /\ UNCHANGED <<row, unseen, work, server, faults, history>>

\* persistAndEnqueue inserts the row.  When Save reports an error it removes
\* the original and returns without Enqueue, also if the INSERT was carried out
\* (the connection broke, or the client's context ended, after the commit):
\* that row is pending, names no file, and no one will queue it before a boot.
SaveItem(r) ==
  /\ In(r, "save")
  /\ LET m == req[r].m
         inserted == [row EXCEPT ![m] = NewRow]
         removed == [files EXCEPT ![m] = {}]
     IN \/ /\ row' = inserted /\ req' = [req EXCEPT ![r].stage = "enqueue"]
           /\ NoFault /\ UNCHANGED <<files, unseen, adrift>>
        \/ /\ files' = removed /\ Reply(r)
           /\ NoFault /\ UNCHANGED <<row, unseen, adrift>>
        \/ /\ row' = inserted /\ files' = removed /\ Reply(r)
           /\ Fault /\ unseen' = unseen \cup {m} /\ adrift' = adrift \cup {m}
  /\ UNCHANGED <<saved, work, server, liked, interrupted>>

\* The item stays pending when the queue is full, or closed (a panic that
\* net/http recovers).
EnqueueItem(r) ==
  /\ In(r, "enqueue")
  /\ \/ Enqueue(req[r].m) /\ UNCHANGED adrift
     \/ (Full \/ closed) /\ adrift' = adrift \cup {req[r].m} /\ UNCHANGED pool
  /\ Reply(r)
  /\ UNCHANGED <<stores, proc, late, server, faults, liked, interrupted>>

\* A PATCH carries a title, a favorite flag or both, of which the title is
\* first; one that carries neither is refused.
Asks(stage, mark) ==
  \/ stage = "retitle"
  \/ stage = "favorite" /\ mark # "keep"
  \/ stage = "delete" /\ mark = "keep"

\* Edit and Delete begin with Get.
BeginEdit(r) == \E m \in Jobs, mark \in Marks, stage \in {"retitle", "favorite", "delete"} :
  /\ In(r, "idle") /\ phase = "serving"
  /\ Exists(m)
  /\ edits < MaxEdits /\ edits' = edits + 1
  /\ Asks(stage, mark)
  /\ req' = [req EXCEPT ![r] = [stage |-> stage, m |-> m, snap |-> row[m], mark |-> mark]]
  /\ UNCHANGED <<stores, work, todo, phase, restarts, faults, history>>

\* The rename writes back the whole row the handler has read.
Retitle(r) ==
  /\ In(r, "retitle")
  /\ LET m == req[r].m
         item == [req[r].snap EXCEPT !.title = "renamed"]
     IN \/ /\ Exists(m)
           /\ Update(m, item)
           /\ adrift' = IF item.status \in {"pending", "processing"} /\ ~Unfinished(m)
                        THEN adrift \cup {m} ELSE adrift
           /\ IF req[r].mark = "keep" THEN Reply(r)
              ELSE req' = [req EXCEPT ![r].stage = "favorite"]
        \/ ~Exists(m) /\ Reply(r) /\ UNCHANGED <<row, adrift>>
  /\ UNCHANGED <<files, saved, unseen, work, server, faults, liked, interrupted>>

SetFavorite(r) ==
  /\ In(r, "favorite")
  /\ LET m == req[r].m
         on == req[r].mark = "on"
     IN \/ Exists(m) /\ row' = [row EXCEPT ![m].fav = on] /\ liked' = [liked EXCEPT ![m] = on]
        \/ ~Exists(m) /\ UNCHANGED <<row, liked>>
  /\ Reply(r)
  /\ UNCHANGED <<files, saved, unseen, work, server, faults, adrift, interrupted>>

\* Mutant: the files go first.
DeleteFilesFirst(r) ==
  /\ In(r, "delete")
  /\ files' = [files EXCEPT ![req[r].m] = {}]
  /\ \/ row' = [row EXCEPT ![req[r].m] = NoRow]
     \/ UNCHANGED row
  /\ Reply(r)
  /\ UNCHANGED <<saved, unseen, work, server, faults, history>>

\* Delete: the row first, then the files the handler's copy names.
DeleteRow(r) ==
  /\ In(r, "delete")
  /\ LET m == req[r].m
         item == req[r].snap
         left == <<"original">> \o (IF item.thumb THEN <<"thumb">> ELSE <<>>)
                                \o (IF item.hls THEN <<"hls">> ELSE <<>>)
     IN \/ /\ Exists(m)
           /\ row' = [row EXCEPT ![m] = NoRow]
           /\ req' = [req EXCEPT ![r] = [stage |-> "unlink", m |-> m, left |-> left]]
        \/ ~Exists(m) /\ Reply(r) /\ UNCHANGED row
  /\ UNCHANGED <<files, saved, unseen, work, server, faults, history>>

Unlink(r) ==
  /\ In(r, "unlink")
  /\ files' = [files EXCEPT ![req[r].m] = @ \ {Head(req[r].left)}]
  /\ IF Len(req[r].left) = 1 THEN Reply(r) ELSE req' = [req EXCEPT ![r].left = Tail(@)]
  /\ UNCHANGED <<row, saved, unseen, work, server, faults, history>>

\* A statement of a handler fails, its client having gone for example; that
\* of Delete may have been carried out all the same.
GiveUp(r) ==
  /\ req[r].stage \in {"retitle", "favorite", "delete"}
  /\ Reply(r)
  /\ \/ UNCHANGED <<row, faults>>
     \/ In(r, "delete") /\ Fault /\ row' = [row EXCEPT ![req[r].m] = NoRow]
  /\ UNCHANGED <<files, saved, unseen, work, server, history>>
-----------------------------------------------------------------------------
(* Workers: Process                                                        *)

At(w, stage) == proc[w].stage = stage
Item(w) == worker[w].job

\* The job's context: cancelled with the server's, or past its timeout.
Done(w) == cancelled \/ w \in late
\* A SQL statement or ffmpeg run with a context that is done fails.
Works(w) == ~Done(w) /\ NoFault
Breaks(w) == (Done(w) /\ NoFault) \/ Fault

\* An ffmpeg run on the item may fail.
FFmpegFails(w) == Done(w) \/ Item(w) \in Breakable \/ "original" \notin files[Item(w)]

Go(w, stage, item) ==
  /\ proc' = [proc EXCEPT ![w] = [stage |-> stage, snap |-> item]]
  /\ UNCHANGED <<pool, late>>

\* Process returns.
Return(w) ==
  /\ Finish(w)
  /\ proc' = [proc EXCEPT ![w] = NoProc]
  /\ late' = late \ {w}

\* It returns without having written how the job ended.
Strand(w) == Return(w) /\ adrift' = adrift \cup {Item(w)}

TakeJob(w) ==
  /\ Take(w)
  /\ proc' = [proc EXCEPT ![w] = [stage |-> "find"]]
  /\ UNCHANGED <<stores, req, late, server, faults, history>>

\* The job's deadline passes.
Expire(w) ==
  /\ proc[w] # NoProc /\ ~Done(w)
  /\ late' = late \cup {w}
  /\ UNCHANGED <<stores, req, pool, proc, server, faults, history>>

\* Mutant: the item is used although FindByID has found none.
FindUnchecked(w) ==
  /\ At(w, "find") /\ Works(w)
  /\ row[Item(w)].status # "ready"
  /\ Go(w, "begin", [row[Item(w)] EXCEPT !.status = "processing"])
  /\ UNCHANGED <<stores, req, server, history>>

\* FindByID; a ready item is left alone.
Find(w) ==
  /\ At(w, "find")
  /\ LET m == Item(w)
     IN \/ /\ Works(w) /\ Exists(m) /\ row[m].status # "ready"
           /\ Go(w, "begin", [row[m] EXCEPT !.status = "processing"])
           /\ UNCHANGED adrift
        \/ /\ Works(w) /\ (~Exists(m) \/ row[m].status = "ready")
           /\ Return(w) /\ UNCHANGED adrift
        \/ Breaks(w) /\ Strand(w)
  /\ UNCHANGED <<stores, req, server, liked, interrupted>>

BeginProcessing(w) ==
  /\ At(w, "begin")
  /\ LET m == Item(w)
     IN \/ /\ Works(w) /\ Exists(m)
           /\ Update(m, proc[w].snap) /\ Go(w, "probe", proc[w].snap)
           /\ UNCHANGED adrift
        \/ Works(w) /\ ~Exists(m) /\ Return(w) /\ UNCHANGED <<row, adrift>>
        \/ Breaks(w) /\ Strand(w) /\ MayUpdate(m, proc[w].snap)
  /\ UNCHANGED <<files, saved, unseen, req, server, liked, interrupted>>

Probe(w) ==
  /\ At(w, "probe")
  /\ \/ ~Done(w) /\ "original" \in files[Item(w)] /\ Go(w, "thumb", proc[w].snap)
     \/ FFmpegFails(w) /\ Go(w, "fail", proc[w].snap)
  /\ UNCHANGED <<stores, req, server, faults, history>>

\* Mutant: a failed thumbnail is tolerated for every kind of item.
ThumbnailTolerant(w) ==
  /\ At(w, "thumb")
  /\ Go(w, IF Item(w) \in Videos THEN "hls" ELSE "ready", proc[w].snap)
  /\ UNCHANGED <<stores, req, server, faults, history>>

\* ImageThumbnail, VideoThumbnail or ExtractCoverArt.  Cover art may be
\* missing or broken; for the others a failed ffmpeg fails the job, and may
\* have left part of a file.  One that succeeds may have opened the original
\* before Delete removed it.
Thumbnail(w) ==
  /\ At(w, "thumb")
  /\ LET m == Item(w)
         item == proc[w].snap
         next == IF m \in Videos THEN "hls" ELSE "ready"
     IN \/ /\ ~Done(w)
           /\ files' = [files EXCEPT ![m] = @ \cup {"thumb"}]
           /\ Go(w, next, [item EXCEPT !.thumb = TRUE])
        \/ /\ FFmpegFails(w)
           /\ files' \in {files, [files EXCEPT ![m] = @ \cup {"thumb"}]}
           /\ Go(w, IF m \in Audios THEN next ELSE "fail", item)
  /\ UNCHANGED <<row, saved, unseen, req, server, faults, history>>

\* GenerateHLS clears and creates the item's directory before each encoder.
CreateHLSDir(w) ==
  /\ At(w, "hls")
  /\ files' = [files EXCEPT ![Item(w)] = @ \cup {"hls"}]
  /\ Go(w, "encode", proc[w].snap)
  /\ UNCHANGED <<row, saved, unseen, req, server, faults, history>>

\* It removes the directory when no encoder succeeds.
EncodeHLS(w) ==
  /\ At(w, "encode")
  /\ \/ /\ ~Done(w) /\ "hls" \in files[Item(w)]
        /\ Go(w, "ready", [proc[w].snap EXCEPT !.hls = TRUE])
        /\ UNCHANGED files
     \/ /\ FFmpegFails(w) \/ "hls" \notin files[Item(w)]
        /\ files' = [files EXCEPT ![Item(w)] = @ \ {"hls"}]
        /\ Go(w, "fail", proc[w].snap)
  /\ UNCHANGED <<row, saved, unseen, req, server, faults, history>>

\* Mutant: the failure is recorded with the job's own context.
SaveFailureInContext(w) ==
  /\ At(w, "fail")
  /\ IF Exists(Item(w)) /\ ~Done(w)
     THEN Update(Item(w), [proc[w].snap EXCEPT !.status = "failed"])
     ELSE UNCHANGED row
  /\ Return(w)
  /\ UNCHANGED <<files, saved, unseen, req, server, faults, history>>

\* The failure is recorded with a context of its own.
SaveFailure(w) ==
  /\ At(w, "fail")
  /\ LET m == Item(w)
         item == [proc[w].snap EXCEPT !.status = "failed"]
     IN \/ Exists(m) /\ NoFault /\ Update(m, item) /\ Return(w) /\ UNCHANGED adrift
        \/ ~Exists(m) /\ NoFault /\ Return(w) /\ UNCHANGED <<row, adrift>>
        \/ Fault /\ Strand(w) /\ MayUpdate(m, item)
  /\ UNCHANGED <<files, saved, unseen, req, server, liked, interrupted>>

\* Success is recorded with the job's context.
SaveReady(w) ==
  /\ At(w, "ready")
  /\ LET m == Item(w)
         item == [proc[w].snap EXCEPT !.status = "ready"]
     IN \/ Works(w) /\ Exists(m) /\ Update(m, item) /\ Return(w) /\ UNCHANGED adrift
        \/ Works(w) /\ ~Exists(m) /\ Return(w) /\ UNCHANGED <<row, adrift>>
        \/ Breaks(w) /\ Strand(w) /\ MayUpdate(m, item)
  /\ UNCHANGED <<files, saved, unseen, req, server, liked, interrupted>>

\* The job panics and the pool recovers it.
Panic(w) ==
  /\ proc[w] # NoProc
  /\ Fault
  /\ Strand(w)
  /\ UNCHANGED <<stores, req, server, liked, interrupted>>

StopWorker(w) == Stop(w) /\ UNCHANGED <<stores, req, proc, late, server, faults, history>>
-----------------------------------------------------------------------------
(* The server process: cmd/server/main.go                                  *)

\* Mutant: recovery lists the pending items only.
BootPendingOnly ==
  /\ phase = "down"
  /\ phase' = "boot"
  /\ closed' = FALSE /\ cancelled' = FALSE
  /\ worker' = [w \in Workers |-> Waiting]
  /\ todo' = {m \in Jobs : row[m].status = "pending"}
  /\ adrift' = {}
  /\ UNCHANGED <<stores, req, queue, proc, late, restarts, edits, faults, liked, interrupted>>

\* Mutant: recovery lists failed items too.
BootRetryingFailed ==
  /\ phase = "down"
  /\ phase' = "boot"
  /\ closed' = FALSE /\ cancelled' = FALSE
  /\ worker' = [w \in Workers |-> Waiting]
  /\ todo' = {m \in Jobs : Exists(m) /\ row[m].status # "ready"}
  /\ adrift' = {}
  /\ UNCHANGED <<stores, req, queue, proc, late, restarts, edits, faults, liked, interrupted>>

\* A fresh pool starts; RecoverUnfinished lists what is unfinished, or fails to.
Boot ==
  /\ phase = "down"
  /\ phase' = "boot"
  /\ closed' = FALSE /\ cancelled' = FALSE
  /\ worker' = [w \in Workers |-> Waiting]
  /\ UNCHANGED queue
  /\ \/ todo' = {m \in Jobs : Unfinished(m)} /\ NoFault /\ adrift' = {}
     \/ todo' = {} /\ Fault /\ adrift' = {m \in Jobs : Unfinished(m)}
  /\ UNCHANGED <<stores, req, proc, late, restarts, edits, liked, interrupted>>

\* Mutant: recovery runs while uploads are already being accepted.
RecoverWhileServing ==
  /\ phase = "serving"
  /\ \E m \in Jobs : Unfinished(m) /\ Enqueue(m)
  /\ UNCHANGED <<stores, req, proc, late, server, faults, history>>

\* RecoverUnfinished queues the items it listed and stops at a full queue.
Recover ==
  /\ phase = "boot"
  /\ \E m \in todo :
       \/ Enqueue(m) /\ todo' = todo \ {m} /\ UNCHANGED adrift
       \/ Full /\ todo' = {} /\ adrift' = adrift \cup todo /\ UNCHANGED pool
  /\ UNCHANGED <<stores, req, proc, late, phase, restarts, edits, faults, liked, interrupted>>

\* The HTTP server starts when recovery has returned.
Listen ==
  /\ phase = "boot" /\ todo = {}
  /\ phase' = "serving"
  /\ UNCHANGED <<stores, req, work, todo, restarts, edits, faults, history>>

\* SIGINT or SIGTERM: the root context is cancelled, under running jobs too.
Signal ==
  /\ phase \in {"boot", "serving"} /\ ~cancelled /\ restarts < MaxRestarts
  /\ restarts' = restarts + 1
  /\ Cancel
  /\ interrupted' = {m \in Jobs : /\ Unfinished(m)
                               /\ \E w \in Workers : Runs(w, m) /\ w \notin late /\ ~At(w, "fail")}
  /\ UNCHANGED <<stores, req, proc, late, todo, phase, edits, faults, liked, adrift>>

\* The HTTP shutdown has returned, its handlers being done or 30 s over, and
\* the pool's begins.
CloseQueue ==
  /\ phase = "serving" /\ cancelled
  /\ phase' = "stopping"
  /\ Close
  /\ UNCHANGED <<stores, req, proc, late, todo, restarts, edits, faults, history>>

\* run() returns, or the process is killed: all that is in memory is lost.
Halt ==
  /\ phase' = "down"
  /\ req' = [r \in Requests |-> Idle]
  /\ proc' = [w \in Workers |-> NoProc]
  /\ late' = {} /\ todo' = {}
  /\ queue' = <<>>
  /\ worker' = [w \in Workers |-> Stopped]
  /\ UNCHANGED <<stores, closed, cancelled, edits, faults, history>>

Exit ==
  /\ phase = "stopping" /\ AllStopped
  /\ Halt
  /\ UNCHANGED restarts

Crash ==
  /\ phase # "down" /\ restarts < MaxRestarts
  /\ Halt
  /\ restarts' = restarts + 1

Handle(r) ==
  SaveItem(r) \/ EnqueueItem(r) \/ Retitle(r) \/ SetFavorite(r) \/ DeleteRow(r) \/ Unlink(r)

Process(w) ==
  \/ Find(w) \/ BeginProcessing(w) \/ Probe(w) \/ Thumbnail(w) \/ CreateHLSDir(w)
  \/ EncodeHLS(w) \/ SaveFailure(w) \/ SaveReady(w)

Work(w) == TakeJob(w) \/ Process(w) \/ StopWorker(w)

Next ==
  \/ \E r \in Requests : StoreOriginal(r) \/ BeginEdit(r) \/ Handle(r) \/ GiveUp(r)
  \/ \E w \in Workers : Work(w) \/ Expire(w) \/ Panic(w)
  \/ Boot \/ Recover \/ Listen \/ Signal \/ CloseQueue \/ Exit \/ Crash

Spec == Init /\ [][Next]_vars

\* Handlers and workers run, ffmpeg ends (its context has a deadline), and a
\* server that is down is started again.  Nothing makes a signal, a crash, a
\* timeout or a user's request happen.
Fairness ==
  /\ \A r \in Requests : WF_vars(Handle(r))
  /\ \A w \in Workers : WF_vars(Work(w))
  /\ WF_vars(Boot \/ Recover \/ Listen \/ CloseQueue \/ Exit)

FairSpec == Spec /\ Fairness
-----------------------------------------------------------------------------
(* Properties                                                              *)

\* No item is ever worked on twice at a time: it is queued at most once, and
\* not while a worker has it.  Nothing in Process would notice a second worker
\* writing the same thumbnail and HLS directory; only who enqueues, and when,
\* rules it out.
OneWorkerPerItem ==
  /\ NoRepeats
  /\ \A m \in Jobs : Queued(m) => ~OnWorker(m)
  /\ \A m \in Jobs, v, w \in Workers : Runs(v, m) /\ Runs(w, m) => v = w

\* In every state, also after a crash and under racing edits, deletes and
\* workers, the original of a row exists, and so do the thumbnail and the HLS
\* set if the row names them.  The one exception is a row whose INSERT was
\* carried out unseen, and it never becomes ready: no worker, boot, rename or
\* delete makes of it an item that is offered to be played.
RowsPointAtFiles == \A m \in Jobs : Exists(m) =>
  /\ "original" \in files[m] \/ (m \in unseen /\ row[m].status # "ready")
  /\ row[m].thumb => "thumb" \in files[m]
  /\ row[m].hls => "hls" \in files[m]

\* A ready photo has its thumbnail, a ready video its thumbnail and its HLS
\* set, whoever wrote the row last.
ReadyIsComplete == \A m \in Jobs : row[m].status = "ready" =>
  /\ m \notin Audios => row[m].thumb
  /\ m \in Videos => row[m].hls

\* The favorite flag is what the user set last: no worker and no rename, with
\* however old a copy of the row, sets it back.
FavoriteKept == \A m \in Jobs : Exists(m) => row[m].fav = liked[m]

\* While the server is up, every unfinished item is waiting for a worker, on
\* one, or on its way into the queue; or one of the named ways to strand it
\* has happened: its INSERT was carried out unseen, the queue was full or
\* closed, a worker's statement failed or its job panicked, its context ended
\* before it had begun or before it wrote "ready", or a rename wrote an old
\* status back.
NothingForgotten == phase # "down" => \A m \in Jobs : Unfinished(m) =>
  \/ Queued(m) \/ OnWorker(m) \/ m \in todo \/ m \in adrift
  \/ \E r \in Requests : In(r, "enqueue") /\ req[r].m = m

\* An item that is ready or failed stays so, unless a rename that read the row
\* before that writes its old status back.
FinishedStays == [][\A m \in Jobs :
  row[m].status \in {"ready", "failed"} /\ row'[m].status \in {"pending", "processing"}
    => \E r \in Requests : /\ In(r, "retitle") /\ req[r].m = m
                           /\ req[r].snap.status \in {"pending", "processing"}]_vars

-----------------------------------------------------------------------------
(* The inductive invariant: why these hold.  An item has one claim on the   *)
(* pipeline at most: it is carried by the handler that creates it, listed   *)
(* for recovery, queued, or on a worker, in this order and in one place.    *)

Editing == {"retitle", "favorite", "delete"}
Carries(r, m) == req[r].stage \in {"save", "enqueue"} /\ req[r].m = m
Claimed(m) == \/ Queued(m) \/ OnWorker(m) \/ m \in todo
              \/ \E r \in Requests : Carries(r, m)

ClaimInv ==
  /\ OneWorkerPerItem
  /\ \A m \in todo : ~Queued(m) /\ ~OnWorker(m)
  /\ \A r \in Requests, m \in Jobs :
       Carries(r, m) => ~Queued(m) /\ ~OnWorker(m) /\ m \notin todo
  /\ \A q, r \in Requests, m \in Jobs : Carries(q, m) /\ Carries(r, m) => q = r
  /\ \A m \in Jobs : Claimed(m) => m \in saved

\* What the server's phases mean for what is in memory.
PhaseInv ==
  /\ phase \in {"boot", "down"} => \A r \in Requests : req[r] = Idle
  /\ phase = "down" => queue = <<>> /\ \A w \in Workers : worker[w] = Stopped
  /\ todo # {} => phase = "boot"
  /\ \A w \in Workers : proc[w] # NoProc <=> worker[w].at = "running"

\* An ID is used once: before its row, an item is known to its creator only.
FreshInv ==
  /\ \A m \in Jobs \ saved : ~Exists(m) /\ ~liked[m]
  /\ \A r \in Requests : req[r] # Idle => req[r].m \in saved
  /\ \A r \in Requests : In(r, "save") =>
       /\ ~Exists(req[r].m) /\ ~liked[req[r].m]
       /\ "original" \in files[req[r].m]
       /\ \A q \in Requests \ {r} : req[q] # Idle => req[q].m # req[r].m
  /\ \A r \in Requests : In(r, "unlink") => ~Exists(req[r].m)

\* While an item has a claim, its row and the copies handlers have of it are
\* unfinished: the ready check of Process never finds a finished item.
Unsettled(m) ==
  /\ Exists(m) => Unfinished(m)
  /\ \A r \in Requests : req[r].stage \in Editing /\ req[r].m = m =>
       req[r].snap.status \in {"pending", "processing"}
UnfinishedInv == \A m \in Jobs : Claimed(m) => Unsettled(m)

\* A copy of the row of m, wherever it is held, may be written back: it is
\* complete if ready, names an HLS set only if ready, and names what exists.
Sound(m, item) ==
  /\ item.hls => item.status = "ready"
  /\ item.status = "ready" => (m \in Audios \/ item.thumb) /\ (m \in Videos => item.hls)
Names(item, f) == (item.thumb => "thumb" \in f) /\ (item.hls => "hls" \in f)

\* What a worker's copy of the row of m is like at a step.
Fits(m, stage, item) ==
  /\ item.status = "processing"
  /\ item.hls => stage = "ready"
  /\ stage \in {"hls", "encode"} => m \in Videos /\ item.thumb
  /\ stage = "ready" => (m \in Audios \/ item.thumb) /\ (m \in Videos => item.hls)

RowCopies == \A m \in Jobs : Exists(m) => Sound(m, row[m])
HandlerCopies == \A r \in Requests : req[r].stage \in Editing =>
  /\ Sound(req[r].m, req[r].snap)
  /\ Exists(req[r].m) => Names(req[r].snap, files[req[r].m])
WorkerCopies == \A w \in Workers : proc[w].stage \in Steps =>
  /\ Fits(Item(w), proc[w].stage, proc[w].snap)
  /\ Exists(Item(w)) => Names(proc[w].snap, files[Item(w)])
CopyInv == RowCopies /\ HandlerCopies /\ WorkerCopies

\* A row whose INSERT was carried out unseen has no file, and gets none: every
\* copy of it is without derivatives and not ready, and a worker that takes it
\* up does not get past the probe.
Bare(item) == item.status # "ready" /\ ~item.thumb /\ ~item.hls
UnseenInv == \A m \in unseen :
  /\ m \in saved /\ files[m] = {}
  /\ Exists(m) => Bare(row[m])
  /\ \A r \in Requests : ~Carries(r, m)
  /\ \A r \in Requests : req[r].stage \in Editing /\ req[r].m = m => Bare(req[r].snap)
  /\ \A w \in Workers : Runs(w, m) /\ proc[w].stage \in Steps =>
       proc[w].stage \in {"begin", "probe", "fail"} /\ Bare(proc[w].snap)

IndInv ==
  /\ TypeOK /\ ClaimInv /\ PhaseInv /\ FreshInv /\ UnfinishedInv /\ CopyInv /\ UnseenInv
  /\ RowsPointAtFiles /\ FavoriteKept /\ NothingForgotten
-----------------------------------------------------------------------------
(* Liveness, and what the source promises beyond what it does.             *)

\* Every unfinished item is finished (ready, failed or deleted) in the end, or
\* stranded in one of those ways until the next boot, which takes it up again.
Settles == \A m \in Jobs : Unfinished(m) ~> (~Unfinished(m) \/ m \in adrift)

\* The boot re-queues "anything that was pending or mid-processing at last
\* shutdown": an item that was being processed without error at the signal does
\* not end up failed.
InterruptedIsRequeued == \A m \in interrupted : row[m].status # "failed"

\* "Never a database row pointing at nothing": whatever fails, a row's original
\* exists.
RowsNameFiles == \A m \in Jobs : Exists(m) => "original" \in files[m]

\* Delete "removes the database row and every file derived from the item":
\* once no handler and no worker is on a deleted item, it has no files.
DeleteRemovesAll == \A m \in saved :
  /\ ~Exists(m) /\ ~OnWorker(m)
  /\ \A r \in Requests : req[r] # Idle => req[r].m # m
  => files[m] = {}
=============================================================================
