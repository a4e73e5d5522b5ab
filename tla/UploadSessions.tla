--------------------------- MODULE UploadSessions ---------------------------
(***************************************************************************)
(* Resumable chunked uploads: internal/usecase/upload_usecase.go, with the *)
(* part of media_usecase.go that Complete runs and the SQL of              *)
(* internal/repository/postgres/upload_repository.go.                      *)
(*                                                                         *)
(* An upload session is a row of upload_sessions, its receipts (rows of    *)
(* upload_chunks) and one file: the staging file that chunk writes fill    *)
(* and that Complete renames into the originals directory.  HTTP handlers, *)
(* the hourly janitor, expiry, crashes and database failures act on them   *)
(* concurrently.  Nothing in the code spans two of these stores, so each   *)
(* SQL statement and each system call is a step of its own.                *)
(***************************************************************************)
EXTENDS Naturals, FiniteSets

CONSTANTS
  Sessions,      \* session IDs; uuid.New() never repeats one
  Requests,      \* HTTP handler goroutines
  Chunks,        \* chunk indexes of every session: 0 .. TotalChunks - 1
  LastChunk,     \* the index whose bytes end the file
  JanitorLimit,  \* LIMIT of one janitor pass (100 in the code)
  MaxCrashes,    \* bound: process crashes
  MaxFaults,     \* bound: SQL statements that fail and change nothing
  MaxLost        \* bound: SQL statements that commit but report an error

TotalChunks == Cardinality(Chunks)

ASSUME ChunksAssumption == IsFiniteSet(Chunks) /\ LastChunk \in Chunks
ASSUME JanitorAssumption == JanitorLimit \in Nat \ {0}
ASSUME BoundsAssumption == MaxCrashes \in Nat /\ MaxFaults \in Nat /\ MaxLost \in Nat

VARIABLES
  rows,       \* sessions with a row in upload_sessions
  receipts,   \* receipts[s]: chunks of s with a row in upload_chunks
  expired,    \* sessions whose expires_at has passed
  place,      \* place[s]: where the one file of s is linked
  content,    \* content[s]: the chunks whose bytes are all in that file
  items,      \* items[s]: media rows saved from the file of s
  opened,     \* sessions whose POST was answered: clients know their IDs
  acked,      \* acked[s]: chunks whose PUT was answered with success
  aborted,    \* sessions whose DELETE was answered with success
  req,        \* req[r]: what handler r is doing
  batch,      \* sessions the janitor's pass still has to delete
  removing,   \* the session whose row the janitor has just deleted
  crashes, faults, lost

store   == <<rows, receipts, place, content, items>>
replies == <<opened, acked, aborted>>
janitor == <<batch, removing>>
budget  == <<crashes, faults, lost>>
vars    == <<store, expired, replies, req, janitor, budget>>

Stages == {"insert", "undo",                               \* CreateSession
           "open", "copy", "record",                       \* SaveChunk
           "count", "stat", "move", "save", "discard", "dispose",  \* Complete
           "delete", "remove"}                             \* Abort
Creating  == {"insert", "undo"}         \* CreateSession after its file
Promoting == {"stat", "move", "save"}    \* Complete past its receipt count
Holding   == {"save", "discard"}         \* Complete between rename and its end

Idle == [stage |-> "idle"]
At(stage, s, c) == [stage |-> stage, s |-> s, c |-> c]
Handlers == {Idle} \cup [stage : Stages, s : Sessions, c : Chunks]

TypeOK ==
  /\ rows \subseteq Sessions
  /\ receipts \in [Sessions -> SUBSET Chunks]
  /\ expired \subseteq Sessions
  /\ place \in [Sessions -> {"none", "staging", "original", "removed"}]
  /\ content \in [Sessions -> SUBSET Chunks]
  /\ items \in [Sessions -> Nat]
  /\ opened \subseteq Sessions
  /\ acked \in [Sessions -> SUBSET Chunks]
  /\ aborted \subseteq Sessions
  /\ req \in [Requests -> Handlers]
  /\ batch \subseteq Sessions
  /\ removing \in {{}} \cup {{s} : s \in Sessions}
  /\ crashes \in 0 .. MaxCrashes
  /\ faults \in 0 .. MaxFaults
  /\ lost \in 0 .. MaxLost

Init ==
  /\ rows = {}
  /\ receipts = [s \in Sessions |-> {}]
  /\ expired = {}
  /\ place = [s \in Sessions |-> "none"]
  /\ content = [s \in Sessions |-> {}]
  /\ items = [s \in Sessions |-> 0]
  /\ opened = {}
  /\ acked = [s \in Sessions |-> {}]
  /\ aborted = {}
  /\ req = [r \in Requests |-> Idle]
  /\ batch = {}
  /\ removing = {}
  /\ crashes = 0 /\ faults = 0 /\ lost = 0
-----------------------------------------------------------------------------
(* What the stores and the HTTP layer contribute to a handler's step.      *)

\* Handler r is about to run the given stage.
In(r, stage) == req[r].stage = stage
Goto(r, stage) == req' = [req EXCEPT ![r] = At(stage, req[r].s, req[r].c)]
Reply(r) == req' = [req EXCEPT ![r] = Idle]

\* The outcomes of a SQL statement: it succeeds; it fails; a write succeeds
\* while its context is cancelled or its connection drops, and reports an error.
Succeeds == UNCHANGED budget
Fails == faults < MaxFaults /\ faults' = faults + 1 /\ UNCHANGED <<crashes, lost>>
SucceedsUnseen == lost < MaxLost /\ lost' = lost + 1 /\ UNCHANGED <<crashes, faults>>

\* DELETE FROM upload_sessions; the receipts go with the row.
DeleteRow(s) ==
  /\ rows' = rows \ {s}
  /\ receipts' = [receipts EXCEPT ![s] = {}]

\* os.Remove of one of the file's two names; a missing file is ignored.
Unlink(s, name) ==
  place' = IF place[s] = name THEN [place EXCEPT ![s] = "removed"] ELSE place

Staged(s) == place[s] = "staging"
-----------------------------------------------------------------------------
(* POST /uploads: CreateSession                                            *)

\* The staging file is created (O_EXCL) before the row.
CreateStaging(r) == \E s \in Sessions :
  /\ In(r, "idle")
  /\ place[s] = "none"
  /\ place' = [place EXCEPT ![s] = "staging"]
  /\ req' = [req EXCEPT ![r] = At("insert", s, LastChunk)]
  /\ UNCHANGED <<rows, receipts, content, items, expired, replies, janitor, budget>>

\* Mutant: the staging file is not removed when the INSERT fails.
InsertSessionNoUndo(r) ==
  /\ In(r, "insert")
  /\ \/ rows' = rows \cup {req[r].s} /\ opened' = opened \cup {req[r].s} /\ Succeeds
     \/ Fails /\ UNCHANGED <<rows, opened>>
  /\ Reply(r)
  /\ UNCHANGED <<receipts, place, content, items, expired, acked, aborted, janitor>>

InsertSession(r) ==
  /\ In(r, "insert")
  /\ LET inserted == rows \cup {req[r].s}
     IN \/ /\ rows' = inserted /\ Succeeds /\ Reply(r)
           /\ opened' = opened \cup {req[r].s}
        \/ rows' = rows /\ Fails /\ Goto(r, "undo") /\ UNCHANGED opened
        \/ rows' = inserted /\ SucceedsUnseen /\ Goto(r, "undo") /\ UNCHANGED opened
  /\ UNCHANGED <<receipts, place, content, items, expired, acked, aborted, janitor>>

UndoStaging(r) ==
  /\ In(r, "undo")
  /\ Unlink(req[r].s, "staging")
  /\ Reply(r)
  /\ UNCHANGED <<rows, receipts, content, items, expired, replies, janitor, budget>>
-----------------------------------------------------------------------------
\* getOwned: the session a request names must have a row and not be expired
\* when the handler looks; nothing holds it in that state afterwards.  A look
\* that fails changes nothing.
Owned(s) == s \in rows /\ s \notin expired

\* Mutant: SaveChunk's range check lets index = TotalChunks through.
BeginPastEnd(r) == \E s \in Sessions :
  /\ In(r, "idle")
  /\ s \in opened
  /\ Owned(s)
  /\ req' = [req EXCEPT ![r] = At("open", s, TotalChunks)]
  /\ UNCHANGED <<store, expired, replies, janitor, budget>>

\* The three handlers that begin with getOwned, at the stage after it.
Begin(r) == \E s \in Sessions :
  /\ In(r, "idle")
  /\ s \in opened
  /\ Owned(s)
  /\ \/ \E c \in Chunks : req' = [req EXCEPT ![r] = At("open", s, c)]
     \/ req' = [req EXCEPT ![r] = At("count", s, LastChunk)]
     \/ req' = [req EXCEPT ![r] = At("delete", s, LastChunk)]
  /\ UNCHANGED <<store, expired, replies, janitor, budget>>
-----------------------------------------------------------------------------
(* PUT /uploads/{id}/chunks/{index}: SaveChunk                             *)

\* Mutant: the open has O_CREATE.
OpenCreating(r) ==
  /\ In(r, "open")
  /\ Goto(r, "copy")
  /\ place' = IF place[req[r].s] = "removed"
              THEN [place EXCEPT ![req[r].s] = "staging"] ELSE place
  /\ UNCHANGED <<rows, receipts, content, items, expired, replies, janitor, budget>>

\* The open has no O_CREATE: a staging file that is gone stays gone.
OpenStaging(r) ==
  /\ In(r, "open")
  /\ \/ Staged(req[r].s) /\ Goto(r, "copy")
     \/ ~Staged(req[r].s) /\ Reply(r)
  /\ UNCHANGED <<store, expired, replies, janitor, budget>>

\* Mutant: the length of what was written is not checked.
CopyUnchecked(r) ==
  /\ In(r, "copy")
  /\ content' \in {content, [content EXCEPT ![req[r].s] = @ \cup {req[r].c}]}
  /\ Goto(r, "record")
  /\ UNCHANGED <<rows, receipts, place, items, expired, replies, janitor, budget>>

\* The open descriptor keeps reaching the file wherever it has been renamed
\* to.  A body that ends early, breaks off or runs over is refused; of these
\* only the last has written the whole chunk.  A client sends the same bytes
\* for a chunk every time, so rewriting one takes nothing away.
CopyChunk(r) ==
  /\ In(r, "copy")
  /\ LET written == [content EXCEPT ![req[r].s] = @ \cup {req[r].c}] IN
       \/ content' = written /\ Goto(r, "record")
       \/ content' \in {content, written} /\ Reply(r)
  /\ UNCHANGED <<rows, receipts, place, items, expired, replies, janitor, budget>>

\* INSERT ... ON CONFLICT DO NOTHING; the foreign key refuses it without a row.
RecordChunk(r) ==
  /\ In(r, "record")
  /\ LET s == req[r].s
         recorded == [receipts EXCEPT ![s] = @ \cup {req[r].c}]
     IN \/ /\ s \in rows
           /\ receipts' = recorded
           /\ \/ Succeeds /\ acked' = [acked EXCEPT ![s] = @ \cup {req[r].c}]
              \/ SucceedsUnseen /\ UNCHANGED acked
        \/ s \notin rows /\ UNCHANGED <<receipts, acked>> /\ Succeeds
        \/ Fails /\ UNCHANGED <<receipts, acked>>
  /\ Reply(r)
  /\ UNCHANGED <<rows, place, content, items, expired, opened, aborted, janitor>>
-----------------------------------------------------------------------------
(* POST /uploads/{id}/complete: Complete                                   *)

\* Mutant: Complete trusts the size of the sparse file alone.
CountSkipped(r) ==
  /\ In(r, "count")
  /\ Goto(r, "stat")
  /\ UNCHANGED <<store, expired, replies, janitor, budget>>

CountChunks(r) ==
  /\ In(r, "count")
  /\ LET count == Cardinality(receipts[req[r].s])
     IN \/ count = TotalChunks /\ Succeeds /\ Goto(r, "stat")
        \/ count # TotalChunks /\ Succeeds /\ Reply(r)
        \/ Fails /\ Reply(r)
  /\ UNCHANGED <<store, expired, replies, janitor>>

\* The file is as long as declared once its last chunk is in it.  A file of
\* an unsupported type is refused, and the session stays.
StatStaging(r) ==
  /\ In(r, "stat")
  /\ \/ Staged(req[r].s) /\ LastChunk \in content[req[r].s] /\ Goto(r, "move")
     \/ Reply(r)
  /\ UNCHANGED <<store, expired, replies, janitor, budget>>

\* Mutant: the staged file is hard-linked into place and unlinked later on.
MoveByLink(r) ==
  /\ In(r, "move")
  /\ place' = [place EXCEPT ![req[r].s] = "original"]
  /\ Goto(r, "save")
  /\ UNCHANGED <<rows, receipts, content, items, expired, replies, janitor, budget>>

\* CreateFromFile: the rename decides which of two completions gets the file.
MoveStaged(r) ==
  /\ In(r, "move")
  /\ \/ /\ Staged(req[r].s)
        /\ place' = [place EXCEPT ![req[r].s] = "original"]
        /\ Goto(r, "save")
     \/ ~Staged(req[r].s) /\ Reply(r) /\ UNCHANGED place
  /\ UNCHANGED <<rows, receipts, content, items, expired, replies, janitor, budget>>

\* persistAndEnqueue inserts the media row.
SaveItem(r) ==
  /\ In(r, "save")
  /\ LET saved == [items EXCEPT ![req[r].s] = @ + 1]
     IN \/ items' = saved /\ Succeeds /\ Goto(r, "dispose")
        \/ items' = items /\ Fails /\ Goto(r, "discard")
        \/ items' = saved /\ SucceedsUnseen /\ Goto(r, "discard")
  /\ UNCHANGED <<rows, receipts, place, content, expired, replies, janitor>>

DiscardOriginal(r) ==
  /\ In(r, "discard")
  /\ Unlink(req[r].s, "original")
  /\ Reply(r)
  /\ UNCHANGED <<rows, receipts, content, items, expired, replies, janitor, budget>>

\* A failure here is only logged; the janitor is to collect the row.
DisposeSession(r) ==
  /\ In(r, "dispose")
  /\ \/ DeleteRow(req[r].s) /\ (Succeeds \/ SucceedsUnseen)
     \/ UNCHANGED <<rows, receipts>> /\ Fails
  /\ Reply(r)
  /\ UNCHANGED <<place, content, items, expired, replies, janitor>>
-----------------------------------------------------------------------------
(* DELETE /uploads/{id}: Abort                                             *)

\* Mutant: Abort goes on to the staging file though its DELETE has failed.
AbortRegardless(r) ==
  /\ In(r, "delete")
  /\ \/ DeleteRow(req[r].s) /\ Succeeds
     \/ UNCHANGED <<rows, receipts>> /\ Fails
  /\ Goto(r, "remove")
  /\ UNCHANGED <<place, content, items, expired, replies, janitor>>

AbortDelete(r) ==
  /\ In(r, "delete")
  /\ LET s == req[r].s
     IN \/ s \in rows /\ DeleteRow(s) /\ Succeeds /\ Goto(r, "remove")
        \/ s \in rows /\ DeleteRow(s) /\ SucceedsUnseen /\ Reply(r)
        \/ s \notin rows /\ UNCHANGED <<rows, receipts>> /\ Succeeds /\ Reply(r)
        \/ UNCHANGED <<rows, receipts>> /\ Fails /\ Reply(r)
  /\ UNCHANGED <<place, content, items, expired, replies, janitor>>

\* Mutant: Abort leaves the staging file to the janitor.
AbortKeepsFile(r) ==
  /\ In(r, "remove")
  /\ aborted' = aborted \cup {req[r].s}
  /\ Reply(r)
  /\ UNCHANGED <<store, expired, opened, acked, janitor, budget>>

AbortRemove(r) ==
  /\ In(r, "remove")
  /\ Unlink(req[r].s, "staging")
  /\ aborted' = aborted \cup {req[r].s}
  /\ Reply(r)
  /\ UNCHANGED <<rows, receipts, content, items, expired, opened, acked, janitor, budget>>
-----------------------------------------------------------------------------
(* The janitor goroutine: CleanupExpired                                   *)

\* ListExpired: the oldest JanitorLimit expired rows.  Which rows are oldest
\* is left open.
JanitorList ==
  /\ batch = {} /\ removing = {}
  /\ LET due == rows \cap expired
     IN /\ due # {}
        /\ batch' \in {b \in SUBSET due :
                        \/ b = due /\ Cardinality(b) <= JanitorLimit
                        \/ Cardinality(b) = JanitorLimit}
  /\ UNCHANGED <<store, expired, replies, req, removing, budget>>

\* Mutant: the janitor skips sessions whose staging file is missing.
JanitorSkipsMissing == \E s \in batch :
  /\ removing = {}
  /\ batch' = batch \ {s}
  /\ \/ s \in rows /\ Staged(s) /\ DeleteRow(s) /\ removing' = {s} /\ Succeeds
     \/ ~(s \in rows /\ Staged(s)) /\ UNCHANGED <<rows, receipts, removing>> /\ Succeeds
  /\ UNCHANGED <<place, content, items, expired, replies, req>>

\* A row that is gone, or a DELETE that fails, moves on to the next session.
JanitorDelete == \E s \in batch :
  /\ removing = {}
  /\ batch' = batch \ {s}
  /\ \/ s \in rows /\ DeleteRow(s) /\ removing' = {s} /\ Succeeds
     \/ s \in rows /\ DeleteRow(s) /\ UNCHANGED removing /\ SucceedsUnseen
     \/ s \notin rows /\ UNCHANGED <<rows, receipts, removing>> /\ Succeeds
     \/ UNCHANGED <<rows, receipts, removing>> /\ Fails
  /\ UNCHANGED <<place, content, items, expired, replies, req>>

JanitorRemove == \E s \in removing :
  /\ Unlink(s, "staging")
  /\ removing' = {}
  /\ UNCHANGED <<rows, receipts, content, items, expired, replies, req, batch, budget>>
-----------------------------------------------------------------------------
(* The environment                                                         *)

Expire(s) ==
  /\ s \in rows \ expired
  /\ expired' = expired \cup {s}
  /\ UNCHANGED <<store, replies, req, janitor, budget>>

\* The process dies and starts again: database and files survive it.
Crash ==
  /\ crashes < MaxCrashes
  /\ crashes' = crashes + 1
  /\ req' = [r \in Requests |-> Idle]
  /\ batch' = {} /\ removing' = {}
  /\ UNCHANGED <<store, expired, replies, faults, lost>>

\* The steps a handler takes by itself; CopyChunk waits for its client.
Serve(r) ==
  \/ InsertSession(r) \/ UndoStaging(r)
  \/ OpenStaging(r) \/ RecordChunk(r)
  \/ CountChunks(r) \/ StatStaging(r) \/ MoveStaged(r)
  \/ SaveItem(r) \/ DiscardOriginal(r) \/ DisposeSession(r)
  \/ AbortDelete(r) \/ AbortRemove(r)

Clean == JanitorList \/ JanitorDelete \/ JanitorRemove

Next ==
  \/ \E r \in Requests : CreateStaging(r) \/ Begin(r) \/ CopyChunk(r) \/ Serve(r)
  \/ Clean
  \/ \E s \in Sessions : Expire(s)
  \/ Crash

Spec == Init /\ [][Next]_vars

\* The server runs its handlers and its janitor, and time passes.  Nothing
\* makes a client call, or finish the body of a chunk it is sending.
Fairness ==
  /\ \A r \in Requests : WF_vars(Serve(r))
  /\ WF_vars(Clean)
  /\ \A s \in Sessions : WF_vars(Expire(s))

FairSpec == Spec /\ Fairness
-----------------------------------------------------------------------------
(* Properties                                                              *)

\* A handler between its stage's first and last step on session s.
Handling(s, stages) == \E r \in Requests : req[r].stage \in stages /\ req[r].s = s

\* One upload never becomes two media items, however many completions of it
\* overlap (double click, client retry after a lost answer): nothing but the
\* rename in CreateFromFile separates them.
AtMostOneItem == \A s \in Sessions : items[s] <= 1

\* A media item made from an upload points at an original that holds every
\* chunk of it, whatever chunk writes, aborts, expiry and crashes overlapped
\* its completion.  (A Save that commits unseen is the exception: Complete
\* then removes the file the row names.)
ItemIsWholeFile == \A s \in Sessions : items[s] > 0 =>
  /\ content[s] = Chunks
  /\ lost = 0 => place[s] = "original"

\* What resume relies on: while a session lives, a chunk the server has
\* acknowledged has a receipt, and a chunk with a receipt is in the file.
AckedChunksKept == \A s \in rows :
  /\ acked[s] \subseteq receipts[s]
  /\ receipts[s] \subseteq content[s]

\* After an abort was answered with success the session has no row and no
\* staging file, and no late chunk or completion brings one back.
AbortLeavesNothingStaged == \A s \in aborted : s \notin rows /\ ~Staged(s)

\* Every file has something that will free it: a staging file a row (for the
\* janitor) or the handler that is creating or removing it; an original its
\* media row or the completion that has just moved it.  Only a crash or a SQL
\* statement that commits unseen makes an orphan; failures do not.
NoOrphanFile == crashes = 0 /\ lost = 0 => \A s \in Sessions :
  /\ Staged(s) => \/ s \in rows \cup removing
                  \/ Handling(s, Creating \cup {"remove"})
  /\ place[s] = "original" => items[s] > 0 \/ Handling(s, Holding)

\* The stores as the client's promise sees them.  A row its POST never
\* answered for is a session nobody knows.
SessionState(s) == IF s \notin opened THEN "new"
                   ELSE IF s \in rows THEN "open" ELSE "closed"
FileAt(name) == IF name = "staging" THEN "staged"
                ELSE IF name = "original" THEN "taken"
                ELSE IF name = "removed" THEN "discarded" ELSE "none"
FileState(s) == IF items[s] > 0 THEN "published" ELSE FileAt(place[s])

Contract == INSTANCE UploadContract WITH
  session <- [s \in Sessions |-> SessionState(s)],
  file    <- [s \in Sessions |-> FileState(s)],
  bytes   <- content,
  acked   <- acked

\* Handlers, janitor, expiry, crashes and failing statements together do
\* nothing to an upload that UploadContract does not allow: a session is
\* announced after its file exists, a file is taken at most once and whole,
\* none comes back, and none is thrown away under an open session except by
\* the completion that took it.
ImplementsContract == Contract!Spec

-----------------------------------------------------------------------------
(* The inductive invariant: why the first five of these hold.              *)

\* Handlers that came through getOwned work on sessions whose ID is out; the
\* one handler that creates a session is alone with it.
OwnershipInv ==
  /\ \A r \in Requests :
       /\ req[r].stage \in Creating => /\ req[r].s \notin opened
                                      /\ place[req[r].s] # "none"
       /\ req[r].stage \in Stages \ Creating => req[r].s \in opened
  /\ \A q, r \in Requests :
       req[q].stage \in Creating /\ req[r].stage \in Creating /\ req[q].s = req[r].s => q = r

\* A session's row is inserted once, so what its end removed does not return.
OpenedInv ==
  /\ \A s \in rows \cup opened : place[s] # "none"
  /\ \A s \in Sessions \ opened : acked[s] = {}
  /\ \A r \in Requests : In(r, "remove") => req[r].s \notin rows
  /\ aborted \subseteq opened

\* Chunk bytes are in the file before their receipt is, and a completion that
\* has counted the receipts knows the file to be whole.
BytesInv ==
  /\ \A s \in Sessions : receipts[s] \subseteq content[s]
  /\ \A r \in Requests :
       /\ In(r, "record") => req[r].c \in content[req[r].s]
       /\ req[r].stage \in Promoting => content[req[r].s] = Chunks

\* From its rename to the end of its INSERT a completion is alone with the
\* original, and no item has been made of it yet.
HoldInv ==
  /\ \A r \in Requests :
       /\ req[r].stage \in Holding => place[req[r].s] = "original"
       /\ In(r, "save") => items[req[r].s] = 0
       /\ In(r, "discard") => items[req[r].s] = 0 \/ lost > 0
       /\ In(r, "dispose") => items[req[r].s] > 0
  /\ \A q, r \in Requests :
       req[q].stage \in Holding /\ req[r].stage \in Holding /\ req[q].s = req[r].s => q = r
  /\ \A s \in Sessions : place[s] \in {"none", "staging"} => items[s] = 0

IndInv ==
  /\ TypeOK /\ OwnershipInv /\ OpenedInv /\ BytesInv /\ HoldInv
  /\ AtMostOneItem /\ ItemIsWholeFile /\ AckedChunksKept
  /\ AbortLeavesNothingStaged /\ NoOrphanFile

\* A session that is being inserted, or whose file the janitor is removing, has
\* no row; until its INSERT a new session has its staging file.  IndInv does
\* not need this; that UploadContract is implemented does.
RowlessInv ==
  /\ \A r \in Requests : In(r, "insert") =>
       Staged(req[r].s) /\ req[r].s \notin rows \cup removing
  /\ \A s \in removing : s \notin rows /\ place[s] # "none"
-----------------------------------------------------------------------------
(* Liveness, and what the source promises beyond what it does.             *)

\* Every session row goes away in the end, also one that Complete failed to
\* delete and one whose client never came back: the janitor gets to it though
\* deletes fail, other sessions crowd its LIMIT and the process crashes.
RowsReclaimed == \A s \in Sessions : s \in rows ~> s \notin rows

\* No staging file stays for ever unless a crash or an unseen commit
\* separated it from its row.
StagingReclaimed == \A s \in Sessions :
  Staged(s) ~> (~Staged(s) \/ crashes > 0 \/ lost > 0)

\* domain/upload.go promises that an interrupted upload resumes where it
\* stopped, across reconnects and restarts: a session that still has its row,
\* that no handler is working on and that has not become an item has its
\* acknowledged bytes in its staging file.
Resumable == \A s \in rows \cap opened :
  items[s] = 0 /\ ~Handling(s, Stages) => Staged(s) /\ acked[s] \subseteq content[s]
=============================================================================
