------------------------ MODULE UploadContractProofs ------------------------
(***************************************************************************)
(* That the upload sessions implement UploadContract, for every number of  *)
(* sessions, handlers, chunks, crashes and failures, and that a contract   *)
(* kept is the promise kept.  The refinement mapping is that of            *)
(* UploadSessions.                                                         *)
(***************************************************************************)
EXTENDS UploadSessionsProofs

\* A row appears only by the INSERT of the handler that has made its file, and
\* the janitor removes files of sessions whose row it has deleted.
LEMMA RowlessStep ==
  IndInv /\ RowlessInv /\ [Next]_vars => RowlessInv'
<1> SUFFICES ASSUME IndInv, RowlessInv, [Next]_vars
             PROVE  RowlessInv'
  OBVIOUS
<1> USE DEF IndInv, RowlessInv, OwnershipInv, Creating, OpenedInv, HoldInv, Holding, TypeOK,
            vars, store, replies, janitor, budget, In, Goto, Reply, At, Idle,
            Handlers, Stages, Succeeds, Fails, SucceedsUnseen, Unlink, DeleteRow,
            Staged
<1>1. ASSUME NEW r \in Requests, CreateStaging(r) PROVE RowlessInv'
  BY <1>1 DEF CreateStaging
<1>2. ASSUME NEW r \in Requests, InsertSession(r) PROVE RowlessInv'
  BY <1>2 DEF InsertSession
<1>3. ASSUME NEW r \in Requests, UndoStaging(r) PROVE RowlessInv'
  BY <1>3 DEF UndoStaging
<1>4. ASSUME NEW r \in Requests,
             Begin(r) \/ OpenStaging(r) \/ CopyChunk(r) \/ RecordChunk(r)
      PROVE  RowlessInv'
  BY <1>4 DEF Begin, OpenStaging, CopyChunk, RecordChunk
<1>5. ASSUME NEW r \in Requests, CountChunks(r) \/ StatStaging(r) \/ SaveItem(r)
      PROVE  RowlessInv'
  BY <1>5 DEF CountChunks, StatStaging, SaveItem
<1>6. ASSUME NEW r \in Requests, MoveStaged(r) PROVE RowlessInv'
  BY <1>6 DEF MoveStaged
<1>7. ASSUME NEW r \in Requests, DiscardOriginal(r) PROVE RowlessInv'
  BY <1>7 DEF DiscardOriginal
<1>8. ASSUME NEW r \in Requests, DisposeSession(r) \/ AbortDelete(r) PROVE RowlessInv'
  BY <1>8 DEF DisposeSession, AbortDelete
<1>9. ASSUME NEW r \in Requests, AbortRemove(r) PROVE RowlessInv'
  BY <1>9 DEF AbortRemove
<1>10. CASE Clean
  BY <1>10 DEF Clean, JanitorList, JanitorDelete, JanitorRemove
<1>11. CASE Crash \/ \E s \in Sessions : Expire(s)
  BY <1>11 DEF Crash, Expire
<1>12. CASE UNCHANGED vars
  BY <1>12
<1> QED
  BY <1>1, <1>2, <1>3, <1>4, <1>5, <1>6, <1>7, <1>8, <1>9, <1>10, <1>11, <1>12
     DEF Next, Serve
-----------------------------------------------------------------------------
(* The refinement mapping: what a step does to the stores decides what it  *)
(* is to the contract.                                                     *)

sessionBar == [s \in Sessions |-> SessionState(s)]
fileBar == [s \in Sessions |-> FileState(s)]
contractVars == <<sessionBar, fileBar, content, acked>>

\* What the contract lets a step make of one upload's session and file.
Moves(s) ==
  \/ SessionState(s)' = SessionState(s) /\ FileState(s)' = FileState(s)
  \/ /\ SessionState(s) = "new" /\ SessionState(s)' = "new"
     /\ FileState(s) = "none" /\ FileState(s)' = "staged"
  \/ /\ SessionState(s) = "new" /\ SessionState(s)' = "open"
     /\ FileState(s) = "staged" /\ FileState(s)' = "staged"
  \/ /\ SessionState(s) = "open" /\ SessionState(s)' = "closed"
     /\ FileState(s)' = FileState(s)
  \/ /\ SessionState(s)' = SessionState(s)
     /\ \/ /\ SessionState(s) # "new" /\ content[s] = Chunks
           /\ FileState(s) = "staged" /\ FileState(s)' = "taken"
        \/ FileState(s) = "taken" /\ FileState(s)' = "published"
        \/ /\ FileState(s)' = "discarded"
           /\ FileState(s) = "taken" \/ (FileState(s) = "staged" /\ SessionState(s) # "open")

\* A step that touches the row and the file of no other session.
Only(s) == \A u \in Sessions \ {s} :
  /\ place'[u] = place[u] /\ items'[u] = items[u]
  /\ (u \in opened' <=> u \in opened) /\ (u \in rows' <=> u \in rows)

\* Such a step is a step of the contract, or a stutter.
LEMMA MoveMaps ==
  ASSUME NEW s \in Sessions, Only(s), Moves(s), UNCHANGED <<content, acked>>
  PROVE  [Contract!Next]_contractVars
<1>1. fileBar' = [fileBar EXCEPT ![s] = FileState(s)']
  BY DEF fileBar, Only, FileState, FileAt
<1>2. sessionBar' = [sessionBar EXCEPT ![s] = SessionState(s)']
  BY DEF sessionBar, Only, SessionState
<1>3. /\ sessionBar[s] = SessionState(s) /\ fileBar[s] = FileState(s)
      /\ SessionState(s)' = SessionState(s) => sessionBar' = sessionBar
      /\ FileState(s)' = FileState(s) => fileBar' = fileBar
  BY <1>1, <1>2 DEF sessionBar, fileBar
<1>4. \/ UNCHANGED contractVars
      \/ Contract!Create(s) \/ Contract!Open(s) \/ Contract!Take(s)
      \/ Contract!Publish(s) \/ Contract!Discard(s) \/ Contract!Close(s)
  BY <1>1, <1>2, <1>3
     DEF Moves, contractVars, Contract!Create, Contract!Open, Contract!Take,
         Contract!Publish, Contract!Discard, Contract!Close, sessionBar, fileBar
<1> QED
  BY <1>4 DEF Contract!Next

\* A step that leaves the stores and the clients alone.
LEMMA StutterMaps ==
  ASSUME UNCHANGED <<rows, place, content, items, opened, acked>>
  PROVE  [Contract!Next]_contractVars
BY DEF contractVars, sessionBar, fileBar, SessionState, FileState, FileAt

\* The states of a file that is not an item yet, by place.
LEMMA FileStates ==
  ASSUME IndInv, NEW s \in Sessions
  PROVE  /\ place[s] = "none" => FileState(s) = "none" /\ items[s] = 0
         /\ Staged(s) => FileState(s) = "staged" /\ items[s] = 0
         /\ place[s] = "original" /\ items[s] = 0 => FileState(s) = "taken"
         /\ items[s] # 0 => FileState(s) = "published" /\ items[s] > 0
BY DEF FileState, FileAt, Staged, IndInv, TypeOK, HoldInv
-----------------------------------------------------------------------------
(* Every step of a handler or of the janitor is one of the contract, or a  *)
(* stutter.                                                                *)

\* POST: a session gets its file, then its row and its answer; or the file is
\* thrown away before anybody knows of the session.
LEMMA CreateMaps ==
  ASSUME IndInv, RowlessInv, NEW r \in Requests,
         CreateStaging(r) \/ InsertSession(r) \/ UndoStaging(r)
  PROVE  [Contract!Next]_contractVars
<1>1. CASE CreateStaging(r)
  <2>1. PICK s \in Sessions : /\ place[s] = "none"
                              /\ place' = [place EXCEPT ![s] = "staging"]
    BY <1>1 DEF CreateStaging
  <2>2. UNCHANGED <<rows, opened, items, content, acked>>
    BY <1>1 DEF CreateStaging, replies
  <2>3. s \notin opened /\ place'[s] = "staging"
    BY <2>1 DEF IndInv, OpenedInv, TypeOK
  <2>4. Moves(s)
    BY <2>1, <2>2, <2>3, FileStates DEF Moves, SessionState, FileState, FileAt
  <2> QED
    BY <2>1, <2>2, <2>4, MoveMaps DEF Only, IndInv, TypeOK
<1>2. CASE InsertSession(r)
  <2>1. PICK s \in Sessions :
          /\ s \notin opened /\ Staged(s)
          /\ UNCHANGED <<place, items, content, acked>>
          /\ \/ rows' = rows \cup {s} /\ opened' = opened \cup {s}
             \/ rows' \in {rows, rows \cup {s}} /\ opened' = opened
    BY <1>2 DEF InsertSession, In, IndInv, RowlessInv, OwnershipInv, TypeOK, Handlers,
                Idle, Creating
  <2>2. Moves(s)
    BY <2>1, FileStates DEF Moves, SessionState, FileState
  <2> QED
    BY <2>1, <2>2, MoveMaps DEF Only
<1>3. CASE UndoStaging(r)
  <2>1. PICK s \in Sessions :
          /\ s \notin opened
          /\ UNCHANGED <<rows, opened, items, content, acked>>
          /\ \/ Staged(s) /\ place' = [place EXCEPT ![s] = "removed"]
             \/ ~Staged(s) /\ place' = place
    <3>1. req[r].s \in Sessions /\ req[r].s \notin opened
      BY <1>3 DEF UndoStaging, In, IndInv, OwnershipInv, TypeOK, Handlers, Idle, Creating
    <3> QED
      BY <1>3, <3>1 DEF UndoStaging, Unlink, Staged, replies
  <2>2. Moves(s)
    BY <2>1, FileStates DEF Moves, SessionState, FileState, FileAt, IndInv, TypeOK
  <2> QED
    BY <2>1, <2>2, MoveMaps DEF Only, IndInv, TypeOK
<1> QED
  BY <1>1, <1>2, <1>3

\* PUT: bytes arrive for a session that is known, and are acknowledged while
\* it has its row.
LEMMA ChunkMaps ==
  ASSUME IndInv, NEW r \in Requests, CopyChunk(r) \/ RecordChunk(r)
  PROVE  [Contract!Next]_contractVars
<1>1. PICK s \in Sessions, c \in Chunks :
        /\ s = req[r].s /\ c = req[r].c /\ s \in opened
        /\ In(r, "record") => c \in content[s]
  BY DEF CopyChunk, RecordChunk, In, IndInv, OwnershipInv, BytesInv, TypeOK, Handlers,
         Idle, Stages, Creating
<1>2. UNCHANGED <<sessionBar, fileBar>>
  BY DEF CopyChunk, RecordChunk, sessionBar, fileBar, SessionState, FileState, FileAt, replies
<1>3. CASE CopyChunk(r)
  <2>1. /\ content' \in {content, [content EXCEPT ![s] = @ \cup {c}]}
        /\ acked' = acked
    BY <1>1, <1>3 DEF CopyChunk, replies
  <2>2. CASE content' = content
    BY <1>2, <2>1, <2>2 DEF contractVars
  <2>3. CASE content' = [content EXCEPT ![s] = @ \cup {c}]
    <3>1. Contract!Receive(s)
      BY <1>1, <1>2, <2>1, <2>3 DEF Contract!Receive, sessionBar, fileBar, SessionState
    <3> QED
      BY <3>1 DEF Contract!Next
  <2> QED
    BY <2>1, <2>2, <2>3
<1>4. CASE RecordChunk(r)
  <2>1. /\ content' = content
        /\ \/ acked' = acked
           \/ s \in rows /\ acked' = [acked EXCEPT ![s] = @ \cup {c}]
    BY <1>1, <1>4 DEF RecordChunk
  <2>2. CASE acked' = acked
    BY <1>2, <2>1, <2>2 DEF contractVars
  <2>3. CASE s \in rows /\ acked' = [acked EXCEPT ![s] = @ \cup {c}]
    <3>1. c \in content[s]
      BY <1>1, <1>4 DEF RecordChunk
    <3>2. Contract!Acknowledge(s)
      BY <1>1, <1>2, <2>1, <2>3, <3>1
         DEF Contract!Acknowledge, sessionBar, fileBar, SessionState
    <3> QED
      BY <3>2 DEF Contract!Next
  <2> QED
    BY <2>1, <2>2, <2>3
<1> QED
  BY <1>3, <1>4

\* POST .../complete: the rename takes a whole file, once; its item is saved or
\* the file thrown away; then the session is closed.
LEMMA CompleteMaps ==
  ASSUME IndInv, NEW r \in Requests,
         \/ MoveStaged(r) \/ SaveItem(r) \/ DiscardOriginal(r) \/ DisposeSession(r)
  PROVE  [Contract!Next]_contractVars
<1>1. PICK s \in Sessions :
        /\ s = req[r].s /\ s \in opened
        /\ In(r, "move") => content[s] = Chunks
        /\ In(r, "save") => place[s] = "original" /\ items[s] = 0
        /\ In(r, "discard") => place[s] = "original"
  BY DEF MoveStaged, SaveItem, DiscardOriginal, DisposeSession, In, IndInv, OwnershipInv,
         BytesInv, HoldInv, TypeOK, Handlers, Idle, Stages, Creating, Promoting, Holding
<1>2. CASE MoveStaged(r)
  <2>1. /\ UNCHANGED <<rows, opened, items, content, acked>>
        /\ content[s] = Chunks
        /\ \/ Staged(s) /\ place' = [place EXCEPT ![s] = "original"]
           \/ place' = place
    BY <1>1, <1>2 DEF MoveStaged, replies
  <2>2. Moves(s)
    BY <1>1, <2>1, FileStates DEF Moves, SessionState, FileState, FileAt, IndInv, TypeOK
  <2> QED
    BY <2>1, <2>2, MoveMaps DEF Only, IndInv, TypeOK
<1>3. CASE SaveItem(r)
  <2>1. /\ UNCHANGED <<rows, opened, place, content, acked>>
        /\ place[s] = "original" /\ items[s] = 0
        /\ items' \in {items, [items EXCEPT ![s] = @ + 1]}
    BY <1>1, <1>3 DEF SaveItem, replies
  <2>2. Moves(s)
    BY <2>1, FileStates DEF Moves, SessionState, FileState, FileAt, IndInv, TypeOK
  <2> QED
    BY <2>1, <2>2, MoveMaps DEF Only, IndInv, TypeOK
<1>4. CASE DiscardOriginal(r)
  <2>1. /\ UNCHANGED <<rows, opened, items, content, acked>>
        /\ place[s] = "original" /\ place' = [place EXCEPT ![s] = "removed"]
    BY <1>1, <1>4 DEF DiscardOriginal, Unlink, replies
  <2>2. Moves(s)
    BY <2>1, FileStates DEF Moves, SessionState, FileState, FileAt, IndInv, TypeOK
  <2> QED
    BY <2>1, <2>2, MoveMaps DEF Only, IndInv, TypeOK
<1>5. CASE DisposeSession(r)
  <2>1. /\ UNCHANGED <<place, items, opened, content, acked>>
        /\ rows' \in {rows, rows \ {s}}
    BY <1>1, <1>5 DEF DisposeSession, DeleteRow, replies
  <2>2. Moves(s)
    BY <1>1, <2>1 DEF Moves, SessionState, FileState
  <2> QED
    BY <2>1, <2>2, MoveMaps DEF Only
<1> QED
  BY <1>2, <1>3, <1>4, <1>5

\* A step that deletes a row and leaves its file, or removes the staging file
\* of a session without a row.
Closes(s) ==
  /\ UNCHANGED <<items, opened, content, acked>>
  /\ \/ rows' \in {rows, rows \ {s}} /\ place' = place
     \/ /\ s \notin rows /\ rows' = rows /\ Staged(s)
        /\ place' = [place EXCEPT ![s] = "removed"]

\* DELETE closes the session first and throws its file away afterwards; the
\* janitor does the same.
LEMMA EndMaps ==
  ASSUME IndInv, RowlessInv,
         (\E r \in Requests : AbortDelete(r) \/ AbortRemove(r)) \/ Clean
  PROVE  [Contract!Next]_contractVars
<1>1. ASSUME NEW s \in Sessions, Closes(s) PROVE [Contract!Next]_contractVars
  <2>1. Moves(s)
    BY <1>1, FileStates
       DEF Closes, Moves, SessionState, FileState, FileAt, IndInv, TypeOK
  <2> QED
    BY <1>1, <2>1, MoveMaps DEF Closes, Only, IndInv, TypeOK
<1>2. ASSUME NEW r \in Requests, AbortDelete(r) PROVE \E s \in Sessions : Closes(s)
  <2>1. req[r].s \in Sessions
    BY <1>2 DEF AbortDelete, In, IndInv, TypeOK, Handlers, Idle
  <2> QED
    BY <1>2, <2>1 DEF AbortDelete, DeleteRow, Closes, replies
<1>3. ASSUME NEW r \in Requests, AbortRemove(r) PROVE \E s \in Sessions : Closes(s)
  <2>1. req[r].s \in Sessions /\ req[r].s \notin rows
    BY <1>3 DEF AbortRemove, In, IndInv, TypeOK, OpenedInv, Handlers, Idle
  <2> QED
    BY <1>3, <2>1 DEF AbortRemove, Unlink, Closes, Staged
<1>4. CASE JanitorDelete
  BY <1>1, <1>4 DEF JanitorDelete, DeleteRow, Closes, replies, IndInv, TypeOK
<1>5. CASE JanitorRemove
  <2>1. PICK s \in Sessions : s \notin rows /\ s \in removing /\ Unlink(s, "staging")
    BY <1>5 DEF JanitorRemove, RowlessInv, IndInv, TypeOK
  <2>2. Closes(s)
    BY <1>5, <2>1 DEF JanitorRemove, Unlink, Closes, Staged, replies
  <2> QED
    BY <1>1, <2>2
<1>6. CASE JanitorList
  BY <1>6, StutterMaps DEF JanitorList, store, replies
<1> QED
  BY <1>1, <1>2, <1>3, <1>4, <1>5, <1>6 DEF Clean
-----------------------------------------------------------------------------
\* The stronger invariant holds too.
LEMMA RowlessInvHolds == Spec => []RowlessInv
<1>1. Init => RowlessInv
  BY DEF Init, RowlessInv, In, Idle
<1> QED
  BY <1>1, IndInvHolds, RowlessStep, PTL DEF Spec

\* Initial states map to initial states.
LEMMA InitMaps == Init => Contract!Init
BY DEF Init, Contract!Init, SessionState, FileState, FileAt

\* Every step maps to a step or a stutter.
LEMMA StepMaps ==
  IndInv /\ RowlessInv /\ [Next]_vars => [Contract!Next]_contractVars
<1> SUFFICES ASSUME IndInv, RowlessInv, [Next]_vars
             PROVE  [Contract!Next]_contractVars
  OBVIOUS
<1>1. ASSUME NEW r \in Requests,
             Begin(r) \/ OpenStaging(r) \/ CountChunks(r) \/ StatStaging(r)
      PROVE  [Contract!Next]_contractVars
  BY <1>1, StutterMaps DEF Begin, OpenStaging, CountChunks, StatStaging, store, replies
<1>2. CASE Crash \/ (\E s \in Sessions : Expire(s)) \/ UNCHANGED vars
  BY <1>2, StutterMaps DEF Crash, Expire, vars, store, replies
<1> QED
  BY <1>1, <1>2, CreateMaps, ChunkMaps, CompleteMaps, EndMaps DEF Next, Serve

\* ImplementsContract: whatever handlers, janitor, expiry, crashes and failing
\* statements do together, an upload only ever takes the steps of
\* UploadContract.
THEOREM UploadsImplementContract == Spec => ImplementsContract
<1>1. ImplementsContract <=> Contract!Init /\ [][Contract!Next]_contractVars
  BY DEF ImplementsContract, Contract!Spec, contractVars, sessionBar, fileBar, Contract!vars
<1> QED
  BY <1>1, InitMaps, StepMaps, IndInvHolds, RowlessInvHolds, PTL DEF Spec
-----------------------------------------------------------------------------
(* What the contract is worth.                                             *)

ContractTypes ==
  /\ content \in [Sessions -> SUBSET Chunks]
  /\ acked \in [Sessions -> SUBSET Chunks]

\* Bytes are never lost, so a file that was whole when it was taken still is.
LEMMA PromiseStep ==
  ContractTypes /\ Contract!Promise /\ [Contract!Next]_contractVars
    => ContractTypes' /\ Contract!Promise'
<1> SUFFICES ASSUME ContractTypes, Contract!Promise, [Contract!Next]_contractVars
             PROVE  ContractTypes' /\ Contract!Promise'
  OBVIOUS
<1>1. \A s \in Sessions : fileBar[s] \in {"taken", "published"} => content[s] = Chunks
  BY DEF Contract!Promise, fileBar
<1>2. \A s \in Sessions : acked[s] \subseteq content[s]
  BY DEF Contract!Promise
<1>3. /\ ContractTypes'
      /\ \A s \in Sessions : fileBar'[s] \in {"taken", "published"} => content'[s] = Chunks
      /\ \A s \in Sessions : acked'[s] \subseteq content'[s]
  <2>1. CASE UNCHANGED contractVars
    BY <1>1, <1>2, <2>1 DEF contractVars, ContractTypes
  <2>2. ASSUME NEW s \in Sessions,
               Contract!Create(s) \/ Contract!Take(s) \/ Contract!Publish(s) \/ Contract!Discard(s)
        PROVE  <1>3!:
    <3>1. /\ UNCHANGED <<content, acked>>
          /\ \E f : fileBar' = [fileBar EXCEPT ![s] = f]
          /\ fileBar'[s] \in {"taken", "published"} =>
               content[s] = Chunks \/ fileBar[s] = "taken"
      BY <2>2 DEF Contract!Create, Contract!Take, Contract!Publish, Contract!Discard, fileBar
    <3> QED
      BY <1>1, <1>2, <3>1 DEF ContractTypes, fileBar
  <2>3. ASSUME NEW s \in Sessions,
               Contract!Open(s) \/ Contract!Receive(s) \/ Contract!Acknowledge(s) \/ Contract!Close(s)
        PROVE  <1>3!:
    <3>1. /\ fileBar' = fileBar
          /\ \/ UNCHANGED <<content, acked>>
             \/ \E c \in Chunks : content' = [content EXCEPT ![s] = @ \cup {c}] /\ acked' = acked
             \/ \E c \in content[s] : acked' = [acked EXCEPT ![s] = @ \cup {c}] /\ content' = content
      BY <2>3 DEF Contract!Open, Contract!Receive, Contract!Acknowledge, Contract!Close, fileBar
    <3> QED
      BY <1>1, <1>2, <3>1 DEF ContractTypes
  <2> QED
    BY <2>1, <2>2, <2>3 DEF Contract!Next
<1> QED
  BY <1>3 DEF Contract!Promise, fileBar

\* UploadContract's Promise: a file that was taken for a media item holds every
\* chunk, also when no item came of it, and what was acknowledged was received.
\* It follows from the contract alone.
THEOREM PromiseIsKept == Spec => []Contract!Promise
<1>1. Init => ContractTypes /\ Contract!Promise
  BY DEF Init, ContractTypes, Contract!Promise, FileState, FileAt
<1>2. [][Contract!Next]_contractVars /\ ContractTypes /\ Contract!Promise => []Contract!Promise
  BY PromiseStep, PTL
<1>3. IndInv /\ RowlessInv /\ [Next]_vars => [Contract!Next]_contractVars
  BY StepMaps
<1> QED
  BY <1>1, <1>2, <1>3, IndInvHolds, RowlessInvHolds, PTL DEF Spec
=============================================================================
