------------------------ MODULE UploadSessionsProofs ------------------------
(* Proofs about UploadSessions for every number of sessions, handlers,      *)
(* chunks, crashes and failures.                                            *)
EXTENDS UploadSessions, FiniteSetTheorems, TLAPS

\* The type invariant of the upload sessions: a step leaves every store and
\* every handler in a state the code can represent.
LEMMA TypeStep ==
  TypeOK /\ [Next]_vars => TypeOK'
<1> SUFFICES ASSUME TypeOK, [Next]_vars PROVE TypeOK'
  OBVIOUS
<1> USE ChunksAssumption, BoundsAssumption
     DEF TypeOK, vars, store, replies, janitor, budget
<1>1. ASSUME NEW r \in Requests, CreateStaging(r) \/ InsertSession(r) \/ UndoStaging(r)
      PROVE TypeOK'
  BY <1>1 DEF CreateStaging, InsertSession, UndoStaging, In, Goto, Reply, At, Idle,
              Handlers, Stages, Succeeds, Fails, SucceedsUnseen, Unlink
<1>2. ASSUME NEW r \in Requests, Begin(r) \/ OpenStaging(r) \/ CopyChunk(r)
                         \/ RecordChunk(r)
      PROVE TypeOK'
  BY <1>2 DEF Begin, OpenStaging, CopyChunk, RecordChunk, In, Goto, Reply, At, Idle,
              Handlers, Stages, Succeeds, Fails, SucceedsUnseen
<1>3. ASSUME NEW r \in Requests, CountChunks(r) \/ StatStaging(r) \/ MoveStaged(r)
      PROVE TypeOK'
  BY <1>3 DEF CountChunks, StatStaging, MoveStaged, In, Goto, Reply, At, Idle,
              Handlers, Stages, Succeeds, Fails, SucceedsUnseen
<1>4. ASSUME NEW r \in Requests, SaveItem(r) \/ DiscardOriginal(r) \/ DisposeSession(r)
      PROVE TypeOK'
  BY <1>4 DEF SaveItem, DiscardOriginal, DisposeSession, In, Goto, Reply, At, Idle,
              Handlers, Stages, Succeeds, Fails, SucceedsUnseen, Unlink, DeleteRow
<1>5. ASSUME NEW r \in Requests, AbortDelete(r) \/ AbortRemove(r)
      PROVE TypeOK'
  BY <1>5 DEF AbortDelete, AbortRemove, In, Goto, Reply, At, Idle,
              Handlers, Stages, Succeeds, Fails, SucceedsUnseen, Unlink, DeleteRow
<1>6. CASE Clean
  BY <1>6 DEF Clean, JanitorList, JanitorDelete, JanitorRemove,
              Succeeds, Fails, SucceedsUnseen, Unlink, DeleteRow
<1>7. CASE Crash \/ \E s \in Sessions : Expire(s)
  BY <1>7 DEF Crash, Expire, Handlers
<1>8. CASE UNCHANGED vars
  BY <1>8
<1> QED
  BY <1>1, <1>2, <1>3, <1>4, <1>5, <1>6, <1>7, <1>8
     DEF Next, Serve

\* As many receipts as chunks are the receipts of all chunks: Complete
\* compares numbers only.
LEMMA FullCount ==
  ASSUME NEW S \in SUBSET Chunks, Cardinality(S) = TotalChunks
  PROVE  S = Chunks
BY ChunksAssumption, FS_Subset DEF TotalChunks

\* A chunk write only adds to the file, whatever becomes of the request.
LEMMA CopyGrows ==
  ASSUME TypeOK, NEW r \in Requests, CopyChunk(r)
  PROVE  /\ req[r].s \in Sessions /\ req[r].c \in Chunks
         /\ content' \in [Sessions -> SUBSET Chunks]
         /\ \A u \in Sessions : content[u] \subseteq content'[u]
<1> USE DEF TypeOK, Handlers, Idle, In <1> DEFINE written == [content EXCEPT
            ![req[r].s] = @ \cup {req[r].c}]
<1>1. req[r].s \in Sessions /\ req[r].c \in Chunks
  BY DEF CopyChunk
<1>2. /\ written \in [Sessions -> SUBSET Chunks]
      /\ \A u \in Sessions : content[u] \subseteq written[u]
  BY <1>1
<1>3. content' = written \/ content' = content
  BY DEF CopyChunk
<1> QED
  BY <1>1, <1>2, <1>3

\* getOwned and the answer to the POST keep creators and users of one session
\* apart.
LEMMA OwnershipStep ==
  TypeOK /\ OwnershipInv /\ OpenedInv /\ [Next]_vars => OwnershipInv'
<1> SUFFICES ASSUME TypeOK /\ OwnershipInv /\ OpenedInv, [Next]_vars
             PROVE  OwnershipInv'
  OBVIOUS
<1> USE DEF OwnershipInv, Creating, OpenedInv, TypeOK, vars, store, replies,
            janitor, budget, In, Goto, Reply, At, Idle, Handlers,
            Stages, Succeeds, Fails, SucceedsUnseen, Unlink,
            DeleteRow, Staged, Owned
<1>1. ASSUME NEW r \in Requests, CreateStaging(r) PROVE OwnershipInv'
  BY <1>1 DEF CreateStaging
<1>2. ASSUME NEW r \in Requests, InsertSession(r) PROVE OwnershipInv'
  BY <1>2 DEF InsertSession
<1>3. ASSUME NEW r \in Requests, UndoStaging(r) PROVE OwnershipInv'
  BY <1>3 DEF UndoStaging
<1>4. ASSUME NEW r \in Requests, Begin(r) PROVE OwnershipInv'
  BY <1>4 DEF Begin
<1>5. ASSUME NEW r \in Requests, OpenStaging(r) PROVE OwnershipInv'
  BY <1>5 DEF OpenStaging
<1>6. ASSUME NEW r \in Requests, CopyChunk(r) PROVE OwnershipInv'
  BY <1>6 DEF CopyChunk
<1>7. ASSUME NEW r \in Requests, RecordChunk(r) PROVE OwnershipInv'
  BY <1>7 DEF RecordChunk
<1>8. ASSUME NEW r \in Requests, CountChunks(r) PROVE OwnershipInv'
  BY <1>8 DEF CountChunks
<1>9. ASSUME NEW r \in Requests, StatStaging(r) PROVE OwnershipInv'
  BY <1>9 DEF StatStaging
<1>10. ASSUME NEW r \in Requests, MoveStaged(r) PROVE OwnershipInv'
  BY <1>10 DEF MoveStaged
<1>11. ASSUME NEW r \in Requests, SaveItem(r) PROVE OwnershipInv'
  BY <1>11 DEF SaveItem
<1>12. ASSUME NEW r \in Requests, DiscardOriginal(r) PROVE OwnershipInv'
  BY <1>12 DEF DiscardOriginal
<1>13. ASSUME NEW r \in Requests, DisposeSession(r) PROVE OwnershipInv'
  BY <1>13 DEF DisposeSession
<1>14. ASSUME NEW r \in Requests, AbortDelete(r) PROVE OwnershipInv'
  BY <1>14 DEF AbortDelete
<1>15. ASSUME NEW r \in Requests, AbortRemove(r) PROVE OwnershipInv'
  BY <1>15 DEF AbortRemove
<1>16. CASE Clean
  BY <1>16 DEF Clean, JanitorList, JanitorDelete, JanitorRemove
<1>17. CASE Crash
  BY <1>17 DEF Crash
<1>18. CASE \E s \in Sessions : Expire(s)
  BY <1>18 DEF Expire
<1>19. CASE UNCHANGED vars
  BY <1>19
<1> QED
  BY <1>1, <1>2, <1>3, <1>4, <1>5, <1>6, <1>7, <1>8, <1>9, <1>10, <1>11, <1>12,
     <1>13, <1>14, <1>15, <1>16, <1>17, <1>18, <1>19
     DEF Next, Serve

\* A row that was deleted for an abort is not inserted again.
LEMMA OpenedStep ==
  TypeOK /\ OwnershipInv /\ OpenedInv /\ [Next]_vars => OpenedInv'
<1> SUFFICES ASSUME TypeOK /\ OwnershipInv /\ OpenedInv, [Next]_vars
             PROVE  OpenedInv'
  OBVIOUS
<1> USE DEF OwnershipInv, Creating, OpenedInv, TypeOK, vars, store, replies,
            janitor, budget, In, Goto, Reply, At, Idle, Handlers,
            Stages, Succeeds, Fails, SucceedsUnseen, Unlink,
            DeleteRow, Staged, Owned
<1>1. ASSUME NEW r \in Requests, CreateStaging(r) PROVE OpenedInv'
  BY <1>1 DEF CreateStaging
<1>2. ASSUME NEW r \in Requests, InsertSession(r) PROVE OpenedInv'
  BY <1>2 DEF InsertSession
<1>3. ASSUME NEW r \in Requests, UndoStaging(r) PROVE OpenedInv'
  BY <1>3 DEF UndoStaging
<1>4. ASSUME NEW r \in Requests, Begin(r) PROVE OpenedInv'
  BY <1>4 DEF Begin
<1>5. ASSUME NEW r \in Requests, OpenStaging(r) PROVE OpenedInv'
  BY <1>5 DEF OpenStaging
<1>6. ASSUME NEW r \in Requests, CopyChunk(r) PROVE OpenedInv'
  BY <1>6 DEF CopyChunk
<1>7. ASSUME NEW r \in Requests, RecordChunk(r) PROVE OpenedInv'
  BY <1>7 DEF RecordChunk
<1>8. ASSUME NEW r \in Requests, CountChunks(r) PROVE OpenedInv'
  BY <1>8 DEF CountChunks
<1>9. ASSUME NEW r \in Requests, StatStaging(r) PROVE OpenedInv'
  BY <1>9 DEF StatStaging
<1>10. ASSUME NEW r \in Requests, MoveStaged(r) PROVE OpenedInv'
  BY <1>10 DEF MoveStaged
<1>11. ASSUME NEW r \in Requests, SaveItem(r) PROVE OpenedInv'
  BY <1>11 DEF SaveItem
<1>12. ASSUME NEW r \in Requests, DiscardOriginal(r) PROVE OpenedInv'
  BY <1>12 DEF DiscardOriginal
<1>13. ASSUME NEW r \in Requests, DisposeSession(r) PROVE OpenedInv'
  BY <1>13 DEF DisposeSession
<1>14. ASSUME NEW r \in Requests, AbortDelete(r) PROVE OpenedInv'
  BY <1>14 DEF AbortDelete
<1>15. ASSUME NEW r \in Requests, AbortRemove(r) PROVE OpenedInv'
  BY <1>15 DEF AbortRemove
<1>16. CASE Clean
  BY <1>16 DEF Clean, JanitorList, JanitorDelete, JanitorRemove
<1>17. CASE Crash
  BY <1>17 DEF Crash
<1>18. CASE \E s \in Sessions : Expire(s)
  BY <1>18 DEF Expire
<1>19. CASE UNCHANGED vars
  BY <1>19
<1> QED
  BY <1>1, <1>2, <1>3, <1>4, <1>5, <1>6, <1>7, <1>8, <1>9, <1>10, <1>11, <1>12,
     <1>13, <1>14, <1>15, <1>16, <1>17, <1>18, <1>19
     DEF Next, Serve

\* Receipts follow bytes, and a whole file stays whole.
LEMMA BytesStep ==
  TypeOK /\ BytesInv /\ [Next]_vars => BytesInv'
<1> SUFFICES ASSUME TypeOK /\ BytesInv, [Next]_vars PROVE BytesInv'
  OBVIOUS
<1> USE DEF BytesInv, Promoting, TypeOK, vars, store, replies, janitor,
            budget, In, Goto, Reply, At, Idle, Handlers, Stages,
            Succeeds, Fails, SucceedsUnseen, Unlink, DeleteRow,
            Staged, Owned
<1>1. ASSUME NEW r \in Requests, CreateStaging(r) PROVE BytesInv'
  BY <1>1 DEF CreateStaging
<1>2. ASSUME NEW r \in Requests, InsertSession(r) PROVE BytesInv'
  BY <1>2 DEF InsertSession
<1>3. ASSUME NEW r \in Requests, UndoStaging(r) PROVE BytesInv'
  BY <1>3 DEF UndoStaging
<1>4. ASSUME NEW r \in Requests, Begin(r) PROVE BytesInv'
  BY <1>4 DEF Begin
<1>5. ASSUME NEW r \in Requests, OpenStaging(r) PROVE BytesInv'
  BY <1>5 DEF OpenStaging
<1>6. ASSUME NEW r \in Requests, CopyChunk(r) PROVE BytesInv'
  <2> DEFINE s == req[r].s
  <2>1. /\ s \in Sessions /\ req[r].c \in Chunks
        /\ content' \in [Sessions -> SUBSET Chunks]
        /\ \A u \in Sessions : content[u] \subseteq content'[u]
    BY <1>6, CopyGrows
  <2>2. \A q \in Requests : q # r => req'[q] = req[q]
    BY <1>6 DEF CopyChunk
  <2>3. /\ req'[r].stage \notin Promoting
        /\ In(r, "record")' => req'[r].c \in content'[req'[r].s]
    BY <1>6, <2>1 DEF CopyChunk
  <2>4. \A u \in Sessions : receipts'[u] \subseteq content'[u]
    BY <1>6, <2>1 DEF CopyChunk
  <2>5. ASSUME NEW q \in Requests, q # r
        PROVE  /\ In(q, "record")' => req'[q].c \in content'[req'[q].s]
               /\ req'[q].stage \in Promoting => content'[req'[q].s] = Chunks
    <3>1. CASE req[q] = Idle
      BY <2>2, <2>5, <3>1
    <3>2. CASE req[q] # Idle
      <4>1. req[q].s \in Sessions
        BY <3>2
      <4>2. /\ content[req[q].s] \subseteq content'[req[q].s]
            /\ content'[req[q].s] \subseteq Chunks
        BY <2>1, <4>1
      <4>3. In(q, "record") => req[q].c \in content'[req[q].s]
        BY <4>2
      <4>4. req[q].stage \in Promoting => content'[req[q].s] = Chunks
        BY <4>2
      <4>5. req'[q] = req[q]
        BY <2>2, <2>5
      <4> QED
        BY <4>3, <4>4, <4>5
    <3> QED
      BY <3>1, <3>2
  <2> QED
    BY <2>3, <2>4, <2>5
<1>7. ASSUME NEW r \in Requests, RecordChunk(r) PROVE BytesInv'
  BY <1>7 DEF RecordChunk
<1>8. ASSUME NEW r \in Requests, CountChunks(r) PROVE BytesInv'
  <2>1. /\ req[r].s \in Sessions /\ receipts' = receipts /\ content' = content
        /\ \A q \in Requests : q # r => req'[q] = req[q]
    BY <1>8 DEF CountChunks
  <2>2. ASSUME req'[r] # Idle PROVE content[req[r].s] = Chunks
    <3>1. Cardinality(receipts[req[r].s]) = TotalChunks
      BY <1>8, <2>2 DEF CountChunks
    <3>2. receipts[req[r].s] = Chunks
      BY <2>1, <3>1, FullCount
    <3> QED
      BY <2>1, <3>2
  <2>3. req'[r] = Idle \/ req'[r] = At("stat", req[r].s, req[r].c)
    BY <1>8 DEF CountChunks
  <2> QED
    BY <2>1, <2>2, <2>3
<1>9. ASSUME NEW r \in Requests, StatStaging(r) PROVE BytesInv'
  BY <1>9 DEF StatStaging
<1>10. ASSUME NEW r \in Requests, MoveStaged(r) PROVE BytesInv'
  BY <1>10 DEF MoveStaged
<1>11. ASSUME NEW r \in Requests, SaveItem(r) PROVE BytesInv'
  BY <1>11 DEF SaveItem
<1>12. ASSUME NEW r \in Requests, DiscardOriginal(r) PROVE BytesInv'
  BY <1>12 DEF DiscardOriginal
<1>13. ASSUME NEW r \in Requests, DisposeSession(r) PROVE BytesInv'
  BY <1>13 DEF DisposeSession
<1>14. ASSUME NEW r \in Requests, AbortDelete(r) PROVE BytesInv'
  BY <1>14 DEF AbortDelete
<1>15. ASSUME NEW r \in Requests, AbortRemove(r) PROVE BytesInv'
  BY <1>15 DEF AbortRemove
<1>16. CASE Clean
  BY <1>16 DEF Clean, JanitorList, JanitorDelete, JanitorRemove
<1>17. CASE Crash
  BY <1>17 DEF Crash
<1>18. CASE \E s \in Sessions : Expire(s)
  BY <1>18 DEF Expire
<1>19. CASE UNCHANGED vars
  BY <1>19
<1> QED
  BY <1>1, <1>2, <1>3, <1>4, <1>5, <1>6, <1>7, <1>8, <1>9, <1>10, <1>11, <1>12,
     <1>13, <1>14, <1>15, <1>16, <1>17, <1>18, <1>19
     DEF Next, Serve

\* The rename makes one completion the holder of the original.
LEMMA HoldStep ==
  TypeOK /\ OwnershipInv /\ HoldInv /\ [Next]_vars => HoldInv'
<1> SUFFICES ASSUME TypeOK /\ OwnershipInv /\ HoldInv, [Next]_vars
             PROVE  HoldInv'
  OBVIOUS
<1> USE DEF OwnershipInv, Creating, HoldInv, Holding, TypeOK, vars, store,
            replies, janitor, budget, In, Goto, Reply, At, Idle,
            Handlers, Stages, Succeeds, Fails, SucceedsUnseen,
            Unlink, DeleteRow, Staged, Owned
<1>1. ASSUME NEW r \in Requests, CreateStaging(r) PROVE HoldInv'
  BY <1>1 DEF CreateStaging
<1>2. ASSUME NEW r \in Requests, InsertSession(r) PROVE HoldInv'
  BY <1>2 DEF InsertSession
<1>3. ASSUME NEW r \in Requests, UndoStaging(r) PROVE HoldInv'
  BY <1>3 DEF UndoStaging
<1>4. ASSUME NEW r \in Requests, Begin(r) PROVE HoldInv'
  BY <1>4 DEF Begin
<1>5. ASSUME NEW r \in Requests, OpenStaging(r) PROVE HoldInv'
  BY <1>5 DEF OpenStaging
<1>6. ASSUME NEW r \in Requests, CopyChunk(r) PROVE HoldInv'
  BY <1>6 DEF CopyChunk
<1>7. ASSUME NEW r \in Requests, RecordChunk(r) PROVE HoldInv'
  BY <1>7 DEF RecordChunk
<1>8. ASSUME NEW r \in Requests, CountChunks(r) PROVE HoldInv'
  BY <1>8 DEF CountChunks
<1>9. ASSUME NEW r \in Requests, StatStaging(r) PROVE HoldInv'
  BY <1>9 DEF StatStaging
<1>10. ASSUME NEW r \in Requests, MoveStaged(r) PROVE HoldInv'
  BY <1>10 DEF MoveStaged
<1>11. ASSUME NEW r \in Requests, SaveItem(r) PROVE HoldInv'
  BY <1>11 DEF SaveItem
<1>12. ASSUME NEW r \in Requests, DiscardOriginal(r) PROVE HoldInv'
  BY <1>12 DEF DiscardOriginal
<1>13. ASSUME NEW r \in Requests, DisposeSession(r) PROVE HoldInv'
  BY <1>13 DEF DisposeSession
<1>14. ASSUME NEW r \in Requests, AbortDelete(r) PROVE HoldInv'
  BY <1>14 DEF AbortDelete
<1>15. ASSUME NEW r \in Requests, AbortRemove(r) PROVE HoldInv'
  BY <1>15 DEF AbortRemove
<1>16. CASE Clean
  BY <1>16 DEF Clean, JanitorList, JanitorDelete, JanitorRemove
<1>17. CASE Crash
  BY <1>17 DEF Crash
<1>18. CASE \E s \in Sessions : Expire(s)
  BY <1>18 DEF Expire
<1>19. CASE UNCHANGED vars
  BY <1>19
<1> QED
  BY <1>1, <1>2, <1>3, <1>4, <1>5, <1>6, <1>7, <1>8, <1>9, <1>10, <1>11, <1>12,
     <1>13, <1>14, <1>15, <1>16, <1>17, <1>18, <1>19
     DEF Next, Serve
\* SaveItem makes the first and only item, of a whole file.
LEMMA ItemStep ==
  TypeOK /\ BytesInv /\ HoldInv /\ AtMostOneItem /\ ItemIsWholeFile /\ [Next]_vars
    => (AtMostOneItem /\ ItemIsWholeFile)'
<1> SUFFICES ASSUME TypeOK /\ BytesInv /\ HoldInv, AtMostOneItem /\ ItemIsWholeFile,
                    [Next]_vars
             PROVE  (AtMostOneItem /\ ItemIsWholeFile)'
  OBVIOUS
<1> USE DEF BytesInv, HoldInv, Holding, Promoting, AtMostOneItem,
            ItemIsWholeFile, TypeOK, vars, store, replies,
            janitor, budget, In, Goto, Reply, At, Idle, Handlers,
            Stages, Succeeds, Fails, SucceedsUnseen, Unlink,
            DeleteRow, Staged, Owned
<1>1. ASSUME NEW r \in Requests, CreateStaging(r) PROVE (AtMostOneItem /\ ItemIsWholeFile)'
  BY <1>1 DEF CreateStaging
<1>2. ASSUME NEW r \in Requests, InsertSession(r) PROVE (AtMostOneItem /\ ItemIsWholeFile)'
  BY <1>2 DEF InsertSession
<1>3. ASSUME NEW r \in Requests, UndoStaging(r) PROVE (AtMostOneItem /\ ItemIsWholeFile)'
  BY <1>3 DEF UndoStaging
<1>4. ASSUME NEW r \in Requests, Begin(r) PROVE (AtMostOneItem /\ ItemIsWholeFile)'
  BY <1>4 DEF Begin
<1>5. ASSUME NEW r \in Requests, OpenStaging(r) PROVE (AtMostOneItem /\ ItemIsWholeFile)'
  BY <1>5 DEF OpenStaging
<1>6. ASSUME NEW r \in Requests, CopyChunk(r) PROVE (AtMostOneItem /\ ItemIsWholeFile)'
  <2>1. items' = items /\ place' = place /\ lost' = lost
    BY <1>6 DEF CopyChunk
  <2>2. ASSUME NEW u \in Sessions, content[u] = Chunks PROVE content'[u] = Chunks
    <3>1. content[u] \subseteq content'[u] /\ content'[u] \subseteq Chunks
      BY <1>6, CopyGrows
    <3> QED
      BY <2>2, <3>1
  <2>3. AtMostOneItem'
    BY <2>1
  <2>4. ItemIsWholeFile'
    BY <2>1, <2>2
  <2> QED
    BY <2>3, <2>4
<1>7. ASSUME NEW r \in Requests, RecordChunk(r) PROVE (AtMostOneItem /\ ItemIsWholeFile)'
  BY <1>7 DEF RecordChunk
<1>8. ASSUME NEW r \in Requests, CountChunks(r) PROVE (AtMostOneItem /\ ItemIsWholeFile)'
  BY <1>8 DEF CountChunks
<1>9. ASSUME NEW r \in Requests, StatStaging(r) PROVE (AtMostOneItem /\ ItemIsWholeFile)'
  BY <1>9 DEF StatStaging
<1>10. ASSUME NEW r \in Requests, MoveStaged(r) PROVE (AtMostOneItem /\ ItemIsWholeFile)'
  BY <1>10 DEF MoveStaged
<1>11. ASSUME NEW r \in Requests, SaveItem(r) PROVE (AtMostOneItem /\ ItemIsWholeFile)'
  BY <1>11 DEF SaveItem
<1>12. ASSUME NEW r \in Requests, DiscardOriginal(r) PROVE (AtMostOneItem /\ ItemIsWholeFile)'
  BY <1>12 DEF DiscardOriginal
<1>13. ASSUME NEW r \in Requests, DisposeSession(r) PROVE (AtMostOneItem /\ ItemIsWholeFile)'
  BY <1>13 DEF DisposeSession
<1>14. ASSUME NEW r \in Requests, AbortDelete(r) PROVE (AtMostOneItem /\ ItemIsWholeFile)'
  BY <1>14 DEF AbortDelete
<1>15. ASSUME NEW r \in Requests, AbortRemove(r) PROVE (AtMostOneItem /\ ItemIsWholeFile)'
  BY <1>15 DEF AbortRemove
<1>16. CASE Clean
  BY <1>16 DEF Clean, JanitorList, JanitorDelete, JanitorRemove
<1>17. CASE Crash
  BY <1>17 DEF Crash
<1>18. CASE \E s \in Sessions : Expire(s)
  BY <1>18 DEF Expire
<1>19. CASE UNCHANGED vars
  BY <1>19
<1> QED
  BY <1>1, <1>2, <1>3, <1>4, <1>5, <1>6, <1>7, <1>8, <1>9, <1>10, <1>11, <1>12,
     <1>13, <1>14, <1>15, <1>16, <1>17, <1>18, <1>19
     DEF Next, Serve

\* An acknowledged chunk keeps its receipt as long as the row lives.
LEMMA AckedStep ==
  /\ TypeOK /\ OwnershipInv /\ OpenedInv /\ BytesInv /\ BytesInv'
  /\ AckedChunksKept /\ [Next]_vars
  => AckedChunksKept'
<1> SUFFICES ASSUME TypeOK /\ OwnershipInv /\ OpenedInv, BytesInv, BytesInv',
                    AckedChunksKept, [Next]_vars
             PROVE  AckedChunksKept'
  OBVIOUS
<1> USE DEF OwnershipInv, OpenedInv, Creating, BytesInv, AckedChunksKept,
            TypeOK, vars, store, replies, janitor, budget, In,
            Goto, Reply, At, Idle, Handlers, Stages, Succeeds,
            Fails, SucceedsUnseen, Unlink, DeleteRow, Staged,
            Owned
<1>1. ASSUME NEW r \in Requests, CreateStaging(r) PROVE AckedChunksKept'
  BY <1>1 DEF CreateStaging
<1>2. ASSUME NEW r \in Requests, InsertSession(r) PROVE AckedChunksKept'
  BY <1>2 DEF InsertSession
<1>3. ASSUME NEW r \in Requests, UndoStaging(r) PROVE AckedChunksKept'
  BY <1>3 DEF UndoStaging
<1>4. ASSUME NEW r \in Requests, Begin(r) PROVE AckedChunksKept'
  BY <1>4 DEF Begin
<1>5. ASSUME NEW r \in Requests, OpenStaging(r) PROVE AckedChunksKept'
  BY <1>5 DEF OpenStaging
<1>6. ASSUME NEW r \in Requests, CopyChunk(r) PROVE AckedChunksKept'
  BY <1>6 DEF CopyChunk
<1>7. ASSUME NEW r \in Requests, RecordChunk(r) PROVE AckedChunksKept'
  BY <1>7 DEF RecordChunk
<1>8. ASSUME NEW r \in Requests, CountChunks(r) PROVE AckedChunksKept'
  BY <1>8 DEF CountChunks
<1>9. ASSUME NEW r \in Requests, StatStaging(r) PROVE AckedChunksKept'
  BY <1>9 DEF StatStaging
<1>10. ASSUME NEW r \in Requests, MoveStaged(r) PROVE AckedChunksKept'
  BY <1>10 DEF MoveStaged
<1>11. ASSUME NEW r \in Requests, SaveItem(r) PROVE AckedChunksKept'
  BY <1>11 DEF SaveItem
<1>12. ASSUME NEW r \in Requests, DiscardOriginal(r) PROVE AckedChunksKept'
  BY <1>12 DEF DiscardOriginal
<1>13. ASSUME NEW r \in Requests, DisposeSession(r) PROVE AckedChunksKept'
  BY <1>13 DEF DisposeSession
<1>14. ASSUME NEW r \in Requests, AbortDelete(r) PROVE AckedChunksKept'
  BY <1>14 DEF AbortDelete
<1>15. ASSUME NEW r \in Requests, AbortRemove(r) PROVE AckedChunksKept'
  BY <1>15 DEF AbortRemove
<1>16. CASE Clean
  BY <1>16 DEF Clean, JanitorList, JanitorDelete, JanitorRemove
<1>17. CASE Crash
  BY <1>17 DEF Crash
<1>18. CASE \E s \in Sessions : Expire(s)
  BY <1>18 DEF Expire
<1>19. CASE UNCHANGED vars
  BY <1>19
<1> QED
  BY <1>1, <1>2, <1>3, <1>4, <1>5, <1>6, <1>7, <1>8, <1>9, <1>10, <1>11, <1>12,
     <1>13, <1>14, <1>15, <1>16, <1>17, <1>18, <1>19
     DEF Next, Serve

\* What an abort removed stays removed.
LEMMA AbortStep ==
  TypeOK /\ OwnershipInv /\ OpenedInv /\ AbortLeavesNothingStaged /\ [Next]_vars
    => AbortLeavesNothingStaged'
<1> SUFFICES ASSUME TypeOK /\ OwnershipInv /\ OpenedInv /\ AbortLeavesNothingStaged, [Next]_vars
             PROVE  AbortLeavesNothingStaged'
  OBVIOUS
<1> USE DEF OwnershipInv, OpenedInv, Creating, AbortLeavesNothingStaged,
            TypeOK, vars, store, replies, janitor, budget, In,
            Goto, Reply, At, Idle, Handlers, Stages, Succeeds,
            Fails, SucceedsUnseen, Unlink, DeleteRow, Staged,
            Owned
<1>1. ASSUME NEW r \in Requests, CreateStaging(r) PROVE AbortLeavesNothingStaged'
  BY <1>1 DEF CreateStaging
<1>2. ASSUME NEW r \in Requests, InsertSession(r) PROVE AbortLeavesNothingStaged'
  BY <1>2 DEF InsertSession
<1>3. ASSUME NEW r \in Requests, UndoStaging(r) PROVE AbortLeavesNothingStaged'
  BY <1>3 DEF UndoStaging
<1>4. ASSUME NEW r \in Requests, Begin(r) PROVE AbortLeavesNothingStaged'
  BY <1>4 DEF Begin
<1>5. ASSUME NEW r \in Requests, OpenStaging(r) PROVE AbortLeavesNothingStaged'
  BY <1>5 DEF OpenStaging
<1>6. ASSUME NEW r \in Requests, CopyChunk(r) PROVE AbortLeavesNothingStaged'
  BY <1>6 DEF CopyChunk
<1>7. ASSUME NEW r \in Requests, RecordChunk(r) PROVE AbortLeavesNothingStaged'
  BY <1>7 DEF RecordChunk
<1>8. ASSUME NEW r \in Requests, CountChunks(r) PROVE AbortLeavesNothingStaged'
  BY <1>8 DEF CountChunks
<1>9. ASSUME NEW r \in Requests, StatStaging(r) PROVE AbortLeavesNothingStaged'
  BY <1>9 DEF StatStaging
<1>10. ASSUME NEW r \in Requests, MoveStaged(r) PROVE AbortLeavesNothingStaged'
  BY <1>10 DEF MoveStaged
<1>11. ASSUME NEW r \in Requests, SaveItem(r) PROVE AbortLeavesNothingStaged'
  BY <1>11 DEF SaveItem
<1>12. ASSUME NEW r \in Requests, DiscardOriginal(r) PROVE AbortLeavesNothingStaged'
  BY <1>12 DEF DiscardOriginal
<1>13. ASSUME NEW r \in Requests, DisposeSession(r) PROVE AbortLeavesNothingStaged'
  BY <1>13 DEF DisposeSession
<1>14. ASSUME NEW r \in Requests, AbortDelete(r) PROVE AbortLeavesNothingStaged'
  BY <1>14 DEF AbortDelete
<1>15. ASSUME NEW r \in Requests, AbortRemove(r) PROVE AbortLeavesNothingStaged'
  BY <1>15 DEF AbortRemove
<1>16. CASE Clean
  BY <1>16 DEF Clean, JanitorList, JanitorDelete, JanitorRemove
<1>17. CASE Crash
  BY <1>17 DEF Crash
<1>18. CASE \E s \in Sessions : Expire(s)
  BY <1>18 DEF Expire
<1>19. CASE UNCHANGED vars
  BY <1>19
<1> QED
  BY <1>1, <1>2, <1>3, <1>4, <1>5, <1>6, <1>7, <1>8, <1>9, <1>10, <1>11, <1>12,
     <1>13, <1>14, <1>15, <1>16, <1>17, <1>18, <1>19
     DEF Next, Serve

\* No step but a crash or an unseen commit separates a file from all that
\* would free it.
LEMMA OrphanStep ==
  TypeOK /\ HoldInv /\ ItemIsWholeFile /\ NoOrphanFile /\ [Next]_vars => NoOrphanFile'
<1> SUFFICES ASSUME TypeOK /\ HoldInv /\ ItemIsWholeFile /\ NoOrphanFile, [Next]_vars
             PROVE  NoOrphanFile'
  OBVIOUS
<1> USE DEF HoldInv, Holding, Creating, ItemIsWholeFile, NoOrphanFile,
            Handling, TypeOK, vars, store, replies, janitor,
            budget, In, Goto, Reply, At, Idle, Handlers, Stages,
            Succeeds, Fails, SucceedsUnseen, Unlink, DeleteRow,
            Staged, Owned
<1>1. ASSUME NEW r \in Requests, CreateStaging(r) PROVE NoOrphanFile'
  BY <1>1 DEF CreateStaging
<1>2. ASSUME NEW r \in Requests, InsertSession(r) PROVE NoOrphanFile'
  BY <1>2 DEF InsertSession
<1>3. ASSUME NEW r \in Requests, UndoStaging(r) PROVE NoOrphanFile'
  BY <1>3 DEF UndoStaging
<1>4. ASSUME NEW r \in Requests, Begin(r) PROVE NoOrphanFile'
  BY <1>4 DEF Begin
<1>5. ASSUME NEW r \in Requests, OpenStaging(r) PROVE NoOrphanFile'
  BY <1>5 DEF OpenStaging
<1>6. ASSUME NEW r \in Requests, CopyChunk(r) PROVE NoOrphanFile'
  BY <1>6 DEF CopyChunk
<1>7. ASSUME NEW r \in Requests, RecordChunk(r) PROVE NoOrphanFile'
  BY <1>7 DEF RecordChunk
<1>8. ASSUME NEW r \in Requests, CountChunks(r) PROVE NoOrphanFile'
  BY <1>8 DEF CountChunks
<1>9. ASSUME NEW r \in Requests, StatStaging(r) PROVE NoOrphanFile'
  BY <1>9 DEF StatStaging
<1>10. ASSUME NEW r \in Requests, MoveStaged(r) PROVE NoOrphanFile'
  BY <1>10 DEF MoveStaged
<1>11. ASSUME NEW r \in Requests, SaveItem(r) PROVE NoOrphanFile'
  BY <1>11 DEF SaveItem
<1>12. ASSUME NEW r \in Requests, DiscardOriginal(r) PROVE NoOrphanFile'
  BY <1>12 DEF DiscardOriginal
<1>13. ASSUME NEW r \in Requests, DisposeSession(r) PROVE NoOrphanFile'
  BY <1>13 DEF DisposeSession
<1>14. ASSUME NEW r \in Requests, AbortDelete(r) PROVE NoOrphanFile'
  BY <1>14 DEF AbortDelete
<1>15. ASSUME NEW r \in Requests, AbortRemove(r) PROVE NoOrphanFile'
  BY <1>15 DEF AbortRemove
<1>16. CASE Clean
  <2>1. CASE JanitorList
    BY <2>1 DEF JanitorList
  <2>2. CASE JanitorDelete
    <3>1. PICK s \in batch : JanitorDelete!(s)
      BY <2>2 DEF JanitorDelete
    <3>2. rows \ {s} \subseteq rows' /\ place' = place /\ items' = items /\ req' = req
      BY <3>1
    <3>3. \/ s \in rows' \/ s \in removing' \/ s \notin rows \/ lost' > 0
      BY <3>1
    <3>4. removing = {} /\ crashes' = crashes /\ (lost' = 0 => lost = 0)
      BY <3>1
    <3>5. ASSUME crashes' = 0 /\ lost' = 0, NEW u \in Sessions, Staged(u)'
          PROVE  u \in rows' \cup removing' \/ Handling(u, Creating \cup {"remove"})'
      <4>1. u \in rows \/ Handling(u, Creating \cup {"remove"})
        BY <3>2, <3>4, <3>5
      <4> QED
        BY <3>2, <3>3, <3>5, <4>1
    <3>6. ASSUME crashes' = 0 /\ lost' = 0, NEW u \in Sessions, place'[u] = "original"
          PROVE  items'[u] > 0 \/ Handling(u, Holding)'
      BY <3>2, <3>4, <3>6
    <3> QED
      BY <3>5, <3>6
  <2>3. CASE JanitorRemove
    BY <2>3 DEF JanitorRemove
  <2> QED
    BY <1>16, <2>1, <2>2, <2>3 DEF Clean
<1>17. CASE Crash
  BY <1>17 DEF Crash
<1>18. CASE \E s \in Sessions : Expire(s)
  BY <1>18 DEF Expire
<1>19. CASE UNCHANGED vars
  BY <1>19
<1> QED
  BY <1>1, <1>2, <1>3, <1>4, <1>5, <1>6, <1>7, <1>8, <1>9, <1>10, <1>11, <1>12,
     <1>13, <1>14, <1>15, <1>16, <1>17, <1>18, <1>19
     DEF Next, Serve

\* All parts together: the invariant is inductive.
LEMMA IndInvHolds == Spec => []IndInv
<1>1. Init => IndInv
  BY ChunksAssumption, BoundsAssumption
     DEF Init, IndInv, TypeOK, OwnershipInv, OpenedInv, BytesInv, HoldInv, AtMostOneItem,
         ItemIsWholeFile, AckedChunksKept, AbortLeavesNothingStaged, NoOrphanFile,
         Handlers, Stages, Creating, Promoting, Holding, Idle, In, Staged
<1>2. IndInv /\ [Next]_vars => IndInv'
  BY TypeStep, OwnershipStep, OpenedStep, BytesStep, HoldStep, ItemStep, AckedStep,
     AbortStep, OrphanStep DEF IndInv
<1> QED
  BY <1>1, <1>2, PTL DEF Spec

\* TypeOK: the stores and the handlers keep to the states the code has.
THEOREM TypeCorrect == Spec => []TypeOK
BY IndInvHolds, PTL DEF IndInv

\* AtMostOneItem: however many completions of one upload overlap, and whatever
\* crashes and fails around them, at most one media row is made of it.
THEOREM OneItemPerUpload == Spec => []AtMostOneItem
BY IndInvHolds, PTL DEF IndInv

\* ItemIsWholeFile: the media row of an upload names a file with all of its
\* chunks.
THEOREM ItemsAreWhole == Spec => []ItemIsWholeFile
BY IndInvHolds, PTL DEF IndInv

\* AckedChunksKept: what the server acknowledged is recorded, and what it
\* recorded is in the file, for as long as the session lives.
THEOREM AcknowledgedChunksAreKept == Spec => []AckedChunksKept
BY IndInvHolds, PTL DEF IndInv

\* AbortLeavesNothingStaged: neither the row nor the staging file of an aborted
\* session comes back.
THEOREM AbortIsClean == Spec => []AbortLeavesNothingStaged
BY IndInvHolds, PTL DEF IndInv

\* NoOrphanFile: without crashes and unseen commits every file has an owner,
\* whatever fails.
THEOREM FilesHaveOwners == Spec => []NoOrphanFile
BY IndInvHolds, PTL DEF IndInv
=============================================================================
