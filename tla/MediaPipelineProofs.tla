------------------------ MODULE MediaPipelineProofs ------------------------
(* Proofs about the life of media items for every number of items, workers, *)
(* handlers, edits, restarts and faults and every queue capacity.           *)
EXTENDS MediaPipeline, WorkerPoolProofs, SequenceTheorems

\* What is left of a sequence of several elements is a sequence of some.
LEMMA TailOfLonger ==
  ASSUME NEW S, NEW s \in Seq(S), s # <<>>, Len(s) # 1
  PROVE  Tail(s) \in Seq(S) \ {<<>>}
<1>1. Len(s) \in Nat /\ Len(s) # 0
  BY EmptySeq
<1>2. Tail(s) \in Seq(S) /\ Len(Tail(s)) = Len(s) - 1
  BY <1>1, HeadTailProperties
<1>3. Len(Tail(s)) # 0
  BY <1>1, <1>2
<1>4. Tail(s) # <<>>
  BY <1>3, EmptySeq, Zenon
<1> QED
  BY <1>2, <1>4

\* An element in front makes a sequence of some.
LEMMA ThreeParts ==
  ASSUME NEW S, NEW x \in S, NEW b \in Seq(S), NEW c \in Seq(S)
  PROVE  <<x>> \o b \o c \in Seq(S) \ {<<>>}
<1>1. <<x>> \o b \in Seq(S) /\ Len(<<x>> \o b) = 1 + Len(b) /\ Len(b) \in Nat
  BY ConcatProperties
<1>2. (<<x>> \o b) \o c \in Seq(S) /\ Len((<<x>> \o b) \o c) = 1 + Len(b) + Len(c)
  BY <1>1, ConcatProperties
<1>3. Len(c) \in Nat
  OBVIOUS
<1> QED
  BY <1>1, <1>2, <1>3

\* What a handler's record is at each of its stages.
LEMMA HandlerShape ==
  ASSUME req \in [Requests -> Handlers], NEW r \in Requests
  PROVE  /\ In(r, "idle") <=> req[r] = Idle
         /\ ~In(r, "idle") => req[r].m \in Jobs
         /\ req[r].stage \in {"save", "enqueue"} =>
              req[r] = [stage |-> req[r].stage, m |-> req[r].m]
         /\ req[r].stage \in Editing =>
              /\ req[r].snap \in Rows /\ req[r].mark \in Marks
              /\ req[r] = [stage |-> req[r].stage, m |-> req[r].m,
                           snap |-> req[r].snap, mark |-> req[r].mark]
         /\ In(r, "unlink") =>
              /\ req[r].left \in Seq({"original", "thumb", "hls"}) \ {<<>>}
              /\ req[r] = [stage |-> "unlink", m |-> req[r].m, left |-> req[r].left]
         /\ In(r, "idle") \/ req[r].stage \in {"save", "enqueue", "unlink"}
                          \/ req[r].stage \in Editing
<1>1. req[r] \in Handlers
  OBVIOUS
<1>2. CASE req[r] = Idle
  BY <1>2 DEF In, Idle, Editing
<1>3. CASE req[r] \in [stage : {"save", "enqueue"}, m : Jobs]
  BY <1>3 DEF In, Idle, Editing
<1>4. CASE req[r] \in [stage : Editing, m : Jobs, snap : Rows, mark : Marks]
  BY <1>4 DEF In, Idle, Editing
<1>5. CASE req[r] \in [stage : {"unlink"}, m : Jobs,
                       left : Seq({"original", "thumb", "hls"}) \ {<<>>}]
  BY <1>5 DEF In, Idle, Editing
<1> QED
  BY <1>1, <1>2, <1>3, <1>4, <1>5 DEF Handlers, Editing

\* A worker's step record, and the job it is on.
LEMMA ProcShape ==
  ASSUME proc \in [Workers -> Procs], NEW w \in Workers
  PROVE  /\ proc[w].stage \in Steps =>
              proc[w].snap \in Rows /\ proc[w] # NoProc
         /\ proc[w] = NoProc <=> At(w, "none")
         /\ proc[w].stage \in {"none", "find"} \cup Steps
<1>1. proc[w] \in Procs
  OBVIOUS
<1>2. CASE proc[w] = NoProc
  BY <1>2 DEF At, NoProc, Steps
<1>3. CASE proc[w] = [stage |-> "find"]
  BY <1>3 DEF At, NoProc, Steps
<1>4. CASE proc[w] \in [stage : Steps, snap : Rows]
  BY <1>4 DEF At, NoProc, Steps
<1> QED
  BY <1>1, <1>2, <1>3, <1>4 DEF Procs
\* What Update and a change of the favorite flag write is a row.
LEMMA UpdateShape ==
  ASSUME row \in [Jobs -> {NoRow} \cup Rows], NEW m \in Jobs, Exists(m),
         NEW item \in Rows, NEW on \in BOOLEAN
  PROVE  /\ row[m] \in Rows
         /\ [item EXCEPT !.fav = row[m].fav] \in Rows
         /\ [row EXCEPT ![m].fav = on] = [row EXCEPT ![m] = [row[m] EXCEPT !.fav = on]]
         /\ [row[m] EXCEPT !.fav = on] \in Rows
         /\ \A s \in {"pending", "processing", "ready", "failed"} :
              [item EXCEPT !.status = s] \in Rows
         /\ [item EXCEPT !.title = "renamed"] \in Rows
         /\ [item EXCEPT !.thumb = TRUE] \in Rows
         /\ [item EXCEPT !.hls = TRUE] \in Rows
<1>1. row[m] \in Rows
  BY DEF Exists
<1> QED
  BY <1>1 DEF Rows
-----------------------------------------------------------------------------
(* Type correctness, by action.                                            *)

LEMMA CreateTypeStep ==
  ASSUME TypeOK, NEW r \in Requests,
         StoreOriginal(r) \/ SaveItem(r) \/ EnqueueItem(r) \/ Unlink(r)
  PROVE  TypeOK'
<1> USE DEF TypeOK
<1>1. CASE StoreOriginal(r)
  BY <1>1 DEF StoreOriginal, work, server, history, pool, PoolTypeOK, Handlers
<1>2. CASE SaveItem(r)
  <2>0. req[r] = [stage |-> "save", m |-> req[r].m] /\ req[r].m \in Jobs
    BY <1>2, HandlerShape DEF SaveItem, In
  <2>1. [req EXCEPT ![r].stage = "enqueue"] \in [Requests -> Handlers]
    BY <2>0 DEF Handlers
  <2>2. [req EXCEPT ![r] = Idle] \in [Requests -> Handlers]
    BY DEF Handlers
  <2>3. NewRow \in Rows
    BY DEF NewRow, Rows
  <2> QED
    BY <1>2, <2>0, <2>1, <2>2, <2>3, BoundsAssumption
       DEF SaveItem, Reply, Fault, NoFault, work, server, pool, PoolTypeOK
<1>3. CASE EnqueueItem(r)
  <2>0. req[r].m \in Jobs
    BY <1>3, HandlerShape DEF EnqueueItem, In
  <2>1. PoolTypeOK'
    BY <1>3, <2>0, EnqueueStep DEF EnqueueItem, pool, PoolTypeOK
  <2>2. req' \in [Requests -> Handlers]
    BY <1>3 DEF EnqueueItem, Reply, Handlers
  <2> QED
    BY <1>3, <2>0, <2>1, <2>2 DEF EnqueueItem, stores, server
<1>4. CASE Unlink(r)
  <2>0. /\ req[r].m \in Jobs
        /\ req[r].left \in Seq({"original", "thumb", "hls"}) \ {<<>>}
        /\ req[r] = [stage |-> "unlink", m |-> req[r].m, left |-> req[r].left]
    BY <1>4, HandlerShape DEF Unlink, In
  <2>1. req' \in [Requests -> Handlers]
    <3>1. CASE Len(req[r].left) = 1
      BY <1>4, <3>1 DEF Unlink, Reply, Handlers
    <3>2. CASE Len(req[r].left) # 1
      <4>1. Tail(req[r].left) \in Seq({"original", "thumb", "hls"}) \ {<<>>}
        BY <2>0, <3>2, TailOfLonger
      <4>2. req' = [req EXCEPT ![r] =
                     [stage |-> "unlink", m |-> req[r].m, left |-> Tail(req[r].left)]]
        BY <1>4, <2>0, <3>2 DEF Unlink
      <4> QED
        BY <2>0, <4>1, <4>2 DEF Handlers
    <3> QED
      BY <3>1, <3>2
  <2>2. files' \in [Jobs -> SUBSET {"original", "thumb", "hls"}]
    BY <1>4 DEF Unlink
  <2> QED
    BY <1>4, <2>1, <2>2 DEF Unlink, work, server, history, pool, PoolTypeOK
<1> QED
  BY <1>1, <1>2, <1>3, <1>4

LEMMA EditTypeStep ==
  ASSUME TypeOK, NEW r \in Requests,
         BeginEdit(r) \/ Retitle(r) \/ SetFavorite(r) \/ DeleteRow(r) \/ GiveUp(r)
  PROVE  TypeOK'
<1> USE DEF TypeOK
<1>1. CASE BeginEdit(r)
  <2>1. req' \in [Requests -> Handlers]
    BY <1>1 DEF BeginEdit, Handlers, Exists
  <2>2. edits' \in 0 .. MaxEdits
    BY <1>1, BoundsAssumption DEF BeginEdit
  <2> QED
    BY <1>1, <2>1, <2>2 DEF BeginEdit, stores, work, history, pool, PoolTypeOK
<1>2. CASE Retitle(r)
  <2>0. /\ req[r].m \in Jobs /\ req[r].snap \in Rows /\ req[r].mark \in Marks
        /\ req[r] = [stage |-> "retitle", m |-> req[r].m,
                     snap |-> req[r].snap, mark |-> req[r].mark]
    BY <1>2, HandlerShape DEF Retitle, In, Editing
  <2>1. [req EXCEPT ![r].stage = "favorite"] \in [Requests -> Handlers]
    BY <2>0 DEF Handlers
  <2>2. [req EXCEPT ![r] = Idle] \in [Requests -> Handlers]
    BY DEF Handlers
  <2>3. row' \in [Jobs -> {NoRow} \cup Rows]
    <3> DEFINE item == [req[r].snap EXCEPT !.title = "renamed"]
    <3>1. item \in Rows
      BY <2>0 DEF Rows
    <3> HIDE DEF item
    <3>2. CASE Exists(req[r].m) /\ Update(req[r].m, item)
      BY <2>0, <3>1, <3>2, UpdateShape DEF Update
    <3> QED
      BY <1>2, <3>2 DEF Retitle, item
  <2>4. adrift' \subseteq Jobs
    BY <1>2, <2>0 DEF Retitle
  <2>5. req' \in [Requests -> Handlers]
    BY <1>2, <2>1, <2>2 DEF Retitle, Reply
  <2> QED
    BY <1>2, <2>3, <2>4, <2>5 DEF Retitle, work, server, pool, PoolTypeOK
<1>3. CASE SetFavorite(r)
  <2>0. req[r].m \in Jobs
    BY <1>3, HandlerShape DEF SetFavorite, In
  <2>1. row' \in [Jobs -> {NoRow} \cup Rows] /\ liked' \in [Jobs -> BOOLEAN]
    <3> DEFINE m == req[r].m
               on == req[r].mark = "on"
    <3>1. CASE Exists(m) /\ row' = [row EXCEPT ![m].fav = on] /\ liked' = [liked EXCEPT ![m] = on]
      <4>1. PICK item \in Rows : item = row[m]
        BY <2>0, <3>1 DEF Exists
      <4>2. row' = [row EXCEPT ![m] = [row[m] EXCEPT !.fav = on]]
        BY <3>1
      <4>3. [row[m] EXCEPT !.fav = on] \in Rows
        BY <4>1 DEF Rows
      <4> QED
        BY <2>0, <3>1, <4>2, <4>3
    <3> QED
      BY <1>3, <3>1 DEF SetFavorite
  <2> QED
    BY <1>3, <2>1 DEF SetFavorite, Reply, Handlers, work, server, pool, PoolTypeOK
<1>4. CASE DeleteRow(r)
  <2>0. req[r].m \in Jobs /\ req[r].snap \in Rows
    BY <1>4, HandlerShape DEF DeleteRow, In, Editing
  <2> DEFINE item == req[r].snap
             left == <<"original">> \o (IF item.thumb THEN <<"thumb">> ELSE <<>>)
                                    \o (IF item.hls THEN <<"hls">> ELSE <<>>)
  <2>1. left \in Seq({"original", "thumb", "hls"}) \ {<<>>}
    <3> DEFINE b == IF item.thumb THEN <<"thumb">> ELSE <<>>
               c == IF item.hls THEN <<"hls">> ELSE <<>>
    <3>1. b \in Seq({"original", "thumb", "hls"}) /\ c \in Seq({"original", "thumb", "hls"})
      <4>1. /\ <<"thumb">> \in Seq({"original", "thumb", "hls"})
            /\ <<"hls">> \in Seq({"original", "thumb", "hls"})
            /\ <<>> \in Seq({"original", "thumb", "hls"})
        OBVIOUS
      <4> QED
        BY <4>1
    <3> HIDE DEF b, c
    <3>2. <<"original">> \o b \o c \in Seq({"original", "thumb", "hls"}) \ {<<>>}
      BY <3>1, ThreeParts
    <3> QED
      BY <3>2 DEF b, c
  <2>2. [req EXCEPT ![r] = [stage |-> "unlink", m |-> req[r].m, left |-> left]]
          \in [Requests -> Handlers]
    BY <2>0, <2>1 DEF Handlers
  <2>3. [req EXCEPT ![r] = Idle] \in [Requests -> Handlers]
    BY DEF Handlers
  <2> HIDE DEF left
  <2>4. req' \in [Requests -> Handlers]
    BY <1>4, <2>2, <2>3 DEF DeleteRow, Reply, left
  <2> QED
    BY <1>4, <2>4 DEF DeleteRow, work, server, history, pool, PoolTypeOK
<1>5. CASE GiveUp(r)
  <2>1. faults' \in 0 .. MaxFaults
    BY <1>5, BoundsAssumption DEF GiveUp, Fault
  <2> QED
    BY <1>5, <2>1 DEF GiveUp, Reply, Handlers, work, server, history, pool, PoolTypeOK
<1> QED
  BY <1>1, <1>2, <1>3, <1>4, <1>5

\* The ways a step of a worker ends.
LEMMA StepEnds ==
  ASSUME TypeOK, NEW w \in Workers
  PROVE  /\ Return(w) => PoolTypeOK' /\ proc' \in [Workers -> Procs] /\ late' \subseteq Workers
         /\ \A stage \in Steps, item \in Rows : Go(w, stage, item) =>
              PoolTypeOK' /\ proc' \in [Workers -> Procs] /\ late' \subseteq Workers
         /\ Fault => faults' \in 0 .. MaxFaults
         /\ NoFault => faults' \in 0 .. MaxFaults
         /\ Works(w) => faults' \in 0 .. MaxFaults
         /\ Breaks(w) => faults' \in 0 .. MaxFaults
         /\ worker[w].at = "running" => Item(w) \in Jobs /\ worker[w] = Running(Item(w))
<1> USE DEF TypeOK
<1>1. ASSUME Return(w)
      PROVE  PoolTypeOK' /\ proc' \in [Workers -> Procs] /\ late' \subseteq Workers
  <2>1. PoolTypeOK'
    BY <1>1, OtherPoolSteps DEF Return
  <2> QED
    BY <1>1, <2>1 DEF Return, Procs
<1>2. ASSUME NEW stage \in Steps, NEW item \in Rows, Go(w, stage, item)
      PROVE  PoolTypeOK' /\ proc' \in [Workers -> Procs] /\ late' \subseteq Workers
  BY <1>2 DEF Go, Procs, pool, PoolTypeOK
<1>3. (Fault \/ NoFault) => faults' \in 0 .. MaxFaults
  BY BoundsAssumption DEF Fault, NoFault
<1>4. worker[w].at = "running" => Item(w) \in Jobs /\ worker[w] = Running(Item(w))
  BY DEF Item, PoolTypeOK, Waiting, Stopped, Running
<1> QED
  BY <1>1, <1>2, <1>3, <1>4 DEF Works, Breaks

\* A worker at a step is running.
LEMMA AtWork ==
  ASSUME TypeOK, PhaseInv, NEW w \in Workers, proc[w] # NoProc
  PROVE  /\ Item(w) \in Jobs /\ Runs(w, Item(w))
         /\ \A m : Runs(w, m) => m = Item(w)
<1>1. worker[w].at = "running"
  BY DEF PhaseInv
<1> QED
  BY <1>1, StepEnds DEF Runs, Item, Running

LEMMA WorkerTypeStep ==
  ASSUME TypeOK, PhaseInv, NEW w \in Workers, Work(w) \/ Expire(w) \/ Panic(w)
  PROVE  TypeOK'
<1> USE DEF TypeOK
<1> DEFINE m == Item(w)
           item == proc[w].snap
<1>1. CASE TakeJob(w)
  BY <1>1, TakeStep DEF TakeJob, Procs, stores, server, history
<1>2. CASE Find(w)
  <2>1. m \in Jobs
    BY <1>2, ProcShape, AtWork DEF Find, At, NoProc
  <2>2. CASE Works(w) /\ Exists(m) /\ Go(w, "begin", [row[m] EXCEPT !.status = "processing"])
    <3>1. [row[m] EXCEPT !.status = "processing"] \in Rows
      BY <2>1, <2>2 DEF Exists, Rows
    <3>2. PoolTypeOK' /\ proc' \in [Workers -> Procs] /\ late' \subseteq Workers
          /\ faults' \in 0 .. MaxFaults
      BY <2>2, <3>1, StepEnds DEF Steps
    <3> QED
      BY <1>2, <2>1, <3>2 DEF Find, stores, server, Strand
  <2>3. CASE (Works(w) \/ Breaks(w)) /\ Return(w)
    BY <1>2, <2>1, <2>3, StepEnds DEF Find, stores, server, Strand
  <2> QED
    BY <1>2, <2>2, <2>3 DEF Find, Strand
<1>3. CASE BeginProcessing(w) \/ SaveFailure(w) \/ SaveReady(w)
  <2>0. proc[w].stage \in {"begin", "fail", "ready"}
    BY <1>3 DEF BeginProcessing, SaveFailure, SaveReady, At
  <2>1. m \in Jobs /\ item \in Rows
    BY <2>0, ProcShape, AtWork DEF Steps
  <2>2. PICK new \in Rows : \/ UNCHANGED row
                            \/ Exists(m) /\ row' = [row EXCEPT ![m] = [new EXCEPT !.fav = row[m].fav]]
    <3>1. [item EXCEPT !.status = "failed"] \in Rows /\ [item EXCEPT !.status = "ready"] \in Rows
      BY <2>1 DEF Rows
    <3> QED
      BY <1>3, <2>1, <3>1 DEF BeginProcessing, SaveFailure, SaveReady, Update, MayUpdate
  <2>3. row' \in [Jobs -> {NoRow} \cup Rows]
    <3>1. ASSUME Exists(m) PROVE [new EXCEPT !.fav = row[m].fav] \in Rows
      BY <2>1, <3>1, UpdateShape
    <3>2. \/ row' = row
          \/ /\ [new EXCEPT !.fav = row[m].fav] \in Rows
             /\ row' = [row EXCEPT ![m] = [new EXCEPT !.fav = row[m].fav]]
      BY <2>2, <3>1
    <3> QED
      BY <2>1, <3>2
  <2>4. /\ PoolTypeOK' /\ proc' \in [Workers -> Procs] /\ late' \subseteq Workers
        /\ faults' \in 0 .. MaxFaults
    BY <1>3, <2>1, StepEnds DEF BeginProcessing, SaveFailure, SaveReady, Strand, Steps
  <2>5. adrift' \subseteq Jobs
    BY <1>3, <2>1 DEF BeginProcessing, SaveFailure, SaveReady, Strand
  <2> QED
    BY <1>3, <2>3, <2>4, <2>5 DEF BeginProcessing, SaveFailure, SaveReady, server
<1>4. CASE Probe(w) \/ Thumbnail(w) \/ CreateHLSDir(w) \/ EncodeHLS(w)
  <2>0. proc[w].stage \in {"probe", "thumb", "hls", "encode"}
    BY <1>4 DEF Probe, Thumbnail, CreateHLSDir, EncodeHLS, At
  <2>1. m \in Jobs /\ item \in Rows
    BY <2>0, ProcShape, AtWork DEF Steps
  <2>2. [item EXCEPT !.thumb = TRUE] \in Rows /\ [item EXCEPT !.hls = TRUE] \in Rows
    BY <2>1 DEF Rows
  <2>3. PICK stage \in Steps, new \in Rows : Go(w, stage, new)
    BY <1>4, <2>1, <2>2 DEF Probe, Thumbnail, CreateHLSDir, EncodeHLS, Steps
  <2>4. PoolTypeOK' /\ proc' \in [Workers -> Procs] /\ late' \subseteq Workers
    BY <2>3, StepEnds
  <2>5. files' \in [Jobs -> SUBSET {"original", "thumb", "hls"}]
    BY <1>4, <2>1 DEF Probe, Thumbnail, CreateHLSDir, EncodeHLS, stores
  <2> QED
    BY <1>4, <2>4, <2>5 DEF Probe, Thumbnail, CreateHLSDir, EncodeHLS, stores, server, history
<1>5. CASE StopWorker(w)
  BY <1>5, OtherPoolSteps DEF StopWorker, stores, server, history
<1>6. CASE Expire(w)
  BY <1>6 DEF Expire, stores, server, history, pool, PoolTypeOK
<1>7. CASE Panic(w)
  <2>1. m \in Jobs
    BY <1>7, AtWork DEF Panic
  <2>2. /\ PoolTypeOK' /\ proc' \in [Workers -> Procs] /\ late' \subseteq Workers
        /\ faults' \in 0 .. MaxFaults
    BY <1>7, StepEnds DEF Panic, Strand
  <2> QED
    BY <1>7, <2>1, <2>2 DEF Panic, Strand, stores, server
<1> QED
  BY <1>1, <1>2, <1>3, <1>4, <1>5, <1>6, <1>7 DEF Work, Process

LEMMA ServerTypeStep ==
  ASSUME TypeOK, Boot \/ Recover \/ Listen \/ Signal \/ CloseQueue \/ Exit \/ Crash
  PROVE  TypeOK'
<1> USE DEF TypeOK
<1>1. CASE Boot
  <2>1. PoolTypeOK'
    BY <1>1 DEF Boot, PoolTypeOK
  <2>2. faults' \in 0 .. MaxFaults
    BY <1>1, BoundsAssumption DEF Boot, Fault, NoFault
  <2> QED
    BY <1>1, <2>1, <2>2 DEF Boot, stores
<1>2. CASE Recover
  <2>1. PICK m \in todo : \/ Enqueue(m) /\ todo' = todo \ {m} /\ UNCHANGED adrift
                          \/ Full /\ todo' = {} /\ adrift' = adrift \cup todo /\ UNCHANGED pool
    BY <1>2 DEF Recover
  <2>2. PoolTypeOK'
    BY <2>1, EnqueueStep DEF pool, PoolTypeOK
  <2> QED
    BY <1>2, <2>1, <2>2 DEF Recover, stores
<1>3. CASE Listen
  BY <1>3 DEF Listen, stores, work, history, pool, PoolTypeOK
<1>4. CASE Signal
  <2>1. restarts' \in 0 .. MaxRestarts
    BY <1>4, BoundsAssumption DEF Signal
  <2> QED
    BY <1>4, <2>1, OtherPoolSteps DEF Signal, stores
<1>5. CASE CloseQueue
  BY <1>5, OtherPoolSteps DEF CloseQueue, stores, history
<1>6. CASE Exit \/ Crash
  <2>1. Halt
    BY <1>6 DEF Exit, Crash
  <2>2. restarts' \in 0 .. MaxRestarts
    BY <1>6, BoundsAssumption DEF Exit, Crash
  <2>3. PoolTypeOK'
    <3>1. queue' \in Seq(Jobs) /\ Len(queue') = 0
      BY <2>1, EmptySeq DEF Halt
    <3>2. Len(queue') <= QueueCap
      BY <3>1, PoolAssumption
    <3> QED
      BY <2>1, <3>1, <3>2 DEF Halt, PoolTypeOK
  <2>4. req' \in [Requests -> Handlers] /\ proc' \in [Workers -> Procs]
    BY <2>1 DEF Halt, Handlers, Procs
  <2> QED
    BY <2>1, <2>2, <2>3, <2>4 DEF Halt, stores, history
<1> QED
  BY <1>1, <1>2, <1>3, <1>4, <1>5, <1>6

LEMMA TypeStep ==
  ASSUME TypeOK, PhaseInv, [Next]_vars
  PROVE  TypeOK'
<1>1. CASE UNCHANGED vars
  BY <1>1 DEF vars, stores, work, server, history, pool, TypeOK, PoolTypeOK
<1> QED
  BY <1>1, CreateTypeStep, EditTypeStep, WorkerTypeStep, ServerTypeStep DEF Next, Handle
-----------------------------------------------------------------------------
(* What the server's phases mean for what is in memory.                    *)

LEMMA PhaseStep ==
  ASSUME TypeOK, PhaseInv, [Next]_vars
  PROVE  PhaseInv'
<1> USE DEF TypeOK, PoolTypeOK
<1>0. /\ Waiting.at = "select" /\ Stopped.at = "stopped"
      /\ \A j : Running(j).at = "running"
  BY DEF Waiting, Stopped, Running
<1>1. ASSUME NEW r \in Requests,
             \/ StoreOriginal(r) \/ SaveItem(r) \/ EnqueueItem(r) \/ Unlink(r)
             \/ BeginEdit(r) \/ Retitle(r) \/ SetFavorite(r) \/ DeleteRow(r) \/ GiveUp(r)
      PROVE  PhaseInv'
  <2>1. UNCHANGED <<phase, todo, proc, worker>>
    BY <1>1 DEF StoreOriginal, SaveItem, EnqueueItem, Unlink, BeginEdit, Retitle, SetFavorite,
                DeleteRow, GiveUp, Enqueue, pool, work, server
  <2>2. phase \notin {"boot", "down"}
    BY <1>1, HandlerShape
       DEF StoreOriginal, SaveItem, EnqueueItem, Unlink, BeginEdit, Retitle, SetFavorite,
           DeleteRow, GiveUp, In, PhaseInv, Idle
  <2> QED
    BY <2>1, <2>2 DEF PhaseInv
<1>2. ASSUME NEW w \in Workers, Work(w) \/ Expire(w) \/ Panic(w)
      PROVE  PhaseInv'
  <2>1. UNCHANGED <<phase, todo, req>>
    BY <1>2 DEF Work, Process, TakeJob, Find, BeginProcessing, Probe, Thumbnail, CreateHLSDir,
                EncodeHLS, SaveFailure, SaveReady, StopWorker, Expire, Panic, server
  <2>2. CASE Return(w)
    <3>1. worker[w].at = "running" /\ worker' = [worker EXCEPT ![w] = Waiting] /\ queue' = queue
      BY <2>2 DEF Return, Finish
    <3>2. proc' = [proc EXCEPT ![w] = NoProc]
      BY <2>2 DEF Return
    <3> QED
      BY <1>0, <2>1, <3>1, <3>2 DEF PhaseInv
  <2>3. ASSUME NEW stage \in Steps, NEW item, Go(w, stage, item), proc[w] # NoProc
        PROVE  PhaseInv'
    <3>1. [stage |-> stage, snap |-> item] # NoProc
      BY DEF NoProc, Steps
    <3> QED
      BY <2>1, <2>3, <3>1 DEF PhaseInv, Go, pool
  <2>4. CASE TakeJob(w)
    <3>1. PICK j \in Jobs : worker[w] = Waiting /\ worker' = [worker EXCEPT ![w] = Running(j)]
      BY <2>4, TakeStep DEF TakeJob
    <3>2. [stage |-> "find"] # NoProc
      BY DEF NoProc
    <3> QED
      BY <1>0, <2>1, <2>4, <3>1, <3>2 DEF PhaseInv, TakeJob, Take
  <2>5. CASE StopWorker(w)
    <3>1. worker[w] = Waiting /\ worker' = [worker EXCEPT ![w] = Stopped] /\ queue' = queue
      BY <2>5 DEF StopWorker, Stop
    <3> QED
      BY <1>0, <2>1, <2>5, <3>1 DEF PhaseInv, StopWorker
  <2>6. CASE Expire(w)
    BY <2>1, <2>6 DEF PhaseInv, Expire, pool
  <2>7. CASE Process(w) \/ Panic(w)
    <3>1. proc[w] # NoProc
      BY <2>7 DEF Process, Find, BeginProcessing, Probe, Thumbnail, CreateHLSDir,
                  EncodeHLS, SaveFailure, SaveReady, Panic, At, NoProc
    <3>2. Return(w) \/ \E stage \in Steps : \E item : Go(w, stage, item)
      BY <2>7 DEF Process, Find, BeginProcessing, Probe, Thumbnail, CreateHLSDir,
                  EncodeHLS, SaveFailure, SaveReady, Panic, Strand, Steps
    <3> QED
      BY <2>2, <2>3, <3>1, <3>2
  <2> QED
    BY <1>2, <2>4, <2>5, <2>6, <2>7 DEF Work
<1>3. CASE Boot
  BY <1>0, <1>3 DEF Boot, PhaseInv
<1>4. CASE Recover
  BY <1>4 DEF Recover, Enqueue, PhaseInv, pool
<1>5. CASE Listen \/ Signal \/ CloseQueue
  BY <1>5 DEF Listen, Signal, CloseQueue, Cancel, Close, PhaseInv, work, pool
<1>6. CASE Exit \/ Crash
  BY <1>0, <1>6 DEF Exit, Crash, Halt, PhaseInv
<1>7. CASE UNCHANGED vars
  BY <1>7 DEF vars, work, server, pool, PhaseInv
<1> QED
  BY <1>1, <1>2, <1>3, <1>4, <1>5, <1>6, <1>7 DEF Next, Handle
-----------------------------------------------------------------------------
(* One claim per item.                                                     *)

\* The step makes no new claim on any item.
NoNewClaim ==
  /\ NoRepeats => NoRepeats'
  /\ \A m \in Jobs : Queued(m)' => Queued(m)
  /\ \A w \in Workers, m \in Jobs : Runs(w, m)' => Runs(w, m)
  /\ todo' \subseteq todo
  /\ \A r \in Requests, m \in Jobs : Carries(r, m)' => Carries(r, m)
  /\ saved' = saved

LEMMA NoNewClaimStep ==
  ASSUME TypeOK, ClaimInv, NoNewClaim
  PROVE  ClaimInv' /\ \A m \in Jobs : Claimed(m)' => Claimed(m)
<1>1. \A m \in Jobs : Claimed(m)' => Claimed(m)
  BY DEF NoNewClaim, Claimed, OnWorker
<1>2. OneWorkerPerItem'
  BY DEF NoNewClaim, ClaimInv, OneWorkerPerItem, OnWorker
<1> QED
  BY <1>1, <1>2 DEF NoNewClaim, ClaimInv, OnWorker, TypeOK

\* All steps but the moves of an item from one place to the next.
LEMMA StepsWithoutClaim ==
  ASSUME TypeOK, PhaseInv,
         \/ \E r \in Requests : \/ SaveItem(r) \/ Unlink(r) \/ BeginEdit(r) \/ Retitle(r)
                                \/ SetFavorite(r) \/ DeleteRow(r) \/ GiveUp(r)
         \/ \E w \in Workers : Process(w) \/ StopWorker(w) \/ Expire(w) \/ Panic(w)
         \/ Listen \/ Signal \/ CloseQueue \/ Exit \/ Crash \/ UNCHANGED vars
  PROVE  NoNewClaim
<1> USE DEF TypeOK
<1>0. ASSUME queue' = queue
      PROVE  (NoRepeats => NoRepeats') /\ \A m \in Jobs : Queued(m)' => Queued(m)
  BY <1>0 DEF NoRepeats, Queued
<1>1. ASSUME NEW r \in Requests,
             \/ SaveItem(r) \/ Unlink(r) \/ BeginEdit(r) \/ Retitle(r)
             \/ SetFavorite(r) \/ DeleteRow(r) \/ GiveUp(r)
      PROVE  NoNewClaim
  <2>1. UNCHANGED <<queue, worker, todo, saved>>
    BY <1>1 DEF SaveItem, Unlink, BeginEdit, Retitle, SetFavorite, DeleteRow, GiveUp,
                stores, work, server, pool
  <2>2. \A q \in Requests, m \in Jobs : Carries(q, m)' => Carries(q, m)
    <3>1. req'[r].stage \in {"save", "enqueue"} =>
            req[r].stage \in {"save", "enqueue"} /\ req'[r].m = req[r].m
      <4>1. CASE SaveItem(r)
        <5>1. req[r] = [stage |-> "save", m |-> req[r].m]
          BY <4>1, HandlerShape DEF SaveItem, In
        <5> QED
          BY <4>1, <5>1 DEF SaveItem, Reply, Idle, In
      <4>2. CASE Retitle(r)
        <5>1. req[r] = [stage |-> "retitle", m |-> req[r].m,
                        snap |-> req[r].snap, mark |-> req[r].mark]
          BY <4>2, HandlerShape DEF Retitle, In, Editing
        <5> QED
          BY <4>2, <5>1 DEF Retitle, Reply, Idle
      <4>3. CASE Unlink(r)
        <5>1. req[r] = [stage |-> "unlink", m |-> req[r].m, left |-> req[r].left]
          BY <4>3, HandlerShape DEF Unlink, In
        <5> QED
          BY <4>3, <5>1 DEF Unlink, Reply, Idle
      <4>4. CASE BeginEdit(r) \/ SetFavorite(r) \/ DeleteRow(r) \/ GiveUp(r)
        BY <4>4 DEF BeginEdit, SetFavorite, DeleteRow, GiveUp, Reply, Idle
      <4> QED
        BY <1>1, <4>1, <4>2, <4>3, <4>4
    <3>2. \A q \in Requests \ {r} : req'[q] = req[q]
      BY <1>1 DEF SaveItem, Unlink, BeginEdit, Retitle, SetFavorite, DeleteRow, GiveUp, Reply
    <3> QED
      BY <3>1, <3>2 DEF Carries
  <2> QED
    BY <1>0, <2>1, <2>2 DEF NoNewClaim, Runs
<1>2. ASSUME NEW w \in Workers, Process(w) \/ StopWorker(w) \/ Expire(w) \/ Panic(w)
      PROVE  NoNewClaim
  <2>1. UNCHANGED <<req, todo, saved>>
    BY <1>2 DEF Process, Find, BeginProcessing, Probe, Thumbnail, CreateHLSDir, EncodeHLS,
                SaveFailure, SaveReady, StopWorker, Expire, Panic, stores, server
  <2>2. /\ queue' = queue
        /\ worker' \in {worker, [worker EXCEPT ![w] = Waiting], [worker EXCEPT ![w] = Stopped]}
    BY <1>2 DEF Process, Find, BeginProcessing, Probe, Thumbnail, CreateHLSDir, EncodeHLS,
                SaveFailure, SaveReady, StopWorker, Expire, Panic,
                Strand, Return, Finish, Stop, Go, pool
  <2>3. \A j : Waiting # Running(j) /\ Stopped # Running(j)
    BY DEF Waiting, Stopped, Running
  <2>4. \A v \in Workers, m \in Jobs : Runs(v, m)' => Runs(v, m)
    BY <2>2, <2>3 DEF Runs, PoolTypeOK
  <2> QED
    BY <1>0, <2>1, <2>2, <2>4 DEF NoNewClaim, Carries
<1>3. CASE Listen \/ Signal \/ CloseQueue \/ UNCHANGED vars
  <2>1. UNCHANGED <<queue, worker, req, todo, saved>>
    BY <1>3 DEF Listen, Signal, CloseQueue, vars, work, server, stores, pool, Cancel, Close
  <2> QED
    BY <1>0, <2>1 DEF NoNewClaim, Runs, Carries
<1>4. CASE Exit \/ Crash
  <2>1. /\ queue' = <<>> /\ worker' = [w \in Workers |-> Stopped] /\ todo' = {} /\ saved' = saved
        /\ req' = [r \in Requests |-> Idle]
    BY <1>4 DEF Exit, Crash, Halt, stores
  <2>2. Len(queue') = 0
    BY <2>1, EmptySeq
  <2> QED
    BY <2>1, <2>2 DEF NoNewClaim, NoRepeats, Queued, Runs, Carries, Stopped, Running, Idle
<1> QED
  BY <1>1, <1>2, <1>3, <1>4

\* The steps that move an item on, and those that make a claim.
LEMMA MovesKeepClaims ==
  ASSUME TypeOK, ClaimInv,
         (\E r \in Requests : EnqueueItem(r)) \/ (\E w \in Workers : TakeJob(w)) \/ Recover
  PROVE  ClaimInv' /\ \A m \in Jobs : Claimed(m)' => Claimed(m)
<1> USE DEF TypeOK
<1>1. ASSUME NEW r \in Requests, EnqueueItem(r)
      PROVE  ClaimInv' /\ \A m \in Jobs : Claimed(m)' => Claimed(m)
  <2> DEFINE j == req[r].m
  <2>1. /\ j \in Jobs /\ Carries(r, j) /\ todo' = todo /\ saved' = saved
        /\ req' = [req EXCEPT ![r] = Idle]
        /\ Enqueue(j) \/ UNCHANGED pool
    BY <1>1, HandlerShape DEF EnqueueItem, In, Carries, Reply, stores, server
  <2>2. \A q \in Requests, m \in Jobs : Carries(q, m)' <=> (q # r /\ Carries(q, m))
    BY <2>1 DEF Carries, Idle
  <2>3. CASE UNCHANGED pool
    <3>1. NoNewClaim
      BY <2>1, <2>2, <2>3 DEF NoNewClaim, pool, NoRepeats, Queued, Runs
    <3> QED
      BY <3>1, NoNewClaimStep
  <2>4. CASE Enqueue(j)
    <3>1. ~Queued(j) /\ ~OnWorker(j) /\ j \notin todo /\ Claimed(j)
          /\ \A q \in Requests : Carries(q, j) => q = r
      BY <2>1 DEF ClaimInv, Claimed
    <3>2. NoRepeats' /\ \A k : Queued(k)' <=> (Queued(k) \/ k = j)
      BY <2>1, <2>4, <3>1, EnqueueStep DEF ClaimInv, OneWorkerPerItem
    <3>3. \A v \in Workers, m \in Jobs : Runs(v, m)' <=> Runs(v, m)
      BY <2>4 DEF Enqueue, Runs
    <3>4. \A m \in Jobs : Claimed(m)' => Claimed(m)
      BY <2>1, <2>2, <3>1, <3>2, <3>3 DEF Claimed, OnWorker
    <3>5. OneWorkerPerItem'
      BY <3>1, <3>2, <3>3 DEF OneWorkerPerItem, OnWorker, ClaimInv
    <3> QED
      BY <2>1, <2>2, <3>1, <3>2, <3>3, <3>4, <3>5 DEF ClaimInv, OnWorker
  <2> QED
    BY <2>1, <2>3, <2>4
<1>2. ASSUME NEW w \in Workers, TakeJob(w)
      PROVE  ClaimInv' /\ \A m \in Jobs : Claimed(m)' => Claimed(m)
  <2>1. todo' = todo /\ saved' = saved /\ req' = req
    BY <1>2 DEF TakeJob, stores, server
  <2>2. PICK j \in Jobs :
          /\ Queued(j) /\ NoRepeats'
          /\ \A k : Queued(k)' <=> (Queued(k) /\ k # j)
          /\ worker[w] = Waiting
          /\ worker' = [worker EXCEPT ![w] = Running(j)]
    BY <1>2, TakeStep DEF TakeJob, ClaimInv, OneWorkerPerItem
  <2>3. \A k \in Jobs : Waiting # Running(k) /\ (Running(k) = Running(j) => k = j)
    BY DEF Waiting, Running
  <2>4. \A v \in Workers, k \in Jobs :
          Runs(v, k)' <=> (IF v = w THEN k = j ELSE Runs(v, k))
    BY <2>2, <2>3 DEF Runs, PoolTypeOK
  <2>5. ~OnWorker(j) /\ j \notin todo /\ \A q \in Requests : ~Carries(q, j)
    BY <2>2 DEF ClaimInv, OneWorkerPerItem
  <2>6. \A q \in Requests, m \in Jobs : Carries(q, m)' <=> Carries(q, m)
    BY <2>1 DEF Carries
  <2>7. \A m \in Jobs : Claimed(m)' => Claimed(m)
    BY <2>1, <2>2, <2>4, <2>6 DEF Claimed, OnWorker
  <2>8. \A v \in Workers, k \in Jobs : Runs(v, k)' => k = j \/ Runs(v, k)
    BY <2>4
  <2>9. OneWorkerPerItem'
    <3>1. ASSUME NEW m \in Jobs, Queued(m)' PROVE ~OnWorker(m)'
      BY <2>2, <2>8, <3>1 DEF OneWorkerPerItem, OnWorker, ClaimInv
    <3>2. ASSUME NEW m \in Jobs, NEW u \in Workers, NEW v \in Workers,
                 Runs(u, m)', Runs(v, m)'
          PROVE  u = v
      BY <2>4, <2>5, <3>2 DEF OneWorkerPerItem, OnWorker, ClaimInv
    <3> QED
      BY <2>2, <3>1, <3>2 DEF OneWorkerPerItem
  <2> QED
    BY <2>1, <2>2, <2>5, <2>6, <2>7, <2>8, <2>9 DEF ClaimInv, OnWorker
<1>3. CASE Recover
  <2>1. PICK j \in todo : \/ Enqueue(j) /\ todo' = todo \ {j}
                          \/ Full /\ todo' = {} /\ UNCHANGED pool
    BY <1>3 DEF Recover
  <2>2. j \in Jobs /\ saved' = saved /\ req' = req
    BY <1>3 DEF Recover, stores
  <2>3. CASE UNCHANGED pool /\ todo' = {}
    <3>1. NoNewClaim
      BY <2>2, <2>3 DEF NoNewClaim, pool, NoRepeats, Queued, Runs, Carries
    <3> QED
      BY <3>1, NoNewClaimStep
  <2>4. CASE Enqueue(j) /\ todo' = todo \ {j}
    <3>1. ~Queued(j) /\ ~OnWorker(j) /\ Claimed(j)
      BY <2>2 DEF ClaimInv, Claimed
    <3>2. NoRepeats' /\ \A k : Queued(k)' <=> (Queued(k) \/ k = j)
      BY <2>2, <2>4, <3>1, EnqueueStep DEF ClaimInv, OneWorkerPerItem
    <3>3. /\ \A v \in Workers, m \in Jobs : Runs(v, m)' <=> Runs(v, m)
          /\ \A q \in Requests, m \in Jobs : Carries(q, m)' <=> Carries(q, m)
      BY <2>2, <2>4 DEF Enqueue, Runs, Carries
    <3>4. \A m \in Jobs : Claimed(m)' => Claimed(m)
      BY <2>2, <2>4, <3>1, <3>2, <3>3 DEF Claimed, OnWorker
    <3>5. OneWorkerPerItem'
      BY <3>1, <3>2, <3>3 DEF OneWorkerPerItem, OnWorker, ClaimInv
    <3> QED
      BY <2>1, <2>2, <2>4, <3>1, <3>2, <3>3, <3>4, <3>5 DEF ClaimInv, OnWorker
  <2> QED
    BY <2>1, <2>3, <2>4
<1> QED
  BY <1>1, <1>2, <1>3

LEMMA NewClaims ==
  ASSUME TypeOK, PhaseInv, ClaimInv, FreshInv, (\E r \in Requests : StoreOriginal(r)) \/ Boot
  PROVE  /\ ClaimInv'
         /\ \A m \in Jobs : Claimed(m)' => Claimed(m) \/ Unsettled(m)
<1> USE DEF TypeOK
<1>1. ASSUME NEW r \in Requests, StoreOriginal(r)
      PROVE  ClaimInv' /\ \A m \in Jobs : Claimed(m)' => Claimed(m) \/ Unsettled(m)
  <2>1. PICK j \in Jobs \ saved :
          /\ In(r, "idle")
          /\ saved' = saved \cup {j}
          /\ req' = [req EXCEPT ![r] = [stage |-> "save", m |-> j]]
    BY <1>1 DEF StoreOriginal
  <2>2. UNCHANGED <<queue, worker, todo>>
    BY <1>1 DEF StoreOriginal, work, server, pool
  <2>3. /\ \A k : Queued(k)' <=> Queued(k)
        /\ \A w \in Workers, k \in Jobs : Runs(w, k)' <=> Runs(w, k)
        /\ NoRepeats' <=> NoRepeats
    BY <2>2 DEF Queued, Runs, NoRepeats
  <2>4. \A q \in Requests, m \in Jobs : Carries(q, m)' <=> IF q = r THEN m = j ELSE Carries(q, m)
    BY <2>1 DEF Carries
  <2>5. ~Claimed(j)
    BY <2>1 DEF ClaimInv
  <2>6. Unsettled(j)
    BY <2>1, HandlerShape DEF FreshInv, Unsettled, In, Idle, Editing
  <2>7. \A m \in Jobs : Claimed(m)' => Claimed(m) \/ m = j
    BY <2>2, <2>3, <2>4 DEF Claimed, OnWorker
  <2> QED
    BY <2>1, <2>2, <2>3, <2>4, <2>5, <2>6, <2>7
       DEF ClaimInv, OneWorkerPerItem, OnWorker, Claimed
<1>2. CASE Boot
  <2>1. /\ queue' = <<>> /\ worker' = [w \in Workers |-> Waiting]
        /\ req' = req /\ saved' = saved /\ todo' \subseteq {m \in Jobs : Unfinished(m)}
        /\ \A r \in Requests : req[r] = Idle
    BY <1>2 DEF Boot, PhaseInv, stores
  <2>2. /\ NoRepeats' /\ \A k : ~Queued(k)'
        /\ \A w \in Workers, k \in Jobs : ~Runs(w, k)'
        /\ \A r \in Requests, k \in Jobs : ~Carries(r, k)'
    <3>1. Len(queue') = 0
      BY <2>1, EmptySeq
    <3> QED
      BY <2>1, <3>1 DEF NoRepeats, Queued, Runs, Carries, Waiting, Running, Idle
  <2>3. \A m \in todo' : m \in saved
    BY <2>1 DEF FreshInv, Unfinished, Exists, NoRow
  <2>4. \A m \in Jobs : Claimed(m)' => Unsettled(m)
    BY <2>1, <2>2 DEF Claimed, OnWorker, Unsettled, Editing, Idle
  <2> QED
    BY <2>1, <2>2, <2>3, <2>4 DEF ClaimInv, OneWorkerPerItem, OnWorker, Claimed
<1> QED
  BY <1>1, <1>2

\* What has a claim after a step is unsettled before it.
LEMMA ClaimStep ==
  ASSUME TypeOK, PhaseInv, ClaimInv, FreshInv, [Next]_vars
  PROVE  /\ ClaimInv'
         /\ UnfinishedInv => \A m \in Jobs : Claimed(m)' => Unsettled(m)
BY StepsWithoutClaim, NoNewClaimStep, MovesKeepClaims, NewClaims
   DEF Next, Handle, Work, UnfinishedInv
-----------------------------------------------------------------------------
(* An ID is used once, and the favorite flag is the user's.                *)

\* Update and the change of a favorite flag write to one row that exists.
OnlyWrites(m) ==
  /\ Exists(m)
  /\ row' \in [Jobs -> {NoRow} \cup Rows] /\ row'[m] # NoRow
  /\ \A k \in Jobs \ {m} : row'[k] = row[k]

LEMMA UpdateWrites ==
  ASSUME TypeOK, NEW m \in Jobs, NEW item \in Rows, Exists(m), Update(m, item)
  PROVE  OnlyWrites(m) /\ row'[m] = [item EXCEPT !.fav = row[m].fav]
<1>1. [item EXCEPT !.fav = row[m].fav] \in Rows
  BY UpdateShape DEF TypeOK
<1>2. row' = [row EXCEPT ![m] = [item EXCEPT !.fav = row[m].fav]]
  BY DEF Update
<1>3. \A x \in Rows : x # NoRow
  BY DEF Rows, NoRow
<1> QED
  BY <1>1, <1>2, <1>3 DEF OnlyWrites, TypeOK

\* A step of a worker writes the item it holds back, or no row; with a status
\* that is final only as it returns.
LEMMA WorkerWrites ==
  ASSUME TypeOK, PhaseInv, NEW w \in Workers, Work(w) \/ Expire(w) \/ Panic(w)
  PROVE  \/ UNCHANGED row
         \/ /\ proc[w].stage \in {"begin", "fail", "ready"}
            /\ Item(w) \in Jobs /\ proc[w].snap \in Rows
            /\ Exists(Item(w))
            /\ \/ At(w, "begin") /\ Update(Item(w), proc[w].snap)
               \/ At(w, "fail") /\ Update(Item(w), [proc[w].snap EXCEPT !.status = "failed"])
                                /\ Return(w)
               \/ At(w, "ready") /\ Update(Item(w), [proc[w].snap EXCEPT !.status = "ready"])
                                 /\ Return(w)
<1>1. CASE TakeJob(w) \/ Find(w) \/ Probe(w) \/ Thumbnail(w) \/ CreateHLSDir(w) \/ EncodeHLS(w)
           \/ StopWorker(w) \/ Expire(w) \/ Panic(w)
  BY <1>1 DEF TakeJob, Find, Probe, Thumbnail, CreateHLSDir, EncodeHLS, StopWorker, Expire, Panic,
              stores
<1>2. CASE BeginProcessing(w) \/ SaveFailure(w) \/ SaveReady(w)
  <2>1. proc[w].stage \in {"begin", "fail", "ready"}
    BY <1>2 DEF BeginProcessing, SaveFailure, SaveReady, At
  <2>2. Item(w) \in Jobs /\ proc[w].snap \in Rows
    BY <2>1, ProcShape, AtWork DEF Steps, TypeOK
  <2> QED
    BY <1>2, <2>1, <2>2 DEF BeginProcessing, SaveFailure, SaveReady, MayUpdate, Strand
<1> QED
  BY <1>1, <1>2 DEF Work, Process

\* Workers create and remove no row, set no favorite and remove no original.
LEMMA WorkerLeaves ==
  ASSUME TypeOK, PhaseInv, NEW w \in Workers, Work(w) \/ Expire(w) \/ Panic(w)
  PROVE  /\ UNCHANGED <<req, todo, saved, liked>>
         /\ \A m \in Jobs : Exists(m)' <=> Exists(m)
         /\ \A m \in Jobs : Exists(m) => row'[m].fav = row[m].fav
         /\ \A m \in Jobs : "original" \in files[m] => "original" \in files'[m]
<1>1. UNCHANGED <<req, todo, saved, liked>>
  BY DEF Work, Process, TakeJob, Find, BeginProcessing, Probe, Thumbnail, CreateHLSDir,
         EncodeHLS, SaveFailure, SaveReady, StopWorker, Expire, Panic, stores, server, history
<1>2. ASSUME ~ UNCHANGED row
      PROVE  /\ Item(w) \in Jobs /\ OnlyWrites(Item(w))
             /\ row'[Item(w)].fav = row[Item(w)].fav
  <2>1. PICK item \in Rows : Item(w) \in Jobs /\ Exists(Item(w)) /\ Update(Item(w), item)
    <3>1. \A item \in Rows : /\ [item EXCEPT !.status = "failed"] \in Rows
                             /\ [item EXCEPT !.status = "ready"] \in Rows
      BY DEF Rows
    <3> QED
      BY <1>2, <3>1, WorkerWrites
  <2>2. OnlyWrites(Item(w)) /\ row'[Item(w)] = [item EXCEPT !.fav = row[Item(w)].fav]
    BY <2>1, UpdateWrites
  <2>3. [item EXCEPT !.fav = row[Item(w)].fav].fav = row[Item(w)].fav
    BY <2>1 DEF Rows
  <2> QED
    BY <2>1, <2>2, <2>3
<1>3. /\ \A m \in Jobs : Exists(m)' <=> Exists(m)
      /\ \A m \in Jobs : Exists(m) => row'[m].fav = row[m].fav
  <2>1. CASE UNCHANGED row
    BY <2>1 DEF Exists
  <2>2. CASE ~ UNCHANGED row
    BY <1>2, <2>2 DEF OnlyWrites, Exists
  <2> QED
    BY <2>1, <2>2
<1>4. \A m \in Jobs : "original" \in files[m] => "original" \in files'[m]
  <2>1. CASE Thumbnail(w) \/ CreateHLSDir(w) \/ EncodeHLS(w)
    BY <2>1 DEF Thumbnail, CreateHLSDir, EncodeHLS, TypeOK
  <2>2. CASE UNCHANGED files
    BY <2>2
  <2> QED
    BY <2>1, <2>2 DEF Work, Process, TakeJob, Find, BeginProcessing, Probe, SaveFailure,
                      SaveReady, StopWorker, Expire, Panic, stores
<1> QED
  BY <1>1, <1>3, <1>4

LEMMA ServerLeaves ==
  ASSUME TypeOK, Boot \/ Recover \/ Listen \/ Signal \/ CloseQueue \/ Exit \/ Crash \/ UNCHANGED vars
  PROVE  /\ UNCHANGED <<row, files, saved, liked>>
         /\ \A r \in Requests : req'[r] = req[r] \/ req'[r] = Idle
BY DEF Boot, Recover, Listen, Signal, CloseQueue, Exit, Crash, Halt, stores, history, vars, TypeOK

LEMMA FreshFavoriteStep ==
  ASSUME TypeOK, PhaseInv, FreshInv, FavoriteKept, [Next]_vars
  PROVE  FreshInv' /\ FavoriteKept'
<1> USE DEF TypeOK
<1>0. /\ \A r \in Requests : In(r, "save") => req[r] # Idle
      /\ \A r \in Requests : In(r, "unlink") => req[r] # Idle
      /\ ~NewRow.fav /\ NewRow # NoRow
  BY DEF In, Idle, NewRow, NoRow
<1>1. ASSUME NEW r \in Requests, StoreOriginal(r) PROVE FreshInv' /\ FavoriteKept'
  <2>1. PICK j \in Jobs \ saved :
          /\ In(r, "idle")
          /\ saved' = saved \cup {j}
          /\ files' = [files EXCEPT ![j] = {"original"}]
          /\ req' = [req EXCEPT ![r] = [stage |-> "save", m |-> j]]
          /\ UNCHANGED <<row, liked>>
    BY <1>1 DEF StoreOriginal, history
  <2>2. \A q \in Requests : req[q] # Idle => req[q].m # j /\ req[q].m \in saved
    BY <2>1 DEF FreshInv
  <2>3. FavoriteKept'
    BY <2>1 DEF FavoriteKept, Exists
  <2>4. \A q \in Requests : In(q, "save")' => q = r \/ In(q, "save")
    BY <2>1 DEF In
  <2>5. \A q \in Requests : In(q, "unlink")' => q # r /\ In(q, "unlink")
    BY <2>1 DEF In
  <2> QED
    BY <1>0, <2>1, <2>2, <2>3, <2>4, <2>5 DEF FreshInv, Exists
<1>2. ASSUME NEW r \in Requests, SaveItem(r) PROVE FreshInv' /\ FavoriteKept'
  <2>1. /\ req[r] = [stage |-> "save", m |-> req[r].m] /\ req[r].m \in Jobs
        /\ In(r, "save") /\ req[r] # Idle
    BY <1>0, <1>2, HandlerShape DEF SaveItem, In
  <2>2. UNCHANGED <<saved, liked>>
    BY <1>2 DEF SaveItem, history
  <2>3. /\ req'[r] # Idle => req'[r].m = req[r].m
        /\ req'[r].stage \in {"enqueue", "idle"}
        /\ \A q \in Requests \ {r} : req'[q] = req[q]
    BY <1>2, <2>1 DEF SaveItem, Reply, Idle
  <2>4. \A q \in Requests \ {r} : req[q] # Idle => req[q].m # req[r].m
    BY <2>1 DEF FreshInv
  <2>5. /\ \A k \in Jobs \ {req[r].m} : row'[k] = row[k] /\ files'[k] = files[k]
        /\ row'[req[r].m] \in {row[req[r].m], NewRow}
    BY <1>2, <2>1 DEF SaveItem
  <2>6. FavoriteKept'
    <3>1. liked[req[r].m] = FALSE /\ NewRow.fav = FALSE
      BY <2>1 DEF FreshInv, NewRow
    <3>2. row'[req[r].m] = NoRow \/ row'[req[r].m].fav = liked[req[r].m]
      BY <2>1, <2>5, <3>1 DEF FavoriteKept, Exists
    <3> QED
      BY <2>1, <2>2, <2>5, <3>2 DEF FavoriteKept, Exists
  <2>7. \A q \in Requests : In(q, "save")' \/ In(q, "unlink")' => q # r
    BY <2>3 DEF In
  <2>8. FreshInv'
    BY <1>0, <2>1, <2>2, <2>3, <2>4, <2>5, <2>7 DEF FreshInv, Exists, In
  <2> QED
    BY <2>6, <2>8
<1>3. ASSUME NEW r \in Requests, EnqueueItem(r) \/ BeginEdit(r)
      PROVE  FreshInv' /\ FavoriteKept'
  <2>1. UNCHANGED <<row, files, saved, liked>>
    BY <1>3 DEF EnqueueItem, BeginEdit, stores, history
  <2>2. /\ \A q \in Requests \ {r} : req'[q] = req[q]
        /\ ~In(r, "save")' /\ ~In(r, "unlink")'
        /\ req'[r] # Idle => \E m \in Jobs : req'[r].m = m /\ Exists(m)
    BY <1>3 DEF EnqueueItem, BeginEdit, Reply, In, Idle
  <2>3. \A q \in Requests : In(q, "save")' \/ In(q, "unlink")' => q # r /\ req'[q] = req[q]
    BY <2>2
  <2> QED
    BY <1>0, <2>1, <2>2, <2>3 DEF FreshInv, FavoriteKept, Exists, In
<1>4. ASSUME NEW r \in Requests, Retitle(r) PROVE FreshInv' /\ FavoriteKept'
  <2> DEFINE m == req[r].m
             item == [req[r].snap EXCEPT !.title = "renamed"]
  <2>1. /\ m \in Jobs /\ req[r].snap \in Rows /\ req[r] # Idle
        /\ req[r] = [stage |-> "retitle", m |-> req[r].m,
                     snap |-> req[r].snap, mark |-> req[r].mark]
    BY <1>4, HandlerShape DEF Retitle, In, Editing, Idle
  <2>2. UNCHANGED <<files, saved, liked>>
    BY <1>4 DEF Retitle
  <2>3. /\ req'[r] # Idle => req'[r].m = req[r].m
        /\ req'[r].stage \in {"favorite", "idle"}
        /\ \A q \in Requests \ {r} : req'[q] = req[q]
    BY <1>4, <2>1 DEF Retitle, Reply, Idle
  <2>4. item \in Rows
    BY <2>1, UpdateShape DEF Rows
  <2> HIDE DEF m, item
  <2>5. \/ UNCHANGED row
        \/ OnlyWrites(m) /\ row'[m] = [item EXCEPT !.fav = row[m].fav]
    BY <1>4, <2>1, <2>4, UpdateWrites DEF Retitle, m, item
  <2>6. [item EXCEPT !.fav = row[m].fav].fav = row[m].fav
    BY <2>4 DEF Rows
  <2>7. /\ \A k \in Jobs : Exists(k)' <=> Exists(k)
        /\ \A k \in Jobs : Exists(k) => row'[k].fav = row[k].fav
    BY <2>1, <2>5, <2>6 DEF OnlyWrites, Exists, m
  <2>8. \A q \in Requests : In(q, "save")' \/ In(q, "unlink")' => q # r /\ req'[q] = req[q]
    BY <2>3 DEF In
  <2> QED
    BY <1>0, <2>1, <2>2, <2>3, <2>7, <2>8, HandlerShape DEF FreshInv, FavoriteKept, In
<1>5. ASSUME NEW r \in Requests, SetFavorite(r) PROVE FreshInv' /\ FavoriteKept'
  <2> DEFINE m == req[r].m
             on == req[r].mark = "on"
  <2>1. m \in Jobs /\ req[r] # Idle
    BY <1>5, HandlerShape DEF SetFavorite, In, Idle
  <2>2. UNCHANGED <<files, saved>> /\ req' = [req EXCEPT ![r] = Idle]
    BY <1>5 DEF SetFavorite, Reply
  <2>3. \/ UNCHANGED <<row, liked>>
        \/ /\ Exists(m) /\ row' = [row EXCEPT ![m] = [row[m] EXCEPT !.fav = on]]
           /\ liked' = [liked EXCEPT ![m] = on]
    BY <1>5 DEF SetFavorite
  <2>4. ASSUME Exists(m)
        PROVE  [row[m] EXCEPT !.fav = on] # NoRow /\ ([row[m] EXCEPT !.fav = on].fav <=> on)
    <3>1. row[m] \in Rows
      BY <2>1, <2>4 DEF Exists
    <3> QED
      BY <3>1 DEF Rows, NoRow
  <2> HIDE DEF m, on
  <2>5. /\ \A k \in Jobs : Exists(k)' <=> Exists(k)
        /\ FavoriteKept'
        /\ \A k \in Jobs : ~Exists(k) => liked'[k] = liked[k]
    <3>1. CASE UNCHANGED <<row, liked>>
      BY <3>1 DEF FavoriteKept, Exists
    <3>2. CASE /\ Exists(m) /\ row' = [row EXCEPT ![m] = [row[m] EXCEPT !.fav = on]]
               /\ liked' = [liked EXCEPT ![m] = on]
      <4>1. row'[m] # NoRow /\ row'[m].fav = liked'[m]
        BY <2>1, <2>4, <3>2
      <4>2. \A k \in Jobs \ {m} : row'[k] = row[k] /\ liked'[k] = liked[k]
        BY <3>2
      <4> QED
        BY <2>1, <3>2, <4>1, <4>2 DEF FavoriteKept, Exists
    <3> QED
      BY <2>3, <3>1, <3>2
  <2>6. \A q \in Requests : req'[q] # Idle => q # r /\ req'[q] = req[q]
    BY <2>2
  <2>7. \A q \in Requests : In(q, "save")' \/ In(q, "unlink")' => q # r /\ req'[q] = req[q]
    BY <2>2 DEF In, Idle
  <2> QED
    BY <1>0, <2>2, <2>5, <2>6, <2>7, HandlerShape DEF FreshInv, In
<1>6. ASSUME NEW r \in Requests, DeleteRow(r) \/ GiveUp(r) PROVE FreshInv' /\ FavoriteKept'
  <2>1. /\ req[r].m \in Jobs /\ req[r] # Idle
    BY <1>6, HandlerShape DEF DeleteRow, GiveUp, In, Idle, Editing
  <2>2. UNCHANGED <<files, saved, liked>>
    BY <1>6 DEF DeleteRow, GiveUp, history
  <2>3. row' = row \/ row' = [row EXCEPT ![req[r].m] = NoRow]
    BY <1>6 DEF DeleteRow, GiveUp
  <2>4. /\ \A q \in Requests \ {r} : req'[q] = req[q]
        /\ req'[r] # Idle => /\ req'[r].m = req[r].m /\ ~In(r, "save")'
                             /\ row' = [row EXCEPT ![req[r].m] = NoRow]
        /\ ~In(r, "save")'
    BY <1>6 DEF DeleteRow, GiveUp, Reply, Idle, In
  <2>5. \A k \in Jobs : Exists(k)' => Exists(k) /\ row'[k] = row[k]
    BY <2>3 DEF Exists
  <2>6. \A q \in Requests : In(q, "unlink")' => \/ q # r /\ In(q, "unlink")
                                                \/ q = r /\ req'[r] # Idle
    BY <2>4 DEF In, Idle
  <2>7. req'[r] # Idle => ~Exists(req[r].m)'
    BY <2>1, <2>4 DEF Exists
  <2>8. \A q \in Requests : In(q, "save")' => q # r /\ req'[q] = req[q]
    BY <2>4
  <2> QED
    BY <1>0, <2>1, <2>2, <2>4, <2>5, <2>6, <2>7, <2>8, HandlerShape
       DEF FreshInv, FavoriteKept, In
<1>7. ASSUME NEW r \in Requests, Unlink(r) PROVE FreshInv' /\ FavoriteKept'
  <2>1. /\ req[r].m \in Jobs /\ req[r] # Idle /\ In(r, "unlink")
        /\ req[r] = [stage |-> "unlink", m |-> req[r].m, left |-> req[r].left]
    BY <1>7, HandlerShape DEF Unlink, In, Idle
  <2>2. UNCHANGED <<row, saved, liked>>
    BY <1>7 DEF Unlink, history
  <2>3. /\ \A q \in Requests \ {r} : req'[q] = req[q]
        /\ req'[r] # Idle => req'[r].m = req[r].m
        /\ ~In(r, "save")'
    BY <1>7, <2>1 DEF Unlink, Reply, In, Idle
  <2>4. \A k \in Jobs \ {req[r].m} : files'[k] = files[k]
    BY <1>7 DEF Unlink
  <2>5. \A q \in Requests : In(q, "save") => q # r /\ req[q].m # req[r].m
    BY <2>1 DEF FreshInv, In
  <2>6. \A q \in Requests : In(q, "save")' => q # r /\ In(q, "save") /\ req'[q] = req[q]
    BY <2>3 DEF In
  <2>7. \A q \in Requests : In(q, "unlink")' => In(q, "unlink") /\ req'[q].m = req[q].m
    BY <2>1, <2>3 DEF In, Idle
  <2> QED
    BY <1>0, <2>1, <2>2, <2>3, <2>4, <2>5, <2>6, <2>7, HandlerShape
       DEF FreshInv, FavoriteKept, Exists
<1>8. ASSUME NEW w \in Workers, Work(w) \/ Expire(w) \/ Panic(w)
      PROVE  FreshInv' /\ FavoriteKept'
  BY <1>0, <1>8, WorkerLeaves, HandlerShape DEF FreshInv, FavoriteKept, In
<1>9. CASE \/ Boot \/ Recover \/ Listen \/ Signal \/ CloseQueue \/ Exit \/ Crash
           \/ UNCHANGED vars
  <2>1. /\ UNCHANGED <<row, files, saved, liked>>
        /\ \A r \in Requests : req'[r] = req[r] \/ req'[r] = Idle
    BY <1>9, ServerLeaves
  <2>2. \A r \in Requests : In(r, "save")' \/ In(r, "unlink")' => req'[r] = req[r]
    BY <2>1 DEF In, Idle
  <2> QED
    BY <1>0, <2>1, <2>2 DEF FreshInv, FavoriteKept, Exists, In
<1> QED
  BY <1>1, <1>2, <1>3, <1>4, <1>5, <1>6, <1>7, <1>8, <1>9 DEF Next, Handle
-----------------------------------------------------------------------------
(* Where the copies that handlers hold, the rows and the files come from.  *)

\* A handler's copy of a row is the row it has read or one it had.
LEMMA WhereCopiesComeFrom ==
  ASSUME TypeOK, [Next]_vars, NEW q \in Requests, req'[q].stage \in Editing
  PROVE  \/ /\ req[q].stage \in Editing
            /\ req'[q].m = req[q].m /\ req'[q].snap = req[q].snap
         \/ req'[q].m \in Jobs /\ Exists(req'[q].m) /\ req'[q].snap = row[req'[q].m]
<1> USE DEF TypeOK, Editing
<1>1. ASSUME NEW r \in Requests, BeginEdit(r)
      PROVE  \/ req'[q] = req[q]
             \/ req'[q].m \in Jobs /\ Exists(req'[q].m) /\ req'[q].snap = row[req'[q].m]
  BY <1>1 DEF BeginEdit
<1>2. ASSUME NEW r \in Requests, Retitle(r)
      PROVE  /\ req[q].stage \in Editing
             /\ req'[q].m = req[q].m /\ req'[q].snap = req[q].snap
  <2>1. req[r] = [stage |-> "retitle", m |-> req[r].m,
                  snap |-> req[r].snap, mark |-> req[r].mark]
    BY <1>2, HandlerShape DEF Retitle, In
  <2> QED
    BY <1>2, <2>1 DEF Retitle, Reply, Idle
<1>3. ASSUME NEW r \in Requests, StoreOriginal(r) \/ EnqueueItem(r) \/ SetFavorite(r)
                                 \/ DeleteRow(r) \/ GiveUp(r)
      PROVE  req'[q] = req[q]
  BY <1>3 DEF StoreOriginal, EnqueueItem, SetFavorite, DeleteRow, GiveUp, Reply, Idle
<1>4. ASSUME NEW r \in Requests, SaveItem(r) \/ Unlink(r)
      PROVE  req'[q] = req[q]
  <2>1. CASE SaveItem(r)
    <3>1. req[r] = [stage |-> "save", m |-> req[r].m]
      BY <2>1, HandlerShape DEF SaveItem, In
    <3> QED
      BY <2>1, <3>1 DEF SaveItem, Reply, Idle
  <2>2. CASE Unlink(r)
    <3>1. req[r] = [stage |-> "unlink", m |-> req[r].m, left |-> req[r].left]
      BY <2>2, HandlerShape DEF Unlink, In
    <3> QED
      BY <2>2, <3>1 DEF Unlink, Reply, Idle
  <2> QED
    BY <1>4, <2>1, <2>2
<1>5. CASE UNCHANGED req
  BY <1>5
<1>6. CASE Exit \/ Crash
  BY <1>6 DEF Exit, Crash, Halt, Idle
<1> QED
  BY <1>1, <1>2, <1>3, <1>4, <1>5, <1>6
     DEF Next, Handle, Work, Process, TakeJob, Find, BeginProcessing, Probe, Thumbnail,
         CreateHLSDir, EncodeHLS, SaveFailure, SaveReady, StopWorker, Expire, Panic,
         Boot, Recover, Listen, Signal, CloseQueue, vars

\* Equal in what Sound and Names are about.
Alike(a, b) == a.status = b.status /\ a.thumb = b.thumb /\ a.hls = b.hls

\* A row is as it was, new, or a copy that a handler or a worker wrote back.
LEMMA WhereRowsComeFrom ==
  ASSUME TypeOK, PhaseInv, [Next]_vars, NEW m \in Jobs, Exists(m)'
  PROVE  \/ Exists(m) /\ Alike(row'[m], row[m])
         \/ /\ row'[m] = NewRow
            /\ \E r \in Requests :
                 /\ SaveItem(r) /\ req[r].m = m
                 /\ In(r, "enqueue")' \/ (m \in unseen' /\ m \in adrift')
         \/ \E r \in Requests : /\ Retitle(r) /\ req[r].m = m
                                /\ Exists(m) /\ Alike(row'[m], req[r].snap)
         \/ \E w \in Workers :
              /\ Item(w) = m /\ Exists(m) /\ proc[w].snap \in Rows
              /\ ~At(w, "none") /\ UNCHANGED <<req, todo>>
              /\ row'[m].thumb = proc[w].snap.thumb /\ row'[m].hls = proc[w].snap.hls
              /\ \/ At(w, "begin") /\ row'[m].status = proc[w].snap.status
                 \/ At(w, "fail") /\ row'[m].status = "failed" /\ Return(w)
                 \/ At(w, "ready") /\ row'[m].status = "ready" /\ Return(w)
<1> USE DEF TypeOK
<1>0. ASSUME row' = row \/ row'[m] = row[m]
      PROVE  Exists(m) /\ Alike(row'[m], row[m])
  BY <1>0 DEF Exists, Alike
<1>1. ASSUME NEW r \in Requests, SaveItem(r), row'[m] # row[m]
      PROVE  /\ row'[m] = NewRow /\ req[r].m = m
             /\ In(r, "enqueue")' \/ (m \in unseen' /\ m \in adrift')
  <2>1. req[r] = [stage |-> "save", m |-> req[r].m] /\ req[r].m \in Jobs
    BY <1>1, HandlerShape DEF SaveItem, In
  <2> QED
    BY <1>1, <2>1 DEF SaveItem, In
<1>2. ASSUME NEW r \in Requests, Retitle(r), row'[m] # row[m]
      PROVE  req[r].m = m /\ Exists(m) /\ Alike(row'[m], req[r].snap)
  <2>1. req[r].m \in Jobs /\ req[r].snap \in Rows
    BY <1>2, HandlerShape DEF Retitle, In, Editing
  <2>2. /\ Exists(req[r].m)
        /\ row' = [row EXCEPT ![req[r].m] =
             [[req[r].snap EXCEPT !.title = "renamed"] EXCEPT !.fav = row[req[r].m].fav]]
    BY <1>2 DEF Retitle, Update
  <2>3. Alike([[req[r].snap EXCEPT !.title = "renamed"] EXCEPT !.fav = row[req[r].m].fav],
              req[r].snap)
    BY <2>1 DEF Rows, Alike
  <2> QED
    BY <1>2, <2>1, <2>2, <2>3 DEF Retitle
<1>3. ASSUME NEW r \in Requests, SetFavorite(r)
      PROVE  Exists(m) /\ Alike(row'[m], row[m])
  <2>1. CASE row' = row
    BY <1>0, <2>1
  <2>2. CASE /\ Exists(req[r].m)
             /\ row' = [row EXCEPT ![req[r].m] = [row[req[r].m] EXCEPT !.fav = (req[r].mark = "on")]]
    <3>1. req[r].m \in Jobs /\ row[req[r].m] \in Rows
      BY <1>3, <2>2, HandlerShape DEF SetFavorite, In, Exists
    <3>2. Alike([row[req[r].m] EXCEPT !.fav = (req[r].mark = "on")], row[req[r].m])
      BY <3>1 DEF Rows, Alike
    <3>3. CASE m = req[r].m
      BY <2>2, <3>1, <3>2, <3>3
    <3>4. CASE m # req[r].m
      BY <1>0, <2>2, <3>4
    <3> QED
      BY <3>3, <3>4
  <2> QED
    BY <1>3, <2>1, <2>2 DEF SetFavorite
<1>4. ASSUME NEW r \in Requests, DeleteRow(r) \/ GiveUp(r)
      PROVE  row'[m] = row[m]
  BY <1>4 DEF DeleteRow, GiveUp, Exists
<1>5. ASSUME NEW w \in Workers, Work(w) \/ Expire(w) \/ Panic(w), row'[m] # row[m]
      PROVE  /\ Item(w) = m /\ Exists(m) /\ proc[w].snap \in Rows
             /\ ~At(w, "none") /\ UNCHANGED <<req, todo>>
             /\ row'[m].thumb = proc[w].snap.thumb /\ row'[m].hls = proc[w].snap.hls
             /\ \/ At(w, "begin") /\ row'[m].status = proc[w].snap.status
                \/ At(w, "fail") /\ row'[m].status = "failed" /\ Return(w)
                \/ At(w, "ready") /\ row'[m].status = "ready" /\ Return(w)
  <2>1. PICK item \in Rows :
          /\ Item(w) \in Jobs /\ Exists(Item(w)) /\ proc[w].snap \in Rows
          /\ Update(Item(w), item)
          /\ item.thumb = proc[w].snap.thumb /\ item.hls = proc[w].snap.hls
          /\ \/ At(w, "begin") /\ item.status = proc[w].snap.status
             \/ At(w, "fail") /\ item.status = "failed" /\ Return(w)
             \/ At(w, "ready") /\ item.status = "ready" /\ Return(w)
    <3>1. \A x \in Rows, s \in {"failed", "ready"} :
            /\ [x EXCEPT !.status = s] \in Rows
            /\ [x EXCEPT !.status = s].thumb = x.thumb /\ [x EXCEPT !.status = s].hls = x.hls
            /\ [x EXCEPT !.status = s].status = s
      BY DEF Rows
    <3> QED
      BY <1>5, <3>1, WorkerWrites
  <2>2. row' = [row EXCEPT ![Item(w)] = [item EXCEPT !.fav = row[Item(w)].fav]]
    BY <2>1 DEF Update
  <2>3. Alike([item EXCEPT !.fav = row[Item(w)].fav], item)
    BY DEF Rows, Alike
  <2>4. Item(w) = m /\ row'[m] = [item EXCEPT !.fav = row[Item(w)].fav]
    BY <1>5, <2>1, <2>2
  <2> QED
    BY <1>5, <2>1, <2>3, <2>4, WorkerLeaves DEF Alike, At
<1>6. ASSUME NEW r \in Requests, StoreOriginal(r) \/ EnqueueItem(r) \/ BeginEdit(r) \/ Unlink(r)
      PROVE  row' = row
  BY <1>6 DEF StoreOriginal, EnqueueItem, BeginEdit, Unlink, stores
<1> QED
  BY <1>0, <1>1, <1>2, <1>3, <1>4, <1>5, <1>6, ServerLeaves DEF Next, Handle

\* Of a row's files, no step removes any but an HLS set that is being encoded.
LEMMA WhereFilesGo ==
  ASSUME TypeOK, PhaseInv, FreshInv, [Next]_vars, NEW m \in Jobs, Exists(m), NEW f \in files[m]
  PROVE  \/ f \in files'[m]
         \/ f = "hls" /\ \E w \in Workers : At(w, "encode") /\ Item(w) = m
<1> USE DEF TypeOK
<1>1. ASSUME NEW r \in Requests, StoreOriginal(r) \/ SaveItem(r) \/ Unlink(r)
      PROVE  f \in files'[m]
  BY <1>1, HandlerShape DEF StoreOriginal, SaveItem, Unlink, FreshInv, In
<1>2. ASSUME NEW w \in Workers, Thumbnail(w) \/ CreateHLSDir(w) \/ EncodeHLS(w)
      PROVE  f \in files'[m] \/ (f = "hls" /\ At(w, "encode") /\ Item(w) = m)
  BY <1>2 DEF Thumbnail, CreateHLSDir, EncodeHLS
<1>3. CASE UNCHANGED files
  BY <1>3
<1> QED
  BY <1>1, <1>2, <1>3, ServerLeaves
     DEF Next, Handle, Work, Process, EnqueueItem, BeginEdit, Retitle, SetFavorite, DeleteRow,
         GiveUp, TakeJob, Find, BeginProcessing, Probe, SaveFailure, SaveReady, StopWorker,
         Expire, Panic, stores

\* A worker in the midst of a job is where it was, or has just taken its step.
LEMMA WhereWorkGoes ==
  ASSUME TypeOK, PhaseInv, [Next]_vars, NEW w \in Workers, proc'[w].stage \in Steps
  PROVE  (proc'[w] = proc[w] /\ worker'[w] = worker[w]) \/ Process(w)
<1> USE DEF TypeOK
<1>1. ASSUME NEW v \in Workers, Process(v) \/ Panic(v), v # w
      PROVE  proc'[w] = proc[w] /\ worker'[w] = worker[w]
  BY <1>1 DEF Process, Find, BeginProcessing, Probe, Thumbnail, CreateHLSDir, EncodeHLS,
              SaveFailure, SaveReady, Panic, Strand, Return, Finish, Go, pool, PoolTypeOK
<1>2. ~Panic(w)
  BY DEF Panic, Strand, Return, NoProc, Steps
<1>3. ASSUME NEW v \in Workers, TakeJob(v) \/ StopWorker(v) \/ Expire(v)
      PROVE  proc'[w] = proc[w] /\ worker'[w] = worker[w]
  <2>1. CASE TakeJob(v)
    <3>1. v # w
      BY <2>1 DEF TakeJob, Steps
    <3> QED
      BY <2>1, <3>1 DEF TakeJob, Take, PoolTypeOK
  <2>2. CASE StopWorker(v)
    <3>1. proc'[w] = proc[w] /\ proc[w] # NoProc /\ worker[w].at = "running"
      BY <2>2, ProcShape DEF StopWorker, PhaseInv
    <3>2. v # w
      BY <2>2, <3>1 DEF StopWorker, Stop, Waiting
    <3> QED
      BY <2>2, <3>1, <3>2 DEF StopWorker, Stop, PoolTypeOK
  <2>3. CASE Expire(v)
    BY <2>3 DEF Expire, pool
  <2> QED
    BY <1>3, <2>1, <2>2, <2>3
<1>4. ASSUME NEW r \in Requests,
             \/ StoreOriginal(r) \/ SaveItem(r) \/ EnqueueItem(r) \/ Unlink(r)
             \/ BeginEdit(r) \/ Retitle(r) \/ SetFavorite(r) \/ DeleteRow(r) \/ GiveUp(r)
      PROVE  proc'[w] = proc[w] /\ worker'[w] = worker[w]
  BY <1>4 DEF StoreOriginal, SaveItem, EnqueueItem, Unlink, BeginEdit, Retitle, SetFavorite,
              DeleteRow, GiveUp, Enqueue, work, pool
<1>5. CASE Recover \/ Listen \/ Signal \/ CloseQueue \/ UNCHANGED vars
  BY <1>5 DEF Recover, Enqueue, Listen, Signal, CloseQueue, Cancel, Close, vars, work, pool
<1>6. CASE Boot
  <2>1. proc[w].stage \in Steps /\ worker[w] = Stopped
    BY <1>6 DEF Boot, PhaseInv
  <2> QED
    BY <2>1, ProcShape DEF PhaseInv, Stopped
<1>7. ~Exit /\ ~Crash
  BY DEF Exit, Crash, Halt, NoProc, Steps
<1> QED
  BY <1>1, <1>2, <1>3, <1>4, <1>5, <1>6, <1>7 DEF Next, Handle, Work
-----------------------------------------------------------------------------
(* Rows whose INSERT was carried out unseen.                               *)

\* An INSERT that is carried out unseen is that of an item its handler was
\* alone with, and leaves it with neither file nor handler.
LEMMA NewlyUnseen ==
  ASSUME TypeOK, ClaimInv, FreshInv, PhaseInv, [Next]_vars, NEW m \in unseen' \ unseen
  PROVE  \E r \in Requests :
           /\ SaveItem(r) /\ In(r, "save") /\ req[r].m = m /\ m \in Jobs
           /\ row'[m] = NewRow /\ files'[m] = {}
           /\ req' = [req EXCEPT ![r] = Idle] /\ UNCHANGED <<saved, proc, worker>>
<1> USE DEF TypeOK
<1>1. PICK r \in Requests : SaveItem(r)
  BY DEF Next, Handle, StoreOriginal, BeginEdit, EnqueueItem, Retitle, SetFavorite, DeleteRow,
         Unlink, GiveUp, Work, Process, TakeJob, Find, BeginProcessing, Probe, Thumbnail,
         CreateHLSDir, EncodeHLS, SaveFailure, SaveReady, StopWorker, Expire, Panic, Boot,
         Recover, Listen, Signal, CloseQueue, Exit, Crash, Halt, stores, vars
<1>2. req[r].m \in Jobs /\ In(r, "save")
  BY <1>1, HandlerShape DEF SaveItem, In
<1> QED
  BY <1>1, <1>2 DEF SaveItem, Reply, work, pool

\* An item that has no file gets one only by its upload, or by a worker that
\* is past the probe.
LEMMA BareStays ==
  ASSUME TypeOK, FreshInv, PhaseInv, [Next]_vars, NEW m \in saved, files[m] = {},
         \A w \in Workers : Item(w) = m => ~At(w, "thumb") /\ ~At(w, "hls")
  PROVE  files'[m] = {}
<1> USE DEF TypeOK
<1>1. ASSUME NEW r \in Requests, StoreOriginal(r) \/ SaveItem(r) \/ Unlink(r)
      PROVE  files'[m] = {}
  BY <1>1, HandlerShape DEF StoreOriginal, SaveItem, Unlink, In
<1>2. ASSUME NEW w \in Workers, Thumbnail(w) \/ CreateHLSDir(w) \/ EncodeHLS(w)
      PROVE  files'[m] = {}
  BY <1>2 DEF Thumbnail, CreateHLSDir, EncodeHLS
<1>3. CASE UNCHANGED files
  BY <1>3
<1> QED
  BY <1>1, <1>2, <1>3, ServerLeaves
     DEF Next, Handle, Work, Process, EnqueueItem, BeginEdit, Retitle, SetFavorite, DeleteRow,
         GiveUp, TakeJob, Find, BeginProcessing, Probe, SaveFailure, SaveReady, StopWorker,
         Expire, Panic, stores

\* Only the handler that stores an item carries it.
LEMMA CarriersStay ==
  ASSUME TypeOK, [Next]_vars, NEW m \in saved, NEW q \in Requests, Carries(q, m)'
  PROVE  Carries(q, m)
<1> USE DEF TypeOK
<1>1. ASSUME NEW r \in Requests, SaveItem(r) PROVE Carries(q, m)
  <2>1. req[r] = [stage |-> "save", m |-> req[r].m]
    BY <1>1, HandlerShape DEF SaveItem, In
  <2> QED
    BY <1>1, <2>1 DEF SaveItem, Reply, Idle, Carries
<1>2. ASSUME NEW r \in Requests, StoreOriginal(r) \/ BeginEdit(r) \/ EnqueueItem(r)
                                 \/ SetFavorite(r) \/ GiveUp(r)
      PROVE  Carries(q, m)
  BY <1>2 DEF StoreOriginal, BeginEdit, Asks, EnqueueItem, SetFavorite, GiveUp, Reply, Idle, Carries
<1>3. ASSUME NEW r \in Requests, Retitle(r) PROVE Carries(q, m)
  <2>1. req[r] = [stage |-> "retitle", m |-> req[r].m,
                  snap |-> req[r].snap, mark |-> req[r].mark]
    BY <1>3, HandlerShape DEF Retitle, In, Editing
  <2> QED
    BY <1>3, <2>1 DEF Retitle, Reply, Idle, Carries
<1>4. ASSUME NEW r \in Requests, DeleteRow(r) \/ Unlink(r) PROVE Carries(q, m)
  <2>1. In(r, "unlink") => req[r] = [stage |-> "unlink", m |-> req[r].m, left |-> req[r].left]
    BY HandlerShape
  <2> QED
    BY <1>4, <2>1 DEF DeleteRow, Unlink, In, Reply, Idle, Carries
<1>5. CASE UNCHANGED req
  BY <1>5 DEF Carries
<1>6. CASE Exit \/ Crash
  BY <1>6 DEF Exit, Crash, Halt, Idle, Carries
<1> QED
  BY <1>1, <1>2, <1>3, <1>4, <1>5, <1>6
     DEF Next, Handle, Work, Process, TakeJob, Find, BeginProcessing, Probe, Thumbnail,
         CreateHLSDir, EncodeHLS, SaveFailure, SaveReady, StopWorker, Expire, Panic,
         Boot, Recover, Listen, Signal, CloseQueue, vars

LEMMA UnseenGrows ==
  ASSUME [Next]_vars
  PROVE  unseen \subseteq unseen'
BY DEF Next, Handle, StoreOriginal, BeginEdit, EnqueueItem, SaveItem, Retitle, SetFavorite,
       DeleteRow, Unlink, GiveUp, Work, Process, TakeJob, Find, BeginProcessing, Probe,
       Thumbnail, CreateHLSDir, EncodeHLS, SaveFailure, SaveReady, StopWorker, Expire, Panic,
       Boot, Recover, Listen, Signal, CloseQueue, Exit, Crash, Halt, stores, vars

LEMMA UnseenStep ==
  ASSUME TypeOK, PhaseInv, ClaimInv, FreshInv, UnseenInv, [Next]_vars
  PROVE  UnseenInv'
<1> USE DEF TypeOK
<1> SUFFICES ASSUME NEW m \in unseen'
             PROVE  /\ m \in saved' /\ files'[m] = {}
                    /\ row'[m] # NoRow => Bare(row'[m])
                    /\ \A q \in Requests : ~Carries(q, m)'
                    /\ \A q \in Requests : req'[q].stage \in Editing /\ req'[q].m = m =>
                         Bare(req'[q].snap)
                    /\ \A w \in Workers : Runs(w, m)' /\ proc'[w].stage \in Steps =>
                         proc'[w].stage \in {"begin", "probe", "fail"} /\ Bare(proc'[w].snap)
  BY DEF UnseenInv, Exists
<1>0. \A w \in Workers : proc[w].stage \in Steps => Runs(w, Item(w))
  <2> SUFFICES ASSUME NEW w \in Workers, proc[w].stage \in Steps PROVE Runs(w, Item(w))
    OBVIOUS
  <2>1. proc[w] # NoProc
    BY DEF NoProc, Steps
  <2> QED
    BY <2>1, AtWork
<1>1. CASE m \notin unseen
  <2>1. PICK r \in Requests :
          /\ SaveItem(r) /\ In(r, "save") /\ req[r].m = m /\ m \in Jobs
          /\ row'[m] = NewRow /\ files'[m] = {}
          /\ req' = [req EXCEPT ![r] = Idle] /\ UNCHANGED <<saved, proc, worker>>
    BY <1>1, NewlyUnseen
  <2>2. Carries(r, m) /\ req[r] # Idle
    BY <2>1 DEF Carries, In, Idle
  <2>3. m \in saved /\ \A w \in Workers : ~Runs(w, m)
    BY <2>1, <2>2 DEF ClaimInv, Claimed, OnWorker
  <2>4. \A q \in Requests : req'[q] = Idle \/ req'[q].m # m
    BY <2>1 DEF FreshInv
  <2>5. \A q \in Requests : ~Carries(q, m)' /\ ~(req'[q].stage \in Editing /\ req'[q].m = m)
    BY <2>4 DEF Carries, Idle, Editing
  <2>6. \A w \in Workers : ~Runs(w, m)'
    BY <2>1, <2>3 DEF Runs
  <2> QED
    BY <2>1, <2>3, <2>5, <2>6 DEF Bare, NewRow
<1>2. CASE m \in unseen
  <2>0. /\ m \in saved /\ m \in Jobs /\ files[m] = {}
        /\ Exists(m) => Bare(row[m])
        /\ \A q \in Requests : ~Carries(q, m)
        /\ \A q \in Requests : req[q].stage \in Editing /\ req[q].m = m => Bare(req[q].snap)
        /\ \A w \in Workers : proc[w].stage \in Steps /\ Item(w) = m =>
             proc[w].stage \in {"begin", "probe", "fail"} /\ Bare(proc[w].snap)
    BY <1>0, <1>2 DEF UnseenInv
  <2>1. \A w \in Workers : Item(w) = m => ~At(w, "thumb") /\ ~At(w, "hls")
    BY <2>0 DEF At, Steps
  <2>2. files'[m] = {}
    BY <2>0, <2>1, BareStays
  <2>3. saved \subseteq saved'
    BY DEF Next, Handle, StoreOriginal, BeginEdit, EnqueueItem, SaveItem, Retitle, SetFavorite,
           DeleteRow, Unlink, GiveUp, Work, Process, TakeJob, Find, BeginProcessing, Probe,
           Thumbnail, CreateHLSDir, EncodeHLS, SaveFailure, SaveReady, StopWorker, Expire, Panic,
           Boot, Recover, Listen, Signal, CloseQueue, Exit, Crash, Halt, stores, vars
  <2>4. ASSUME row'[m] # NoRow PROVE Bare(row'[m])
    <3>1. Exists(m)'
      BY <2>4 DEF Exists
    <3>2. CASE Exists(m) /\ Alike(row'[m], row[m])
      BY <2>0, <3>2 DEF Bare, Alike
    <3>3. CASE row'[m] = NewRow
      BY <3>3 DEF Bare, NewRow
    <3>4. ASSUME NEW r \in Requests, Retitle(r), req[r].m = m, Alike(row'[m], req[r].snap)
          PROVE  Bare(row'[m])
      BY <2>0, <3>4 DEF Retitle, In, Editing, Bare, Alike
    <3>5. ASSUME NEW w \in Workers, Item(w) = m,
                 row'[m].thumb = proc[w].snap.thumb, row'[m].hls = proc[w].snap.hls,
                 \/ At(w, "begin") /\ row'[m].status = proc[w].snap.status
                 \/ At(w, "fail") /\ row'[m].status = "failed"
                 \/ At(w, "ready") /\ row'[m].status = "ready"
          PROVE  Bare(row'[m])
      BY <2>0, <3>5 DEF At, Steps, Bare
    <3> QED
      BY <2>0, <3>1, <3>2, <3>3, <3>4, <3>5, WhereRowsComeFrom
  <2>5. ASSUME NEW q \in Requests PROVE ~Carries(q, m)'
    BY <2>0, CarriersStay
  <2>6. ASSUME NEW q \in Requests, req'[q].stage \in Editing, req'[q].m = m
        PROVE  Bare(req'[q].snap)
    BY <2>0, <2>6, WhereCopiesComeFrom
  <2>7. ASSUME NEW w \in Workers, Runs(w, m)', proc'[w].stage \in Steps
        PROVE  proc'[w].stage \in {"begin", "probe", "fail"} /\ Bare(proc'[w].snap)
    <3>1. CASE proc'[w] = proc[w] /\ worker'[w] = worker[w]
      BY <1>2, <2>7, <3>1 DEF UnseenInv, Runs
    <3>2. CASE Process(w)
      <4>0. ~Return(w)
        BY <2>7 DEF Return, NoProc, Steps
      <4>1. ~Strand(w) /\ ~SaveFailure(w) /\ ~SaveReady(w)
        BY <4>0 DEF Strand, SaveFailure, SaveReady
      <4>2. worker' = worker
        BY <3>2, <4>0, <4>1 DEF Process, Find, BeginProcessing, Probe, Thumbnail, CreateHLSDir,
                                EncodeHLS, Go, pool
      <4>3. Item(w) = m
        BY <2>7, <4>2 DEF Runs, Item, Running
      <4>4. ~Thumbnail(w) /\ ~CreateHLSDir(w) /\ ~EncodeHLS(w)
        BY <2>0, <4>3 DEF Thumbnail, CreateHLSDir, EncodeHLS, At, Steps
      <4>5. CASE Find(w)
        <5>1. /\ Exists(m) /\ row[m] \in Rows
              /\ proc'[w] = [stage |-> "begin", snap |-> [row[m] EXCEPT !.status = "processing"]]
          BY <2>0, <4>0, <4>1, <4>3, <4>5 DEF Find, Go, Exists
        <5>2. /\ [row[m] EXCEPT !.status = "processing"].status = "processing"
              /\ [row[m] EXCEPT !.status = "processing"].thumb = row[m].thumb
              /\ [row[m] EXCEPT !.status = "processing"].hls = row[m].hls
          BY <5>1 DEF Rows
        <5>3. ~row[m].thumb /\ ~row[m].hls
          BY <2>0, <5>1 DEF Bare
        <5>4. proc'[w].stage = "begin" /\ proc'[w].snap = [row[m] EXCEPT !.status = "processing"]
          BY <5>1
        <5>5. Bare([row[m] EXCEPT !.status = "processing"])
          BY <5>2, <5>3 DEF Bare
        <5> QED
          BY <5>4, <5>5
      <4>6. CASE BeginProcessing(w)
        BY <2>0, <4>0, <4>1, <4>3, <4>6 DEF BeginProcessing, Go, At, Steps
      <4>7. CASE Probe(w)
        BY <2>0, <4>3, <4>7 DEF Probe, Go, At, Steps
      <4> QED
        BY <3>2, <4>1, <4>4, <4>5, <4>6, <4>7 DEF Process
    <3> QED
      BY <2>7, <3>1, <3>2, WhereWorkGoes
  <2> QED
    BY <2>0, <2>2, <2>3, <2>4, <2>5, <2>6, <2>7
<1> QED
  BY <1>1, <1>2
-----------------------------------------------------------------------------
(* The copies.                                                             *)

LEMMA UnfinishedStep ==
  ASSUME TypeOK, PhaseInv, ClaimInv, FreshInv, UnfinishedInv, CopyInv, [Next]_vars
  PROVE  UnfinishedInv'
<1> USE DEF TypeOK
<1> SUFFICES ASSUME NEW m \in Jobs, Claimed(m)' PROVE Unsettled(m)'
  BY DEF UnfinishedInv
<1>1. ClaimInv' /\ Unsettled(m)
  BY ClaimStep
<1>2. ASSUME Exists(m)' PROVE Unfinished(m)'
  <2>1. CASE Exists(m) /\ Alike(row'[m], row[m])
    BY <1>1, <2>1 DEF Unsettled, Unfinished, Alike
  <2>2. CASE row'[m] = NewRow
    BY <2>2 DEF Unfinished, NewRow
  <2>3. ASSUME NEW r \in Requests, Retitle(r), req[r].m = m, Alike(row'[m], req[r].snap)
        PROVE  Unfinished(m)'
    BY <1>1, <2>3 DEF Retitle, In, Editing, Unsettled, Unfinished, Alike
  <2>4. ASSUME NEW w \in Workers, At(w, "begin"), row'[m].status = proc[w].snap.status
        PROVE  Unfinished(m)'
    BY <2>4 DEF At, CopyInv, WorkerCopies, Fits, Steps, Unfinished
  <2>5. ASSUME NEW w \in Workers, Item(w) = m, ~At(w, "none"), Return(w), UNCHANGED <<req, todo>>
        PROVE  FALSE
    <3>1. proc[w] # NoProc
      BY <2>5, ProcShape
    <3>2. Runs(w, m) /\ OnWorker(m)
      BY <2>5, <3>1, AtWork DEF OnWorker
    <3>3. \A v \in Workers : ~Runs(v, m)'
      <4>1. \A v \in Workers : Runs(v, m) => v = w
        BY <3>2 DEF ClaimInv, OneWorkerPerItem
      <4>2. worker' = [worker EXCEPT ![w] = Waiting] /\ Waiting # Running(m)
        BY <2>5 DEF Return, Finish, Waiting, Running
      <4> QED
        BY <4>1, <4>2 DEF Runs, PoolTypeOK
    <3>4. ~Queued(m) /\ m \notin todo /\ \A r \in Requests : ~Carries(r, m)
      BY <3>2 DEF ClaimInv, OneWorkerPerItem
    <3>5. queue' = queue
      BY <2>5 DEF Return, Finish
    <3> QED
      BY <2>5, <3>3, <3>4, <3>5 DEF Claimed, OnWorker, Queued, Carries
  <2> QED
    BY <1>2, <2>1, <2>2, <2>3, <2>4, <2>5, WhereRowsComeFrom
<1>3. ASSUME NEW q \in Requests, req'[q].stage \in Editing, req'[q].m = m
      PROVE  req'[q].snap.status \in {"pending", "processing"}
  BY <1>1, <1>3, WhereCopiesComeFrom DEF Unsettled, Unfinished
<1> QED
  BY <1>2, <1>3 DEF Unsettled

\* The files a copy names stay, as long as it names no HLS set that is being
\* encoded.
LEMMA NamesKept ==
  ASSUME TypeOK, PhaseInv, FreshInv, [Next]_vars,
         NEW m \in Jobs, Exists(m), NEW item, Names(item, files[m]),
         item.hls => ~ \E w \in Workers : At(w, "encode") /\ Item(w) = m
  PROVE  Names(item, files'[m])
BY WhereFilesGo DEF Names

\* An item that is being worked on is unsettled, and no other worker has it.
LEMMA WorkClaims ==
  ASSUME TypeOK, PhaseInv, ClaimInv, UnfinishedInv, NEW w \in Workers, ~At(w, "none")
  PROVE  /\ Item(w) \in Jobs /\ Unsettled(Item(w))
         /\ \A r \in Requests : ~Carries(r, Item(w))
         /\ \A v \in Workers : ~At(v, "none") /\ Item(v) = Item(w) => v = w
<1>1. \A v \in Workers : ~At(v, "none") => Item(v) \in Jobs /\ Runs(v, Item(v))
  BY ProcShape, AtWork DEF TypeOK
<1> QED
  BY <1>1 DEF UnfinishedInv, Claimed, OnWorker, ClaimInv, OneWorkerPerItem

\* The rows.
LEMMA RowStep ==
  ASSUME TypeOK, PhaseInv, ClaimInv, FreshInv, UnfinishedInv, CopyInv, RowsPointAtFiles,
         UnseenInv', [Next]_vars
  PROVE  RowCopies' /\ RowsPointAtFiles'
<1> USE DEF TypeOK
<1> SUFFICES ASSUME NEW m \in Jobs, Exists(m)'
             PROVE  /\ Sound(m, row'[m]) /\ Names(row'[m], files'[m])
                    /\ "original" \in files'[m] \/ m \in unseen'
  BY DEF RowCopies, RowsPointAtFiles, Names, UnseenInv, Bare
<1>1. \A w \in Workers : At(w, "encode") => ~At(w, "none") /\ ~At(w, "ready")
  BY DEF At
<1>2. ASSUME Exists(m) PROVE "original" \in files'[m] \/ m \in unseen'
  BY <1>2, WhereFilesGo, UnseenGrows DEF RowsPointAtFiles
<1>3. CASE Exists(m) /\ Alike(row'[m], row[m])
  <2>1. Sound(m, row[m]) /\ Names(row[m], files[m])
    BY <1>3 DEF CopyInv, RowCopies, RowsPointAtFiles, Names
  <2>2. row[m].hls => ~ \E w \in Workers : At(w, "encode") /\ Item(w) = m
    BY <1>1, <1>3, <2>1, WorkClaims DEF Sound, Unsettled, Unfinished
  <2>3. Names(row[m], files'[m])
    BY <1>3, <2>1, <2>2, NamesKept
  <2> QED
    BY <1>2, <1>3, <2>1, <2>3 DEF Alike, Sound, Names
<1>4. ASSUME row'[m] = NewRow, NEW r \in Requests, SaveItem(r), req[r].m = m
      PROVE  /\ Sound(m, row'[m]) /\ Names(row'[m], files'[m])
             /\ "original" \in files'[m] \/ m \in unseen'
  <2>1. ~Exists(m) /\ "original" \in files[m]
    BY <1>4 DEF SaveItem, FreshInv
  <2>2. files' = files \/ m \in unseen'
    BY <1>4, <2>1 DEF SaveItem, Exists, NewRow, NoRow
  <2> QED
    BY <1>4, <2>1, <2>2 DEF Sound, Names, NewRow
<1>5. ASSUME NEW r \in Requests, Retitle(r), req[r].m = m, Exists(m), Alike(row'[m], req[r].snap)
      PROVE  /\ Sound(m, row'[m]) /\ Names(row'[m], files'[m])
             /\ "original" \in files'[m] \/ m \in unseen'
  <2>1. Sound(m, req[r].snap) /\ Names(req[r].snap, files[m])
    BY <1>5 DEF CopyInv, HandlerCopies, Retitle, In, Editing
  <2>2. files' = files
    BY <1>5 DEF Retitle
  <2> QED
    BY <1>2, <1>5, <2>1, <2>2 DEF Alike, Sound, Names
<1>6. ASSUME NEW w \in Workers, Item(w) = m, Exists(m), ~At(w, "none"),
             row'[m].thumb = proc[w].snap.thumb, row'[m].hls = proc[w].snap.hls,
             \/ At(w, "begin") /\ row'[m].status = proc[w].snap.status
             \/ At(w, "fail") /\ row'[m].status = "failed"
             \/ At(w, "ready") /\ row'[m].status = "ready"
      PROVE  /\ Sound(m, row'[m]) /\ Names(row'[m], files'[m])
             /\ "original" \in files'[m] \/ m \in unseen'
  <2>1. proc[w].stage \in Steps /\ ~At(w, "encode")
    BY <1>6 DEF At, Steps
  <2>2. /\ proc[w].snap.status = "processing"
        /\ Names(proc[w].snap, files[m])
        /\ proc[w].snap.hls => At(w, "ready")
        /\ At(w, "ready") => /\ m \in Audios \/ proc[w].snap.thumb
                             /\ m \in Videos => proc[w].snap.hls
    BY <1>6, <2>1 DEF CopyInv, WorkerCopies, Fits, At
  <2>3. Sound(m, row'[m])
    BY <1>6, <2>2 DEF Sound, At
  <2>4. \A v \in Workers : ~(At(v, "encode") /\ Item(v) = m)
    BY <1>1, <1>6, <2>1, WorkClaims
  <2>5. Names(proc[w].snap, files'[m])
    BY <1>6, <2>2, <2>4, NamesKept
  <2> QED
    BY <1>2, <1>6, <2>3, <2>5 DEF Names
<1> QED
  BY <1>3, <1>4, <1>5, <1>6, WhereRowsComeFrom

LEMMA HandlerCopyStep ==
  ASSUME TypeOK, PhaseInv, ClaimInv, FreshInv, UnfinishedInv, CopyInv, RowsPointAtFiles,
         [Next]_vars
  PROVE  HandlerCopies'
<1> USE DEF TypeOK
<1> SUFFICES ASSUME NEW q \in Requests, req'[q].stage \in Editing
             PROVE  /\ Sound(req'[q].m, req'[q].snap)
                    /\ row'[req'[q].m] # NoRow => Names(req'[q].snap, files'[req'[q].m])
  BY DEF HandlerCopies, Exists
<1>0. PICK m, item : m = req'[q].m /\ item = req'[q].snap
  OBVIOUS
<1>1. /\ m \in Jobs /\ Sound(m, item)
      /\ Exists(m) => Names(item, files[m])
      /\ (req[q].stage \in Editing /\ req[q].m = m) \/ Exists(m)
      /\ Unsettled(m) => item.status \in {"pending", "processing"}
  <2>1. CASE req[q].stage \in Editing /\ req'[q].m = req[q].m /\ req'[q].snap = req[q].snap
    BY <1>0, <2>1, HandlerShape DEF CopyInv, HandlerCopies, Unsettled, In, Editing
  <2>2. CASE m \in Jobs /\ Exists(m) /\ item = row[m]
    BY <2>2 DEF CopyInv, RowCopies, RowsPointAtFiles, Names, Unsettled, Unfinished
  <2> QED
    BY <1>0, <2>1, <2>2, WhereCopiesComeFrom
<1>2. ASSUME Exists(m)' PROVE Exists(m)
  <2>1. ASSUME NEW r \in Requests, SaveItem(r), req[r].m = m, ~Exists(m) PROVE FALSE
    <3>1. q # r /\ req[q] # Idle /\ req[q].m = m
      BY <1>1, <2>1 DEF SaveItem, In, Editing, Idle
    <3> QED
      BY <2>1, <3>1 DEF SaveItem, FreshInv
  <2> QED
    BY <1>1, <1>2, <2>1, WhereRowsComeFrom
<1>3. item.hls => ~ \E w \in Workers : At(w, "encode") /\ Item(w) = m
  <2>1. \A w \in Workers : At(w, "encode") => ~At(w, "none")
    BY DEF At
  <2> QED
    BY <1>1, <2>1, WorkClaims DEF Sound
<1>4. Exists(m)' => Names(item, files'[m])
  BY <1>1, <1>2, <1>3, NamesKept
<1> QED
  BY <1>0, <1>1, <1>4 DEF Exists

\* What a worker has found and made, by its next step.
LEMMA OwnCopyStep ==
  ASSUME TypeOK, PhaseInv, CopyInv, RowsPointAtFiles,
         NEW w \in Workers, Process(w), proc'[w].stage \in Steps
  PROVE  /\ worker' = worker
         /\ Fits(Item(w), proc'[w].stage, proc'[w].snap)
         /\ Exists(Item(w)) => Names(proc'[w].snap, files'[Item(w)])
<1> USE DEF TypeOK
<1> DEFINE m == Item(w)
           item == proc[w].snap
           Goal == /\ worker' = worker
                   /\ Fits(Item(w), proc'[w].stage, proc'[w].snap)
                   /\ Exists(Item(w)) => Names(proc'[w].snap, files'[Item(w)])
<1>0. ~Return(w)
  BY DEF Return, NoProc, Steps
<1>1. ASSUME NEW stage, NEW new, Go(w, stage, new), Fits(m, stage, new),
             Exists(m) => Names(new, files'[m])
      PROVE  Goal
  <2>1. proc'[w] = [stage |-> stage, snap |-> new] /\ worker' = worker
    BY <1>1 DEF Go, pool
  <2>2. proc'[w].stage = stage /\ proc'[w].snap = new
    BY <2>1
  <2> QED
    BY <1>1, <2>1, <2>2
<1> SUFFICES Goal
  OBVIOUS
<1> HIDE DEF Goal
<1>2. ASSUME proc[w].stage \in Steps
      PROVE  /\ m \in Jobs /\ item \in Rows
             /\ Fits(m, proc[w].stage, item)
             /\ Exists(m) => Names(item, files[m])
  BY <1>2, ProcShape, AtWork DEF CopyInv, WorkerCopies
<1>3. CASE Find(w)
  <2>1. m \in Jobs
    BY <1>3, AtWork DEF Find, At, NoProc
  <2>2. /\ Exists(m) /\ row[m].status # "ready"
        /\ Go(w, "begin", [row[m] EXCEPT !.status = "processing"])
        /\ files' = files
    BY <1>0, <1>3 DEF Find, Strand, stores
  <2>3. row[m] \in Rows
    BY <2>1, <2>2 DEF Exists
  <2> DEFINE new == [row[m] EXCEPT !.status = "processing"]
  <2>4. /\ new.status = "processing"
        /\ new.thumb = row[m].thumb /\ new.hls = row[m].hls
    BY <2>3 DEF Rows
  <2>5. Go(w, "begin", new)
    BY <2>2
  <2> HIDE DEF new
  <2>6. ~new.hls /\ (new.thumb => "thumb" \in files[m])
    BY <2>1, <2>2, <2>4 DEF CopyInv, RowCopies, Sound, RowsPointAtFiles
  <2>7. Fits(m, "begin", new) /\ Names(new, files'[m])
    BY <2>2, <2>4, <2>6 DEF Fits, Names
  <2> QED
    BY <1>1, <2>5, <2>7
<1>4. CASE BeginProcessing(w)
  <2>1. proc[w].stage = "begin" /\ Go(w, "probe", item) /\ files' = files
    BY <1>0, <1>4 DEF BeginProcessing, Strand, At
  <2>2. Fits(m, "probe", item)
    BY <1>2, <2>1 DEF Fits, Steps
  <2> QED
    BY <1>1, <1>2, <2>1, <2>2 DEF Steps
<1>5. CASE Probe(w)
  <2>1. /\ proc[w].stage = "probe" /\ files' = files
        /\ Go(w, "thumb", item) \/ Go(w, "fail", item)
    BY <1>5 DEF Probe, At, stores
  <2>2. Fits(m, "thumb", item) /\ Fits(m, "fail", item)
    BY <1>2, <2>1 DEF Fits, Steps
  <2> QED
    BY <1>1, <1>2, <2>1, <2>2 DEF Steps
<1>6. CASE Thumbnail(w)
  <2> DEFINE next == IF m \in Videos THEN "hls" ELSE "ready"
  <2>1. /\ proc[w].stage = "thumb" /\ m \in Jobs /\ item \in Rows
        /\ Fits(m, "thumb", item) /\ (Exists(m) => Names(item, files[m]))
    BY <1>2, <1>6 DEF Thumbnail, At, Steps
  <2>2. CASE /\ files' = [files EXCEPT ![m] = @ \cup {"thumb"}]
             /\ Go(w, next, [item EXCEPT !.thumb = TRUE])
    <3> DEFINE new == [item EXCEPT !.thumb = TRUE]
    <3>0. Go(w, next, new)
      BY <2>2
    <3>1. new.thumb = TRUE /\ new.hls = item.hls /\ new.status = item.status
      BY <2>1 DEF Rows
    <3> HIDE DEF new
    <3>2. files'[m] = files[m] \cup {"thumb"}
      BY <2>1, <2>2
    <3>3. Fits(m, next, new)
      BY <2>1, <3>1 DEF Fits
    <3>4. Exists(m) => Names(new, files'[m])
      BY <2>1, <3>1, <3>2 DEF Names
    <3> QED
      BY <1>1, <3>0, <3>3, <3>4
  <2>3. CASE /\ files' \in {files, [files EXCEPT ![m] = @ \cup {"thumb"}]}
             /\ Go(w, IF m \in Audios THEN next ELSE "fail", item)
    <3>1. files[m] \subseteq files'[m]
      BY <2>1, <2>3
    <3>2. Fits(m, IF m \in Audios THEN next ELSE "fail", item)
      BY <2>1, KindAssumption DEF Fits
    <3>3. Exists(m) => Names(item, files'[m])
      BY <2>1, <3>1 DEF Names
    <3> QED
      BY <1>1, <2>3, <3>2, <3>3
  <2> QED
    BY <1>6, <2>2, <2>3 DEF Thumbnail
<1>7. CASE CreateHLSDir(w)
  <2>1. proc[w].stage = "hls" /\ m \in Jobs /\ Fits(m, "hls", item)
        /\ (Exists(m) => Names(item, files[m]))
    BY <1>2, <1>7 DEF CreateHLSDir, At, Steps
  <2>2. Go(w, "encode", item) /\ files[m] \subseteq files'[m]
    BY <1>7, <2>1 DEF CreateHLSDir
  <2>3. Fits(m, "encode", item) /\ (Exists(m) => Names(item, files'[m]))
    BY <2>1, <2>2 DEF Fits, Names
  <2> QED
    BY <1>1, <2>2, <2>3
<1>8. CASE EncodeHLS(w)
  <2>1. /\ proc[w].stage = "encode" /\ m \in Jobs /\ item \in Rows
        /\ Fits(m, "encode", item) /\ (Exists(m) => Names(item, files[m]))
    BY <1>2, <1>8 DEF EncodeHLS, At, Steps
  <2>2. CASE "hls" \in files[m] /\ Go(w, "ready", [item EXCEPT !.hls = TRUE]) /\ files' = files
    <3> DEFINE new == [item EXCEPT !.hls = TRUE]
    <3>0. Go(w, "ready", new)
      BY <2>2
    <3>1. new.thumb = item.thumb /\ new.hls = TRUE /\ new.status = item.status
      BY <2>1 DEF Rows
    <3> HIDE DEF new
    <3>2. Fits(m, "ready", new) /\ (Exists(m) => Names(new, files'[m]))
      BY <2>1, <2>2, <3>1 DEF Fits, Names
    <3> QED
      BY <1>1, <3>0, <3>2
  <2>3. CASE files' = [files EXCEPT ![m] = @ \ {"hls"}] /\ Go(w, "fail", item)
    <3>1. files'[m] = files[m] \ {"hls"}
      BY <2>1, <2>3
    <3>2. Fits(m, "fail", item) /\ (Exists(m) => Names(item, files'[m]))
      BY <2>1, <3>1 DEF Fits, Names
    <3> QED
      BY <1>1, <2>3, <3>2
  <2> QED
    BY <1>8, <2>2, <2>3 DEF EncodeHLS
<1>9. ~SaveFailure(w) /\ ~SaveReady(w)
  BY <1>0 DEF SaveFailure, SaveReady, Strand
<1> QED
  BY <1>3, <1>4, <1>5, <1>6, <1>7, <1>8, <1>9 DEF Process, Goal

LEMMA WorkerCopyStep ==
  ASSUME TypeOK, PhaseInv, ClaimInv, FreshInv, UnfinishedInv, CopyInv, RowsPointAtFiles,
         [Next]_vars
  PROVE  WorkerCopies'
<1> USE DEF TypeOK
<1> SUFFICES ASSUME NEW w \in Workers, proc'[w].stage \in Steps
             PROVE  /\ Fits(Item(w)', proc'[w].stage, proc'[w].snap)
                    /\ Exists(Item(w))' => Names(proc'[w].snap, files'[Item(w)'])
  BY DEF WorkerCopies
<1>1. ASSUME proc'[w] = proc[w], worker'[w] = worker[w]
      PROVE  /\ Fits(Item(w)', proc'[w].stage, proc'[w].snap)
             /\ Exists(Item(w))' => Names(proc'[w].snap, files'[Item(w)'])
  <2> DEFINE m == Item(w)
             item == proc[w].snap
  <2>1. proc[w].stage \in Steps /\ ~At(w, "none") /\ Item(w)' = m
    BY <1>1 DEF At, Steps, Item, Running
  <2>2. /\ Fits(m, proc[w].stage, item)
        /\ Exists(m) => Names(item, files[m])
    BY <2>1 DEF CopyInv, WorkerCopies
  <2>3. /\ m \in Jobs /\ \A r \in Requests : ~Carries(r, m)
        /\ \A v \in Workers : ~At(v, "none") /\ Item(v) = m => v = w
    BY <2>1, WorkClaims
  <2>4. item.hls => ~ \E v \in Workers : At(v, "encode") /\ Item(v) = m
    BY <2>2, <2>3 DEF Fits, At
  <2>5. row'[m] # NoRow => Exists(m)
    BY <2>3, WhereRowsComeFrom DEF SaveItem, Carries, In, Exists
  <2>6. row'[m] # NoRow => Names(item, files'[m])
    BY <2>2, <2>3, <2>4, <2>5, NamesKept
  <2> QED
    BY <1>1, <2>1, <2>2, <2>6 DEF Exists
<1>2. CASE Process(w)
  <2>1. /\ worker' = worker
        /\ Fits(Item(w), proc'[w].stage, proc'[w].snap)
        /\ Exists(Item(w)) => Names(proc'[w].snap, files'[Item(w)])
    BY <1>2, OwnCopyStep
  <2>2. ~At(w, "none")
    BY <1>2 DEF Process, Find, BeginProcessing, Probe, Thumbnail, CreateHLSDir, EncodeHLS,
                SaveFailure, SaveReady, At
  <2>3. Item(w)' = Item(w) /\ (row'[Item(w)] # NoRow => Exists(Item(w)))
    BY <1>2, <2>1, <2>2, WorkClaims, WorkerLeaves DEF Item, Work, Exists
  <2> QED
    BY <2>1, <2>3 DEF Exists
<1> QED
  BY <1>1, <1>2, WhereWorkGoes
-----------------------------------------------------------------------------
(* Nothing is forgotten.                                                   *)

\* Where an unfinished item is, or what has happened to it.
Placed(m) ==
  \/ Queued(m) \/ OnWorker(m) \/ m \in todo \/ m \in adrift
  \/ \E r \in Requests : In(r, "enqueue") /\ req[r].m = m

LEMMA HandlersPlace ==
  ASSUME TypeOK, NEW m \in Jobs, Placed(m), NEW r \in Requests,
         \/ StoreOriginal(r) \/ SaveItem(r) \/ EnqueueItem(r) \/ Unlink(r)
         \/ BeginEdit(r) \/ Retitle(r) \/ SetFavorite(r) \/ DeleteRow(r) \/ GiveUp(r)
  PROVE  Placed(m)'
<1> USE DEF TypeOK
<1>1. CASE EnqueueItem(r)
  <2>1. req[r].m \in Jobs /\ todo' = todo /\ adrift \subseteq adrift'
        /\ \A q \in Requests \ {r} : req'[q] = req[q]
    BY <1>1, HandlerShape DEF EnqueueItem, Reply, In, server
  <2>2. CASE Enqueue(req[r].m)
    <3>1. \A k : Queued(k)' <=> (Queued(k) \/ k = req[r].m)
      BY <2>1, <2>2, EnqueueStep
    <3>2. OnWorker(m) => OnWorker(m)'
      BY <2>2 DEF Enqueue, OnWorker, Runs
    <3> QED
      BY <2>1, <3>1, <3>2 DEF Placed, In
  <2>3. CASE adrift' = adrift \cup {req[r].m} /\ UNCHANGED pool
    BY <2>1, <2>3 DEF Placed, In, pool, Queued, OnWorker, Runs
  <2> QED
    BY <1>1, <2>2, <2>3 DEF EnqueueItem
<1>2. CASE StoreOriginal(r) \/ SaveItem(r) \/ Unlink(r) \/ BeginEdit(r) \/ Retitle(r)
           \/ SetFavorite(r) \/ DeleteRow(r) \/ GiveUp(r)
  <2>1. UNCHANGED <<queue, worker, todo>> /\ adrift \subseteq adrift'
    BY <1>2 DEF StoreOriginal, SaveItem, Unlink, BeginEdit, Retitle, SetFavorite, DeleteRow,
                GiveUp, work, server, pool, history
  <2>2. /\ \A q \in Requests \ {r} : req'[q] = req[q]
        /\ ~In(r, "enqueue")
    BY <1>2 DEF StoreOriginal, SaveItem, Unlink, BeginEdit, Retitle, SetFavorite, DeleteRow,
                GiveUp, Reply, In
  <2> QED
    BY <2>1, <2>2 DEF Placed, In, Queued, OnWorker, Runs
<1> QED
  BY <1>1, <1>2

LEMMA WorkersPlace ==
  ASSUME TypeOK, PhaseInv, NEW m \in Jobs, Placed(m), Unfinished(m)', NEW w \in Workers,
         Work(w) \/ Expire(w) \/ Panic(w)
  PROVE  Placed(m)'
<1> USE DEF TypeOK
<1>0. /\ UNCHANGED <<req, todo>> /\ adrift \subseteq adrift'
      /\ Exists(m)
  <2>1. Exists(m)'
    BY DEF Unfinished, Exists, NoRow
  <2>2. adrift \subseteq adrift'
    BY DEF Work, Process, TakeJob, Find, BeginProcessing, Probe, Thumbnail, CreateHLSDir,
           EncodeHLS, SaveFailure, SaveReady, StopWorker, Expire, Panic, Strand, history
  <2> QED
    BY <2>1, <2>2, WorkerLeaves
<1>1. CASE TakeJob(w)
  <2>1. PICK j \in Jobs : /\ worker[w] = Waiting
                          /\ worker' = [worker EXCEPT ![w] = Running(j)]
                          /\ j = Head(queue) /\ queue # <<>> /\ queue' = Tail(queue)
    BY <1>1, HeadTailProperties DEF TakeJob, Take, PoolTypeOK
  <2>2. Queued(m) => m = j \/ Queued(m)'
    <3>1. ASSUME NEW i \in 1 .. Len(queue), queue[i] = m, i # 1
          PROVE  i - 1 \in 1 .. Len(queue') /\ queue'[i - 1] = m
      BY <2>1, <3>1, HeadTailProperties DEF PoolTypeOK
    <3>2. queue[1] = j
      BY <2>1
    <3> QED
      BY <3>1, <3>2 DEF Queued
  <2>3. OnWorker(m) \/ m = j => OnWorker(m)'
    BY <2>1 DEF OnWorker, Runs, PoolTypeOK, Waiting, Running
  <2> QED
    BY <1>0, <2>2, <2>3 DEF Placed, In
<1>2. CASE StopWorker(w)
  BY <1>0, <1>2 DEF StopWorker, Stop, Placed, In, Queued, OnWorker, Runs, PoolTypeOK,
                    Waiting, Running
<1>3. CASE Expire(w)
  BY <1>0, <1>3 DEF Expire, pool, Placed, In, Queued, OnWorker, Runs
<1>4. ASSUME NEW stage, NEW item, Go(w, stage, item)
      PROVE  Placed(m)'
  BY <1>0, <1>4 DEF Go, pool, Placed, In, Queued, OnWorker, Runs
<1>5. ASSUME Return(w), Item(w) \in adrift' \/ ~OnWorker(m) \/ m # Item(w),
             proc[w] # NoProc
      PROVE  Placed(m)'
  <2>1. queue' = queue /\ worker' = [worker EXCEPT ![w] = Waiting]
    BY <1>5 DEF Return, Finish
  <2>2. m # Item(w) => (OnWorker(m) => OnWorker(m)')
    BY <1>5, <2>1, AtWork DEF OnWorker, Runs, PoolTypeOK
  <2> QED
    BY <1>0, <1>5, <2>1, <2>2 DEF Placed, In, Queued
<1>6. CASE Process(w) \/ Panic(w)
  <2>1. proc[w] # NoProc
    BY <1>6 DEF Process, Find, BeginProcessing, Probe, Thumbnail, CreateHLSDir,
                EncodeHLS, SaveFailure, SaveReady, Panic, At, NoProc
  <2>2. Item(w) \in Jobs
    BY <2>1, AtWork
  <2>3. CASE Strand(w)
    BY <1>5, <2>1, <2>3 DEF Strand
  <2>4. ASSUME Return(w), m = Item(w), ~Strand(w) PROVE FALSE
    <3>1. \A stage, item : ~Go(w, stage, item)
      <4>1. \A stage, item : [stage |-> stage, snap |-> item] # NoProc
        BY DEF NoProc
      <4> QED
        BY <2>4, <4>1 DEF Return, Go
    <3>2. ~(UNCHANGED row /\ (~Exists(m) \/ row[m].status = "ready"))
      BY <1>0 DEF Unfinished, Exists
    <3>3. ASSUME proc[w].stage \in Steps, NEW s \in {"failed", "ready"},
                 Update(m, [proc[w].snap EXCEPT !.status = s])
          PROVE  FALSE
      <4>1. proc[w].snap \in Rows
        BY <3>3, ProcShape
      <4>2. row' = [row EXCEPT ![m] = [[proc[w].snap EXCEPT !.status = s] EXCEPT !.fav = row[m].fav]]
        BY <3>3 DEF Update
      <4>3. row'[m] = [[proc[w].snap EXCEPT !.status = s] EXCEPT !.fav = row[m].fav]
        BY <4>2
      <4>4. [[proc[w].snap EXCEPT !.status = s] EXCEPT !.fav = row[m].fav].status = s
        BY <4>1 DEF Rows
      <4> QED
        BY <4>3, <4>4 DEF Unfinished
    <3>4. ~Find(w) /\ ~BeginProcessing(w)
      BY <2>4, <3>1, <3>2 DEF Find, BeginProcessing, stores
    <3>5. ~Probe(w) /\ ~Thumbnail(w) /\ ~CreateHLSDir(w) /\ ~EncodeHLS(w)
      BY <3>1 DEF Probe, Thumbnail, CreateHLSDir, EncodeHLS
    <3>6. ~SaveFailure(w) /\ ~SaveReady(w)
      BY <2>4, <3>2, <3>3 DEF SaveFailure, SaveReady, At, Steps
    <3>7. ~Panic(w)
      BY <2>4 DEF Panic
    <3> QED
      BY <1>6, <3>4, <3>5, <3>6, <3>7 DEF Process
  <2>5. Return(w) \/ \E stage, item : Go(w, stage, item)
    BY <1>6 DEF Process, Find, BeginProcessing, Probe, Thumbnail, CreateHLSDir, EncodeHLS,
                SaveFailure, SaveReady, Panic, Strand
  <2> QED
    BY <1>4, <1>5, <2>1, <2>3, <2>4, <2>5
<1> QED
  BY <1>1, <1>2, <1>3, <1>6 DEF Work

\* What a handler makes unfinished it leaves to the next step or adrift.
LEMMA NewlyUnfinished ==
  ASSUME TypeOK, PhaseInv, ClaimInv, UnfinishedInv, CopyInv, [Next]_vars,
         NEW m \in Jobs, Unfinished(m)', ~Unfinished(m)
  PROVE  Placed(m)' /\ phase # "boot"
<1> USE DEF TypeOK
<1>1. Exists(m)'
  BY DEF Unfinished, Exists, NoRow
<1>2. ASSUME NEW r \in Requests, SaveItem(r), req[r].m = m, In(r, "enqueue")' \/ m \in adrift'
      PROVE  Placed(m)' /\ phase # "boot"
  <2>1. req[r] = [stage |-> "save", m |-> m] /\ req[r] # Idle
    BY <1>2, HandlerShape DEF SaveItem, In, Idle
  <2>2. In(r, "enqueue")' => req'[r].m = m
    BY <1>2, <2>1 DEF SaveItem, Reply, In, Idle
  <2> QED
    BY <1>2, <2>1, <2>2 DEF Placed, PhaseInv, In
<1>3. ASSUME NEW r \in Requests, Retitle(r), req[r].m = m, Alike(row'[m], req[r].snap)
      PROVE  Placed(m)' /\ phase # "boot"
  <2>1. req[r] # Idle /\ req[r].snap \in Rows
    BY <1>3, HandlerShape DEF Retitle, In, Idle, Editing
  <2>2. req[r].snap.status \in {"pending", "processing"}
    BY <1>3 DEF Alike, Unfinished
  <2>3. [req[r].snap EXCEPT !.title = "renamed"].status = req[r].snap.status
    BY <2>1 DEF Rows
  <2>4. Exists(m)
    BY <1>1, <1>3 DEF Retitle, Exists
  <2>5. m \in adrift'
    BY <1>3, <2>2, <2>3, <2>4 DEF Retitle
  <2> QED
    BY <2>1, <2>5 DEF Placed, PhaseInv
<1>4. ASSUME NEW w \in Workers, Item(w) = m, ~At(w, "none"), Exists(m) PROVE FALSE
  BY <1>4, WorkClaims DEF Unsettled
<1>5. row'[m].status \in {"pending", "processing"}
  BY DEF Unfinished
<1> QED
  BY <1>1, <1>2, <1>3, <1>4, <1>5, WhereRowsComeFrom DEF Alike, Unfinished

LEMMA ForgottenStep ==
  ASSUME TypeOK, PhaseInv, ClaimInv, FreshInv, UnfinishedInv, CopyInv, NothingForgotten,
         [Next]_vars
  PROVE  NothingForgotten'
<1> USE DEF TypeOK
<1> SUFFICES ASSUME phase' # "down", NEW m \in Jobs, Unfinished(m)' PROVE Placed(m)'
  BY DEF NothingForgotten, Placed
<1>1. CASE ~Unfinished(m)
  BY <1>1, NewlyUnfinished
<1>2. CASE phase # "down" /\ Unfinished(m)
  <2>1. Placed(m)
    BY <1>2 DEF NothingForgotten, Placed
  <2>2. CASE Recover
    <3>1. PICK j \in todo :
            \/ Enqueue(j) /\ todo' = todo \ {j} /\ UNCHANGED adrift
            \/ todo' = {} /\ adrift' = adrift \cup todo /\ UNCHANGED pool
      BY <2>2 DEF Recover
    <3>2. req' = req /\ j \in Jobs
      BY <2>2 DEF Recover
    <3>3. CASE Enqueue(j) /\ todo' = todo \ {j} /\ UNCHANGED adrift
      <4>1. \A k : Queued(k)' <=> (Queued(k) \/ k = j)
        BY <3>2, <3>3, EnqueueStep
      <4>2. OnWorker(m) => OnWorker(m)'
        BY <3>3 DEF Enqueue, OnWorker, Runs
      <4> QED
        BY <2>1, <3>2, <3>3, <4>1, <4>2 DEF Placed, In
    <3>4. CASE todo' = {} /\ adrift' = adrift \cup todo /\ UNCHANGED pool
      BY <2>1, <3>2, <3>4 DEF Placed, In, pool, Queued, OnWorker, Runs
    <3> QED
      BY <3>1, <3>3, <3>4
  <2>3. CASE Listen \/ Signal \/ CloseQueue \/ UNCHANGED vars
    <3>1. UNCHANGED <<queue, worker, req, todo, adrift>>
      BY <2>3 DEF Listen, Signal, CloseQueue, Cancel, Close, vars, work, server, history, pool
    <3> QED
      BY <2>1, <3>1 DEF Placed, In, Queued, OnWorker, Runs
  <2>4. ~Exit /\ ~Crash
    BY DEF Exit, Crash, Halt
  <2>5. ~Boot
    BY <1>2 DEF Boot
  <2> QED
    BY <2>1, <2>2, <2>3, <2>4, <2>5, HandlersPlace, WorkersPlace DEF Next, Handle
<1>3. CASE phase = "down" /\ Unfinished(m)
  <2>1. \A r \in Requests : req[r] = Idle
    BY <1>3 DEF PhaseInv
  <2>2. \A w \in Workers : worker[w] = Stopped /\ proc[w] = NoProc
    BY <1>3 DEF PhaseInv, Stopped
  <2>3. \A r \in Requests : \A stage \in {"save", "enqueue", "unlink"} \cup Editing : ~In(r, stage)
    BY <2>1 DEF In, Idle, Editing
  <2>4. Boot
    BY <1>3, <2>1, <2>2, <2>3
       DEF Next, Handle, Work, StoreOriginal, BeginEdit, SaveItem, EnqueueItem, Retitle,
           SetFavorite, DeleteRow, Unlink, GiveUp, Process, Find, BeginProcessing, Probe,
           Thumbnail, CreateHLSDir, EncodeHLS, SaveFailure, SaveReady, TakeJob, Take,
           StopWorker, Stop, Expire, Panic, Recover, Listen, Signal, CloseQueue, Exit, Crash,
           At, NoProc, In, Editing, vars, server, Waiting, Stopped
  <2> QED
    BY <1>3, <2>4 DEF Boot, Placed
<1> QED
  BY <1>1, <1>2, <1>3
-----------------------------------------------------------------------------
(* Together.                                                               *)

LEMMA IndInvHolds == Spec => []IndInv
<1>1. Init => IndInv
  <2> SUFFICES ASSUME Init PROVE IndInv
    OBVIOUS
  <2> USE DEF Init, PoolInit
  <2>1. /\ queue \in Seq(Jobs) /\ Len(queue) = 0
        /\ \A k : ~Queued(k)
        /\ \A w \in Workers : worker[w] = Waiting /\ proc[w] = NoProc
        /\ \A w \in Workers : \A k : ~Runs(w, k)
        /\ \A r \in Requests : req[r] = Idle
        /\ \A m \in Jobs : row[m] = NoRow
    BY EmptySeq DEF Queued, Runs, Waiting, Running
  <2>2. TypeOK
    <3>1. Len(queue) <= QueueCap /\ 0 \in 0 .. MaxEdits /\ 0 \in 0 .. MaxRestarts
          /\ 0 \in 0 .. MaxFaults
      BY <2>1, PoolAssumption, BoundsAssumption
    <3>2. Idle \in Handlers /\ NoProc \in Procs
      BY DEF Handlers, Procs
    <3> QED
      BY <2>1, <3>1, <3>2 DEF TypeOK, PoolTypeOK
  <2>3. /\ \A r \in Requests : req[r].stage = "idle"
        /\ \A r \in Requests, m \in Jobs : ~Carries(r, m)
    BY <2>1 DEF Carries, Idle
  <2>4. OneWorkerPerItem /\ \A m \in Jobs : ~Claimed(m)
    BY <2>1, <2>3 DEF OneWorkerPerItem, NoRepeats, OnWorker, Claimed
  <2>5. ClaimInv /\ UnfinishedInv
    BY <2>1, <2>3, <2>4 DEF ClaimInv, UnfinishedInv
  <2>6. PhaseInv
    BY <2>1 DEF PhaseInv, Waiting
  <2>7. /\ FreshInv /\ CopyInv /\ UnseenInv
        /\ RowsPointAtFiles /\ FavoriteKept /\ NothingForgotten
    BY <2>1, <2>3 DEF UnseenInv, FreshInv, CopyInv, RowCopies, HandlerCopies, WorkerCopies, RowsPointAtFiles,
                      FavoriteKept, NothingForgotten, Unfinished, Exists, In, Editing, Steps,
                      NoProc, NoRow
  <2> QED
    BY <2>2, <2>5, <2>6, <2>7 DEF IndInv
<1>2. IndInv /\ [Next]_vars => IndInv'
  <2> SUFFICES ASSUME IndInv, [Next]_vars PROVE IndInv'
    OBVIOUS
  <2>1. /\ TypeOK /\ ClaimInv /\ PhaseInv /\ FreshInv /\ UnfinishedInv /\ CopyInv /\ UnseenInv
        /\ RowsPointAtFiles /\ FavoriteKept /\ NothingForgotten
    BY DEF IndInv
  <2>2. TypeOK'
    BY <2>1, TypeStep
  <2>3. ClaimInv' /\ PhaseInv' /\ FreshInv' /\ FavoriteKept'
    BY <2>1, ClaimStep, PhaseStep, FreshFavoriteStep
  <2>4. UnseenInv'
    BY <2>1, UnseenStep
  <2>5. UnfinishedInv' /\ CopyInv' /\ RowsPointAtFiles'
    BY <2>1, <2>4, UnfinishedStep, RowStep, HandlerCopyStep, WorkerCopyStep DEF CopyInv
  <2>6. NothingForgotten'
    BY <2>1, ForgottenStep
  <2> QED
    BY <2>2, <2>3, <2>4, <2>5, <2>6 DEF IndInv
<1> QED
  BY <1>1, <1>2, PTL DEF Spec
-----------------------------------------------------------------------------
(* Theorems                                                                *)

\* The state is of its declared type, for every number of items, workers,
\* handlers, edits, restarts and faults and every queue capacity.
THEOREM PipelineTypeCorrect == Spec => []TypeOK
BY IndInvHolds, PTL DEF IndInv

\* No item is queued twice, queued while a worker has it, or on two workers:
\* persistAndEnqueue, the worker pool and RecoverUnfinished hand it on.
THEOREM ItemsWorkedOnOnce == Spec => []OneWorkerPerItem
<1>1. IndInv => OneWorkerPerItem
  BY DEF IndInv, ClaimInv
<1> QED
  BY <1>1, IndInvHolds, PTL

\* Delete removes the row first and Process the HLS set only of an item whose
\* row does not name it, so that no row points at a missing file but one whose
\* INSERT was carried out unseen; and that one never becomes ready, because no
\* worker gets past its probe.
THEOREM RowsNeverPointAtNothing == Spec => []RowsPointAtFiles
BY IndInvHolds, PTL DEF IndInv

\* What Process has made is in the row it sets ready, and every copy written
\* back later was read with the status.
THEOREM ReadyMeansComplete == Spec => []ReadyIsComplete
<1>1. IndInv => ReadyIsComplete
  BY DEF IndInv, CopyInv, RowCopies, ReadyIsComplete, Sound, Exists, NoRow
<1> QED
  BY <1>1, IndInvHolds, PTL

\* MediaRepository.Update leaves is_favorite out, so no stale copy resets it.
THEOREM FavoriteIsTheUsers == Spec => []FavoriteKept
BY IndInvHolds, PTL DEF IndInv

\* Every unfinished item is on its way to a worker, or has met one of the
\* named ways to be left to the next boot.
THEOREM UnfinishedIsAccountedFor == Spec => []NothingForgotten
BY IndInvHolds, PTL DEF IndInv

\* Only a rename takes a finished item back to an unfinished status.
THEOREM FinishedItemsStay == Spec => FinishedStays
<1> DEFINE Step == \A m \in Jobs :
      row[m].status \in {"ready", "failed"} /\ row'[m].status \in {"pending", "processing"}
        => \E r \in Requests : /\ In(r, "retitle") /\ req[r].m = m
                               /\ req[r].snap.status \in {"pending", "processing"}
<1>1. IndInv /\ [Next]_vars => Step
  <2> SUFFICES ASSUME IndInv, [Next]_vars, NEW m \in Jobs,
                      row[m].status \in {"ready", "failed"},
                      row'[m].status \in {"pending", "processing"}
               PROVE  \E r \in Requests : /\ In(r, "retitle") /\ req[r].m = m
                                          /\ req[r].snap.status \in {"pending", "processing"}
    OBVIOUS
  <2>1. Exists(m) /\ Exists(m)' /\ ~Unfinished(m)
    BY DEF Exists, Unfinished, NoRow
  <2>2. \A r \in Requests : SaveItem(r) => req[r].m # m
    BY <2>1 DEF SaveItem, FreshInv, IndInv
  <2>3. \A w \in Workers : Item(w) = m => At(w, "none")
    BY <2>1, WorkClaims DEF IndInv, Unsettled
  <2> QED
    BY <2>1, <2>2, <2>3, WhereRowsComeFrom DEF IndInv, Alike, Retitle
<1>2. IndInv /\ [Next]_vars => [Step]_vars
  BY <1>1
<1> QED
  BY <1>2, IndInvHolds, PTL DEF Spec, FinishedStays
=============================================================================
