------------------------ MODULE PoolLifecycleProofs ------------------------
(* Proofs about the life of the worker pool for every number of workers and *)
(* jobs and every queue capacity.                                           *)
EXTENDS PoolLifecycle, WorkerPoolProofs

\* The type invariant of the pool's life.
LEMMA TypeStep ==
  TypeOK /\ [Next]_vars => TypeOK'
<1> SUFFICES ASSUME TypeOK, [Next]_vars PROVE TypeOK'
  OBVIOUS
<1> USE DEF TypeOK
<1>1. ASSUME NEW j \in Jobs, Submit(j) PROVE TypeOK'
  <2>1. PoolTypeOK'
    BY <1>1, EnqueueStep DEF Submit, pool, PoolTypeOK
  <2> QED
    BY <1>1, <2>1 DEF Submit
<1>2. ASSUME NEW w \in Workers, TakeJob(w) PROVE TypeOK'
  <2>1. PICK j \in Jobs : PoolTypeOK' /\ worker' = [worker EXCEPT ![w] = Running(j)]
    BY <1>2, TakeStep DEF TakeJob
  <2>2. worker'[w].job = j
    BY <2>1 DEF PoolTypeOK, Running
  <2>3. runs' = [runs EXCEPT ![j] = @ + 1]
    BY <1>2, <2>2 DEF TakeJob
  <2> QED
    BY <1>2, <2>1, <2>3 DEF TakeJob
<1>3. ASSUME NEW w \in Workers, FinishJob(w) \/ StopWorker(w) PROVE TypeOK'
  BY <1>3, OtherPoolSteps DEF FinishJob, StopWorker, life
<1>4. CASE Signal \/ CloseAfterHTTP \/ Bye
  BY <1>4, OtherPoolSteps DEF Signal, CloseAfterHTTP, Bye, pool, PoolTypeOK
<1>5. CASE UNCHANGED vars
  BY <1>5 DEF vars, life, pool, PoolTypeOK
<1> QED
  BY <1>1, <1>2, <1>3, <1>4, <1>5 DEF Next, Serve

\* A job that waits has been accepted and not run, so none is submitted or
\* taken twice.
LEMMA OnceStep ==
  TypeOK /\ NoRepeats /\ EachJobOnce /\ [Next]_vars => NoRepeats' /\ EachJobOnce'
<1> SUFFICES ASSUME TypeOK, NoRepeats, EachJobOnce, [Next]_vars
             PROVE  NoRepeats' /\ EachJobOnce'
  OBVIOUS
<1> USE DEF TypeOK
<1>1. ASSUME NEW j \in Jobs, Submit(j) PROVE NoRepeats' /\ EachJobOnce'
  <2>1. ~Queued(j) /\ runs[j] = 0
    BY <1>1 DEF EachJobOnce, Submit
  <2>2. CASE Enqueue(j) /\ outcome' = [outcome EXCEPT ![j] = "accepted"]
    BY <1>1, <2>1, <2>2, EnqueueStep DEF EachJobOnce, Submit
  <2>3. CASE /\ UNCHANGED pool
             /\ outcome' \in {[outcome EXCEPT ![j] = "full"], [outcome EXCEPT ![j] = "panic"]}
    <3>0. queue' = queue
      BY <2>3 DEF pool
    <3>1. NoRepeats' /\ (\A k : Queued(k)' <=> Queued(k))
      BY <3>0 DEF NoRepeats, Queued
    <3>2. /\ runs' = runs
          /\ outcome'[j] # "accepted"
          /\ \A k \in Jobs \ {j} : outcome'[k] = outcome[k]
      BY <1>1, <2>3 DEF Submit
    <3> QED
      BY <2>1, <3>1, <3>2 DEF EachJobOnce
  <2> QED
    BY <1>1, <2>2, <2>3 DEF Submit
<1>2. ASSUME NEW w \in Workers, TakeJob(w) PROVE NoRepeats' /\ EachJobOnce'
  <2>1. PICK j \in Jobs :
          /\ Queued(j) /\ NoRepeats'
          /\ \A k : Queued(k)' <=> (Queued(k) /\ k # j)
          /\ worker' = [worker EXCEPT ![w] = Running(j)]
    BY <1>2, TakeStep DEF TakeJob
  <2>2. worker'[w].job = j
    BY <2>1 DEF PoolTypeOK, Running
  <2>3. runs' = [runs EXCEPT ![j] = @ + 1] /\ outcome' = outcome
    BY <1>2, <2>2 DEF TakeJob
  <2> QED
    BY <2>1, <2>3 DEF EachJobOnce
<1>3. CASE UNCHANGED <<queue, outcome, runs>>
  BY <1>3 DEF EachJobOnce, NoRepeats, Queued
<1> QED
  BY <1>1, <1>2, <1>3, OtherPoolSteps
     DEF Next, Serve, FinishJob, StopWorker, Signal, CloseAfterHTTP, Bye, vars, life, pool

\* The order of run() keeps the channel open until HTTP has been shut down.
LEMMA ClosingStep ==
  TypeOK /\ ClosingInv /\ PanicsOnlyInStragglers /\ [Next]_vars
    => ClosingInv' /\ PanicsOnlyInStragglers'
<1> SUFFICES ASSUME TypeOK, ClosingInv, PanicsOnlyInStragglers, [Next]_vars
             PROVE  ClosingInv' /\ PanicsOnlyInStragglers'
  OBVIOUS
<1> USE DEF TypeOK, PoolTypeOK, ClosingInv, PanicsOnlyInStragglers, AllStopped
<1>0. Waiting # Stopped /\ \A j : Running(j) # Stopped
  BY DEF Waiting, Stopped, Running
<1>1. ASSUME NEW j \in Jobs, Submit(j) PROVE ClosingInv' /\ PanicsOnlyInStragglers'
  BY <1>1 DEF Submit, Enqueue, pool
<1>2. ASSUME NEW w \in Workers, TakeJob(w) PROVE ClosingInv' /\ PanicsOnlyInStragglers'
  <2>1. worker[w] = Waiting /\ queue # <<>>
    BY <1>2 DEF TakeJob, Take
  <2>2. \A v \in Workers : worker'[v] = Stopped => v # w /\ worker[v] = Stopped
    BY <1>0, <1>2 DEF TakeJob, Take
  <2> QED
    BY <1>0, <1>2, <2>1, <2>2 DEF TakeJob, Take
<1>3. ASSUME NEW w \in Workers, FinishJob(w) PROVE ClosingInv' /\ PanicsOnlyInStragglers'
  <2>1. worker[w] # Stopped
    BY <1>3 DEF FinishJob, Finish, Stopped
  <2>2. \A v \in Workers : worker'[v] = Stopped => worker[v] = Stopped
    BY <1>0, <1>3 DEF FinishJob, Finish
  <2>3. UNCHANGED <<queue, closed, cancelled, life>>
    BY <1>3 DEF FinishJob, Finish
  <2> QED
    BY <2>1, <2>2, <2>3 DEF life
<1>4. ASSUME NEW w \in Workers, StopWorker(w) PROVE ClosingInv' /\ PanicsOnlyInStragglers'
  <2>1. worker[w] = Waiting /\ (cancelled \/ (closed /\ queue = <<>>))
    BY <1>4 DEF StopWorker, Stop
  <2>2. \A v \in Workers : worker'[v] = Stopped => v = w \/ worker[v] = Stopped
    BY <1>4 DEF StopWorker, Stop
  <2>3. UNCHANGED <<queue, closed, cancelled, life>>
    BY <1>4 DEF StopWorker, Stop
  <2> QED
    BY <1>0, <2>1, <2>2, <2>3 DEF life
<1>5. CASE Signal
  BY <1>5 DEF Signal, Cancel, pool
<1>6. CASE CloseAfterHTTP
  BY <1>0, <1>6 DEF CloseAfterHTTP, Close
<1>7. CASE Bye
  BY <1>7 DEF Bye, pool
<1>8. CASE UNCHANGED vars
  BY <1>8 DEF vars, life, pool
<1> QED
  BY <1>1, <1>2, <1>3, <1>4, <1>5, <1>6, <1>7, <1>8 DEF Next, Serve

LEMMA IndInvHolds == Spec => []IndInv
<1>1. Init => IndInv
  <2> SUFFICES ASSUME Init PROVE IndInv
    OBVIOUS
  <2>1. /\ queue \in Seq(Jobs) /\ Len(queue) = 0
        /\ closed = FALSE /\ cancelled = FALSE
        /\ worker \in [Workers -> {Waiting, Stopped} \cup {Running(j) : j \in Jobs}]
    BY DEF Init, PoolInit
  <2>2. PoolTypeOK
    <3>1. Len(queue) <= QueueCap
      BY <2>1, PoolAssumption
    <3> QED
      BY <2>1, <3>1, Zenon DEF PoolTypeOK
  <2>3. TypeOK
    BY <2>2 DEF Init, TypeOK
  <2>4. NoRepeats /\ EachJobOnce
    BY <2>1 DEF Init, NoRepeats, EachJobOnce, Queued
  <2>5. ClosingInv /\ PanicsOnlyInStragglers
    BY DEF Init, PoolInit, ClosingInv, PanicsOnlyInStragglers, Waiting, Stopped
  <2> QED
    BY <2>3, <2>4, <2>5 DEF IndInv
<1>2. IndInv /\ [Next]_vars => IndInv'
  BY TypeStep, OnceStep, ClosingStep DEF IndInv
<1> QED
  BY <1>1, <1>2, PTL DEF Spec

\* TypeOK: the buffer never exceeds its capacity and every worker is waiting,
\* on a job or gone.
THEOREM PoolTypeCorrect == Spec => []TypeOK
BY IndInvHolds, PTL DEF IndInv

\* EachJobOnce: an accepted job waits until one worker takes it, and no job is
\* lost, run twice, or run though it was refused.
THEOREM JobsRunOnce == Spec => []EachJobOnce
BY IndInvHolds, PTL DEF IndInv

\* PanicsOnlyInStragglers: no Enqueue meets the closed channel while the HTTP
\* shutdown waits for its handlers.
THEOREM NoPanicInTime == Spec => []PanicsOnlyInStragglers
BY IndInvHolds, PTL DEF IndInv

\* SoftStopDrains: a Shutdown whose context was not cancelled returns only when
\* every accepted job has been run.
THEOREM ShutdownDrains == Spec => []SoftStopDrains
<1>1. IndInv => SoftStopDrains
  <2> SUFFICES ASSUME IndInv, main = "bye", ~cancelled, NEW j \in Jobs, outcome[j] = "accepted"
               PROVE  runs[j] = 1
    BY DEF SoftStopDrains
  <2>1. PICK w \in Workers : worker[w] = Stopped
    BY PoolAssumption DEF IndInv, ClosingInv, AllStopped
  <2>2. queue = <<>>
    BY <2>1 DEF IndInv, ClosingInv
  <2>3. ~Queued(j)
    BY <2>2 DEF Queued
  <2> QED
    BY <2>3 DEF IndInv, EachJobOnce
<1> QED
  BY <1>1, IndInvHolds, PTL
=============================================================================
