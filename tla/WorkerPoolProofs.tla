-------------------------- MODULE WorkerPoolProofs --------------------------
(* What one operation of the worker pool does, for every number of workers  *)
(* and jobs and every queue capacity.                                       *)
EXTENDS WorkerPool, TLAPS

\* Enqueue adds its job to those that wait, and repeats none that did not.
LEMMA EnqueueStep ==
  ASSUME PoolTypeOK, NEW j \in Jobs, Enqueue(j)
  PROVE  /\ PoolTypeOK'
         /\ \A k : Queued(k)' <=> (Queued(k) \/ k = j)
         /\ NoRepeats /\ ~Queued(j) => NoRepeats'
         /\ queue' # <<>>
<1> USE PoolAssumption DEF PoolTypeOK
<1>1. queue' = Append(queue, j) /\ Len(queue) < QueueCap
  BY DEF Enqueue, Full
<1>2. /\ queue' \in Seq(Jobs) /\ Len(queue') = Len(queue) + 1
      /\ queue'[Len(queue) + 1] = j
      /\ \A i \in 1 .. Len(queue) : queue'[i] = queue[i]
  BY <1>1
<1>3. PoolTypeOK'
  BY <1>1, <1>2 DEF Enqueue
<1>4. ASSUME NEW k PROVE Queued(k)' <=> (Queued(k) \/ k = j)
  BY <1>2 DEF Queued
<1>5. ASSUME NoRepeats, ~Queued(j) PROVE NoRepeats'
  BY <1>2, <1>5 DEF Queued, NoRepeats
<1> QED
  BY <1>2, <1>3, <1>4, <1>5

\* Take hands the first waiting job to its worker and to no other.
LEMMA TakeStep ==
  ASSUME PoolTypeOK, NEW w \in Workers, Take(w)
  PROVE  \E j \in Jobs :
           /\ PoolTypeOK'
           /\ Queued(j)
           /\ worker[w] = Waiting
           /\ worker' = [worker EXCEPT ![w] = Running(j)]
           /\ NoRepeats => /\ NoRepeats'
                           /\ \A k : Queued(k)' <=> (Queued(k) /\ k # j)
<1> USE DEF PoolTypeOK
<1>1. queue # <<>> /\ queue' = Tail(queue) /\ worker[w] = Waiting
  BY DEF Take
<1>2. /\ Len(queue) \in Nat \ {0}
      /\ queue' \in Seq(Jobs) /\ Len(queue') = Len(queue) - 1
      /\ \A i \in 1 .. Len(queue') : queue'[i] = queue[i + 1]
      /\ Head(queue) = queue[1] /\ Head(queue) \in Jobs
  BY <1>1
<1> DEFINE j == Head(queue)
<1>3. worker' = [worker EXCEPT ![w] = Running(j)]
  BY DEF Take
<1>4. PoolTypeOK'
  <2>1. worker' \in [Workers -> {Waiting, Stopped} \cup {Running(i) : i \in Jobs}]
    BY <1>2, <1>3
  <2>2. Len(queue') <= QueueCap
    BY <1>2, PoolAssumption
  <2> QED
    BY <1>2, <2>1, <2>2 DEF Take
<1>5. Queued(j)
  BY <1>2 DEF Queued
<1>6. ASSUME NoRepeats
      PROVE  NoRepeats' /\ \A k : Queued(k)' <=> (Queued(k) /\ k # j)
  <2>1. NoRepeats'
    BY <1>2, <1>6 DEF NoRepeats
  <2>2. ASSUME NEW k, Queued(k)' PROVE Queued(k) /\ k # j
    BY <1>2, <1>6, <2>2 DEF NoRepeats, Queued
  <2>3. ASSUME NEW k, Queued(k), k # j PROVE Queued(k)'
    <3>1. PICK i \in 1 .. Len(queue) : queue[i] = k
      BY <2>3 DEF Queued
    <3>2. i # 1 /\ i - 1 \in 1 .. Len(queue') /\ queue'[i - 1] = k
      BY <1>2, <2>3, <3>1
    <3> QED
      BY <3>2 DEF Queued
  <2> QED
    BY <2>1, <2>2, <2>3
<1> QED
  BY <1>1, <1>2, <1>3, <1>4, <1>5, <1>6

\* The other operations leave the buffer alone.
LEMMA OtherPoolSteps ==
  ASSUME PoolTypeOK,
         (\E w \in Workers : Finish(w) \/ Stop(w)) \/ Cancel \/ Close
  PROVE  PoolTypeOK' /\ queue' = queue
BY DEF PoolTypeOK, Finish, Stop, Cancel, Close, Waiting, Stopped, Running
=============================================================================
