----------------------------- MODULE WorkerPool -----------------------------
(***************************************************************************)
(* internal/worker/pool.go: a fixed set of worker goroutines fed by one    *)
(* buffered channel.  This module has the pool's state and one action per  *)
(* operation; PoolLifecycle drives it the way cmd/server does, and         *)
(* MediaPipeline gives its jobs their meaning.                             *)
(***************************************************************************)
EXTENDS Naturals, Sequences

CONSTANTS
  Workers,    \* worker goroutines (size)
  Jobs,       \* jobs, named by the media item they process
  QueueCap    \* capacity of the channel

\* New raises a size or a capacity below 1 to 1.
ASSUME PoolAssumption == QueueCap \in Nat \ {0} /\ Workers # {}

VARIABLES
  queue,      \* contents of p.jobs
  closed,     \* Shutdown has closed p.jobs
  cancelled,  \* the context given to Start is done
  worker      \* worker[w]: in its select, in a job, or returned

pool == <<queue, closed, cancelled, worker>>

Waiting == [at |-> "select"]
Stopped == [at |-> "stopped"]
Running(j) == [at |-> "running", job |-> j]

\* Worker w is handling job j; job j waits in the buffer; no job waits twice.
Runs(w, j) == worker[w] = Running(j)
Queued(j) == \E i \in 1 .. Len(queue) : queue[i] = j
NoRepeats == \A i, k \in 1 .. Len(queue) : queue[i] = queue[k] => i = k

PoolTypeOK ==
  /\ queue \in Seq(Jobs) /\ Len(queue) <= QueueCap
  /\ closed \in BOOLEAN
  /\ cancelled \in BOOLEAN
  /\ worker \in [Workers -> {Waiting, Stopped} \cup {Running(j) : j \in Jobs}]

\* New, then Start: all workers in their select.
PoolInit ==
  /\ queue = <<>>
  /\ closed = FALSE
  /\ cancelled = FALSE
  /\ worker = [w \in Workers |-> Waiting]

\* Mutant: the buffer is one slot larger than configured.
FullOffByOne == Len(queue) > QueueCap

Full == Len(queue) = QueueCap

\* Enqueue with room in the buffer.  It answers ErrQueueFull when Full, and
\* panics, as any send on a closed channel does, when closed.
Enqueue(j) ==
  /\ ~closed /\ ~Full
  /\ queue' = Append(queue, j)
  /\ UNCHANGED <<closed, cancelled, worker>>

\* Mutant: two receives hand the same job out.
TakePeeking(w) ==
  /\ worker[w] = Waiting
  /\ queue # <<>>
  /\ queue' \in {queue, Tail(queue)}
  /\ worker' = [worker EXCEPT ![w] = Running(Head(queue))]
  /\ UNCHANGED <<closed, cancelled>>

\* The select receives a job, also when the context is done or the channel is
\* closed: a select with several ready cases picks any of them.
Take(w) ==
  /\ worker[w] = Waiting
  /\ queue # <<>>
  /\ queue' = Tail(queue)
  /\ worker' = [worker EXCEPT ![w] = Running(Head(queue))]
  /\ UNCHANGED <<closed, cancelled>>

\* Mutant: a job that panics takes its worker down.
FinishPanicking(w) ==
  /\ worker[w].at = "running"
  /\ worker' \in {[worker EXCEPT ![w] = Waiting], [worker EXCEPT ![w] = Stopped]}
  /\ UNCHANGED <<queue, closed, cancelled>>

\* runJob returns, whether its handler succeeded, failed or panicked.
Finish(w) ==
  /\ worker[w].at = "running"
  /\ worker' = [worker EXCEPT ![w] = Waiting]
  /\ UNCHANGED <<queue, closed, cancelled>>

\* Mutant: a worker returns as soon as the channel is closed.
StopOnClose(w) ==
  /\ worker[w] = Waiting
  /\ cancelled \/ closed
  /\ worker' = [worker EXCEPT ![w] = Stopped]
  /\ UNCHANGED <<queue, closed, cancelled>>

\* Mutant: a receive from the closed channel is taken for a job.
StopIgnoringClose(w) ==
  /\ worker[w] = Waiting
  /\ cancelled
  /\ worker' = [worker EXCEPT ![w] = Stopped]
  /\ UNCHANGED <<queue, closed, cancelled>>

\* The select sees the done context, or the closed and drained channel.
Stop(w) ==
  /\ worker[w] = Waiting
  /\ cancelled \/ (closed /\ queue = <<>>)
  /\ worker' = [worker EXCEPT ![w] = Stopped]
  /\ UNCHANGED <<queue, closed, cancelled>>

Cancel == cancelled' = TRUE /\ UNCHANGED <<queue, closed, worker>>

\* The first half of Shutdown; the second waits until AllStopped.
Close == closed' = TRUE /\ UNCHANGED <<queue, cancelled, worker>>
AllStopped == \A w \in Workers : worker[w] = Stopped
=============================================================================
