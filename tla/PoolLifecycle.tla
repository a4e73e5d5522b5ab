---------------------------- MODULE PoolLifecycle ----------------------------
(***************************************************************************)
(* The worker pool over the life of the server process (cmd/server/main.go *)
(* run): HTTP handlers and the boot recovery enqueue, a signal cancels the *)
(* context and starts the shutdown of HTTP, then of the pool.              *)
(***************************************************************************)
EXTENDS WorkerPool

CONSTANT
  Stops   \* how the server is stopped: {"hard"} is main.go, which cancels the
          \* context given to Start; "soft" is Shutdown without cancelling

ASSUME StopsAssumption == Stops \subseteq {"hard", "soft"}

VARIABLES
  main,        \* where run() is
  stragglers,  \* HTTP shutdown gave up on handlers after its 30 seconds
  outcome,     \* outcome[j]: how Enqueue answered for j
  runs         \* runs[j]: times a worker has taken j

life == <<main, stragglers, outcome, runs>>
vars == <<pool, life>>

TypeOK ==
  /\ PoolTypeOK
  /\ main \in {"serving", "http", "drain", "bye"}
  /\ stragglers \in BOOLEAN
  /\ outcome \in [Jobs -> {"none", "accepted", "full", "panic"}]
  /\ runs \in [Jobs -> Nat]

Init ==
  /\ PoolInit
  /\ main = "serving"
  /\ stragglers = FALSE
  /\ outcome = [j \in Jobs |-> "none"]
  /\ runs = [j \in Jobs |-> 0]

\* Mutant: nothing waits for the handlers before the pool is shut down.
SubmitUnguarded(j) ==
  /\ outcome[j] = "none"
  /\ main # "bye"
  /\ \/ Enqueue(j) /\ outcome' = [outcome EXCEPT ![j] = "accepted"]
     \/ ~closed /\ Full /\ outcome' = [outcome EXCEPT ![j] = "full"] /\ UNCHANGED pool
     \/ closed /\ outcome' = [outcome EXCEPT ![j] = "panic"] /\ UNCHANGED pool
  /\ UNCHANGED <<main, stragglers, runs>>

\* A handler calls Enqueue, once per media item.
Submit(j) ==
  /\ outcome[j] = "none"
  /\ main \in {"serving", "http"} \/ (main = "drain" /\ stragglers)
  /\ \/ Enqueue(j) /\ outcome' = [outcome EXCEPT ![j] = "accepted"]
     \/ ~closed /\ Full /\ outcome' = [outcome EXCEPT ![j] = "full"] /\ UNCHANGED pool
     \/ closed /\ outcome' = [outcome EXCEPT ![j] = "panic"] /\ UNCHANGED pool
  /\ UNCHANGED <<main, stragglers, runs>>

TakeJob(w) ==
  /\ Take(w)
  /\ runs' = [runs EXCEPT ![worker'[w].job] = @ + 1]
  /\ UNCHANGED <<main, stragglers, outcome>>

FinishJob(w) == Finish(w) /\ UNCHANGED life
StopWorker(w) == Stop(w) /\ UNCHANGED life

Signal ==
  /\ main = "serving"
  /\ main' = "http"
  /\ \/ "hard" \in Stops /\ Cancel
     \/ "soft" \in Stops /\ UNCHANGED pool
  /\ UNCHANGED <<stragglers, outcome, runs>>

\* server.Shutdown has returned; jobPool.Shutdown closes the channel.
CloseAfterHTTP ==
  /\ main = "http"
  /\ main' = "drain"
  /\ stragglers' \in BOOLEAN
  /\ Close
  /\ UNCHANGED <<outcome, runs>>

\* wg.Wait returns and the process ends.
Bye ==
  /\ main = "drain"
  /\ AllStopped
  /\ main' = "bye"
  /\ UNCHANGED <<pool, stragglers, outcome, runs>>

Serve(w) == TakeJob(w) \/ FinishJob(w) \/ StopWorker(w)

Next ==
  \/ \E j \in Jobs : Submit(j)
  \/ \E w \in Workers : Serve(w)
  \/ Signal \/ CloseAfterHTTP \/ Bye

Spec == Init /\ [][Next]_vars

\* Goroutines run; a job ends because its context has a deadline, and the
\* FFmpeg process it waits for is killed with the context.  No signal need come.
Fairness ==
  /\ \A w \in Workers : WF_vars(Serve(w))
  /\ WF_vars(CloseAfterHTTP) /\ WF_vars(Bye)

FairSpec == Spec /\ Fairness
-----------------------------------------------------------------------------
(* Properties                                                              *)

\* An accepted job is never lost and never handed out twice, however takes,
\* submissions, cancellation and closing interleave: it is in the buffer until
\* exactly one worker takes it; a refused job is never run.
EachJobOnce == \A j \in Jobs :
  /\ outcome[j] = "accepted" => IF runs[j] = 0 THEN Queued(j) ELSE runs[j] = 1 /\ ~Queued(j)
  /\ outcome[j] # "accepted" => runs[j] = 0 /\ ~Queued(j)

\* Shutdown without a cancelled context drains: when it has returned, every
\* accepted job has been run, also those accepted while it was under way.
SoftStopDrains == main = "bye" /\ ~cancelled =>
  \A j \in Jobs : outcome[j] = "accepted" => runs[j] = 1

\* An Enqueue panics on the closed channel only in a handler that outlived the
\* HTTP shutdown: as long as the server drains its handlers, none does.
PanicsOnlyInStragglers == (\E j \in Jobs : outcome[j] = "panic") => stragglers

\* The inductive invariant: why these hold.  The channel is closed exactly
\* when HTTP has been shut down, and a worker that has returned has seen the
\* context done, or the channel closed and empty.
ClosingInv ==
  /\ closed <=> main \in {"drain", "bye"}
  /\ main \in {"serving", "http"} => ~stragglers
  /\ main = "bye" => AllStopped
  /\ \A w \in Workers : worker[w] = Stopped => cancelled \/ (closed /\ queue = <<>>)

IndInv ==
  /\ TypeOK /\ NoRepeats /\ EachJobOnce /\ ClosingInv /\ PanicsOnlyInStragglers
-----------------------------------------------------------------------------
(* Liveness.                                                               *)

\* Every accepted job is run unless the context is cancelled first, though
\* jobs before it fail and panic.
AcceptedIsRun == \A j \in Jobs : outcome[j] = "accepted" ~> (runs[j] > 0 \/ cancelled)

\* A signal ends the process: no worker keeps Shutdown waiting for ever.
StopEnds == main = "http" ~> main = "bye"
=============================================================================
