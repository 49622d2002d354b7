------------------------------- MODULE Yumi -------------------------------
(***************************************************************************)
(* Pipeline.Process of yumi/pipeline.go, and with it Map and ForEach: one  *)
(* call, from its start to its return.                                     *)
(*                                                                         *)
(* A task is its index.  tasksCh is filled and closed before the workers   *)
(* start, so what is left in it is an interval of indices.                 *)
(***************************************************************************)
EXTENDS Integers, Sequences

CONSTANTS
  NumWorkers,   \* config.Workers
  MaxInputs     \* bound on len(inputs)

(* withDefaults makes config.Workers positive.                             *)
ProcessAssumption == NumWorkers \in Nat \ {0} /\ MaxInputs \in Nat

Workers == 1..NumWorkers

VARIABLES
  size,       \* len(inputs)
  failFast,   \* config.FailFast
  limited,    \* is there a rate limiter?
  ctxDone,    \* ctx.Done() is closed
  cancelled,  \* cancel() was called
  next,       \* the first task still in tasksCh
  results,    \* resultsCh
  worker,     \* where each worker is, its task, and whether it took it too late
  outputs,    \* indices written in outputs
  firstErr,   \* the task whose error is firstErr, or 0
  collected,  \* the tasks whose errors are in collectedErrors
  pooled,     \* how often each task was put into p.pool
  result      \* what Process returned: "running", "outputs" or "error"

vars == <<size, failFast, limited, ctxDone, cancelled, next, results, worker,
          outputs, firstErr, collected, pooled, result>>

RunDone == ctxDone \/ cancelled

At(state, i, late) == [at |-> state, task |-> i, late |-> late]

Init ==
  /\ size \in 1..MaxInputs
  /\ failFast \in BOOLEAN /\ limited \in BOOLEAN
  /\ ctxDone \in BOOLEAN
  /\ cancelled = FALSE
  /\ next = 1
  /\ results = <<>>
  /\ worker = [w \in Workers |-> At("unborn", 0, FALSE)]
  /\ outputs = {} /\ firstErr = 0 /\ collected = {}
  /\ pooled = [i \in 1..MaxInputs |-> 0]
  /\ result = "running"

config == <<size, failFast, limited>>
collector == <<outputs, firstErr, collected, pooled, result>>

CtxDone ==
  /\ ~ctxDone
  /\ ctxDone' = TRUE
  /\ UNCHANGED <<config, cancelled, next, results, worker, collector>>

(* Process up to the start of its workers; with ctx done it returns before *)
(* it takes a task from the pool.                                          *)
Start ==
  /\ worker[1].at = "unborn" /\ result = "running"
  /\ IF RunDone
     THEN /\ result' = "error" /\ cancelled' = TRUE
          /\ UNCHANGED worker
     ELSE /\ worker' = [w \in Workers |->
                          At(IF w <= size THEN "select" ELSE "done", 0, FALSE)]
          /\ UNCHANGED <<cancelled, result>>
  /\ UNCHANGED <<config, ctxDone, next, results, outputs, firstErr, collected, pooled>>

Move(w, state) == worker' = [worker EXCEPT ![w].at = state]

(* The select of a worker ends it: the run is cancelled or tasksCh is      *)
(* empty and closed.                                                       *)
Leave(w) ==
  /\ worker[w].at = "select"
  /\ RunDone \/ next > size
  /\ Move(w, "done")
  /\ UNCHANGED <<config, ctxDone, cancelled, next, results, collector>>

(* It takes a task, perhaps although the run is cancelled as well.         *)
Take(w) ==
  /\ worker[w].at = "select"
  /\ next <= size
  /\ worker' = [worker EXCEPT ![w] = At("took", next, RunDone)]
  /\ next' = next + 1
  /\ UNCHANGED <<config, ctxDone, cancelled, results, collector>>

Send(w, failed) == results' = Append(results, [task |-> worker[w].task, failed |-> failed])

(* runCtx.Err() after the task was taken.                                  *)
Check(w) ==
  /\ worker[w].at = "took"
  /\ IF RunDone
     THEN Send(w, TRUE) /\ Move(w, "done")
     ELSE Move(w, IF limited THEN "limit" ELSE "map") /\ UNCHANGED results
  /\ UNCHANGED <<config, ctxDone, cancelled, next, collector>>

(* limiter.Wait fails when the run is cancelled, or would outlast a        *)
(* deadline.                                                               *)
LimiterWait(w, failed) ==
  /\ worker[w].at = "limit"
  /\ IF failed THEN Send(w, TRUE) /\ Move(w, "select")
               ELSE Move(w, "map") /\ UNCHANGED results
  /\ UNCHANGED <<config, ctxDone, cancelled, next, collector>>

(* The mapper returns, with or without an error.                           *)
Mapped(w, failed) ==
  /\ worker[w].at = "map"
  /\ Send(w, failed)
  /\ Move(w, "select")
  /\ UNCHANGED <<config, ctxDone, cancelled, next, collector>>

(* One result is collected and its task recycled.                          *)
Collect ==
  LET r == Head(results) IN
  /\ result = "running" /\ results # <<>>
  /\ results' = Tail(results)
  /\ IF r.failed /\ failFast /\ firstErr = 0
     THEN firstErr' = r.task /\ cancelled' = TRUE
     ELSE UNCHANGED <<firstErr, cancelled>>
  /\ collected' = IF r.failed /\ ~failFast THEN collected \cup {r.task} ELSE collected
  /\ outputs' = IF r.failed THEN outputs ELSE outputs \cup {r.task}
  /\ pooled' = [pooled EXCEPT ![r.task] = @ + 1]
  /\ UNCHANGED <<config, ctxDone, next, worker, result>>

\* mutant: the error of ctx is not looked at
FailedBlind == firstErr # 0 \/ collected # {}

Failed == ctxDone \/ firstErr # 0 \/ collected # {}

\* mutant: Process waits for every task instead of every worker
FinishedTasks == \A w \in Workers : worker[w].at = "done" /\ next > size

Finished == \A w \in Workers : worker[w].at = "done"

(* resultsCh is closed and empty: Process returns, and its deferred calls  *)
(* recycle what is left in tasksCh and cancel the run.                     *)
Return ==
  /\ result = "running" /\ results = <<>> /\ Finished
  /\ result' = IF Failed THEN "error" ELSE "outputs"
  /\ pooled' = [i \in 1..MaxInputs |->
                  IF i \in next..size THEN pooled[i] + 1 ELSE pooled[i]]
  /\ next' = size + 1
  /\ cancelled' = TRUE
  /\ UNCHANGED <<config, ctxDone, results, worker, outputs, firstErr, collected>>

WorkerStep(w) ==
  \/ Leave(w) \/ Take(w) \/ Check(w)
  \/ \E failed \in BOOLEAN : LimiterWait(w, failed) \/ Mapped(w, failed)

Next ==
  \/ CtxDone \/ Start \/ Collect \/ Return
  \/ \E w \in Workers : WorkerStep(w)

Spec == Init /\ [][Next]_vars

(* Goroutines run on, and mappers return.                                  *)
Fairness ==
  /\ WF_vars(Collect \/ Return)
  /\ \A w \in Workers : WF_vars(WorkerStep(w))

-----------------------------------------------------------------------------
TypeOK ==
  /\ size \in 1..MaxInputs /\ next \in 1..(size + 1)
  /\ outputs \cup collected \subseteq 1..size
  /\ firstErr \in 0..size
  /\ pooled \in [1..MaxInputs -> 0..1]
  /\ result \in {"running", "outputs", "error"}

(* Process returns outputs only when every input has its own, whatever the  *)
(* workers and the cancellation do (pipeline.go:139-168); every task it     *)
(* took from the pool is given back exactly once; resultsCh never holds     *)
(* more than its capacity; and a task taken after the cancellation is not   *)
(* mapped (pipeline.go:95-107).                                             *)
ProcessSound ==
  /\ TypeOK
  /\ result = "outputs" => outputs = 1..size
  /\ result # "running" /\ worker[1].at # "unborn" =>
       \A i \in 1..size : pooled[i] = 1
  /\ Len(results) <= size
  /\ \A w \in Workers : worker[w].late => worker[w].at \notin {"limit", "map"}

(* Process returns, also when it was cancelled in the middle.               *)
ProcessReturns == worker[1].at # "unborn" ~> result # "running"
=============================================================================
