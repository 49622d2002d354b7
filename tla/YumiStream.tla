----------------------------- MODULE YumiStream -----------------------------
(***************************************************************************)
(* Pipeline.Stream of yumi/pipeline.go: one call.  The values of the input *)
(* channel are numbered; its producer and the consumer of out and errs may *)
(* stop at any time.                                                       *)
(***************************************************************************)
EXTENDS Integers, Sequences, FiniteSets

CONSTANTS
  Workers,   \* the config.Workers goroutines
  MaxInputs  \* bound on the values sent to in

StreamAssumption == IsFiniteSet(Workers) /\ MaxInputs \in Nat

VARIABLES
  failFast,   \* config.FailFast
  limited,    \* is there a rate limiter?
  sent,       \* how many values the producer has sent into in
  inClosed,   \* in is closed
  ctxDone,    \* ctx.Done() is closed
  cancelled,  \* cancel() was called
  errOnce,    \* errOnce was used
  taken,      \* how many values the workers took from in
  worker,     \* where each worker is, and its value
  out, errs,  \* what is in the channels
  closed,     \* the channels that are closed
  received,   \* what the consumer received from out, in that order
  failed,     \* values with an error
  reported    \* values whose error went into errs

vars == <<failFast, limited, sent, inClosed, ctxDone, cancelled, errOnce, taken,
          worker, out, errs, closed, received, failed, reported>>

Capacity == Cardinality(Workers)
RunDone == ctxDone \/ cancelled
At(state, i) == [at |-> state, val |-> i]
Move(w, state) == worker' = [worker EXCEPT ![w].at = state]

Init ==
  /\ failFast \in BOOLEAN /\ limited \in BOOLEAN
  /\ sent = 0 /\ taken = 0
  /\ inClosed = FALSE /\ ctxDone = FALSE /\ cancelled = FALSE /\ errOnce = FALSE
  /\ worker = [w \in Workers |-> At("select", 0)]
  /\ out = <<>> /\ errs = <<>> /\ closed = {}
  /\ received = <<>> /\ failed = {} /\ reported = {}

config == <<failFast, limited>>
input == <<sent, inClosed>>
errors == <<cancelled, errOnce, errs, failed, reported>>
output == <<out, closed, received>>

(* The world outside: the producer sends or closes, the context ends, the  *)
(* consumer receives.                                                      *)
Produce ==
  /\ ~inClosed
  /\ \/ sent < MaxInputs /\ sent' = sent + 1 /\ UNCHANGED inClosed
     \/ inClosed' = TRUE /\ UNCHANGED sent
  /\ UNCHANGED <<config, ctxDone, taken, worker, errors, output>>

CtxDone ==
  /\ ~ctxDone
  /\ ctxDone' = TRUE
  /\ UNCHANGED <<config, input, taken, worker, errors, output>>

Receive ==
  /\ out # <<>>
  /\ received' = Append(received, Head(out))
  /\ out' = Tail(out)
  /\ UNCHANGED <<config, input, ctxDone, taken, worker, errors, closed>>

ReceiveErr ==
  /\ errs # <<>>
  /\ errs' = Tail(errs)
  /\ UNCHANGED <<config, input, ctxDone, cancelled, errOnce, taken, worker, failed,
                 reported, output>>

(* The select of a worker.                                                 *)
Leave(w) ==
  /\ worker[w].at = "select"
  /\ RunDone \/ (inClosed /\ taken = sent)
  /\ Move(w, "done")
  /\ UNCHANGED <<config, input, ctxDone, taken, errors, output>>

Take(w) ==
  /\ worker[w].at = "select"
  /\ taken < sent
  /\ taken' = taken + 1
  /\ worker' = [worker EXCEPT ![w] = At(IF limited THEN "limit" ELSE "map", taken + 1)]
  /\ UNCHANGED <<config, input, ctxDone, errors, output>>

(* An error is reported if errs has room, and the first one may cancel the *)
(* run; both are done before the worker does anything else.                *)
Report(w) ==
  /\ failed' = failed \cup {worker[w].val}
  /\ IF Len(errs) < Capacity
     THEN /\ errs' = Append(errs, worker[w].val)
          /\ reported' = reported \cup {worker[w].val}
     ELSE UNCHANGED <<errs, reported>>
  /\ errOnce' = TRUE
  /\ cancelled' = (cancelled \/ (failFast /\ ~errOnce))

(* limiter.Wait; when it fails the worker ends, FailFast or not.           *)
LimiterWait(w) ==
  /\ worker[w].at = "limit"
  /\ \/ Move(w, "map") /\ UNCHANGED errors
     \/ Move(w, "done") /\ Report(w)
  /\ UNCHANGED <<config, input, ctxDone, taken, output>>

(* The mapper returns.                                                     *)
Mapped(w) ==
  /\ worker[w].at = "map"
  /\ \/ Move(w, "send") /\ UNCHANGED errors
     \/ Move(w, IF failFast THEN "done" ELSE "select") /\ Report(w)
  /\ UNCHANGED <<config, input, ctxDone, taken, output>>

Send(w) ==
  /\ worker[w].at = "send"
  /\ \/ /\ Len(out) < Capacity
        /\ out' = Append(out, worker[w].val)
        /\ Move(w, "select")
     \/ /\ RunDone
        /\ Move(w, "done")
        /\ UNCHANGED out
  /\ UNCHANGED <<config, input, ctxDone, taken, errors, closed, received>>

\* mutant: the first worker that ends lets the channels be closed
FinishedOne == \E w \in Workers : worker[w].at = "done"

Finished == \A w \in Workers : worker[w].at = "done"

(* wg.Wait() returns; cancel, then errs and out are closed.                *)
Close ==
  /\ Finished
  /\ \/ /\ closed = {}
        /\ cancelled' = TRUE /\ closed' = {"errs"}
     \/ /\ closed = {"errs"}
        /\ closed' = {"errs", "out"} /\ UNCHANGED cancelled
  /\ UNCHANGED <<config, input, ctxDone, taken, worker, errOnce, errs, failed,
                 reported, out, received>>

WorkerStep(w) == Leave(w) \/ Take(w) \/ LimiterWait(w) \/ Mapped(w) \/ Send(w)

Next ==
  \/ Produce \/ CtxDone \/ Receive \/ ReceiveErr \/ Close
  \/ \E w \in Workers : WorkerStep(w)

Spec == Init /\ [][Next]_vars

(* Mappers return and the limiter lets go; nothing is assumed of the       *)
(* producer, the consumer and the context.                                 *)
Fairness ==
  WF_vars(Close) /\ \A w \in Workers : WF_vars(WorkerStep(w))

-----------------------------------------------------------------------------
Delivered == {received[i] : i \in DOMAIN received} \cup {out[i] : i \in DOMAIN out}
InWork == {worker[w].val : w \in {v \in Workers : worker[v].at \in {"limit", "map", "send"}}}

TypeOK ==
  /\ taken \in 0..sent /\ sent \in 0..MaxInputs
  /\ Len(out) <= Capacity /\ Len(errs) <= Capacity
  /\ reported \subseteq failed /\ failed \subseteq 1..taken

(* Until the run is cancelled every value that was taken is in work, was    *)
(* delivered or has failed, never two of these, and is delivered once; the  *)
(* first error always finds room in errs; and nothing is sent to a channel  *)
(* that is closed (pipeline.go:196-260).                                    *)
StreamSound ==
  /\ TypeOK
  /\ Len(received) + Len(out) = Cardinality(Delivered)
  /\ Delivered \cap failed = {}
  /\ ~ctxDone /\ (~failFast \/ failed = {}) =>
       /\ 1..taken = Delivered \cup failed \cup InWork
       /\ \A v \in InWork : v \notin Delivered \cup failed
  /\ failed # {} => reported # {}
  /\ closed # {} => InWork = {}

(* When its context ends, or with FailFast an error ends the run, Stream    *)
(* closes out, even if nobody receives from it any more.                    *)
StreamCloses == (ctxDone \/ (failFast /\ failed # {})) ~> "out" \in closed
=============================================================================
