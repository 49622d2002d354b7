------------------------------ MODULE Behavior ------------------------------
(***************************************************************************)
(* The orchestrator of behavior/behavior.go.                               *)
(*                                                                         *)
(* Stop keeps o.mu while it waits for the behaviours, so everything that   *)
(* needs o.mu is blocked meanwhile, also when a behaviour calls it.        *)
(***************************************************************************)
EXTENDS Integers

CONSTANTS
  Procs,      \* goroutines that call Start and Stop
  Behaviors,
  NameOf,     \* b.Name(), by behaviour
  Callers,    \* the behaviours whose Run calls Count or Register
  Nobody      \* "o.mu is free"

BehaviorAssumption == Nobody \notin Procs

VARIABLES
  failFast,   \* o.failFast
  behaviors,  \* o.behaviors
  running,    \* o.running
  cancelled,  \* runCtx.Err() of the last run is not nil
  mu,         \* who holds o.mu across steps: a goroutine in Stop
  state,      \* where the goroutine of each behaviour is
  failed      \* history: a behaviour failed on its own in the last run

vars == <<failFast, behaviors, running, cancelled, mu, state, failed>>

Init ==
  /\ failFast \in BOOLEAN
  /\ behaviors = {}
  /\ running = FALSE /\ cancelled = FALSE /\ failed = FALSE
  /\ mu = Nobody
  /\ state = [b \in Behaviors |-> "off"]

(* A second behaviour of the same name is skipped.                         *)
Register(b) ==
  /\ mu = Nobody
  /\ \A existing \in behaviors : NameOf[existing] # NameOf[b]
  /\ behaviors' = behaviors \cup {b}
  /\ UNCHANGED <<failFast, running, cancelled, mu, state, failed>>

(* Start; while running it fails and changes nothing.                      *)
Start ==
  /\ mu = Nobody /\ ~running
  /\ running' = TRUE
  /\ cancelled' = FALSE /\ failed' = FALSE
  /\ state' = [b \in Behaviors |-> IF b \in behaviors THEN "run" ELSE state[b]]
  /\ UNCHANGED <<failFast, behaviors, mu>>

(* The context given to Start ends.                                        *)
ParentDone ==
  /\ running /\ ~cancelled
  /\ cancelled' = TRUE
  /\ UNCHANGED <<failFast, behaviors, running, mu, state, failed>>

Move(b, from, to) ==
  /\ state[b] = from
  /\ state' = [state EXCEPT ![b] = to]

(* Run calls Count, or Register, which waits for o.mu.                     *)
CallBack(b) ==
  /\ b \in Callers
  /\ Move(b, "run", "calling")
  /\ UNCHANGED <<failFast, behaviors, running, cancelled, mu, failed>>

CallReturns(b) ==
  /\ mu = Nobody
  /\ Move(b, "calling", "run")
  /\ UNCHANGED <<failFast, behaviors, running, cancelled, mu, failed>>

(* Run returns, with an error or without.                                  *)
RunReturns(b, err) ==
  /\ Move(b, "run", IF err THEN "erred" ELSE "off")
  /\ UNCHANGED <<failFast, behaviors, running, cancelled, mu, failed>>

(* What the goroutine does with the error: once the run is cancelled it is *)
(* taken for the consequence of that.                                      *)
Handle(b) ==
  /\ Move(b, "erred", "off")
  /\ failed' = (failed \/ ~cancelled)
  /\ cancelled' = (cancelled \/ failFast)
  /\ UNCHANGED <<failFast, behaviors, running, mu>>

(* Stop up to its wg.Wait().                                               *)
Stop(p) ==
  /\ mu = Nobody /\ running
  /\ mu' = p
  /\ cancelled' = TRUE
  /\ UNCHANGED <<failFast, behaviors, running, state, failed>>

\* mutant: Stop does not wait
WaitedNot == TRUE

Waited == \A b \in Behaviors : state[b] = "off"

StopReturns(p) ==
  /\ mu = p /\ Waited
  /\ running' = FALSE
  /\ mu' = Nobody
  /\ UNCHANGED <<failFast, behaviors, cancelled, state, failed>>

Goroutine(b) ==
  CallReturns(b) \/ Handle(b) \/ \E err \in BOOLEAN : RunReturns(b, err)

Next ==
  \/ Start \/ ParentDone
  \/ \E b \in Behaviors : Register(b) \/ CallBack(b) \/ Goroutine(b)
  \/ \E p \in Procs : Stop(p) \/ StopReturns(p)

Spec == Init /\ [][Next]_vars

(* A behaviour "should block until the context is canceled" (behavior.go:  *)
(* 17-18): then, and only then, its Run must return.                       *)
Fairness ==
  /\ \A b \in Behaviors :
       /\ WF_vars(cancelled /\ \E err \in BOOLEAN : RunReturns(b, err))
       /\ WF_vars(CallReturns(b) \/ Handle(b))
  /\ \A p \in Procs : WF_vars(StopReturns(p))

FairSpec == Spec /\ Fairness

-----------------------------------------------------------------------------
TypeOK ==
  /\ behaviors \subseteq Behaviors
  /\ mu \in Procs \cup {Nobody}
  /\ running \in BOOLEAN /\ cancelled \in BOOLEAN /\ failed \in BOOLEAN
  /\ state \in [Behaviors -> {"off", "run", "calling", "erred"}]

(* No behaviour runs unless the orchestrator says so, in particular none of *)
(* the last run is left when the next one starts; the behaviours that run   *)
(* are registered and have different names; and with fail-fast a run in     *)
(* which one failed on its own is cancelled (behavior.go:96-146).           *)
RunsContained ==
  /\ TypeOK
  /\ \A b \in Behaviors :
       state[b] # "off" => running /\ b \in behaviors
  /\ \A b, c \in behaviors : NameOf[b] = NameOf[c] => b = c
  /\ mu # Nobody => running /\ cancelled
  /\ failFast /\ failed => cancelled

(* "Stop stops all running behaviors and waits for them to finish"          *)
(* (behavior.go:135): it returns, as every behaviour ends when its context  *)
(* does.  Only so for behaviours that do not call the orchestrator.         *)
StopEnds == mu # Nobody ~> mu = Nobody

(* A run that was cancelled, by its context, by Stop or by a failure with   *)
(* fail-fast, ends, and so does the Stop, as long as no behaviour calls the *)
(* orchestrator.                                                            *)
RunEnds ==
  [](\A b \in Behaviors : state[b] # "calling") =>
    (cancelled ~> mu = Nobody /\ \A b \in Behaviors : state[b] = "off")
=============================================================================
