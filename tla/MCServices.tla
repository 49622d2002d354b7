----------------------------- MODULE MCServices -----------------------------
(***************************************************************************)
(* One run for the components that live as long as the program.  They have *)
(* nothing to do with each other: which says whose behaviour this is, and  *)
(* the others stay in one initial state.                                   *)
(*                                                                         *)
(* The breaker: three goroutines, so that two slow calls of a closed period *)
(* meet a trial, and a clock that outlives two cooldowns.  The pool: one to *)
(* two workers, with names for three so that one too many would be seen, a *)
(* queue of two and three tasks, so that it grows, shrinks and grows again, *)
(* and two Close.  The scheduler: two tasks, so   *)
(* that one is queued in front of another or while another runs.  The      *)
(* lifecycle: three names, one of them with a second object that replaces  *)
(* the first, and dependencies that include chains, a cycle, a service     *)
(* that depends on itself and, when not all are registered, a missing one. *)
(* The behaviours: two of one name and one that calls back.  The machine:  *)
(* two goroutines and two ways out of one state.                           *)
(***************************************************************************)
EXTENDS Breaker, TLC

CONSTANTS
  Workers, Submitters, Closers, MinWorkers, MaxWorkers, QueueLimit, MaxTasks,
  Nobody,                                                            \* Pool
  SchedulerTasks, Priorities, Intervals, SchedulerTime, SchedulerCalls,
                                                                 \* Scheduler
  Names, Services, ServiceName, Graphs, NoService,              \* Lifecycle
  Users,                                               \* Behavior and Kata
  Behaviors, BehaviorName, Callers,                              \* Behavior
  MachineStates, Events, Initial, NoState, Addable, Forced, MaxHooks \* Kata

VARIABLES
  which,
  mu, sent, tasks, currentWorkers, busyWorkers, closed, worker, close, accepted,
  ends,                                                              \* Pool
  clock, heap, free, owned, active, spec, kicks, wake, loop, deadline, ended,
  calls,                                                        \* Scheduler
  graph, services, search, ordered, started, launched, phase, position, up,
  outcome,
                                                                \* Lifecycle
  failFast, behaviors, running, cancelled, lock, run, failed,    \* Behavior
  current, rules, hooks, call, overtaken                             \* Kata

poolVars ==
  <<mu, sent, tasks, currentWorkers, busyWorkers, closed, worker, close, accepted, ends>>
schedulerTuple ==
  <<clock, heap, free, owned, active, spec, kicks, wake, loop, deadline, ended, calls>>
lifecycleVars ==
  <<graph, services, search, ordered, started, launched, phase, position, up,
  outcome>>
behaviorVars == <<failFast, behaviors, running, cancelled, lock, run, failed>>
kataVars == <<current, rules, hooks, call, overtaken>>

Labour == INSTANCE Pool

Sched == INSTANCE Scheduler WITH
           Tasks <- SchedulerTasks, MaxTime <- SchedulerTime,
           MaxCalls <- SchedulerCalls, now <- clock,
           running <- active, cancelled <- ended

Life == INSTANCE Lifecycle WITH
          NameOf <- ServiceName, running <- launched, result <- outcome

Behave == INSTANCE Behavior WITH
            Procs <- Users, NameOf <- BehaviorName, mu <- lock, state <- run

Machine == INSTANCE Kata WITH Procs <- Users, States <- MachineStates

ASSUME ServicesAssumption ==
  /\ BreakerAssumption /\ Labour!PoolAssumption /\ Sched!SchedulerAssumption
  /\ Life!LifecycleAssumption /\ Behave!BehaviorAssumption /\ Machine!KataAssumption

MCServiceName == [s \in Services |-> IF s = "api2" THEN "api" ELSE s]

MCGraphs ==
  {[db |-> d, cache |-> c, api |-> a, api2 |-> {"cache"}] :
     d \in {{}, {"db"}, {"api"}}, c \in SUBSET {"db"},
     a \in SUBSET {"db", "cache"} \ {{}}}

MCBehaviorName == [a |-> "a", a2 |-> "a", b |-> "b"]

MCAddable == {[from |-> "new", event |-> "go", to |-> "busy"],
              [from |-> "new", event |-> "go", to |-> "done"],
              [from |-> "busy", event |-> "go", to |-> "done"]}

MCInit ==
  /\ which \in {"breaker", "pool", "scheduler", "lifecycle", "behavior", "kata"}
  /\ Init /\ Labour!Init /\ Sched!Init /\ Life!Init /\ Behave!Init /\ Machine!Init
  /\ which # "pool" =>
       Labour!Alive = CHOOSE first \in SUBSET Workers : Cardinality(first) = MinWorkers
  /\ which # "lifecycle" => graph = CHOOSE g \in Graphs : TRUE
  /\ which # "behavior" => ~failFast

(* All the components but c, and the choice, stay as they are.             *)
Parked(c) ==
  /\ UNCHANGED which
  /\ IF c = "breaker" THEN TRUE ELSE UNCHANGED vars
  /\ IF c = "pool" THEN TRUE ELSE UNCHANGED poolVars
  /\ IF c = "scheduler" THEN TRUE ELSE UNCHANGED schedulerTuple
  /\ IF c = "lifecycle" THEN TRUE ELSE UNCHANGED lifecycleVars
  /\ IF c = "behavior" THEN TRUE ELSE UNCHANGED behaviorVars
  /\ IF c = "kata" THEN TRUE ELSE UNCHANGED kataVars

MCNext ==
  \/ which = "breaker" /\ Next /\ Parked("breaker")
  \/ which = "pool" /\ Labour!Next /\ Parked("pool")
  \/ which = "scheduler" /\ Sched!Next /\ Parked("scheduler")
  \/ which = "lifecycle" /\ Life!Next /\ Parked("lifecycle")
  \/ which = "behavior" /\ Behave!Next /\ Parked("behavior")
  \/ which = "kata" /\ Machine!Next /\ Parked("kata")

MCSpec ==
  MCInit /\ [][MCNext]_<<which, vars, poolVars, schedulerTuple, lifecycleVars, behaviorVars,
                        kataVars>>

-----------------------------------------------------------------------------
(* The properties of the instances.                                        *)

(* The pool never has more workers than it may (pool.go:101-151, 190).      *)
WorkersInBounds == Labour!WorkersInBounds

(* Every accepted task runs once (pool.go:101-165, 188-216).                *)
TaskOnce == Labour!TaskOnce

(* The scheduler loses no wake-up (scheduler.go:56-67).                     *)
NoLostWakeup == Sched!NoLostWakeup

(* A task object is in one place (scheduler.go:139-151).                    *)
TaskExclusive == Sched!TaskExclusive

(* sortDependencies is exact (lifecycle.go:135-182).                        *)
SortExact == Life!SortExact

(* o.running is what is up, and up are no services without the ones they    *)
(* depend on (lifecycle.go:90-133).                                         *)
RunningExact == Life!RunningExact

(* Nothing of a run outlives it (behavior.go:96-146).                       *)
RunsContained == Behave!RunsContained

(* Every move of the machine has its reason (transition.go:25-61).          *)
MoveExplained == Machine!MoveExplained

(* What was accepted is done: a task of the pool is run, a queued task of   *)
(* the scheduler is run or Start returns, a run of behaviours that was      *)
(* cancelled ends, and so does the sort of the services (pool.go:101-151,   *)
(* scheduler.go:74-134, behavior.go:133-146, lifecycle.go:135-182).         *)
WorkEnds ==
  /\ which = "pool" /\ Labour!Fairness => Labour!TaskServed
  /\ which = "scheduler" /\ Sched!Fairness => Sched!TaskServed
  /\ which = "behavior" /\ Behave!Fairness => Behave!RunEnds
  /\ which = "lifecycle" /\ Life!Fairness => Life!SortEnds
=============================================================================
