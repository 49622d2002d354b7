----------------------------- MODULE Scheduler -----------------------------
(***************************************************************************)
(* The task scheduler of scheduler/scheduler.go.                           *)
(*                                                                         *)
(* The heap is the set of its tasks, of which a least one is taken.  Every *)
(* section under s.mu is one action; the wake-up that follows a push, and  *)
(* the sleep that follows a look at the heap, are actions of their own.    *)
(* Time is a clock of whole units.                                         *)
(***************************************************************************)
EXTENDS Integers, FiniteSets

CONSTANTS
  Tasks,       \* Task objects
  Priorities,  \* values of Task.Priority
  Intervals,   \* values of Task.Interval, 0 for a one-off task
  MaxTime,     \* bound on the clock
  MaxCalls     \* bound on the calls of Schedule

SchedulerAssumption ==
  /\ IsFiniteSet(Tasks)
  /\ Priorities \subseteq Int /\ Priorities # {}
  /\ Intervals \subseteq Nat
  /\ MaxTime \in Nat /\ MaxCalls \in Nat

Times == 0..MaxTime

VARIABLES
  now,        \* time.Now()
  heap,       \* s.tasks
  free,       \* s.taskPool, and the objects it would allocate
  owned,      \* tasks a caller has acquired and not yet scheduled
  running,    \* tasks runTask is at work on
  spec,       \* the fields of each task
  kicks,      \* goroutines about to call triggerWake
  wake,       \* is there a value in s.wakeChan?
  loop,       \* where Start is
  deadline,   \* when its timer fires
  cancelled,  \* is the context of Start done?
  calls       \* calls of Schedule so far

queue == <<heap, free, owned, running, spec>>
control == <<kicks, wake, loop, deadline, cancelled>>
schedulerVars == <<now, queue, control, calls>>

-----------------------------------------------------------------------------
New ==
  /\ heap = {}
  /\ wake = FALSE

Init ==
  /\ New
  /\ now = 0
  /\ free = Tasks /\ owned = {} /\ running = {}
  /\ spec \in [Tasks -> [next : {0}, prio : {CHOOSE x \in Priorities : TRUE}, every : {0}]]
  /\ kicks = 0
  /\ loop = "off" /\ deadline = 0 /\ cancelled = FALSE
  /\ calls = 0

Tick ==
  /\ now < MaxTime
  /\ now' = now + 1
  /\ UNCHANGED <<queue, control, calls>>

AcquireTask(t) ==
  /\ t \in free
  /\ free' = free \ {t}
  /\ owned' = owned \cup {t}
  /\ UNCHANGED <<now, heap, running, spec, control, calls>>

(* ReleaseTask by a caller that gives the task up.  NextRun and Priority   *)
(* are not reset.                                                          *)
ReleaseTask(t) ==
  /\ t \in owned
  /\ owned' = owned \ {t}
  /\ free' = free \cup {t}
  /\ spec' = [spec EXCEPT ![t].every = 0]
  /\ UNCHANGED <<now, heap, running, control, calls>>

\* mutant: the loop is not told
ScheduleSilent(t, next, prio, every) ==
  /\ t \in owned /\ calls < MaxCalls
  /\ calls' = calls + 1
  /\ spec' = [spec EXCEPT ![t] = [next |-> next, prio |-> prio, every |-> every]]
  /\ owned' = owned \ {t}
  /\ heap' = heap \cup {t}
  /\ UNCHANGED <<now, free, running, control>>

(* Schedule up to triggerWake, by a caller that has set the fields.        *)
Schedule(t, next, prio, every) ==
  /\ t \in owned /\ calls < MaxCalls
  /\ calls' = calls + 1
  /\ spec' = [spec EXCEPT ![t] = [next |-> next, prio |-> prio, every |-> every]]
  /\ owned' = owned \ {t}
  /\ heap' = heap \cup {t}
  /\ kicks' = kicks + 1
  /\ UNCHANGED <<now, free, running, wake, loop, deadline, cancelled>>

(* triggerWake: a wake-up that is pending already stands for this one.     *)
TriggerWake ==
  /\ kicks > 0
  /\ kicks' = kicks - 1
  /\ wake' = TRUE
  /\ UNCHANGED <<now, queue, loop, deadline, cancelled, calls>>

-----------------------------------------------------------------------------
(* Start, with a context of its own; called again after it has returned.   *)
Start ==
  /\ loop = "off"
  /\ loop' = "looking"
  /\ cancelled' = FALSE
  /\ UNCHANGED <<now, queue, kicks, wake, deadline, calls>>

Cancel ==
  /\ loop # "off" /\ ~cancelled
  /\ cancelled' = TRUE
  /\ UNCHANGED <<now, queue, kicks, wake, loop, deadline, calls>>

(* taskHeap.Less.                                                          *)
Less(t, u) ==
  \/ spec[t].next < spec[u].next
  \/ spec[t].next = spec[u].next /\ spec[t].prio > spec[u].prio

First == {t \in heap : \A u \in heap : ~Less(u, t)}

(* The locked section of the loop, unless its context is done: it finds    *)
(* nothing, a task that is not due, or one that is.                        *)
LookIdle ==
  /\ heap = {}
  /\ loop' = "idle"
  /\ UNCHANGED <<heap, running, deadline>>

\* mutant: the loop sleeps until the last task of the heap is due
LookSleepLong ==
  \E t \in heap :
    /\ \A u \in heap : ~Less(t, u)
    /\ now < spec[t].next
    /\ deadline' = spec[t].next
    /\ loop' = "sleeping"
    /\ UNCHANGED <<heap, running>>

LookSleep ==
  \E t \in First :
    /\ now < spec[t].next
    /\ deadline' = spec[t].next
    /\ loop' = "sleeping"
    /\ UNCHANGED <<heap, running>>

LookRun ==
  \E t \in First :
    /\ now >= spec[t].next
    /\ heap' = heap \ {t}
    /\ running' = running \cup {t}
    /\ UNCHANGED <<loop, deadline>>

Look ==
  /\ loop = "looking"
  /\ \/ /\ cancelled
        /\ loop' = "off"
        /\ UNCHANGED <<heap, running, deadline>>
     \/ ~cancelled /\ (LookIdle \/ LookSleep \/ LookRun)
  /\ UNCHANGED <<now, free, owned, spec, kicks, wake, cancelled, calls>>

(* The two selects.                                                        *)
Woken ==
  /\ loop \in {"idle", "sleeping"} /\ wake
  /\ wake' = FALSE
  /\ loop' = "looking"
  /\ UNCHANGED <<now, queue, kicks, deadline, cancelled, calls>>

TimerFires ==
  /\ loop = "sleeping" /\ now >= deadline
  /\ loop' = "looking"
  /\ UNCHANGED <<now, queue, kicks, wake, deadline, cancelled, calls>>

Stopped ==
  /\ loop \in {"idle", "sleeping"} /\ cancelled
  /\ loop' = "off"
  /\ UNCHANGED <<now, queue, kicks, wake, deadline, cancelled, calls>>

\* mutant: every task that was run goes to the pool
RunReleases(t) ==
  /\ t \in running
  /\ running' = running \ {t}
  /\ heap' = IF spec[t].every > 0 THEN heap \cup {t} ELSE heap
  /\ free' = free \cup {t}
  /\ UNCHANGED <<now, owned, spec, control, calls>>

(* runTask after Execute: a periodic task is queued again, relative to the *)
(* end of its run; within the bound on the clock.                          *)
RunAgain(t) ==
  /\ t \in running /\ spec[t].every > 0
  /\ now + spec[t].every <= MaxTime
  /\ running' = running \ {t}
  /\ spec' = [spec EXCEPT ![t].next = now + spec[t].every]
  /\ heap' = heap \cup {t}
  /\ kicks' = kicks + 1
  /\ UNCHANGED <<now, free, owned, wake, loop, deadline, cancelled, calls>>

RunOnce(t) ==
  /\ t \in running /\ spec[t].every = 0
  /\ running' = running \ {t}
  /\ free' = free \cup {t}
  /\ UNCHANGED <<now, heap, owned, spec, control, calls>>

Next ==
  \/ Tick
  \/ \E t \in Tasks :
       \/ AcquireTask(t) \/ ReleaseTask(t)
       \/ \E next \in Times, prio \in Priorities, every \in Intervals :
            Schedule(t, next, prio, every)
       \/ RunAgain(t) \/ RunOnce(t)
  \/ TriggerWake
  \/ Start \/ Cancel
  \/ Look \/ Woken \/ TimerFires \/ Stopped

Spec == Init /\ [][Next]_schedulerVars

(* The clock goes on, the loop and the goroutines of the package keep      *)
(* going, and Execute returns.  A select that finds its case ready takes   *)
(* it, or another one that is.                                             *)
Fairness ==
  /\ WF_schedulerVars(loop # "off" /\ Tick)
  /\ WF_schedulerVars(TriggerWake)
  /\ WF_schedulerVars(Look)
  /\ WF_schedulerVars(Woken \/ TimerFires \/ Stopped)
  /\ \A t \in Tasks : WF_schedulerVars(RunAgain(t) \/ RunOnce(t))

-----------------------------------------------------------------------------
(* Every variable has its type.                                             *)
TypeOK ==
  /\ now \in Times
  /\ spec \in [Tasks -> [next : Times, prio : Priorities, every : Intervals \cup {0}]]
  /\ kicks \in Nat
  /\ wake \in BOOLEAN
  /\ loop \in {"off", "looking", "idle", "sleeping"}
  /\ deadline \in Times
  /\ cancelled \in BOOLEAN
  /\ calls \in 0..MaxCalls

(* No lost wake-up: a loop that sleeps misses no task, unless it is about   *)
(* to be woken: the signal is sent after the push and outside s.mu, and is  *)
(* dropped when one is pending (scheduler.go:56-67).                        *)
NoLostWakeup ==
  \/ loop \notin {"idle", "sleeping"}
  \/ wake \/ kicks > 0
  \/ IF loop = "idle" THEN heap = {}
                      ELSE \A t \in heap : spec[t].next >= deadline

(* A task object is in one place: in the pool, with a caller, queued or     *)
(* running, also when it is periodic, or is used again after a one-off run  *)
(* (scheduler.go:139-151).                                                  *)
TaskExclusive ==
  /\ TypeOK
  /\ free \cup owned \cup heap \cup running = Tasks
  /\ Cardinality(free) + Cardinality(owned) + Cardinality(heap)
       + Cardinality(running) = Cardinality(Tasks)

(* A queued task is run in the end, whatever is scheduled beside it, or     *)
(* Start returns, as it does when its context is done.                      *)
TaskServed ==
  /\ \A t \in Tasks :
       loop # "off" /\ t \in heap ~> t \in running \/ loop = "off"
  /\ cancelled ~> loop = "off"

=============================================================================
