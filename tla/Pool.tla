------------------------------- MODULE Pool -------------------------------
(***************************************************************************)
(* The worker pool of pool/pool.go.                                        *)
(*                                                                         *)
(* Submit keeps p.mu while it sends, and a worker may take the task before *)
(* Submit looks at the queue again, so Submit is three actions with a      *)
(* variable for the mutex; the other sections under p.mu are one action    *)
(* each.  A worker takes a task, counts itself busy, runs the task and     *)
(* counts itself idle in four steps, and the idle timer may fire at any    *)
(* time.                                                                   *)
(***************************************************************************)
EXTENDS Integers, Sequences, FiniteSets

CONSTANTS
  Workers,     \* names for worker goroutines
  Submitters,  \* goroutines that call Submit
  Closers,     \* goroutines that call Close
  MinWorkers,  \* cfg.MinWorkers
  MaxWorkers,  \* cfg.MaxWorkers
  QueueLimit,  \* cfg.QueueLimit
  MaxTasks,    \* bound on the tasks accepted
  Nobody       \* "p.mu is unlocked"

(* What resolveDefaults makes of any Config.                               *)
Resolved ==
  /\ MinWorkers \in Nat \ {0}
  /\ MaxWorkers \in Nat /\ MinWorkers <= MaxWorkers
  /\ QueueLimit \in Nat \ {0}

(* There are names enough for the workers.                                 *)
PoolAssumption ==
  /\ Resolved
  /\ MaxTasks \in Nat
  /\ IsFiniteSet(Workers) /\ Cardinality(Workers) >= MaxWorkers
  /\ Nobody \notin Submitters

Tasks == 1..MaxTasks

VARIABLES
  mu,              \* the Submit that holds p.mu, or Nobody
  sent,            \* has that Submit sent its task?
  tasks,           \* p.tasks
  currentWorkers,  \* p.currentWorkers
  busyWorkers,     \* p.busyWorkers
  closed,          \* p.closed
  worker,          \* where each worker goroutine is, and its task
  close,           \* where each Close is
  accepted,        \* the number of tasks accepted
  ends             \* how often the future of each task was closed

vars == <<mu, sent, tasks, currentWorkers, busyWorkers, closed, worker, close,
          accepted, ends>>

-----------------------------------------------------------------------------
Gone == [at |-> "gone", task |-> 0]
Ready == [at |-> "ready", task |-> 0]

(* spawnWorker.                                                            *)
SpawnWorker(w) ==
  /\ worker[w] = Gone
  /\ worker' = [worker EXCEPT ![w] = Ready]
  /\ currentWorkers' = currentWorkers + 1

(* NewPool: the first MinWorkers workers are there.                        *)
Init ==
  /\ mu = Nobody
  /\ sent = FALSE
  /\ tasks = <<>>
  /\ currentWorkers = MinWorkers
  /\ busyWorkers = 0
  /\ closed = FALSE
  /\ \E first \in SUBSET Workers :
       /\ Cardinality(first) = MinWorkers
       /\ worker = [w \in Workers |-> IF w \in first THEN Ready ELSE Gone]
  /\ close = [c \in Closers |-> "idle"]
  /\ accepted = 0
  /\ ends = [t \in Tasks |-> 0]

(* Submit up to the send; refused, it changes nothing.                     *)
Submit(s) ==
  /\ mu = Nobody
  /\ ~closed
  /\ Len(tasks) < QueueLimit
  /\ accepted < MaxTasks
  /\ mu' = s
  /\ UNCHANGED <<sent, tasks, currentWorkers, busyWorkers, closed, worker, close,
                 accepted, ends>>

(* The send; it would block on a full channel.                             *)
SubmitSend(s) ==
  /\ mu = s /\ ~sent
  /\ Len(tasks) < QueueLimit
  /\ tasks' = Append(tasks, accepted + 1)
  /\ accepted' = accepted + 1
  /\ sent' = TRUE
  /\ UNCHANGED <<mu, currentWorkers, busyWorkers, closed, worker, close, ends>>

\* mutant: the pool is scaled up one worker too far
Overgrown ==
  /\ currentWorkers <= MaxWorkers
  /\ busyWorkers = currentWorkers \/ Len(tasks) > 0

(* The test for another worker, after the send.                            *)
ScaleUp ==
  /\ currentWorkers < MaxWorkers
  /\ busyWorkers = currentWorkers \/ Len(tasks) > 0

(* The rest of Submit.                                                     *)
SubmitScale(s) ==
  /\ mu = s /\ sent
  /\ IF ScaleUp THEN \E w \in Workers : SpawnWorker(w)
                ELSE UNCHANGED <<worker, currentWorkers>>
  /\ mu' = Nobody
  /\ sent' = FALSE
  /\ UNCHANGED <<tasks, busyWorkers, closed, close, accepted, ends>>

-----------------------------------------------------------------------------
(* The worker loop.                                                        *)

Take(w) ==
  /\ worker[w] = Ready
  /\ tasks # <<>>
  /\ worker' = [worker EXCEPT ![w] = [at |-> "taken", task |-> Head(tasks)]]
  /\ tasks' = Tail(tasks)
  /\ UNCHANGED <<mu, sent, currentWorkers, busyWorkers, closed, close, accepted, ends>>

MarkBusy(w) ==
  /\ worker[w].at = "taken"
  /\ mu = Nobody
  /\ busyWorkers' = busyWorkers + 1
  /\ worker' = [worker EXCEPT ![w].at = "running"]
  /\ UNCHANGED <<mu, sent, tasks, currentWorkers, closed, close, accepted, ends>>

(* runTaskSafely: returned or panicked, the task has its future closed.    *)
RunTaskSafely(w) ==
  /\ worker[w].at = "running"
  /\ ends' = [ends EXCEPT ![worker[w].task] = @ + 1]
  /\ worker' = [worker EXCEPT ![w] = [at |-> "ran", task |-> 0]]
  /\ UNCHANGED <<mu, sent, tasks, currentWorkers, busyWorkers, closed, close, accepted>>

MarkIdle(w) ==
  /\ worker[w].at = "ran"
  /\ mu = Nobody
  /\ busyWorkers' = busyWorkers - 1
  /\ worker' = [worker EXCEPT ![w] = Ready]
  /\ UNCHANGED <<mu, sent, tasks, currentWorkers, closed, close, accepted, ends>>

(* The receive finds p.tasks closed and empty.                             *)
TasksClosed(w) ==
  /\ worker[w] = Ready
  /\ closed /\ tasks = <<>>
  /\ worker' = [worker EXCEPT ![w].at = "leaving"]
  /\ UNCHANGED <<mu, sent, tasks, currentWorkers, busyWorkers, closed, close,
                 accepted, ends>>

Leave(w) ==
  /\ worker[w].at = "leaving"
  /\ mu = Nobody
  /\ currentWorkers' = currentWorkers - 1
  /\ worker' = [worker EXCEPT ![w] = Gone]
  /\ UNCHANGED <<mu, sent, tasks, busyWorkers, closed, close, accepted, ends>>

(* The select takes "case <-timer.C"; tasks may be waiting too.            *)
TimerFires(w) ==
  /\ worker[w] = Ready
  /\ worker' = [worker EXCEPT ![w].at = "expired"]
  /\ UNCHANGED <<mu, sent, tasks, currentWorkers, busyWorkers, closed, close,
                 accepted, ends>>

Expire(w) ==
  /\ worker[w].at = "expired"
  /\ mu = Nobody
  /\ IF currentWorkers > MinWorkers
     THEN /\ currentWorkers' = currentWorkers - 1
          /\ worker' = [worker EXCEPT ![w] = Gone]
     ELSE /\ worker' = [worker EXCEPT ![w] = Ready]
          /\ UNCHANGED currentWorkers
  /\ UNCHANGED <<mu, sent, tasks, busyWorkers, closed, close, accepted, ends>>

-----------------------------------------------------------------------------
(* Close: a second one returns at once, the first waits for the workers.   *)
Close(c) ==
  /\ close[c] = "idle"
  /\ mu = Nobody
  /\ close' = [close EXCEPT ![c] = IF closed THEN "returned" ELSE "waiting"]
  /\ closed' = TRUE
  /\ UNCHANGED <<mu, sent, tasks, currentWorkers, busyWorkers, worker, accepted, ends>>

\* mutant: p.wg.Wait() is missing
CloseHurries(c) ==
  /\ close[c] = "waiting"
  /\ close' = [close EXCEPT ![c] = "done"]
  /\ UNCHANGED <<mu, sent, tasks, currentWorkers, busyWorkers, closed, worker,
                 accepted, ends>>

(* p.wg.Wait() returns.                                                    *)
CloseReturns(c) ==
  /\ close[c] = "waiting"
  /\ \A w \in Workers : worker[w] = Gone
  /\ close' = [close EXCEPT ![c] = "done"]
  /\ UNCHANGED <<mu, sent, tasks, currentWorkers, busyWorkers, closed, worker,
                 accepted, ends>>

Next ==
  \/ \E s \in Submitters : Submit(s) \/ SubmitSend(s) \/ SubmitScale(s)
  \/ \E w \in Workers :
       \/ Take(w) \/ MarkBusy(w) \/ RunTaskSafely(w) \/ MarkIdle(w)
       \/ TasksClosed(w) \/ Leave(w)
       \/ TimerFires(w) \/ Expire(w)
  \/ \E c \in Closers : Close(c) \/ CloseReturns(c)

Spec == Init /\ [][Next]_vars

(* A goroutine inside the package keeps going and tasks return.  Sections  *)
(* under p.mu, which sync.Mutex lets everyone have in turn, and the        *)
(* receive, which a select chooses at random against the idle timer, are   *)
(* strongly fair.  Nothing is assumed of callers and timers.               *)
Fairness ==
  /\ \A s \in Submitters : WF_vars(SubmitSend(s) \/ SubmitScale(s))
  /\ \A w \in Workers :
       /\ SF_vars(Take(w)) /\ SF_vars(TasksClosed(w))
       /\ SF_vars(MarkBusy(w) \/ MarkIdle(w) \/ Leave(w) \/ Expire(w))
       /\ WF_vars(RunTaskSafely(w))
  /\ \A c \in Closers : WF_vars(CloseReturns(c))

-----------------------------------------------------------------------------
Places == {"gone", "ready", "taken", "running", "ran", "leaving", "expired"}

Alive == {w \in Workers : worker[w] # Gone}

At(places) == {w \in Workers : worker[w].at \in places}

(* Every variable has its type.                                             *)
TypeOK ==
  /\ mu \in Submitters \cup {Nobody}
  /\ sent \in BOOLEAN
  /\ tasks \in Seq(Tasks)
  /\ currentWorkers \in Nat
  /\ busyWorkers \in 0..MaxWorkers
  /\ closed \in BOOLEAN
  /\ worker \in [Workers -> [at : Places, task : 0..MaxTasks]]
  /\ close \in [Closers -> {"idle", "waiting", "done", "returned"}]
  /\ accepted \in 0..MaxTasks
  /\ ends \in [Tasks -> Nat]

(* The counters are exact, and the pool keeps between MinWorkers and        *)
(* MaxWorkers workers until it is closed: "scales worker goroutines         *)
(* dynamically between MinWorkers and MaxWorkers" (README.md:741).  Submit   *)
(* never blocks with p.mu in its hands, and never sends on a closed channel *)
(* (pool.go:175, 188).                                                      *)
WorkersInBounds ==
  /\ TypeOK
  /\ currentWorkers = Cardinality(Alive)
  /\ busyWorkers = Cardinality(At({"running", "ran"}))
  /\ currentWorkers <= MaxWorkers
  /\ ~closed => currentWorkers >= MinWorkers
  /\ mu # Nobody /\ ~sent => Len(tasks) < QueueLimit /\ ~closed

(* A task that was accepted is in the queue, or with one worker, or its     *)
(* future is closed, once: in exactly one of these places; and "Close       *)
(* gracefully shuts down the pool, waiting for all enqueued tasks to        *)
(* complete" (pool.go:199).                                                 *)
TaskOnce ==
  \A t \in 1..accepted :
    /\ Cardinality({i \in DOMAIN tasks : tasks[i] = t})
         + Cardinality({w \in Workers : worker[w].task = t}) + ends[t] = 1
    /\ (\E c \in Closers : close[c] = "done") => ends[t] = 1

(* An accepted task is run in the end, whatever idle timers fire and        *)
(* whether or not the pool is closed.                                       *)
TaskServed == \A t \in Tasks : accepted >= t ~> ends[t] > 0

=============================================================================
