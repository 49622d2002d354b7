# A verification development for miyako

miyako is a Go library of small concurrency components. This directory holds
TLA+ models of them, the TLC configurations that check the models on small
instances, and TLAPS proofs about all of them. Every module is a translation of
the code, file by file; the library's docs are used only for what the code
*promises*.

    tlc -workers 2 -config MCCalls.cfg MCCalls     # one run
    tlapm SemaphoreProofs.tla                      # one set of proofs

`PROJECT.json` lists the components, the runs, the mutants that show each
property can fail, the source lines behind every definition, the findings and
the hazards.

## 1. Inventory

The packages do not call each other, with one exception: `jobs` takes its mutex
from `sync/spinlock`. Each is used by itself, from many goroutines at once, so
the interactions that matter are those of goroutines *within* a component: who
holds which mutex, what was read before an unlock and is used after it, which
channel is closed by whom.

| component | state | operations | what is hard | what makes it right |
|---|---|---|---|---|
| `sync/semaphore` | limit, active, queue of channels, `s.mu` | Acquire, Release, Resize | a cancellation races the wake-up; `notifyWaiters` must run to its end | no slot twice, none lost, no lost wake-up, first come first served |
| `jobs` | store id → entry, `sync.Pool` of entries, timers, context watchers, wait channels, closed | NextID, Add, Resolve, Remove, CancelAll, Close, WaitFor, SetStore | entries are used after the lock was given up and are recycled; timers fire at any time; stores fail | a callback once, one owner per entry, channels closed once, Close is final |
| `sync/keylock` | map key → counted mutex, `km.mu` | Lock, Unlock, TryLock, ForceUnlock | the entry's mutex is locked outside `km.mu`; entries are deleted at count zero | exclusion per key, exact counts, nobody left on a dead mutex |
| `batto` | map key → call; per call the waiters, done, cancelled; `g.mu`, `c.mu` | Do, wait, run | two mutexes in two orders; callers leave while the worker ends | results reach every registered caller, only abandoned workers are cancelled |
| `bus` | maps type → subscriptions, `all`, closed, flag and channel per subscription, `b.mu` (RW) | Subscribe, SubscribeAll, Publish, Unsubscribe, Close | the flag is outside the lock; sending and closing meet | no send on a closed channel, one close, an exact registry, nobody passed over |
| `sync/breaker` | state, openTime, records, halfOpenExecuting | Do, State | `fn` runs unlocked: calls report in states they were not admitted in | one trial, no stale record against a closed breaker |
| `pool` | queue channel, worker counters, closed | Submit, worker loop, Close | idle workers leave while tasks arrive; Submit sends under `p.mu` | bounds on workers, every accepted task once, Close waits |
| `scheduler` | heap of tasks, wake channel, task pool | Schedule, Start, Debounce, Throttle, AcquireTask/ReleaseTask | the loop reads the heap before it sleeps; timers that fired already | no lost wake-up, tasks in time and priority order |
| `kata` | state, rules, hooks, RWMutex | AddRules, OnBefore, OnAfter, Transition, ForceSet | hooks run unlocked between lookup and assignment | every move has its rule; a refused one moves nothing |
| `lifecycle` | services, order, started ones | Register, InitAll, StartAll, StopAll | one service of several fails | a topological order; rollback in reverse, each service once |
| `sync/limiter` (adaptive) | limit, active, queue, RTTs | Acquire, Release | the semaphore's races, with a limit that moves at every Release | as the semaphore; the limit leaves its range on neither side |
| `sync/limiter` (keyed) | key → token bucket and last use | Wait, Allow, sweep, Close | a bucket is swept while somebody uses it | a key keeps its rate; Close ends the sweeper |
| `sync/lazy`, `sync/spinlock` | a value and its flag; one word | Get, Reset; Lock, Unlock | – | computed once; exclusion |
| `yumi` | workers, task, result and error channels, cancellation | Process, Stream, Map, ForEach | fail-fast meets results under way; channels are closed by the last worker | outputs complete and each once, or an error; nothing sent on a closed channel; the call returns |
| `behavior` | registered behaviours, cancel function, `o.mu` | Register, Start, Stop | Stop waits under its mutex; a behaviour may call back | no behaviour outlives its run; fail-fast ends it |
| `generic` | SingleFlight's map, DataLoader's batch and timer, ParallelForEach's slots; Future, Cache, Backoff, Retry; slice helpers | Do, Load, ParallelForEach, ParallelMap | a panic in the shared call; a load whose caller has gone; a limit on goroutines | one call per key; each load in one batch; the limit kept and every error seen |

## 2. Plan

In the order of how much can go wrong in them that a test would not show:

1. **Done: models.** `Semaphore`, `Jobs`, `KeyLock`, `Batto`, `Bus`, `Breaker`,
   `Pool`, `Scheduler`, `Lifecycle`; `Limiter` (adaptive), `KeyedLimiter`,
   `Kata`, `Yumi` and `YumiStream`, `Behavior`, and of `generic` the three
   concurrent parts, `SingleFlight`, `DataLoader`, `Fanout`.
2. **Done: the abstract specifications** `SlotGate`, which `Semaphore` and
   `Limiter` both implement, and `SharedCall`, which `Batto` and `SingleFlight`
   both implement.
3. **Done: proofs** of the safety of every modelled component and of the four
   refinements.
4. **Left.** Debounce and Throttle of `scheduler`. An abstract mutex per key for
   `KeyLock` would say no more than `MutualExclusion`, and a channel of events
   per subscription for `Bus` no more than its actions `DirectSend` and `Receive`.

No module uses a RECURSIVE operator, so each can be proved about. A module's
type invariant is a conjunct of the invariant that depends on it most.

## 3. The modules

Conventions. One action per critical section, or per step between two of them;
a goroutine's place in an operation is its `pc` (or `op`, `worker`, `pub`). A
mutex is a variable only where it is held across several actions (`notifyWaiters`
of the semaphore, both mutexes of batto, `p.mu` of the pool, the read lock of
the bus, the mutex of a keylock entry); elsewhere the locked section *is* the
action. Objects that are created and dropped have names from a finite set; a
name nobody refers to may be used again. Operators marked `mutant:` are the
plausible bugs `PROJECT.json` uses to show that a property can fail; no
specification refers to them.

**Semaphore** (`sync/semaphore/semaphore.go`). The queue of channels is a
sequence of goroutines, a closed channel that was not received from is
membership in `granted`. Acquire is `Acquire`, then `Receive` or `CtxDone`
(either, when both are ready: that is what `select` does) and `Abandon`.
`Release` and `Resize` leave `mu` with the goroutine, `NotifyOne`/`NotifyDone`
are the loop, so woken goroutines run beside it.

**Jobs** (`jobs/jobs.go`). A job is named by the NextID count; its callback,
channel, timer, context watcher and the entry allocated for it carry that
number. It is added under any id of `Ids`: what NextID returns is that count cut
to the key type, or the zero value, and Add takes ids from elsewhere as well, so
an id may come back after a job was settled or could not be added. `under` is
the id the functions of a job's watchers have captured; their Resolve is for
whatever the store tracks under it by then. `Add`, `Resolve`, `Remove`, `CancelAll`, `Close` are the locked
sections; `Deliver`, `Recycle`, `RemoveFinish`, `CloseMark`, `ClosePending` are
what follows after the unlock, so entries can be re-used in between. `Fire` and
`FiredResolve` are the two AfterFunc goroutines. The store may return errors
(`Faulty`), and `SetStore` may replace it. `TimersOwned` says that no watcher
runs on when its job is gone, and that nobody has stopped the watchers of a
one-shot job that is tracked. Its second half leaves keep-alive jobs out: a late
`Deliver` of one, like the late `Recycle` of finding 2, works on an entry that
may be another job's by then, and stops that job's timer. `OwnTimeout`, that a
job gets ErrJobTimeout from its own timer only, is what the code promises and
does not keep (finding 3).
`JobSettles` is about one-shot jobs with a timeout under the store they were
added to.

**KeyLock** (`sync/keylock/keylock.go`). `Lock`/`TryLock` begin with `Enter`,
the section under `km.mu`; `LockAcquire`, `TryAttempt`, `UnlockRelease`,
`ForceRelease` are the operations on the entry's own mutex. `Unlock` is called
by the goroutine that holds the key; `ForceUnlock` by anyone, on keys in
`Forced`. Unlocking a free `sync.Mutex` is a fatal error, which the `recover` of
ForceUnlock does not catch, and ends the process (`Running`). The properties are
about keys ForceUnlock is never called on.

**Batto** (`batto/batto.go`). `gmu` and `cmu[c]` are explicit. Do is `DoStart`
or `DoFind` + `DoJoin`; wait is `Receive`, or `CtxDone`, `WaitLock`,
`WaitLeave`; the worker is `WorkEnd`, `RunLock`, `RunFinish`, and ends by a
result or a panic.

**Bus** (`bus/bus.go`). A publisher between `Publish` and `PublishEnd` holds the
read lock; `DirectLoad` tests a subscription's flag, `DirectSend` sends.
`Unsubscribe` (the CompareAndSwap) and `UnsubscribeLocked` are separate.
`log`, `dropped` and `every` (what SubscribeAll made) are history.

**Breaker** (`sync/breaker/breaker.go`). `DoBegin`, then `TrialEnd`, `CallEnd`
or `Panic`; `CheckState` is State and a refused Do. Time is a clock of whole
units. The ratio of failures is compared exactly (`Num/Den`), not in floating
point.

**Pool** (`pool/pool.go`). `Submit`, `SubmitSend`, `SubmitScale` are one Submit
with `p.mu` held, since workers take tasks without it. A worker goes `Take`,
`MarkBusy`, `RunTaskSafely`, `MarkIdle`; or `TimerFires`, `Expire`; or
`TasksClosed`, `Leave`.

**Scheduler** (`scheduler/scheduler.go`, `taskHeap` of `task.go`). The heap is
the set of its tasks, of which `First` are the least. `Look` is the locked
section of the loop, `Woken`, `TimerFires`, `Stopped` its two selects;
`Schedule` and `RunAgain` push and leave a goroutine that is about to call
`TriggerWake`. The task's fields keep what ReleaseTask does not reset.

**Lifecycle** (`lifecycle/lifecycle.go`). The operations hold `o.mu` throughout,
so one is under way at a time (`phase`, `position`), and the services are seen
between its steps (`up`). `sortDependencies` is a search step by step: `stack`
is the stack of the calls of `visit`, whose names are those with `temp[name]`
set; `VisitEnter` is a call, `VisitEnd` its return, and the next name is any that
the innermost loop has yet to come to, since Go ranges over maps in any order.

**Limiter** (`sync/limiter/limiter.go`). Acquire as in `Semaphore`, except that
no mutex is held across steps: Release is one locked section. The Vegas formula
is the choice `Adjusted` among the limits it can produce from the present one:
the queue it estimates, `limit * (1 - minRTT/smoothedRTT)`, is at most the
limit, so only a limit of `beta` or more shrinks. `limit` is the integer part
of `l.limit`.

**SlotGate** is what both promise: a slot is taken only below the limit, in the
order of arrival, and nobody enters past a queue. It lets an owner go without
giving its slot back (`Lose`), because the code does (finding 1).

**SharedCall** is what the two packages that suppress duplicate calls promise the
callers of one key: a call is begun only for a free key; who comes until the key
is freed shares it; at its end all who share it are answered, in one step, with
its answer; nobody is answered otherwise. `Batto` and `SingleFlight` implement it
for each key `k`, as `Shared(k)`. Both have their say in it. SingleFlight leaves a
call in its map after the end (`over`), where a newcomer finds its result. In
batto an abandoned call goes on without a caller (`lost`), and its end frees the
key under the call that has replaced it. A caller of batto counts as sharing once
it is registered among the waiters, and as answered once its channel is filled;
a caller of SingleFlight from the first section of Do on, and once the call's
`wg` is at zero.

**KeyedLimiter** (`sync/limiter/sekisho.go`). Allow and Wait are `GetLimiter`
under the mutex and a use of the bucket after it; the sweeper, its ticker and
Close are actions of their own. `rate.Limiter` is external: a bucket that hands
tokens out in advance to a Wait and takes them back from a cancelled one.
`events` records how many events each key was granted up to each instant, those
handed out for a later one included. `rate.Limiter` lets nothing through with a
burst of 0, so the burst is at least 1. Time is a clock of whole units, one unit
the time in which a token is earned, and an instant of the model stands for the
real instants from it up to the next: the sweep, which the code does at any time
past the TTL, is therefore possible from the unit of the TTL on (`Expired` says
`>=`). `RateKept` needs `LongEnough`: a TTL in which the bucket is full again
even if the goroutine that got it stalled `MaxStall` units before it used it and
then reserved an event `MaxWait` units ahead. With a TTL one unit shorter a sweep
gives a key its burst early, and TLC finds the two events too many; the code does
not compare the TTL with the rate.

**Kata** (`kata/kata.go`, `kata/transition.go`). Transition is the lookup under
the read lock, the before-hooks, the assignment under the write lock and the
after-hooks; AddRules, OnBefore, OnAfter and ForceSet come in between.
`overtaken` records that a write came between a Transition's lookup and its
assignment.

**Yumi** and **YumiStream** (`yumi/pipeline.go`). One call of Process: workers
take tasks from an interval, look at the cancellation, wait for the limiter,
map and send; the caller collects and waits. One call of Stream: the same with
an input that may end or not, and consumers that may stop. Map and ForEach of
`yumi.go` call Process.

**Behavior** (`behavior/behavior.go`). `mu` is the Stop that holds `o.mu` while
it waits. A behaviour is a goroutine that may return, fail, or (`Callers`) call
the orchestrator.

**SingleFlight**, **DataLoader**, **Fanout** (`generic/concurrency.go`). A Do is
`Join` or `Lead`, then the function, which may panic, then `Delete`. A Load is a
member of a pending batch that its timer hands to `ExecuteBatch`; cancelled
loads leave their channel behind. ParallelForEach takes a slot, spawns, and
returns when all have ended or its context is done; its goroutines go on.

**MCCalls** and **MCServices** put components that do not interact into one run:
`which` says whose behaviour it is, and the others stay in one initial state.
Their constants are the parameters of all the components, given values in the
cfg, so that `CallsProofs` and `ServicesProofs` can prove the very properties the
runs check, for every value. `CallsAssumption` and `ServicesAssumption` are the assumptions of the
components together, which TLC evaluates for its instance. A liveness property is
`which = "x" /\ X!Fairness => X!Property`, so each component has its own
fairness.

## 4. The runs

| run | instance | distinct states | shows |
|---|---|---|---|
| `calls` | semaphore: 3 goroutines, limits 0-2; adaptive limiter: 3 goroutines, limits to 3, initial ones 0, 1, 4; keyed limiter: 2 goroutines, burst 1, TTL 3, clock 0-4; key locks: 3 goroutines, 2 keys, one of them forced; SingleFlight: 2 keys, 4 calls; DataLoader: 3 loads of 2 keys; Process and Stream: 2 workers, 3 inputs; ParallelForEach: 3 elements, limits 0 and 2 | 227 000 | slots are accounted for and no wake-up is lost; semaphore and limiter implement SlotGate; a key keeps its rate; exclusion and exact counts per key, no panic, every Lock is served; one call per key; each load in one batch; outputs complete and once; the limit of goroutines; every call returns |
| `services` | breaker: 3 goroutines, 6 calls, clock 0-5, cooldown 1, window 2; pool: 1-2 workers (3 names), queue of 2, 3 tasks, 2 Close; scheduler: 2 tasks, 2 Schedule, clock 0-1, 2 priorities, one-off or periodic; lifecycle: 3 names, 4 services, 18 graphs; behaviours: 3, two of one name, one that calls back; machine: 2 goroutines, 3 states, 1 hook | 115 000 | one trial, a closed breaker forgets earlier outages; exact counters, each task once, Close waits; no lost wake-up, a task is in one place; the sort is exact, no service is up without its dependencies; no behaviour outlives its run; every move has its reason; tasks are served, runs and the sort end |
| `jobs` | 2 jobs, 2 ids, 2 callers, 1 waiter, capacity 1, failing Add of the store, 1 SetStore; all jobs one-shot or all keep-alive | 361 000 | one owner per entry, callbacks exactly once, channels closed once, no watcher outlives its job, Close is final, jobs settle |
| `jobs_recycle` | both kinds in one program | | *violation*: a late Resolve destroys the entry's next job |
| `jobs_timeout` | 2 jobs, 1 id, 1 caller, a timeout and a callback | | *violation*: a timer settles the next job of its id |
| `batto` | 3 callers, 1 key, 2 live calls, symmetry | 67 000 | results arrive, the map holds live calls, only abandoned workers are cancelled, one worker; batto implements SharedCall |
| `batto_deadlock` | 2 callers | | *violation*: a cancelled caller never returns |
| `bus` | 2 types, 2 publishers, 2 subscriptions, 2 events, channels of one | 350 000 | no send on a closed channel, exact registry, nobody passed over, channels close |
| `bus_close` | 1 of each | | *violation*: a channel is closed twice |
| `semaphore_leak` | 3 goroutines, limits 0-2 | | *violation*: a cancelled Acquire leaves its slot counted |
| `kata_atomic` | 2 goroutines, 2 states, no ForceSet, no hooks | | *violation*: a Transition is applied in a state its rule does not start from |
| `behavior_stop` | 2 behaviours, one of which calls the orchestrator, 2 Stop | | *violation*: Stop never returns |

**Why the bounds are enough.** The races in these components are between two
goroutines that meet in one critical window and a third that uses what they
leave behind: three goroutines, or two and a timer, a worker or a waiter. Two
jobs are enough for an entry to be re-used by a job other than its first; two
calls of batto for an abandoned worker beside its replacement; one slot of
capacity for a full channel or a full manager; six calls and five time units
take the breaker through two outages with a call left over from before the
first; three services make chains, cycles and, while not all are registered,
missing dependencies; three inputs are one more than the workers and than the
channels hold; a clock that goes on after the TTL sees a key swept and used again while the old
bucket is still in somebody's hands; two jobs and one id are enough for an id to
come back; three loads of two keys share a batch, a key, or neither. `MaxOps`, `MaxJobs`, `MaxSwaps`, `MaxEvents`, `MaxSubs`, `MaxTasks`,
`MaxCalls`, `MaxTime`, `MaxInputs`, `MaxSize`, `MaxHooks`, `MaxWait`, `MaxStall` are such bounds and appear in guards only.

**Deadlock.** The instances stop when their bound is used up, the call they
model has returned or the process is dead (keylock), or, in batto and behavior,
in the very deadlock that is a finding; all runs say `CHECK_DEADLOCK FALSE`, and
progress is stated as liveness instead.

**Fairness.** Weak fairness for a goroutine that is inside the package and not
waiting for anything: the Go scheduler is preemptive. Strong fairness for steps
that need a `sync.Mutex` others keep taking: its starvation mode hands the lock
to the longest waiter; likewise for writers of the `sync.RWMutex`, and for a
`select` that finds the same case ready again and again. Wrapped functions,
tasks and timers end or fire; the holder of a slot or a key gives it back.
Functions given to SingleFlight, DataLoader, Process, Stream and ParallelForEach
return (or panic, where the module lets them), and a behaviour returns when its
context is done. Nothing is assumed of callers: no Acquire, Add, Submit, Load,
cancellation or Close needs to happen, and no consumer of a Stream receives.
`DoReturns` is about runs in which no function panics, `RunEnds` about runs in
which no behaviour calls the orchestrator, `StreamCloses` about runs that were
cancelled: these are the cases in which the code promises an end.

## 5. What is proved

For every value of the constants that satisfies the modules' assumptions.
`SemaphoreAssumption`, `BattoAssumption`, `BusAssumption` and `JobsAssumption` are
ASSUMEs; the assumption of any other component of MCCalls or
MCServices is the hypothesis of its theorems, and TLC evaluates it there. They
ask for finite sets of goroutines where something is counted, natural bounds,
names for nil that are no objects, and what constructors guarantee: for the
breaker what `resolveDefaults` makes of a Config, for the limiter
`minLimit <= maxLimit` and `beta <= maxLimit + 1` (1, 1000 and 5 in the code), for the pool
`1 <= MinWorkers <= MaxWorkers`.

Every proof has the same shape. The properties are not inductive, so there is an
inductive invariant, a conjunction of named parts; one lemma shows it of the
initial states, one that each action preserves it, with a step per action; the
theorem is `Spec => []Property`. For every run that checks a property below,
the theorem names the definition the run checks.

| component | inductive invariant | theorems (property) |
|---|---|---|
| semaphore | `IInv` | SlotSafety (SlotSafe), WakeupSafety (NoLostWakeup), Refinement (ImplementsGate) |
| adaptive limiter | `LimitInv` | LimitSafety (LimitSound), LimitRefinement (LimiterGate) |
| jobs | `EntryInv`, `JobInv`, and one per property on top of them | JobsTypes, JobsEntries (EntryExclusive), JobsChannels (ChannelOnce), JobsCalledOnce (CalledOnce), JobsTimers (TimersOwned), JobsClosed (ClosedEmpty) |
| keylock | `IInv` | LockExclusion (MutualExclusion), LockCounts (RefsCounted) |
| batto | `IInv`, `Attended` | ResultSafety (ResultReady), MapSafety (MapHoldsLive), WorkerSafety (OneWorker), SharesRefinement (SharesCall) |
| bus | `IInv`, `Buffers` | RegistrySafety (RegistryExact), SendSafety (NoSendOnClosed), DeliverySafety (Delivered) |
| breaker | `BreakerInv` | TrialSafety (OneTrial), ClosedSafety (ClosedSound) |
| pool | `PoolInv` | WorkersSafety (WorkersInBounds), TaskOnceSafety (TaskOnce) |
| scheduler | `SchedInv` | WakeupSafety (NoLostWakeup), TaskSafety (TaskExclusive) |
| lifecycle | `SortInv`, `LifeInv` | SortSafety (SortExact), RunningSafety (RunningExact) |
| behavior | `RunsInv` | RunsSafety (RunsContained) |
| kata | `MachineInv` | MachineSafety (MoveExplained) |
| keyed limiter | `KeyedInv` | RateSafety (RateKept, given LongEnough) |
| SingleFlight | `FlightInv`, `StillRuns` | FlightSafety (OneFlight), FlightRefinement (SharesCall) |
| DataLoader | `LoaderInv` | LoaderSafety (LoadsBatchedOnce) |
| ParallelForEach | `FanInv` | FanoutSafety (FanoutSound) |
| Process | `ProcessInv` | ProcessSafety (ProcessSound) |
| Stream | `StreamInv` | StreamSafety (StreamSound) |

**SemaphoreProofs.** `IInv` is `TypeInt` (the types, with `active` only an
integer), `MuOwner` (`s.mu` is held exactly by the goroutine in
`notifyWaiters`), `QueueExact`, `SlotsAccounted`, `NoLostWakeup`. None of the
properties is inductive alone: `SlotsAccounted` needs `QueueExact`, without
which the goroutine `NotifyOne` grants to might own a slot already, and
`NoLostWakeup` needs `MuOwner`, without which the loop might end while another
runs. That `active` is never negative, although Release does not test it,
follows from `SlotsAccounted`: it is at least the size of a finite set.
`Refinement` proves `Spec => ImplementsGate`: each step is a step of `SlotGate`
or changes nothing there. Entering past a queue is excluded by `NoLostWakeup`: a
free slot with `s.mu` free means an empty queue. **QueueLemmas** holds the facts
on queues that several modules use.

**JobsProofs.** Who owns an entry comes first. `EntryInv` is inductive by itself:
an entry is pooled once, or tracked under one id of one store, or in the hands of
one goroutine (`OneOwner`), and the keepAlive a Resolve reads after its unlock is
the one it found under the lock (`Kept`). `JobInv`, relative to it, says whose job an entry is, and that a Resolve on
its way has taken the channel out. On these two rest, each by an invariant of its
own, the channels (`ChannelsOpen`: whoever can still close a channel has it alone
and open), the callbacks (`Settled`: a callback that waits is in exactly one
place), the watchers (`Timers`: an armed one is in the entry of a job that is
tracked or about to be ended, so its `stop` is still going to be called) and the
closed manager (`StoresClosed`). For `Timers` an entry must be one job's: a
Resolve at work on the job that had the entry before would stop the watchers of
the next one, and `OneOwner` excludes that for one-shot jobs. The hypotheses are
these:

- `UniformPrograms`: a program adds one-shot jobs or keep-alive jobs, not both.
  With both the theorems are false: that is finding 2, and `jobs_recycle` shows
  it. The run `jobs` has programs of either kind.
- `DeletesWork`: `store.Delete` succeeds. The manager drops its error and
  recycles the entry although the store still has it.
- `GetsAll`, for ClosedEmpty: `store.GetAll` succeeds. After an error Close has
  nothing to evict.

Of ids nothing is assumed.
The store of the package never fails. Apart from these hypotheses the store's
operations may fail, one by one and at any time.

**KeyLockProofs.** The theorems have `KeyLockAssumption` as their hypothesis. The
invariant: `OneKeyPerRef` (an entry is that of one key), `SafeCounted` (on a key
ForceUnlock is never called on, the map holds the entry its users refer to, and
the counter is their number), `Owned` (whoever holds a key owns its mutex) and
`OnlyForced` (only forced keys see the operations of ForceUnlock). `Exclusion`
follows because two holders of a key share its entry, whose mutex has one owner;
`CountSafety` is `SafeCounted` and the types. CallsProofs takes both over, as
`LockExclusion` and `LockCounts`, to the instance the run `calls` checks.

**BattoProofs.** `Locks` (what the mutexes promise: `g.mu` is held by who joins
or by a worker that has ended, `c.mu` by who leaves), `Placed`, `Registered`,
`OpenCalls` (an open call has only waiters inside `wait`; a call with a worker
is open), `Mapped` (a call in the map has a worker, and whoever is joining still
finds its call there, since every deletion needs `g.mu`), `LiveMapped`.
In particular the branch of Do for a call that is already done, which would
unlock `c.mu` twice, is never taken. `SharesRefinement` maps each step to a step
of `SharedCall` for every key at once. What it needs beyond `IInv` is `Attended`:
a worker that is not cancelled has waiters, so the worker that ends either
answers somebody or was given up. That the waiters `run` sends to are exactly
those who share the call, with empty channels, is `Registered` and `OpenCalls`.

**BusProofs.** The invariant adds to `Registered` and `Delivered` what the locks
give: `Reading` (what a publisher still has to visit is registered for its
event, because no writer runs beside a reader) and `Leaving` (what `unsubscribe`
is about to remove was flagged; what was not created is not in use).
`SendSafety` follows: what a publisher visits is registered, and what is
registered is open. It is the read lock that keeps the close out, not the flag.
`Buffers`, inductive on top, bounds the channels by their capacity, and completes
`RegistryExact`, which is the types and `Registered`.

**CallsProofs.**

- *SingleFlight*: `LeadersOwn` (whoever runs a function finds its own call in the
  map, so a key has one leader and the unchecked delete never removes another's
  call), `MapLed` (a call in the map has a leader or has lost it to a panic),
  `WaitersInMap`. `FlightRefinement` adds `StillRuns`, that a function under way
  has left no result: its end is then the moment all who share its call are
  answered, and a call ends for one key only, since every caller that still
  waits finds its call in the map. No run repeats `SharesCall` for SingleFlight.
- *Adaptive limiter*: the semaphore's argument without a mutex between steps:
  `LimitQueue` (whoever is queued is blocked, there once, and was granted
  nothing), `LimitAccounted`, `LimitWakes`, `LimitInRange`. The step that matters
  is Release, which wakes `k` goroutines at once: what it grants are `k` places of
  the queue, so at most `k` new owners, and the rest keep their order.
- *Keyed limiter*: `Account` says of a key that its last bucket is the one in the
  map, or that the bucket was swept; a swept one is full again, and by
  `LongEnough` nobody is on the way to it or waits in it, so that a new one has no
  more tokens than the old. `Kept` turns this into sums: the events from any
  instant on and the tokens left are at most the burst and what was earned, and
  of the events still to come there is at most one per instant until the bucket
  has paid for them. A cancelled Wait gives a token back: `Reserved` says that
  its event is among those counted. `LongEnough` is a hypothesis because it is one
  in `RateKept`: the code takes any TTL.
- *DataLoader*: `LoadsBatchedOnce` itself is inductive as soon as a load that has
  not begun is nowhere.
- *ParallelForEach*: `FanStarted` (elements start in their order), `FanSlots`
  (a slot per goroutine that has not given it back) and `FanErrors`: until the call
  returns `errs` is empty only while nothing has failed, so the error read from
  it after the last goroutine is one if there was any.
- *Process*: a task that was taken is with one worker, or in `resultsCh` once, or
  back in the pool (`TasksApart`, `TasksKept`), so the results are different tasks
  and at most `size` of them fit: a pigeonhole argument. `WorkersRun` says why
  workers end, `Answered` what follows for the outputs: a worker that ended early
  did so for a cancellation, and then there is an error.
- *Stream*: `CarriedOnce`, `DeliveredOnce` and `ValuesKept` say where a value is,
  `ClosedLast` that the channels are closed behind the last worker, and
  `ErrorsReported` that of the errors the first at least found room in `errs`.

**ServicesProofs.**

- *Breaker*: `BreakerTypes` adds to the types that no record is from the future;
  `TrialFlag` says that `halfOpenExecuting` is set exactly while a trial runs or
  after one was lost to a panic, and that there is one; `ClosedSound` is inductive
  beside them. `PruneKeeps` shows that pruning leaves a part of the records, so
  none that was not there.
- *Pool*: an accepted task is queued once (`QueuedTasks`), or with one worker
  (`HeldTasks`), or finished, and nowhere else (`FoundTasks`); `PoolCounts` ties
  the two counters to the workers. Close returns when nobody is alive, and
  `PoolClosing` says that the queue is then empty: a worker leaves for an empty
  closed queue only, and idle workers expire only above MinWorkers, which is at
  least 1, so the last one is not lost before the pool is closed. It says as well
  that `p.mu` in the hands of a Submit means an open pool with room.
- *Scheduler*: the four places of a task are disjoint and hold all
  (`TaskPlaces`); `NoLostWakeup` is inductive beside the types, since every push
  leaves a goroutine that has yet to signal.
- *Lifecycle*: first the sort. `OnPath` (the names on the stack are a path in the
  graph, none of them visited), `SortedVisited` (the slice holds what was visited)
  and `Grounded` (each service once, behind what it depends on) are inductive. At
  the end the slice holds all the registered services, so it is an order. For an
  error there is none: of the services on a cycle the first in an order would have
  one of them before it (`CycleUnsortable`, by the least element of a set of
  positions). Then starting and stopping: `o.ordered` and `o.running` are
  `Grounded`, and `UpNow` says that the services that are up at every step of a
  start, a rollback and a stop are a beginning of one of them; a beginning of a
  grounded sequence contains its dependencies.
- *Behavior*, *Kata*: the properties are inductive with the types, for the
  machine with the fact that the table holds only rules that were added.

## 6. What is only model-checked

- Liveness: `CallsReturn`, `WorkEnds`, `JobSettles`, `LockServed`,
  `ChannelCloses`. The prover does not reach properties under fairness.

## 7. Findings

1. *Semaphore: a slot leaks.* `notifyWaiters` counts a slot and closes the
   channel; the waiter's `select` may still take `ctx.Done()`. Acquire then
   returns an error and the slot stays counted (`semaphore.go:44-56`). The
   adaptive limiter has the same code (`limiter.go:55`).
2. *Jobs: an entry is used after it was recycled.* ResolveContext reads
   `keepAlive` and clears the entry after the unlock (`jobs.go:411`). For a
   keep-alive job, Remove may have pooled the entry and Add re-used it.
3. *Jobs: a timer settles another job.* The function of a timer resolves what
   its id stands for when it gets `m.mu` (`jobs.go:296`). If the job is resolved
   or removed and the id used again after the timer has fired, the new job gets
   ErrJobTimeout, "returned when a job exceeds its allowed execution time"
   (`jobs.go:21`). The timer of a failed Add (`jobs.go:308-319`) and one of a job
   of an old store can do the same.
4. *Batto: lock order.* `wait` takes `c.mu` then `g.mu`; Do and `run` the other
   way round (`batto.go:67, 132, 179`). A cancelled caller can deadlock the
   group.
5. *Bus: double close.* Unsubscribe sets the flag outside `b.mu`; a Close in
   between closes the channel first, and `unsubscribe` closes it again
   (`bus.go:66, 254`).
6. *Kata: a transition is applied to a state its rule does not start from.* The
   rule is looked up under the read lock and the state assigned later under the
   write lock, without another look (`transition.go:25-56`), although Transition
   is documented as atomic.
7. *Behavior: Stop can wait forever.* It holds `o.mu` while it waits for the
   behaviours (`behavior.go:135-146`); one that calls Count or Register waits for
   `o.mu`.

Behaviour met while modelling that a reader should know, without a run of its
own:

- batto: `run` deletes its *key*, not its *call* (`batto.go:186`), so an
  abandoned worker that ends late makes room for a second live worker of one
  key. `OneWorker` is stated apart from keys where that has happened (`stale`).
- jobs: the second WaitFor on a job, and every one that CancelAll overtakes,
  gets `ErrJobClosed` rather than the error of the job.
- keylock: Unlock tests that the key is in the map, not who holds it; called by
  a goroutine that does not hold the key it releases somebody else's lock.
- keylock: ForceUnlock "forcibly unlocks the specified key, even if it is not
  currently locked" (`keylock.go:57`), but a key a Lock has entered and not yet
  locked has an entry whose mutex is free: unlocking it is fatal.
- scheduler: AcquireTask is said to return a *clean* task (`scheduler.go:36`),
  but ReleaseTask keeps Priority and NextRun (`scheduler.go:44-50`): a caller
  that does not set NextRun schedules its task for the time of an earlier one.
- lifecycle: InitAll keeps the order it computed when an Init fails
  (`lifecycle.go:78-84`), and the old order when the sort fails; StartAll then
  starts services that were not initialised. A StartAll before the first
  InitAll sets `started`, and the StartAll after it does nothing.
- bus: a subscription made with no event type is in no map, so Close does not
  close its channel (`RegistryExact` shows it registered nowhere).
- adaptive limiter: NewAdaptiveLimiter takes any initial limit; with one below 1
  nobody is ever admitted, so nobody releases and the limit never moves.
- single flight: a function that panics leaves its key in the map, and everybody
  who waits for it, or comes later, waits forever (`concurrency.go:160`).
- breaker: a call admitted before the outage may trip a half-open breaker; the
  trial under way then closes it from Open without a cooldown, or, failing,
  leaves `openTime` as it is. A trial that panics leaves `halfOpenExecuting`
  set and every later call is refused (`OneTrial` names that case `lost`).

## 8. What is not modelled

- `sync/lazy`, `sync/spinlock`: one locked section, or one compare-and-swap and
  one store. There is no interleaving to explore and nothing to state beyond the
  assignments. Jobs relies on the spinlock as a mutex.
- Debounce and Throttle of `scheduler`: each restarts a timer or compares two
  times in one locked section.
- In `generic`: Future (one write, one close), Retry (a sequential loop),
  Backoff (a counter and floating-point arithmetic), Cache (one locked section
  per call), and the pure helpers on slices, sets and pointers.
- In the modelled components: read-only accessors (`Count`, `Keys`, `IsLocked`,
  `CurrentState`, `Validate`, `All`, `Future.Get`), `OnStateChange` of the
  breaker (a goroutine of its own that changes nothing here), the callback
  strategies of jobs (handing the callback over counts as the call) and
  SetCallbackStrategy, event payloads and the context carried by events, logging.
- Go's memory model: data races are not looked for, except where two sections
  of one mutex meet through a stale read, which the models keep as separate
  steps.
- `kata/visualizer.go` formats text; `container/heap`, `golang.org/x/time/rate`
  and the `sync` package are external.
- The floating-point formula of the adaptive limiter is a choice among the
  limits it can produce; the RTTs it reads are not modelled.
