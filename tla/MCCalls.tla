------------------------------ MODULE MCCalls ------------------------------
(***************************************************************************)
(* One run for the components around single calls.  They have nothing to   *)
(* do with each other: which says whose behaviour this is, and the others  *)
(* stay in one initial state.                                              *)
(*                                                                         *)
(* The semaphore: three cancellable goroutines and the limits 0 (closed),  *)
(* 1 and 2, so that Resize shrinks it below the slots in use and reopens   *)
(* it for several waiters.  The adaptive limiter: the same goroutines, a   *)
(* limit from 1 to 3, and initial ones below, in and above that range.     *)
(* The keyed limiter: two goroutines and a clock that outlives an entry.   *)
(* The key locks: the same three goroutines on two keys, one of which is   *)
(* also unlocked by force.  The single flight: two keys and four calls.    *)
(* The loader: three loads of two keys.  Process and Stream: two workers   *)
(* and three inputs, one more than the workers and than the channels hold. *)
(* ParallelForEach: three elements, limits from 0.                         *)
(***************************************************************************)
EXTENDS Semaphore, TLC

CONSTANTS
  Initials, MinLimit, MaxLimit, Beta,    \* Limiter
  Clients, RateKeys, B, TTL, MaxWait, MaxStall, MaxTime,  \* KeyedLimiter
  Keys, MaxCalls,                        \* SingleFlight
  Refs, Forced, NoRef,                   \* KeyLock
  Loads, KeyOf, Nothing,                 \* DataLoader
  NumWorkers, MaxInputs,                 \* Yumi
  Mappers,                               \* YumiStream
  MaxSize, FanLimits                     \* Fanout

MCLimits == 0..2
MCKeyOf == ("x" :> "k") @@ ("y" :> "k") @@ ("z" :> "l")

VARIABLES
  which,
  initial, limitNow, inUse, waitChs, closedChs, place,            \* Limiter
  now, buckets, limiters, closed, sweeper, call, events,     \* KeyedLimiter
  locks, refCount, mutexOf, place2, keyOf, refOf,            \* KeyLock
  m, made, done, doing, panicked,                            \* SingleFlight
  pending, timer, batches, chan, load,                         \* DataLoader
  size, failFast, limited, ctxDone, cancelled, next, results, worker, outputs,
  firstErr, collected, pooled, result,                               \* Yumi
  failFast2, limited2, sent, inClosed, ctxDone2, cancelled2, errOnce, taken,
  worker2, out, errs, closed2, received, failed, reported,     \* YumiStream
  size3, bound, ctxDone3, next3, slots, item, errs3, failed3, answer,
  firstErr3                                                        \* Fanout

limiterVars == <<initial, limitNow, inUse, waitChs, closedChs, place>>
keyedVars == <<now, buckets, limiters, closed, sweeper, call, events>>
lockVars == <<locks, refCount, mutexOf, place2, keyOf, refOf>>
flightVars == <<m, made, done, doing, panicked>>
loaderVars == <<pending, timer, batches, chan, load>>
processVars ==
  <<size, failFast, limited, ctxDone, cancelled, next, results, worker, outputs,
    firstErr, collected, pooled, result>>
streamVars ==
  <<failFast2, limited2, sent, inClosed, ctxDone2, cancelled2, errOnce, taken,
    worker2, out, errs, closed2, received, failed, reported>>
fanoutVars ==
  <<size3, bound, ctxDone3, next3, slots, item, errs3, failed3, answer, firstErr3>>

Lim == INSTANCE Limiter WITH
         limit <- limitNow, active <- inUse, granted <- closedChs, pc <- place

Keyed == INSTANCE KeyedLimiter WITH
           Procs <- Clients, Keys <- RateKeys

Locks == INSTANCE KeyLock WITH
           count <- refCount, owner <- mutexOf, pc <- place2, key <- keyOf,
           ref <- refOf

Flight == INSTANCE SingleFlight

Loader == INSTANCE DataLoader

Process == INSTANCE Yumi

Stream == INSTANCE YumiStream WITH
            Workers <- Mappers,
            failFast <- failFast2, limited <- limited2, ctxDone <- ctxDone2,
            cancelled <- cancelled2, worker <- worker2, closed <- closed2

Fan == INSTANCE Fanout WITH
         Limits <- FanLimits, size <- size3, limit <- bound,
         ctxDone <- ctxDone3, next <- next3, errs <- errs3, failed <- failed3,
         firstErr <- firstErr3

(* Everything the instances assume of their parameters.                    *)
ASSUME CallsAssumption ==
  /\ Lim!LimiterAssumption /\ Keyed!KeyedAssumption /\ Keyed!LongEnough
  /\ Locks!KeyLockAssumption /\ Flight!FlightAssumption
  /\ Loader!LoaderAssumption /\ Process!ProcessAssumption
  /\ Stream!StreamAssumption /\ Fan!FanoutAssumption

Components == {"semaphore", "limiter", "keyed", "locks", "flight", "loader",
               "process", "stream", "fanout"}

MCInit ==
  /\ which \in Components
  /\ Init /\ Lim!Init /\ Keyed!Init /\ Locks!Init /\ Flight!Init
  /\ Loader!Init /\ Process!Init /\ Stream!Init /\ Fan!Init
  /\ which # "semaphore" => limit = 0
  /\ which # "limiter" => initial = 0
  /\ which # "process" => size = 1 /\ ~failFast /\ ~limited /\ ~ctxDone
  /\ which # "stream" => ~failFast2 /\ ~limited2
  /\ which # "fanout" => size3 = 1 /\ bound = 1

(* All the components but c, and the choice, stay as they are.             *)
Parked(c) ==
  /\ UNCHANGED which
  /\ IF c = "semaphore" THEN TRUE ELSE UNCHANGED vars
  /\ IF c = "limiter" THEN TRUE ELSE UNCHANGED limiterVars
  /\ IF c = "keyed" THEN TRUE ELSE UNCHANGED keyedVars
  /\ IF c = "locks" THEN TRUE ELSE UNCHANGED lockVars
  /\ IF c = "flight" THEN TRUE ELSE UNCHANGED flightVars
  /\ IF c = "loader" THEN TRUE ELSE UNCHANGED loaderVars
  /\ IF c = "process" THEN TRUE ELSE UNCHANGED processVars
  /\ IF c = "stream" THEN TRUE ELSE UNCHANGED streamVars
  /\ IF c = "fanout" THEN TRUE ELSE UNCHANGED fanoutVars

MCNext ==
  \/ which = "semaphore" /\ Next /\ Parked("semaphore")
  \/ which = "limiter" /\ Lim!Next /\ Parked("limiter")
  \/ which = "keyed" /\ Keyed!Next /\ Parked("keyed")
  \/ which = "locks" /\ Locks!Next /\ Parked("locks")
  \/ which = "flight" /\ Flight!Next /\ Parked("flight")
  \/ which = "loader" /\ Loader!Next /\ Parked("loader")
  \/ which = "process" /\ Process!Next /\ Parked("process")
  \/ which = "stream" /\ Stream!Next /\ Parked("stream")
  \/ which = "fanout" /\ Fan!Next /\ Parked("fanout")

MCSpec ==
  MCInit /\ [][MCNext]_<<which, vars, limiterVars, keyedVars, lockVars,
                        flightVars, loaderVars, processVars, streamVars, fanoutVars>>

-----------------------------------------------------------------------------
(* The properties of the instances.                                        *)

(* The limiter never keeps anybody waiting in front of a free slot, and its *)
(* limit stays in its range from both sides (limiter.go:64-107).            *)
LimitSound == Lim!LimitSound

(* The limiter admits in the order of arrival, up to its limit.             *)
LimiterGate == Lim!LimiterGate

(* A key keeps its rate although its limiter is swept (sekisho.go:78).      *)
RateKept == Keyed!RateKept

(* Two goroutines never hold one key (keylock.go:79-116).                   *)
MutualExclusion == Locks!MutualExclusion

(* The counters of the entries are those of their users (keylock.go:79-149).*)
RefsCounted == Locks!RefsCounted

(* Every Lock has its turn (keylock.go:79-116).                             *)
LockServed == which = "locks" /\ Locks!Fairness => Locks!LockServed

(* One call per key (concurrency.go:137-165).                               *)
OneFlight == Flight!OneFlight

(* A load is in one batch and finds its own value (concurrency.go:318-354). *)
LoadsBatchedOnce == Loader!LoadsBatchedOnce

(* Process returns all the outputs or an error (pipeline.go:71-168).        *)
ProcessSound == Process!ProcessSound

(* Stream loses no value silently (pipeline.go:196-260).                    *)
StreamSound == Stream!StreamSound

(* ParallelForEach keeps its limit and answers rightly (concurrency.go:55). *)
FanoutSound == Fan!FanoutSound

(* Every call comes back: whoever waits for a slot of the semaphore gets    *)
(* it, a Do returns unless a function panics, a Load, a Process and a       *)
(* ParallelForEach return, and a cancelled Stream closes its channel        *)
(* (semaphore.go:81-89, concurrency.go:67-94, 137-165, 305-316,             *)
(* pipeline.go:139-168, 255-260).                                           *)
CallsReturn ==
  /\ which = "semaphore" /\ Fairness => WaiterServed
  /\ which = "flight" /\ Flight!Fairness => Flight!DoReturns
  /\ which = "loader" /\ Loader!Fairness => Loader!LoadReturns
  /\ which = "process" /\ Process!Fairness => Process!ProcessReturns
  /\ which = "stream" /\ Stream!Fairness => Stream!StreamCloses
  /\ which = "fanout" /\ Fan!Fairness => Fan!FanoutReturns
=============================================================================
