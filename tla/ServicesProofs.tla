--------------------------- MODULE ServicesProofs ---------------------------
(***************************************************************************)
(* Proofs about the components of MCServices, each under its own           *)
(* assumption and for every value of its parameters: the circuit breaker,  *)
(* the worker pool, the task scheduler, the service orchestrator, the      *)
(* behaviours and the state machine.  Every part states the inductive      *)
(* invariant of its component, then that each action keeps it, then what   *)
(* follows from it.                                                        *)
(***************************************************************************)
EXTENDS MCServices, QueueLemmas

(* A set without two different elements.                                   *)
LEMMA AtMostOne ==
  ASSUME NEW S, \A x, y \in S : x = y
  PROVE  IsFiniteSet(S) /\ Cardinality(S) = IF S = {} THEN 0 ELSE 1
<1>1. CASE S = {}
  BY <1>1, FS_EmptySet
<1>2. CASE S # {}
  <2>1. PICK x : S = {x}
    BY <1>2
  <2>2. IsFiniteSet({x}) /\ Cardinality({x}) = 1
    BY FS_Singleton, Zenon
  <2> QED BY <1>2, <2>1, <2>2
<1> QED BY <1>1, <1>2

-----------------------------------------------------------------------------
(* The circuit breaker.                                                    *)

Record == [t : 0..MaxTime, isFailed : BOOLEAN]

(* TypeOK, and no time is in the future.                                   *)
BreakerTypes == TypeOK /\ closedAt <= now /\ \A i \in DOMAIN records : records[i].t <= now

(* halfOpenExecuting says whether a trial runs or was lost to a panic.     *)
TrialFlag ==
  /\ \A p, q \in Procs : pc[p] = "trial" /\ pc[q] = "trial" => p = q
  /\ halfOpenExecuting <=> (lost \/ \E p \in Procs : pc[p] = "trial")
  /\ lost => \A p \in Procs : pc[p] # "trial"

(* The inductive invariant.                                                *)
BreakerInv == BreakerTypes /\ TrialFlag /\ ClosedSound

-----------------------------------------------------------------------------
(* What pruneRecords leaves is a part of what it was given.                *)
LEMMA PruneKeeps ==
  ASSUME NEW recs \in Seq(Record), now \in Nat
  PROVE  /\ Prune(recs) \in Seq(Record)
         /\ \A i \in DOMAIN Prune(recs) : \E j \in DOMAIN recs : Prune(recs)[i] = recs[j]
<1> DEFINE n == Len(recs)
           expired == {i \in DOMAIN recs : \A j \in 1..i : recs[j].t < now - Window}
           c == Cardinality(expired)
<1>1. n \in Nat /\ DOMAIN recs = 1..n
  BY LenProperties
<1>2. c \in Nat
  <2>1. IsFiniteSet(1..n)
    BY <1>1, FS_Interval
  <2>2. expired \subseteq 1..n
    BY <1>1
  <2> QED BY <2>1, <2>2, FS_Subset, FS_CardinalityType
<1> HIDE DEF c, n
<1>3. \A i \in (c + 1)..n : recs[i] \in Record
  BY <1>1, <1>2, ElementOfSeq DEF n
<1>4. /\ SubSeq(recs, c + 1, n) \in Seq(Record)
      /\ Len(SubSeq(recs, c + 1, n)) = IF c + 1 <= n THEN n - (c + 1) + 1 ELSE 0
      /\ \A i \in 1..(n - (c + 1) + 1) :
           SubSeq(recs, c + 1, n)[i] = recs[(c + 1) + i - 1]
  BY <1>1, <1>2, <1>3, SubSeqProperties
<1>5. Prune(recs) = SubSeq(recs, c + 1, n)
  BY DEF Prune, c, n
<1>6. DOMAIN Prune(recs) = 1..Len(Prune(recs))
  BY <1>4, <1>5, LenProperties
<1>7. ASSUME NEW i \in DOMAIN Prune(recs)
      PROVE  \E j \in DOMAIN recs : Prune(recs)[i] = recs[j]
  <2>1. i \in 1..(n - (c + 1) + 1) /\ c + i \in 1..n /\ (c + 1) + i - 1 = c + i
    BY <1>1, <1>2, <1>4, <1>5, <1>6, <1>7
  <2> QED BY <1>1, <1>4, <1>5, <2>1
<1> QED BY <1>4, <1>5, <1>7

(* A call that reports now: its records are the ones there and its own.    *)
LEMMA Reported ==
  ASSUME BreakerTypes, NEW err \in BOOLEAN, BreakerAssumption
  PROVE  LET recs == Prune(Append(records, [t |-> now, isFailed |-> err]))
         IN /\ recs \in Seq(Record)
            /\ \A i \in DOMAIN recs :
                 recs[i].t = now \/ \E j \in DOMAIN records : recs[i].t = records[j].t
<1> DEFINE new == [t |-> now, isFailed |-> err]
           app == Append(records, new)
<1>1. records \in Seq(Record) /\ new \in Record /\ now \in Nat
  BY DEF BreakerTypes, TypeOK, Record, BreakerAssumption
<1> HIDE DEF new
<1>2. /\ app \in Seq(Record)
      /\ Len(app) = Len(records) + 1
      /\ \A i \in 1..Len(records) : app[i] = records[i]
      /\ app[Len(records) + 1] = new
  BY <1>1, AppendProperties
<1>3. /\ DOMAIN app = 1..(Len(records) + 1)
      /\ DOMAIN records = 1..Len(records)
      /\ Len(records) \in Nat
  BY <1>1, <1>2, LenProperties
<1>4. \A j \in DOMAIN app : app[j].t = now \/ \E i \in DOMAIN records : app[j] = records[i]
  BY <1>2, <1>3 DEF new
<1> HIDE DEF app
<1>5. /\ Prune(app) \in Seq(Record)
      /\ \A i \in DOMAIN Prune(app) : \E j \in DOMAIN app : Prune(app)[i] = app[j]
  BY <1>1, <1>2, PruneKeeps
<1>6. \A i \in DOMAIN Prune(app) :
        Prune(app)[i].t = now \/ \E j \in DOMAIN records : Prune(app)[i].t = records[j].t
  BY <1>4, <1>5
<1> QED BY <1>5, <1>6 DEF app, new

(* Only a closed breaker is held to ClosedSound, and no transition to the  *)
(* closed state keeps a record.                                            *)
LEMMA TransitionSound ==
  ASSUME BreakerAssumption, BreakerTypes, ClosedSound,
         NEW target \in States, NEW time \in 0..now, NEW recs \in Seq(Record),
         TransitionTo(target, time, recs), now' = now,
         \A i \in DOMAIN recs : recs[i].t = now \/ \E j \in DOMAIN records : recs[i].t = records[j].t,
         target = "Closed" /\ state = "Closed" => ~Tripped(recs)
  PROVE  /\ ClosedSound'
         /\ state' \in States /\ openTime' \in 0..now
         /\ records' \in Seq(Record)
         /\ closedAt' \in 0..MaxTime /\ closedAt' <= now
         /\ \A i \in DOMAIN records' : records'[i].t <= now
<1>1. /\ now \in 0..MaxTime /\ MaxTime \in Nat /\ closedAt \in 0..MaxTime /\ closedAt <= now
      /\ openTime \in 0..now /\ records \in Seq(Record) /\ MinRequests \in Nat \ {0}
      /\ \A i \in DOMAIN records : records[i].t <= now
  BY DEF BreakerTypes, TypeOK, BreakerAssumption, Resolved, Record
<1>2. <<>> \in Seq(Record) /\ Len(<<>>) = 0 /\ DOMAIN <<>> = {}
  BY EmptySeq
<1>3. \A i \in DOMAIN recs : recs[i].t <= now
  BY <1>1
<1>4. /\ state' \in States /\ openTime' \in 0..now
      /\ closedAt' \in 0..MaxTime /\ closedAt' <= now
  BY <1>1 DEF TransitionTo, States
<1>5. /\ records' \in Seq(Record)
      /\ \A i \in DOMAIN records' : records'[i].t <= now
  BY <1>2, <1>3 DEF TransitionTo
<1>6. ClosedSound'
  <2> SUFFICES ASSUME target = "Closed"
               PROVE  /\ \A i \in DOMAIN records' : records'[i].t >= closedAt'
                      /\ ~Tripped(records')
    BY DEF ClosedSound, TransitionTo, Tripped, Failures
  <2>1. CASE state = "Closed"
    <3>1. records' = recs /\ closedAt' = closedAt
      BY <2>1 DEF TransitionTo
    <3>2. \A i \in DOMAIN recs : recs[i].t >= closedAt
      BY <1>1, <2>1 DEF ClosedSound
    <3> QED BY <2>1, <3>1, <3>2
  <2>2. CASE state # "Closed"
    <3>1. records' = <<>>
      BY <2>2 DEF TransitionTo
    <3> QED BY <1>1, <1>2, <3>1 DEF Tripped
  <2> QED BY <2>1, <2>2
<1> QED BY <1>4, <1>5, <1>6

(* At first the breaker is closed and empty.                               *)
LEMMA BreakerInit == ASSUME BreakerAssumption, Init PROVE BreakerInv
<1>1. BreakerTypes
  <2>1. records \in Seq(Record) /\ DOMAIN records = {}
    BY EmptySeq DEF Init, New
  <2>2. /\ now \in 0..MaxTime /\ openTime \in 0..now
        /\ admitted \in 0..MaxCalls /\ closedAt \in 0..MaxTime /\ closedAt <= now
    BY DEF Init, New, BreakerAssumption
  <2>3. /\ state \in States /\ halfOpenExecuting \in BOOLEAN /\ lost \in BOOLEAN
        /\ pc \in [Procs -> {"idle", "call", "trial"}]
    BY DEF Init, New, States
  <2> QED BY <2>1, <2>2, <2>3 DEF BreakerTypes, TypeOK, Record
<1>2. TrialFlag
  BY DEF Init, TrialFlag, New
<1>3. ClosedSound
  BY EmptySeq DEF Init, New, ClosedSound, Tripped, BreakerAssumption, Resolved
<1> QED BY <1>1, <1>2, <1>3 DEF BreakerInv

(* The state checkState leaves behind is reached by a sound transition.    *)
LEMMA CheckedSound ==
  ASSUME BreakerAssumption, BreakerInv, TransitionTo(Checked, 0, records), now' = now
  PROVE  /\ ClosedSound'
         /\ state' \in States /\ openTime' \in 0..now
         /\ records' \in Seq(Record)
         /\ closedAt' \in 0..MaxTime /\ closedAt' <= now
         /\ \A i \in DOMAIN records' : records'[i].t <= now
<1>1. Checked \in States /\ (Checked = "Closed" => state = "Closed")
  BY DEF Checked, BreakerInv, BreakerTypes, TypeOK, States
<1>2. 0 \in 0..now /\ records \in Seq(Record)
  BY DEF BreakerInv, BreakerTypes, TypeOK, BreakerAssumption, Record
<1>3. state = "Closed" => ~Tripped(records)
  BY DEF BreakerInv, ClosedSound
<1> QED BY <1>1, <1>2, <1>3, TransitionSound DEF BreakerInv

(* Every step preserves the invariant.                                     *)
LEMMA BreakerStep == ASSUME BreakerAssumption, BreakerInv, [Next]_vars PROVE BreakerInv'
<1>0. /\ now \in 0..MaxTime /\ MaxTime \in Nat /\ MaxCalls \in Nat
      /\ TypeOK /\ records \in Seq(Record)
  BY DEF BreakerInv, BreakerTypes, TypeOK, BreakerAssumption, Record
<1>1. CASE Tick
  <2>1. now' \in 0..MaxTime /\ now' = now + 1
    BY <1>0, <1>1 DEF Tick
  <2>2. \A i \in DOMAIN records : records[i].t <= now /\ records[i].t \in Int
    <3>1. DOMAIN records = 1..Len(records)
      BY <1>0, LenProperties
    <3>2. \A i \in DOMAIN records : records[i] \in Record
      BY <1>0, <3>1, ElementOfSeq
    <3>3. \A i \in DOMAIN records : records[i].t \in Int
      BY <1>0, <3>2 DEF Record
    <3> QED BY <3>3 DEF BreakerInv, BreakerTypes
  <2>3. BreakerTypes'
    <3>1. UNCHANGED <<state, openTime, records, halfOpenExecuting, pc, admitted,
                      closedAt, lost>>
      BY <1>1 DEF Tick
    <3>2. TypeOK'
      BY <1>0, <2>1, <3>1 DEF TypeOK
    <3>3. closedAt' <= now' /\ \A i \in DOMAIN records' : records'[i].t <= now'
      BY <1>0, <2>1, <2>2, <3>1 DEF BreakerInv, BreakerTypes, TypeOK
    <3> QED BY <3>2, <3>3 DEF BreakerTypes
  <2>4. TrialFlag' /\ ClosedSound'
    BY <1>1 DEF Tick, BreakerInv, TrialFlag, ClosedSound, Tripped, Failures
  <2> QED BY <2>3, <2>4 DEF BreakerInv
<1>2. CASE CheckState
  <2>1. BreakerTypes' /\ ClosedSound'
    BY <1>0, <1>2, CheckedSound DEF CheckState, BreakerTypes, TypeOK, Record
  <2>2. TrialFlag'
    BY <1>2 DEF CheckState, BreakerInv, TrialFlag
  <2> QED BY <2>1, <2>2 DEF BreakerInv
<1>3. ASSUME NEW p \in Procs, DoBegin(p) PROVE BreakerInv'
  <2>1. BreakerTypes' /\ ClosedSound'
    <3>1. /\ halfOpenExecuting' \in BOOLEAN
          /\ pc' \in [Procs -> {"idle", "call", "trial"}]
          /\ admitted' \in 0..MaxCalls /\ lost' \in BOOLEAN /\ now' = now
      BY <1>0, <1>3 DEF DoBegin, TypeOK
    <3> QED BY <1>0, <1>3, <3>1, CheckedSound DEF DoBegin, BreakerTypes, TypeOK, Record
  <2>2. TrialFlag'
    BY <1>0, <1>3 DEF DoBegin, BreakerInv, TrialFlag, TypeOK
  <2> QED BY <2>1, <2>2 DEF BreakerInv
<1>4. ASSUME NEW p \in Procs, NEW err \in BOOLEAN, TrialEnd(p, err) PROVE BreakerInv'
  <2>1. PICK target \in {"Open", "Closed"}, time \in {0, now} :
          TransitionTo(target, time, records) /\ (target = "Closed" => time = 0)
    BY <1>4 DEF TrialEnd
  <2>2. target \in States /\ time \in 0..now /\ (state = "Closed" => ~Tripped(records))
    BY <1>0, <2>1 DEF States, BreakerInv, ClosedSound
  <2>3. BreakerTypes' /\ ClosedSound'
    <3>1. /\ ClosedSound'
          /\ state' \in States /\ openTime' \in 0..now
          /\ records' \in Seq(Record)
          /\ closedAt' \in 0..MaxTime /\ closedAt' <= now
          /\ \A i \in DOMAIN records' : records'[i].t <= now
      BY <1>0, <1>4, <2>1, <2>2, TransitionSound DEF TrialEnd, BreakerInv
    <3> QED BY <1>0, <1>4, <3>1 DEF TrialEnd, BreakerTypes, TypeOK, Record
  <2>4. TrialFlag'
    BY <1>0, <1>4 DEF TrialEnd, BreakerInv, TrialFlag, TypeOK
  <2> QED BY <2>3, <2>4 DEF BreakerInv
<1>5. ASSUME NEW p \in Procs, NEW err \in BOOLEAN, CallEnd(p, err) PROVE BreakerInv'
  <2> DEFINE recs == Prune(Append(records, [t |-> now, isFailed |-> err]))
  <2>1. /\ recs \in Seq(Record)
        /\ \A i \in DOMAIN recs :
             recs[i].t = now \/ \E j \in DOMAIN records : recs[i].t = records[j].t
    BY Reported DEF BreakerInv
  <2>2. /\ pc[p] = "call" /\ pc' = [pc EXCEPT ![p] = "idle"]
        /\ IF Tripped(recs) THEN TransitionTo("Open", now, recs)
                            ELSE TransitionTo(state, now, recs)
        /\ UNCHANGED <<now, halfOpenExecuting, admitted, lost>>
    BY <1>5 DEF CallEnd
  <2> HIDE DEF recs
  <2>3. PICK target \in States :
          TransitionTo(target, now, recs) /\ (target = "Closed" => ~Tripped(recs))
    BY <1>0, <2>2 DEF States, TypeOK
  <2>4. BreakerTypes' /\ ClosedSound'
    <3>1. /\ ClosedSound'
          /\ state' \in States /\ openTime' \in 0..now
          /\ records' \in Seq(Record)
          /\ closedAt' \in 0..MaxTime /\ closedAt' <= now
          /\ \A i \in DOMAIN records' : records'[i].t <= now
      <4>1. now \in 0..now
        BY <1>0
      <4> QED BY <2>1, <2>2, <2>3, <4>1, TransitionSound DEF BreakerInv
    <3> QED BY <1>0, <2>2, <3>1 DEF BreakerTypes, TypeOK, Record
  <2>5. TrialFlag'
    BY <1>0, <2>2 DEF BreakerInv, TrialFlag, TypeOK
  <2> QED BY <2>4, <2>5 DEF BreakerInv
<1>6. ASSUME NEW p \in Procs, Panic(p) PROVE BreakerInv'
  <2>1. BreakerTypes' /\ ClosedSound'
    BY <1>0, <1>6 DEF Panic, BreakerInv, BreakerTypes, TypeOK, ClosedSound, Tripped, Failures
  <2>2. TrialFlag'
    BY <1>0, <1>6 DEF Panic, BreakerInv, TrialFlag, TypeOK
  <2> QED BY <2>1, <2>2 DEF BreakerInv
<1>7. CASE UNCHANGED vars
  BY <1>7 DEF vars, BreakerInv, BreakerTypes, TypeOK, TrialFlag, ClosedSound, Tripped, Failures
<1> QED BY <1>1, <1>2, <1>3, <1>4, <1>5, <1>6, <1>7 DEF Next

(* The inductive invariant of the breaker.                                 *)
THEOREM BreakerInvariance == ASSUME BreakerAssumption PROVE Spec => []BreakerInv
<1>1. Init => BreakerInv
  BY BreakerInit
<1>2. BreakerInv /\ [Next]_vars => BreakerInv'
  BY BreakerStep
<1> QED BY <1>1, <1>2, PTL DEF Spec

(* One trial at a time, and none after one that panicked                   *)
(* (breaker.go:117-138).                                                   *)
THEOREM TrialSafety == ASSUME BreakerAssumption PROVE Spec => []OneTrial
<1>1. BreakerInv => OneTrial
  <2> SUFFICES ASSUME BreakerInv PROVE OneTrial
    OBVIOUS
  <2>1. \A p, q \in Trials : p = q
    BY DEF BreakerInv, TrialFlag, Trials
  <2>2. Trials = {} \/ \E p \in Procs : Trials = {p}
    BY <2>1 DEF Trials
  <2>3. Cardinality(Trials) <= 1
    <3>1. Cardinality({}) = 0 /\ \A p \in Procs : Cardinality({p}) = 1
      BY FS_EmptySet, FS_Singleton
    <3> QED BY <2>2, <3>1
  <2>4. /\ halfOpenExecuting <=> (Trials # {} \/ lost)
        /\ lost => Trials = {}
    BY DEF BreakerInv, TrialFlag, Trials
  <2> QED BY <2>3, <2>4 DEF OneTrial, BreakerInv, BreakerTypes
<1> QED BY <1>1, BreakerInvariance, PTL

(* A closed breaker has no record of an earlier outage and is below its    *)
(* threshold (breaker.go:149-192).                                         *)
THEOREM ClosedSafety == ASSUME BreakerAssumption PROVE Spec => []ClosedSound
<1>1. BreakerInv => ClosedSound
  BY DEF BreakerInv
<1> QED BY <1>1, BreakerInvariance, PTL

-----------------------------------------------------------------------------
(* The worker pool.                                                        *)

Slots == [at : Labour!Places, task : 0..MaxTasks]

Busy == Labour!At({"running", "ran"})

(* A worker has a task from the receive to the end of the task.            *)
PoolTypes ==
  /\ mu \in Submitters \cup {Nobody}
  /\ sent \in BOOLEAN
  /\ tasks \in Seq(1..MaxTasks)
  /\ currentWorkers \in Nat
  /\ busyWorkers \in Nat
  /\ closed \in BOOLEAN
  /\ worker \in [Workers -> Slots]
  /\ close \in [Closers -> {"idle", "waiting", "done", "returned"}]
  /\ accepted \in 0..MaxTasks
  /\ ends \in [1..MaxTasks -> {0, 1}]
  /\ \A w \in Workers : worker[w].task # 0 <=> worker[w].at \in {"taken", "running"}

(* The counters are those of the workers, within the bounds.               *)
PoolCounts ==
  /\ currentWorkers = Cardinality(Labour!Alive)
  /\ busyWorkers = Cardinality(Busy)
  /\ currentWorkers <= MaxWorkers
  /\ ~closed => currentWorkers >= MinWorkers

(* Submit has p.mu only while the pool is open, and the last worker leaves *)
(* an empty queue behind.                                                  *)
PoolClosing ==
  /\ mu # Nobody =>
       ~closed /\ (sent \/ (Len(tasks) < QueueLimit /\ accepted < MaxTasks))
  /\ \A w \in Workers : worker[w].at = "leaving" => closed /\ tasks = <<>>
  /\ Labour!Alive = {} => closed /\ tasks = <<>>
  /\ \A c \in Closers : close[c] = "done" => Labour!Alive = {}

(* Where the tasks are: queued once, with one worker, or finished.         *)
QueuedTasks ==
  /\ \A i \in 1..Len(tasks) : tasks[i] \in 1..accepted /\ ends[tasks[i]] = 0
  /\ \A i, j \in 1..Len(tasks) : tasks[i] = tasks[j] => i = j

HeldTasks ==
  /\ \A w \in Workers :
       worker[w].task # 0 =>
         /\ worker[w].task \in 1..accepted
         /\ ends[worker[w].task] = 0
         /\ \A i \in 1..Len(tasks) : tasks[i] # worker[w].task
  /\ \A v, w \in Workers : worker[v].task # 0 /\ worker[v].task = worker[w].task => v = w

FoundTasks ==
  \A t \in 1..MaxTasks :
    IF t <= accepted
    THEN \/ \E i \in 1..Len(tasks) : tasks[i] = t
         \/ \E w \in Workers : worker[w].task = t
         \/ ends[t] = 1
    ELSE ends[t] = 0

(* The inductive invariant.                                                *)
PoolInv ==
  PoolTypes /\ PoolCounts /\ PoolClosing /\ QueuedTasks /\ HeldTasks /\ FoundTasks

(* A worker is alive unless its goroutine is gone.                         *)
LEMMA AliveAt ==
  ASSUME PoolTypes PROVE Labour!Alive = {w \in Workers : worker[w].at # "gone"}
BY DEF PoolTypes, Slots, Labour!Alive, Labour!Gone

(* The sets of workers the counters are about.                             *)
LEMMA WorkersCounted ==
  ASSUME Labour!PoolAssumption
  PROVE  /\ IsFiniteSet(Labour!Alive) /\ Cardinality(Labour!Alive) \in Nat
         /\ IsFiniteSet(Busy) /\ Cardinality(Busy) \in Nat
<1>1. IsFiniteSet(Workers)
  BY DEF Labour!PoolAssumption, Labour!IsFiniteSet, IsFiniteSet
<1>2. Labour!Alive \subseteq Workers /\ Busy \subseteq Workers
  BY DEF Labour!Alive, Busy, Labour!At
<1> QED BY <1>1, <1>2, FS_Subset, FS_CardinalityType

(* One worker more and one worker less.                                    *)
LEMMA OneMore ==
  ASSUME NEW S, IsFiniteSet(S), NEW x, x \notin S
  PROVE  Cardinality(S \cup {x}) = Cardinality(S) + 1
BY FS_AddElement

LEMMA OneLess ==
  ASSUME NEW S, IsFiniteSet(S), NEW x \in S
  PROVE  Cardinality(S \ {x}) = Cardinality(S) - 1
BY FS_RemoveElement

(* What the worker w becoming new means for the two sets.                  *)
LEMMA WorkerMoves ==
  ASSUME PoolTypes, NEW w \in Workers, NEW new \in Slots,
         new.task # 0 <=> new.at \in {"taken", "running"},
         worker' = [worker EXCEPT ![w] = new]
  PROVE  /\ worker' \in [Workers -> Slots]
         /\ worker'[w] = new
         /\ \A v \in Workers : v # w => worker'[v] = worker[v]
         /\ Labour!Alive' = IF new.at = "gone" THEN Labour!Alive \ {w}
                                               ELSE Labour!Alive \cup {w}
         /\ Busy' = IF new.at \in {"running", "ran"} THEN Busy \cup {w} ELSE Busy \ {w}
<1>1. /\ worker' \in [Workers -> Slots]
      /\ worker'[w] = new
      /\ \A v \in Workers : v # w => worker'[v] = worker[v]
  BY DEF PoolTypes
<1>2. new.at = "gone" <=> new = Labour!Gone
  BY DEF Slots, Labour!Gone
<1>3. Labour!Alive' = IF new.at = "gone" THEN Labour!Alive \ {w} ELSE Labour!Alive \cup {w}
  BY <1>1, <1>2 DEF Labour!Alive
<1>4. Busy' = IF new.at \in {"running", "ran"} THEN Busy \cup {w} ELSE Busy \ {w}
  BY <1>1 DEF Busy, Labour!At
<1> QED BY <1>1, <1>3, <1>4

(* The invariant holds at first: MinWorkers workers and no task.           *)
LEMMA PoolInit ==
  ASSUME Labour!PoolAssumption, Labour!Init PROVE PoolInv
<1>1. PICK first \in SUBSET Workers :
        /\ Cardinality(first) = MinWorkers
        /\ worker = [w \in Workers |-> IF w \in first THEN Labour!Ready ELSE Labour!Gone]
  BY DEF Labour!Init, Labour!Cardinality, Cardinality
<1>2. /\ mu = Nobody /\ sent = FALSE /\ tasks = <<>>
      /\ currentWorkers = MinWorkers /\ busyWorkers = 0 /\ closed = FALSE
      /\ close = [c \in Closers |-> "idle"] /\ accepted = 0
      /\ ends = [t \in 1..MaxTasks |-> 0]
  BY DEF Labour!Init, Labour!Tasks
<1>3. /\ MinWorkers \in Nat \ {0} /\ MaxWorkers \in Nat /\ MinWorkers <= MaxWorkers
      /\ MaxTasks \in Nat /\ QueueLimit \in Nat
  BY DEF Labour!PoolAssumption, Labour!Resolved
<1>4. worker \in [Workers -> Slots] /\ \A w \in Workers : worker[w].task = 0
  BY <1>1, <1>3 DEF Labour!Ready, Labour!Gone, Labour!Places, Slots
<1>5. \A w \in Workers : worker[w].at = IF w \in first THEN "ready" ELSE "gone"
  BY <1>1 DEF Labour!Ready, Labour!Gone
<1>6. tasks \in Seq(1..MaxTasks) /\ Len(tasks) = 0
  BY <1>2, EmptySeq
<1>7. PoolTypes
  <2>1. \A w \in Workers : worker[w].task # 0 <=> worker[w].at \in {"taken", "running"}
    BY <1>4, <1>5
  <2>2. accepted \in 0..MaxTasks /\ currentWorkers \in Nat /\ busyWorkers \in Nat
    BY <1>2, <1>3
  <2> QED BY <1>2, <1>4, <1>6, <2>1, <2>2 DEF PoolTypes
<1>8. Labour!Alive = first /\ Busy = {}
  BY <1>5, <1>7, AliveAt DEF Busy, Labour!At
<1>9. first # {}
  BY <1>1, <1>3, FS_EmptySet
<1>10. PoolCounts
  BY <1>1, <1>2, <1>3, <1>8, FS_EmptySet DEF PoolCounts
<1>11. PoolClosing
  BY <1>2, <1>5, <1>8, <1>9 DEF PoolClosing
<1>12. QueuedTasks /\ HeldTasks /\ FoundTasks
  BY <1>2, <1>3, <1>4, <1>6 DEF QueuedTasks, HeldTasks, FoundTasks
<1> QED BY <1>7, <1>10, <1>11, <1>12 DEF PoolInv

-----------------------------------------------------------------------------
(* Submit.                                                                 *)
LEMMA PoolSubmit ==
  ASSUME Labour!PoolAssumption, PoolInv, NEW s \in Submitters, Labour!Submit(s)
  PROVE  PoolInv'
<1>1. /\ mu' = s /\ ~closed /\ Len(tasks) < QueueLimit /\ accepted < MaxTasks
      /\ UNCHANGED <<sent, tasks, currentWorkers, busyWorkers, closed, worker, close,
                     accepted, ends>>
  BY DEF Labour!Submit
<1>2. Labour!Alive' = Labour!Alive /\ Busy' = Busy
  BY <1>1 DEF Labour!Alive, Busy, Labour!At
<1>3. PoolTypes' /\ PoolCounts' /\ PoolClosing'
  BY <1>1, <1>2 DEF PoolInv, PoolTypes, PoolCounts, PoolClosing
<1>4. QueuedTasks' /\ HeldTasks' /\ FoundTasks'
  BY <1>1 DEF PoolInv, QueuedTasks, HeldTasks, FoundTasks
<1> QED BY <1>3, <1>4 DEF PoolInv

LEMMA PoolSend ==
  ASSUME Labour!PoolAssumption, PoolInv, NEW s \in Submitters, Labour!SubmitSend(s)
  PROVE  PoolInv'
<1> DEFINE new == accepted + 1
<1>1. /\ mu = s /\ ~sent
      /\ tasks' = Append(tasks, new) /\ accepted' = new /\ sent' = TRUE
      /\ UNCHANGED <<mu, currentWorkers, busyWorkers, closed, worker, close, ends>>
  BY DEF Labour!SubmitSend
<1>2. mu # Nobody /\ MaxTasks \in Nat
  BY <1>1 DEF Labour!PoolAssumption
<1>3. accepted \in 0..MaxTasks /\ accepted < MaxTasks /\ ~closed
  BY <1>1, <1>2 DEF PoolInv, PoolTypes, PoolClosing
<1>4. new \in 1..MaxTasks /\ new > accepted
  BY <1>2, <1>3
<1>5. /\ tasks' \in Seq(1..MaxTasks) /\ Len(tasks') = Len(tasks) + 1
      /\ \A i \in 1..Len(tasks) : tasks'[i] = tasks[i]
      /\ tasks'[Len(tasks) + 1] = new
      /\ Len(tasks) \in Nat
  BY <1>1, <1>4, AppendProperties, LenProperties DEF PoolInv, PoolTypes
<1>6. Labour!Alive' = Labour!Alive /\ Busy' = Busy
  BY <1>1 DEF Labour!Alive, Busy, Labour!At
<1>7. PoolTypes' /\ PoolCounts'
  BY <1>1, <1>2, <1>4, <1>5, <1>6 DEF PoolInv, PoolTypes, PoolCounts
<1>8. PoolClosing'
  <2>1. Labour!Alive # {} /\ \A w \in Workers : worker[w].at # "leaving"
    BY <1>3 DEF PoolInv, PoolClosing
  <2>2. \A c \in Closers : close[c] # "done"
    BY <2>1 DEF PoolInv, PoolClosing
  <2>3. mu' # Nobody => ~closed' /\ (sent' \/ (Len(tasks') < QueueLimit /\ accepted' < MaxTasks))
    <3>1. ~closed' /\ sent'
      BY <1>1, <1>3
    <3> QED BY <3>1
  <2>4. Labour!Alive' # {} /\ \A w \in Workers : worker'[w].at # "leaving"
    BY <1>1, <1>6, <2>1
  <2>5. \A c \in Closers : close'[c] # "done"
    BY <1>1, <2>2
  <2> QED BY <2>3, <2>4, <2>5 DEF PoolClosing
<1> HIDE DEF new
<1>9. ends[new] = 0 /\ \A i \in 1..Len(tasks) : tasks[i] # new
  BY <1>3, <1>4 DEF PoolInv, FoundTasks, QueuedTasks
<1>10. \A w \in Workers : worker[w].task # new
  BY <1>3, <1>4 DEF PoolInv, HeldTasks
<1>11. \A t \in 1..accepted : t \in 1..new
  BY <1>3, <1>4
<1>12. \A i \in 1..Len(tasks') : i \in 1..Len(tasks) \/ i = Len(tasks) + 1
  BY <1>5
<1>13. QueuedTasks'
  <2>1. \A i \in 1..Len(tasks') : tasks'[i] \in 1..accepted' /\ ends'[tasks'[i]] = 0
    BY <1>1, <1>4, <1>5, <1>9, <1>11, <1>12 DEF PoolInv, QueuedTasks
  <2>2. \A i, j \in 1..Len(tasks') : tasks'[i] = tasks'[j] => i = j
    BY <1>5, <1>9, <1>12 DEF PoolInv, QueuedTasks
  <2> QED BY <2>1, <2>2 DEF QueuedTasks
<1>14. HeldTasks'
  <2>1. \A w \in Workers : worker[w].task # 0 =>
          \A i \in 1..Len(tasks') : tasks'[i] # worker[w].task
    BY <1>5, <1>10, <1>12 DEF PoolInv, HeldTasks
  <2> QED BY <1>1, <1>11, <2>1 DEF PoolInv, HeldTasks
<1>15. FoundTasks'
  <2> SUFFICES ASSUME NEW t \in 1..MaxTasks
               PROVE  IF t <= accepted'
                      THEN \/ \E i \in 1..Len(tasks') : tasks'[i] = t
                           \/ \E w \in Workers : worker'[w].task = t
                           \/ ends'[t] = 1
                      ELSE ends'[t] = 0
    BY DEF FoundTasks
  <2>1. CASE t = new
    BY <1>1, <1>5, <2>1
  <2>2. CASE t # new
    <3>1. t <= accepted' <=> t <= accepted
      BY <1>1, <1>3, <2>2 DEF new
    <3>2. (\E i \in 1..Len(tasks) : tasks[i] = t) =>
            \E i \in 1..Len(tasks') : tasks'[i] = t
      BY <1>5
    <3> QED BY <1>1, <3>1, <3>2 DEF PoolInv, FoundTasks
  <2> QED BY <2>1, <2>2
<1> QED BY <1>7, <1>8, <1>13, <1>14, <1>15 DEF PoolInv

LEMMA PoolScale ==
  ASSUME Labour!PoolAssumption, PoolInv, NEW s \in Submitters, Labour!SubmitScale(s)
  PROVE  PoolInv'
<1>1. /\ mu = s /\ mu' = Nobody /\ sent' = FALSE
      /\ UNCHANGED <<tasks, busyWorkers, closed, close, accepted, ends>>
  BY DEF Labour!SubmitScale
<1>2. CASE UNCHANGED <<worker, currentWorkers>>
  <2>1. Labour!Alive' = Labour!Alive /\ Busy' = Busy
    BY <1>2 DEF Labour!Alive, Busy, Labour!At
  <2>2. PoolTypes' /\ PoolCounts' /\ PoolClosing'
    BY <1>1, <1>2, <2>1 DEF PoolInv, PoolTypes, PoolCounts, PoolClosing
  <2>3. QueuedTasks' /\ HeldTasks' /\ FoundTasks'
    BY <1>1, <1>2 DEF PoolInv, QueuedTasks, HeldTasks, FoundTasks
  <2> QED BY <2>2, <2>3 DEF PoolInv
<1>3. ASSUME NEW w \in Workers, Labour!SpawnWorker(w), Labour!ScaleUp PROVE PoolInv'
  <2>1. /\ worker[w] = Labour!Gone /\ worker' = [worker EXCEPT ![w] = Labour!Ready]
        /\ currentWorkers' = currentWorkers + 1 /\ currentWorkers < MaxWorkers
    BY <1>3 DEF Labour!SpawnWorker, Labour!ScaleUp
  <2> DEFINE new == Labour!Ready
  <2>2. /\ new \in Slots /\ new.task = 0 /\ new.at = "ready"
        /\ worker[w].task = 0 /\ worker[w].at = "gone"
        /\ w \notin Labour!Alive /\ w \notin Busy
    BY <2>1 DEF Slots, Labour!Ready, Labour!Gone, Labour!Places, Labour!Alive, Busy,
                Labour!At, Labour!PoolAssumption
  <2> HIDE DEF new
  <2>3. /\ worker' \in [Workers -> Slots] /\ worker'[w] = new
        /\ \A v \in Workers : v # w => worker'[v] = worker[v]
        /\ Labour!Alive' = Labour!Alive \cup {w} /\ Busy' = Busy
    <3>1. worker' = [worker EXCEPT ![w] = new]
      BY <2>1 DEF new
    <3>2. PoolTypes /\ (new.task # 0 <=> new.at \in {"taken", "running"})
      BY <2>2 DEF PoolInv
    <3>3. new.at # "gone" /\ new.at \notin {"running", "ran"}
      BY <2>2
    <3> HIDE DEF PoolTypes
    <3>4. /\ worker' \in [Workers -> Slots] /\ worker'[w] = new
          /\ \A v \in Workers : v # w => worker'[v] = worker[v]
          /\ Labour!Alive' = Labour!Alive \cup {w} /\ Busy' = Busy \ {w}
      BY <2>2, <3>1, <3>2, <3>3, WorkerMoves
    <3> QED BY <2>2, <3>4
  <2>4. Cardinality(Labour!Alive') = Cardinality(Labour!Alive) + 1
    BY <2>2, <2>3, WorkersCounted, OneMore
  <2>5. MaxWorkers \in Nat /\ MinWorkers \in Nat /\ currentWorkers \in Nat
    BY DEF Labour!PoolAssumption, Labour!Resolved, PoolInv, PoolTypes
  <2>6. PoolTypes'
    <3>1. \A v \in Workers : worker'[v].task # 0 <=> worker'[v].at \in {"taken", "running"}
      BY <2>2, <2>3 DEF PoolInv, PoolTypes
    <3>2. currentWorkers' \in Nat
      BY <2>1, <2>5
    <3> QED BY <1>1, <2>3, <3>1, <3>2 DEF PoolInv, PoolTypes
  <2>7. PoolCounts'
    BY <1>1, <2>1, <2>3, <2>4, <2>5 DEF PoolInv, PoolCounts
  <2>8. ~closed
    BY <1>1 DEF PoolInv, PoolClosing, Labour!PoolAssumption
  <2>9. PoolClosing'
    <3>1. \A c \in Closers : close[c] # "done"
      BY <2>8 DEF PoolInv, PoolClosing
    <3>2. Labour!Alive' # {}
      BY <2>3
    <3>3. \A v \in Workers : worker'[v].at # "leaving"
      BY <2>2, <2>3, <2>8 DEF PoolInv, PoolClosing
    <3> QED BY <1>1, <3>1, <3>2, <3>3 DEF PoolClosing
  <2>10. \A v \in Workers : worker'[v].task = worker[v].task
    BY <2>2, <2>3
  <2>11. QueuedTasks' /\ HeldTasks' /\ FoundTasks'
    BY <1>1, <2>10 DEF PoolInv, QueuedTasks, HeldTasks, FoundTasks
  <2> QED BY <2>6, <2>7, <2>9, <2>11 DEF PoolInv
<1> QED BY <1>2, <1>3 DEF Labour!SubmitScale

-----------------------------------------------------------------------------
(* The worker loop.                                                        *)

(* A step of a worker from one place to another that touches neither its   *)
(* task nor the queue, and does not end it.                                *)
LEMMA PoolPlace ==
  ASSUME Labour!PoolAssumption, PoolInv, NEW w \in Workers, NEW new \in Slots,
         worker' = [worker EXCEPT ![w] = new],
         new.task = worker[w].task,
         new.task # 0 <=> new.at \in {"taken", "running"},
         worker[w].at # "gone", new.at # "gone",
         new.at = "leaving" => closed /\ tasks = <<>>,
         busyWorkers' = busyWorkers
                          + (IF new.at \in {"running", "ran"} THEN 1 ELSE 0)
                          - (IF worker[w].at \in {"running", "ran"} THEN 1 ELSE 0),
         UNCHANGED <<mu, sent, tasks, currentWorkers, closed, close, accepted, ends>>
  PROVE  PoolInv'
<1>1. /\ worker' \in [Workers -> Slots] /\ worker'[w] = new
      /\ \A v \in Workers : v # w => worker'[v] = worker[v]
      /\ Labour!Alive' = Labour!Alive \cup {w}
      /\ Busy' = IF new.at \in {"running", "ran"} THEN Busy \cup {w} ELSE Busy \ {w}
  BY WorkerMoves DEF PoolInv
<1>2. w \in Labour!Alive /\ (w \in Busy <=> worker[w].at \in {"running", "ran"})
  BY DEF Labour!Alive, Labour!Gone, Busy, Labour!At
<1>3. Labour!Alive' = Labour!Alive
  BY <1>1, <1>2
<1>4. busyWorkers = Cardinality(Busy) /\ busyWorkers \in Nat /\ IsFiniteSet(Busy)
  BY WorkersCounted DEF PoolInv, PoolCounts, PoolTypes
<1>5. busyWorkers' = Cardinality(Busy') /\ busyWorkers' \in Nat
  <2>1. CASE new.at \in {"running", "ran"} /\ w \in Busy
    <3>1. Busy' = Busy
      BY <1>1, <2>1
    <3> QED BY <1>2, <1>4, <2>1, <3>1
  <2>2. CASE new.at \in {"running", "ran"} /\ w \notin Busy
    <3>1. Cardinality(Busy \cup {w}) = Cardinality(Busy) + 1
      BY <1>4, <2>2, OneMore
    <3> QED BY <1>1, <1>2, <1>4, <2>2, <3>1
  <2>3. CASE new.at \notin {"running", "ran"} /\ w \in Busy
    <3>1. Cardinality(Busy \ {w}) = Cardinality(Busy) - 1
      BY <1>4, <2>3, OneLess
    <3>2. IsFiniteSet(Busy \ {w}) /\ Cardinality(Busy \ {w}) \in Nat
      BY <1>4, FS_RemoveElement, FS_CardinalityType
    <3> QED BY <1>1, <1>2, <1>4, <2>3, <3>1, <3>2
  <2>4. CASE new.at \notin {"running", "ran"} /\ w \notin Busy
    <3>1. Busy' = Busy
      BY <1>1, <2>4
    <3> QED BY <1>2, <1>4, <2>4, <3>1
  <2> QED BY <2>1, <2>2, <2>3, <2>4
<1>6. PoolTypes'
  BY <1>1, <1>5 DEF PoolInv, PoolTypes
<1>7. PoolCounts'
  BY <1>3, <1>5 DEF PoolInv, PoolCounts
<1>8. PoolClosing'
  BY <1>1, <1>3 DEF PoolInv, PoolClosing
<1>9. \A v \in Workers : worker'[v].task = worker[v].task
  BY <1>1
<1>10. QueuedTasks' /\ HeldTasks' /\ FoundTasks'
  BY <1>9 DEF PoolInv, QueuedTasks, HeldTasks, FoundTasks
<1> QED BY <1>6, <1>7, <1>8, <1>10 DEF PoolInv

(* MarkBusy, MarkIdle, TasksClosed, TimerFires and an Expire that stays.   *)
LEMMA PoolPlaces ==
  ASSUME Labour!PoolAssumption, PoolInv, NEW w \in Workers,
         \/ Labour!MarkBusy(w) \/ Labour!MarkIdle(w) \/ Labour!TasksClosed(w)
         \/ Labour!TimerFires(w) \/ (Labour!Expire(w) /\ currentWorkers <= MinWorkers)
  PROVE  PoolInv'
<1>1. /\ worker \in [Workers -> Slots] /\ worker[w] \in Slots
      /\ worker[w].task # 0 <=> worker[w].at \in {"taken", "running"}
      /\ busyWorkers \in Nat /\ currentWorkers \in Nat
      /\ MinWorkers \in Nat /\ MaxTasks \in Nat
  BY DEF PoolInv, PoolTypes, Labour!PoolAssumption, Labour!Resolved
<1>2. Labour!Ready \in Slots /\ Labour!Ready.task = 0 /\ Labour!Ready.at = "ready"
  BY <1>1 DEF Labour!Ready, Slots, Labour!Places
<1> DEFINE new(at) == [at |-> at, task |-> worker[w].task]
<1>3. \A at \in Labour!Places :
        /\ new(at) \in Slots /\ new(at).at = at /\ new(at).task = worker[w].task
        /\ [worker EXCEPT ![w].at = at] = [worker EXCEPT ![w] = new(at)]
  <2> SUFFICES ASSUME NEW at \in Labour!Places
               PROVE  /\ new(at) \in Slots /\ new(at).at = at
                      /\ new(at).task = worker[w].task
                      /\ [worker EXCEPT ![w].at = at] = [worker EXCEPT ![w] = new(at)]
    OBVIOUS
  <2>1. new(at) \in Slots /\ new(at).at = at /\ new(at).task = worker[w].task
    BY <1>1 DEF Slots
  <2>2. [worker[w] EXCEPT !.at = at] = new(at)
    BY <1>1 DEF Slots
  <2> QED BY <2>1, <2>2
<1>4. {"running", "leaving", "expired"} \subseteq Labour!Places
  BY DEF Labour!Places
<1> HIDE DEF new
<1>5. CASE Labour!MarkBusy(w)
  <2>1. /\ worker[w].at = "taken" /\ worker' = [worker EXCEPT ![w].at = "running"]
        /\ busyWorkers' = busyWorkers + 1
        /\ UNCHANGED <<mu, sent, tasks, currentWorkers, closed, close, accepted, ends>>
    BY <1>5 DEF Labour!MarkBusy
  <2>2. PICK n \in Slots : /\ n.at = "running" /\ n.task = worker[w].task
                           /\ worker' = [worker EXCEPT ![w] = n]
    BY <1>3, <1>4, <2>1
  <2>3. busyWorkers' = busyWorkers + (IF n.at \in {"running", "ran"} THEN 1 ELSE 0)
                         - (IF worker[w].at \in {"running", "ran"} THEN 1 ELSE 0)
    BY <1>1, <2>1, <2>2
  <2> QED BY <1>1, <2>1, <2>2, <2>3, PoolPlace
<1>6. CASE Labour!MarkIdle(w)
  <2>1. /\ worker[w].at = "ran" /\ worker' = [worker EXCEPT ![w] = Labour!Ready]
        /\ busyWorkers' = busyWorkers - 1
        /\ UNCHANGED <<mu, sent, tasks, currentWorkers, closed, close, accepted, ends>>
    BY <1>6 DEF Labour!MarkIdle
  <2>2. PICK n \in Slots : /\ n.at = "ready" /\ n.task = worker[w].task
                           /\ worker' = [worker EXCEPT ![w] = n]
    BY <1>1, <1>2, <2>1
  <2>3. busyWorkers' = busyWorkers + (IF n.at \in {"running", "ran"} THEN 1 ELSE 0)
                         - (IF worker[w].at \in {"running", "ran"} THEN 1 ELSE 0)
    BY <1>1, <2>1, <2>2
  <2> QED BY <1>1, <2>1, <2>2, <2>3, PoolPlace
<1>7. CASE Labour!TasksClosed(w)
  <2>1. /\ worker[w] = Labour!Ready /\ closed /\ tasks = <<>>
        /\ worker' = [worker EXCEPT ![w].at = "leaving"]
        /\ UNCHANGED <<mu, sent, tasks, currentWorkers, busyWorkers, closed, close,
                       accepted, ends>>
    BY <1>7 DEF Labour!TasksClosed
  <2>2. PICK n \in Slots : /\ n.at = "leaving" /\ n.task = worker[w].task
                           /\ worker' = [worker EXCEPT ![w] = n]
    BY <1>3, <1>4, <2>1
  <2>3. worker[w].task = 0 /\ worker[w].at = "ready"
    BY <1>2, <2>1
  <2>4. busyWorkers' = busyWorkers + (IF n.at \in {"running", "ran"} THEN 1 ELSE 0)
                         - (IF worker[w].at \in {"running", "ran"} THEN 1 ELSE 0)
    BY <1>1, <2>1, <2>2, <2>3
  <2> QED BY <1>1, <2>1, <2>2, <2>3, <2>4, PoolPlace
<1>8. CASE Labour!TimerFires(w)
  <2>1. /\ worker[w] = Labour!Ready
        /\ worker' = [worker EXCEPT ![w].at = "expired"]
        /\ UNCHANGED <<mu, sent, tasks, currentWorkers, busyWorkers, closed, close,
                       accepted, ends>>
    BY <1>8 DEF Labour!TimerFires
  <2>2. PICK n \in Slots : /\ n.at = "expired" /\ n.task = worker[w].task
                           /\ worker' = [worker EXCEPT ![w] = n]
    BY <1>3, <1>4, <2>1
  <2>3. worker[w].task = 0 /\ worker[w].at = "ready"
    BY <1>2, <2>1
  <2>4. busyWorkers' = busyWorkers + (IF n.at \in {"running", "ran"} THEN 1 ELSE 0)
                         - (IF worker[w].at \in {"running", "ran"} THEN 1 ELSE 0)
    BY <1>1, <2>1, <2>2, <2>3
  <2> QED BY <1>1, <2>1, <2>2, <2>3, <2>4, PoolPlace
<1>9. CASE Labour!Expire(w) /\ currentWorkers <= MinWorkers
  <2>1. /\ worker[w].at = "expired" /\ worker' = [worker EXCEPT ![w] = Labour!Ready]
        /\ UNCHANGED <<mu, sent, tasks, currentWorkers, busyWorkers, closed, close,
                       accepted, ends>>
    BY <1>1, <1>9 DEF Labour!Expire
  <2>2. PICK n \in Slots : /\ n.at = "ready" /\ n.task = worker[w].task
                           /\ worker' = [worker EXCEPT ![w] = n]
    BY <1>1, <1>2, <2>1
  <2>3. busyWorkers' = busyWorkers + (IF n.at \in {"running", "ran"} THEN 1 ELSE 0)
                         - (IF worker[w].at \in {"running", "ran"} THEN 1 ELSE 0)
    BY <1>1, <2>1, <2>2
  <2> QED BY <1>1, <2>1, <2>2, <2>3, PoolPlace
<1> QED BY <1>5, <1>6, <1>7, <1>8, <1>9

(* The receive.                                                            *)
LEMMA PoolTake ==
  ASSUME Labour!PoolAssumption, PoolInv, NEW w \in Workers, Labour!Take(w)
  PROVE  PoolInv'
<1> DEFINE new == [at |-> "taken", task |-> Head(tasks)]
           n == Len(tasks)
<1>1. /\ worker[w] = Labour!Ready /\ tasks # <<>>
      /\ worker' = [worker EXCEPT ![w] = new] /\ tasks' = Tail(tasks)
      /\ UNCHANGED <<mu, sent, currentWorkers, busyWorkers, closed, close, accepted, ends>>
  BY DEF Labour!Take
<1>2. tasks \in Seq(1..MaxTasks) /\ n \in Nat
  BY LenProperties DEF PoolInv, PoolTypes
<1>3. /\ Head(tasks) = tasks[1]
      /\ tasks' \in Seq(1..MaxTasks) /\ Len(tasks') = n - 1
      /\ \A i \in 1..(n - 1) : tasks'[i] = tasks[i + 1]
  BY <1>1, <1>2, HeadTailProperties
<1>4. n > 0
  BY <1>1, <1>2, EmptySeq
<1>5. /\ tasks[1] \in 1..MaxTasks /\ tasks[1] \in 1..accepted /\ ends[tasks[1]] = 0
      /\ \A i \in 1..(n - 1) : tasks'[i] # tasks[1]
  <2>1. 1 \in 1..n /\ \A i \in 1..(n - 1) : i + 1 \in 1..n /\ i + 1 # 1
    BY <1>2, <1>4
  <2>2. tasks[1] \in 1..MaxTasks
    BY <1>2, <2>1, ElementOfSeq
  <2> QED BY <1>3, <2>1, <2>2 DEF PoolInv, QueuedTasks
<1>6. MaxTasks \in Nat
  BY DEF Labour!PoolAssumption
<1>7. new \in Slots /\ new.task = tasks[1] /\ new.task # 0 /\ new.at = "taken"
  BY <1>3, <1>5, <1>6 DEF Slots, Labour!Places
<1>8. worker[w].task = 0 /\ worker[w].at = "ready"
  BY <1>1 DEF Labour!Ready
<1>9. w \in Labour!Alive /\ w \notin Busy
  BY <1>8 DEF Labour!Alive, Labour!Gone, Busy, Labour!At
<1> HIDE DEF new
<1>10. /\ worker' \in [Workers -> Slots] /\ worker'[w] = new
       /\ \A v \in Workers : v # w => worker'[v] = worker[v]
       /\ Labour!Alive' = Labour!Alive /\ Busy' = Busy
  <2>1. PoolTypes /\ (new.task # 0 <=> new.at \in {"taken", "running"})
    BY <1>7 DEF PoolInv
  <2>2. new.at # "gone" /\ new.at \notin {"running", "ran"}
    BY <1>7
  <2> HIDE DEF PoolTypes
  <2>3. /\ worker' \in [Workers -> Slots] /\ worker'[w] = new
        /\ \A v \in Workers : v # w => worker'[v] = worker[v]
        /\ Labour!Alive' = Labour!Alive \cup {w} /\ Busy' = Busy \ {w}
    BY <1>1, <1>7, <2>1, <2>2, WorkerMoves
  <2> QED BY <1>9, <2>3
<1>11. PoolTypes'
  <2>1. \A v \in Workers : worker'[v].task # 0 <=> worker'[v].at \in {"taken", "running"}
    BY <1>7, <1>10 DEF PoolInv, PoolTypes
  <2> QED BY <1>1, <1>3, <1>10, <2>1 DEF PoolInv, PoolTypes
<1>12. PoolCounts'
  BY <1>1, <1>10 DEF PoolInv, PoolCounts
<1>13. PoolClosing'
  <2>1. \A v \in Workers : worker'[v].at # "leaving"
    BY <1>1, <1>7, <1>10 DEF PoolInv, PoolClosing
  <2>2. Labour!Alive' # {} /\ Labour!Alive # {}
    BY <1>9, <1>10
  <2>3. \A c \in Closers : close'[c] # "done"
    BY <1>1, <2>2 DEF PoolInv, PoolClosing
  <2>4. QueueLimit \in Nat
    BY DEF Labour!PoolAssumption, Labour!Resolved
  <2>5. Len(tasks) < QueueLimit => Len(tasks') < QueueLimit
    BY <1>2, <1>3, <2>4
  <2>6. mu' # Nobody =>
          ~closed' /\ (sent' \/ (Len(tasks') < QueueLimit /\ accepted' < MaxTasks))
    BY <1>1, <2>5 DEF PoolInv, PoolClosing
  <2> QED BY <2>1, <2>2, <2>3, <2>6 DEF PoolClosing
<1>14. \A i \in 1..Len(tasks') : i \in 1..(n - 1) /\ i + 1 \in 1..n /\ i \in Nat
  BY <1>2, <1>3
<1> HIDE DEF n
<1>15. QueuedTasks'
  <2>1. \A i \in 1..Len(tasks') : tasks'[i] \in 1..accepted' /\ ends'[tasks'[i]] = 0
    BY <1>1, <1>3, <1>14 DEF PoolInv, QueuedTasks, n
  <2>2. ASSUME NEW i \in 1..Len(tasks'), NEW j \in 1..Len(tasks'), tasks'[i] = tasks'[j]
        PROVE  i = j
    <3>1. i + 1 = j + 1
      BY <1>3, <1>14, <2>2 DEF PoolInv, QueuedTasks, n
    <3> QED BY <1>14, <3>1
  <2> QED BY <2>1, <2>2 DEF QueuedTasks
<1>16. HeldTasks'
  <2>1. ASSUME NEW v \in Workers, worker'[v].task # 0
        PROVE  /\ worker'[v].task \in 1..accepted'
               /\ ends'[worker'[v].task] = 0
               /\ \A i \in 1..Len(tasks') : tasks'[i] # worker'[v].task
    <3>1. CASE v = w
      BY <1>1, <1>5, <1>7, <1>10, <1>14, <3>1
    <3>2. CASE v # w
      BY <1>1, <1>3, <1>10, <1>14, <2>1, <3>2 DEF PoolInv, HeldTasks, n
    <3> QED BY <3>1, <3>2
  <2>2. \A v \in Workers : worker[v].task # tasks[1]
    <3>1. 1 \in 1..n
      BY <1>2, <1>4
    <3> QED BY <1>5, <3>1 DEF PoolInv, HeldTasks, n
  <2>3. \A u, v \in Workers :
          worker'[u].task # 0 /\ worker'[u].task = worker'[v].task => u = v
    BY <1>7, <1>10, <2>2 DEF PoolInv, HeldTasks
  <2> QED BY <2>1, <2>3 DEF HeldTasks
<1>17. FoundTasks'
  <2> SUFFICES ASSUME NEW t \in 1..MaxTasks
               PROVE  IF t <= accepted'
                      THEN \/ \E i \in 1..Len(tasks') : tasks'[i] = t
                           \/ \E v \in Workers : worker'[v].task = t
                           \/ ends'[t] = 1
                      ELSE ends'[t] = 0
    BY DEF FoundTasks
  <2>1. ASSUME NEW i \in 1..n, tasks[i] = t
        PROVE  \/ \E j \in 1..Len(tasks') : tasks'[j] = t
               \/ \E v \in Workers : worker'[v].task = t
    <3>1. CASE i = 1
      BY <1>7, <1>10, <2>1, <3>1
    <3>2. CASE i # 1
      <4>1. i - 1 \in 1..(n - 1) /\ i - 1 \in 1..Len(tasks') /\ (i - 1) + 1 = i
        BY <1>2, <1>3, <3>2
      <4>2. tasks'[i - 1] = t
        BY <1>3, <2>1, <4>1
      <4> QED BY <4>1, <4>2
    <3> QED BY <3>1, <3>2
  <2>2. ASSUME NEW v \in Workers, worker[v].task = t PROVE worker'[v].task = t
    <3>1. v # w
      BY <1>8, <2>2
    <3> QED BY <1>10, <2>2, <3>1
  <2> QED BY <1>1, <2>1, <2>2 DEF PoolInv, FoundTasks, n
<1> QED BY <1>11, <1>12, <1>13, <1>15, <1>16, <1>17 DEF PoolInv

(* runTaskSafely ends the task.                                            *)
LEMMA PoolRun ==
  ASSUME Labour!PoolAssumption, PoolInv, NEW w \in Workers, Labour!RunTaskSafely(w)
  PROVE  PoolInv'
<1> DEFINE new == [at |-> "ran", task |-> 0]
           t == worker[w].task
<1>1. /\ worker[w].at = "running" /\ worker' = [worker EXCEPT ![w] = new]
      /\ ends' = [ends EXCEPT ![t] = @ + 1]
      /\ UNCHANGED <<mu, sent, tasks, currentWorkers, busyWorkers, closed, close, accepted>>
  BY DEF Labour!RunTaskSafely
<1>2. MaxTasks \in Nat /\ accepted \in 0..MaxTasks
  BY DEF Labour!PoolAssumption, PoolInv, PoolTypes
<1>3. /\ t # 0 /\ t \in 1..accepted /\ t \in 1..MaxTasks /\ ends[t] = 0
      /\ \A i \in 1..Len(tasks) : tasks[i] # t
      /\ \A v \in Workers : worker[v].task = t => v = w
  BY <1>1, <1>2 DEF PoolInv, PoolTypes, HeldTasks
<1>4. /\ ends' \in [1..MaxTasks -> {0, 1}] /\ ends'[t] = 1
      /\ \A u \in 1..MaxTasks : u # t => ends'[u] = ends[u]
  BY <1>1, <1>3 DEF PoolInv, PoolTypes
<1>5. new \in Slots /\ new.task = 0 /\ new.at = "ran"
  BY <1>2 DEF Slots, Labour!Places
<1>6. w \in Labour!Alive /\ w \in Busy
  BY <1>1 DEF Labour!Alive, Labour!Gone, Busy, Labour!At
<1> HIDE DEF new, t
<1>7. /\ worker' \in [Workers -> Slots] /\ worker'[w] = new
      /\ \A v \in Workers : v # w => worker'[v] = worker[v]
      /\ Labour!Alive' = Labour!Alive /\ Busy' = Busy
  <2>1. PoolTypes /\ (new.task # 0 <=> new.at \in {"taken", "running"})
    BY <1>5 DEF PoolInv
  <2>2. new.at # "gone" /\ new.at \in {"running", "ran"}
    BY <1>5
  <2> HIDE DEF PoolTypes
  <2>3. /\ worker' \in [Workers -> Slots] /\ worker'[w] = new
        /\ \A v \in Workers : v # w => worker'[v] = worker[v]
        /\ Labour!Alive' = Labour!Alive \cup {w} /\ Busy' = Busy \cup {w}
    BY <1>1, <1>5, <2>1, <2>2, WorkerMoves
  <2> QED BY <1>6, <2>3
<1>8. PoolTypes'
  <2>1. \A v \in Workers : worker'[v].task # 0 <=> worker'[v].at \in {"taken", "running"}
    BY <1>5, <1>7 DEF PoolInv, PoolTypes
  <2> QED BY <1>1, <1>4, <1>7, <2>1 DEF PoolInv, PoolTypes
<1>9. PoolCounts'
  BY <1>1, <1>7 DEF PoolInv, PoolCounts
<1>10. PoolClosing'
  BY <1>1, <1>5, <1>7 DEF PoolInv, PoolClosing
<1>11. QueuedTasks'
  <2>1. \A i \in 1..Len(tasks) : tasks[i] \in 1..MaxTasks
    BY <1>2 DEF PoolInv, QueuedTasks
  <2> QED BY <1>1, <1>3, <1>4, <2>1 DEF PoolInv, QueuedTasks
<1>12. HeldTasks'
  <2>1. ASSUME NEW v \in Workers, worker'[v].task # 0
        PROVE  /\ worker'[v].task \in 1..accepted'
               /\ ends'[worker'[v].task] = 0
               /\ \A i \in 1..Len(tasks') : tasks'[i] # worker'[v].task
    <3>1. v # w /\ worker'[v] = worker[v] /\ worker[v].task # t
      BY <1>3, <1>5, <1>7, <2>1
    <3>2. /\ worker[v].task \in 1..accepted /\ ends[worker[v].task] = 0
          /\ \A i \in 1..Len(tasks) : tasks[i] # worker[v].task
      BY <2>1, <3>1 DEF PoolInv, HeldTasks
    <3>3. worker[v].task \in 1..MaxTasks
      BY <1>2, <3>2
    <3> QED BY <1>1, <1>4, <3>1, <3>2, <3>3
  <2>2. \A u, v \in Workers :
          worker'[u].task # 0 /\ worker'[u].task = worker'[v].task => u = v
    BY <1>5, <1>7 DEF PoolInv, HeldTasks
  <2> QED BY <2>1, <2>2 DEF HeldTasks
<1>13. FoundTasks'
  <2> SUFFICES ASSUME NEW u \in 1..MaxTasks
               PROVE  IF u <= accepted'
                      THEN \/ \E i \in 1..Len(tasks') : tasks'[i] = u
                           \/ \E v \in Workers : worker'[v].task = u
                           \/ ends'[u] = 1
                      ELSE ends'[u] = 0
    BY DEF FoundTasks
  <2>1. CASE u = t
    <3>1. u <= accepted'
      BY <1>1, <1>2, <1>3, <2>1
    <3> QED BY <1>4, <2>1, <3>1
  <2>2. CASE u # t
    <3>1. \A v \in Workers : worker[v].task = u => worker'[v].task = u
      BY <1>7, <2>2 DEF t
    <3> QED BY <1>1, <1>4, <2>2, <3>1 DEF PoolInv, FoundTasks
  <2> QED BY <2>1, <2>2
<1> QED BY <1>8, <1>9, <1>10, <1>11, <1>12, <1>13 DEF PoolInv

(* A worker ends: the pool is closed and empty, or has workers to spare.   *)
LEMMA PoolEnds ==
  ASSUME Labour!PoolAssumption, PoolInv, NEW w \in Workers,
         Labour!Leave(w) \/ (Labour!Expire(w) /\ currentWorkers > MinWorkers)
  PROVE  PoolInv'
<1> DEFINE new == Labour!Gone
<1>1. /\ worker[w].at \in {"leaving", "expired"}
      /\ worker' = [worker EXCEPT ![w] = new]
      /\ currentWorkers' = currentWorkers - 1
      /\ UNCHANGED <<mu, sent, tasks, busyWorkers, closed, close, accepted, ends>>
      /\ (closed /\ tasks = <<>>) \/ currentWorkers > MinWorkers
  <2>1. CASE Labour!Leave(w)
    BY <2>1 DEF Labour!Leave, PoolInv, PoolClosing
  <2>2. CASE Labour!Expire(w) /\ currentWorkers > MinWorkers
    BY <2>2 DEF Labour!Expire
  <2> QED BY <2>1, <2>2
<1>2. /\ MinWorkers \in Nat \ {0} /\ MaxWorkers \in Nat /\ MaxTasks \in Nat
      /\ currentWorkers \in Nat /\ currentWorkers = Cardinality(Labour!Alive)
      /\ currentWorkers <= MaxWorkers
  BY DEF Labour!PoolAssumption, Labour!Resolved, PoolInv, PoolTypes, PoolCounts
<1>3. new \in Slots /\ new.task = 0 /\ new.at = "gone"
  BY <1>2 DEF Slots, Labour!Gone, Labour!Places
<1>4. w \in Labour!Alive /\ w \notin Busy /\ worker[w].task = 0
  BY <1>1 DEF Labour!Alive, Labour!Gone, Busy, Labour!At, PoolInv, PoolTypes
<1> HIDE DEF new
<1>5. /\ worker' \in [Workers -> Slots] /\ worker'[w] = new
      /\ \A v \in Workers : v # w => worker'[v] = worker[v]
      /\ Labour!Alive' = Labour!Alive \ {w} /\ Busy' = Busy
  <2>1. PoolTypes /\ (new.task # 0 <=> new.at \in {"taken", "running"})
    BY <1>3 DEF PoolInv
  <2>2. new.at = "gone" /\ new.at \notin {"running", "ran"}
    BY <1>3
  <2> HIDE DEF PoolTypes
  <2>3. /\ worker' \in [Workers -> Slots] /\ worker'[w] = new
        /\ \A v \in Workers : v # w => worker'[v] = worker[v]
        /\ Labour!Alive' = Labour!Alive \ {w} /\ Busy' = Busy \ {w}
    BY <1>1, <1>3, <2>1, <2>2, WorkerMoves
  <2> QED BY <1>4, <2>3
<1>6. /\ Cardinality(Labour!Alive') = Cardinality(Labour!Alive) - 1
      /\ Cardinality(Labour!Alive') \in Nat
  <2>1. Cardinality(Labour!Alive \ {w}) = Cardinality(Labour!Alive) - 1
    BY <1>4, WorkersCounted, OneLess
  <2>2. IsFiniteSet(Labour!Alive \ {w}) /\ Cardinality(Labour!Alive \ {w}) \in Nat
    BY WorkersCounted, FS_RemoveElement, FS_CardinalityType
  <2> QED BY <1>5, <2>1, <2>2
<1>7. PoolTypes'
  <2>1. \A v \in Workers : worker'[v].task # 0 <=> worker'[v].at \in {"taken", "running"}
    BY <1>3, <1>5 DEF PoolInv, PoolTypes
  <2>2. currentWorkers' \in Nat
    BY <1>1, <1>2, <1>6
  <2> QED BY <1>1, <1>5, <2>1, <2>2 DEF PoolInv, PoolTypes
<1>8. PoolCounts'
  <2>1. currentWorkers' <= MaxWorkers /\ (~closed => currentWorkers' >= MinWorkers)
    BY <1>1, <1>2
  <2> QED BY <1>1, <1>2, <1>5, <1>6, <2>1 DEF PoolInv, PoolCounts
<1>9. PoolClosing'
  <2>1. Labour!Alive' = {} => closed /\ tasks = <<>>
    <3>1. Labour!Alive' = {} => currentWorkers' = 0
      BY <1>1, <1>2, <1>6, FS_EmptySet
    <3> QED BY <1>1, <1>2, <3>1
  <2>2. \A v \in Workers : worker'[v].at = "leaving" => closed /\ tasks = <<>>
    BY <1>3, <1>5 DEF PoolInv, PoolClosing
  <2>3. \A c \in Closers : close[c] = "done" => Labour!Alive' = {}
    BY <1>5 DEF PoolInv, PoolClosing
  <2> QED BY <1>1, <2>1, <2>2, <2>3 DEF PoolInv, PoolClosing
<1>10. \A v \in Workers : worker'[v].task = worker[v].task
  BY <1>3, <1>4, <1>5
<1>11. QueuedTasks' /\ HeldTasks' /\ FoundTasks'
  BY <1>1, <1>10 DEF PoolInv, QueuedTasks, HeldTasks, FoundTasks
<1> QED BY <1>7, <1>8, <1>9, <1>11 DEF PoolInv

(* Close.                                                                  *)
LEMMA PoolClose ==
  ASSUME Labour!PoolAssumption, PoolInv, NEW c \in Closers,
         Labour!Close(c) \/ Labour!CloseReturns(c)
  PROVE  PoolInv'
<1>1. UNCHANGED <<mu, sent, tasks, currentWorkers, busyWorkers, worker, accepted, ends>>
  BY DEF Labour!Close, Labour!CloseReturns
<1>2. Labour!Alive' = Labour!Alive /\ Busy' = Busy
  BY <1>1 DEF Labour!Alive, Busy, Labour!At
<1>3. QueuedTasks' /\ HeldTasks' /\ FoundTasks'
  BY <1>1 DEF PoolInv, QueuedTasks, HeldTasks, FoundTasks
<1>4. CASE Labour!Close(c)
  <2>1. /\ mu = Nobody /\ closed' = TRUE
        /\ close' = [close EXCEPT ![c] = IF closed THEN "returned" ELSE "waiting"]
    BY <1>4 DEF Labour!Close
  <2>2. PoolTypes'
    BY <1>1, <2>1 DEF PoolInv, PoolTypes
  <2>3. PoolCounts'
    BY <1>1, <1>2, <2>1 DEF PoolInv, PoolCounts
  <2>4. \A d \in Closers : close'[d] = "done" => close[d] = "done"
    BY <2>1 DEF PoolInv, PoolTypes
  <2>5. PoolClosing'
    BY <1>1, <1>2, <2>1, <2>4 DEF PoolInv, PoolClosing
  <2> QED BY <1>3, <2>2, <2>3, <2>5 DEF PoolInv
<1>5. CASE Labour!CloseReturns(c)
  <2>1. /\ UNCHANGED closed /\ close' = [close EXCEPT ![c] = "done"]
        /\ Labour!Alive = {}
    BY <1>5 DEF Labour!CloseReturns, Labour!Alive
  <2>2. PoolTypes'
    BY <1>1, <2>1 DEF PoolInv, PoolTypes
  <2>3. PoolCounts'
    BY <1>1, <1>2, <2>1 DEF PoolInv, PoolCounts
  <2>4. PoolClosing'
    BY <1>1, <1>2, <2>1 DEF PoolInv, PoolClosing
  <2> QED BY <1>3, <2>2, <2>3, <2>4 DEF PoolInv
<1> QED BY <1>4, <1>5

(* Every step of the pool preserves the invariant.                         *)
LEMMA PoolStep ==
  ASSUME Labour!PoolAssumption, PoolInv, [Labour!Next]_(Labour!vars)
  PROVE  PoolInv'
<1>1. ASSUME NEW s \in Submitters,
             Labour!Submit(s) \/ Labour!SubmitSend(s) \/ Labour!SubmitScale(s)
      PROVE  PoolInv'
  BY <1>1, PoolSubmit, PoolSend, PoolScale
<1>2. ASSUME NEW w \in Workers,
             \/ Labour!MarkBusy(w) \/ Labour!MarkIdle(w)
             \/ Labour!TasksClosed(w) \/ Labour!TimerFires(w)
      PROVE  PoolInv'
  BY <1>2, PoolPlaces
<1>3. ASSUME NEW w \in Workers, Labour!Take(w) \/ Labour!RunTaskSafely(w)
      PROVE  PoolInv'
  BY <1>3, PoolTake, PoolRun
<1>4. ASSUME NEW w \in Workers, Labour!Leave(w) PROVE PoolInv'
  BY <1>4, PoolEnds
<1>5. ASSUME NEW w \in Workers, Labour!Expire(w) PROVE PoolInv'
  <2>1. currentWorkers > MinWorkers \/ currentWorkers <= MinWorkers
    BY DEF PoolInv, PoolTypes, Labour!PoolAssumption, Labour!Resolved
  <2> QED BY <1>5, <2>1, PoolEnds, PoolPlaces
<1>6. ASSUME NEW c \in Closers, Labour!Close(c) \/ Labour!CloseReturns(c)
      PROVE  PoolInv'
  BY <1>6, PoolClose
<1>7. CASE UNCHANGED Labour!vars
  <2>1. Labour!Alive' = Labour!Alive /\ Busy' = Busy
    BY <1>7 DEF Labour!vars, Labour!Alive, Busy, Labour!At
  <2>2. PoolTypes' /\ PoolCounts' /\ PoolClosing'
    BY <1>7, <2>1 DEF Labour!vars, PoolInv, PoolTypes, PoolCounts, PoolClosing
  <2>3. QueuedTasks' /\ HeldTasks' /\ FoundTasks'
    BY <1>7 DEF Labour!vars, PoolInv, QueuedTasks, HeldTasks, FoundTasks
  <2> QED BY <2>2, <2>3 DEF PoolInv
<1> QED BY <1>1, <1>2, <1>3, <1>4, <1>5, <1>6, <1>7 DEF Labour!Next

LEMMA PoolInvariance ==
  ASSUME Labour!PoolAssumption PROVE Labour!Spec => []PoolInv
<1>1. Labour!Init => PoolInv
  BY PoolInit
<1>2. PoolInv /\ [Labour!Next]_(Labour!vars) => PoolInv'
  BY PoolStep
<1> QED BY <1>1, <1>2, PTL DEF Labour!Spec

(* WorkersInBounds: the counters are exact, the workers are never more     *)
(* than MaxWorkers nor, before Close, fewer than MinWorkers, and a Submit  *)
(* that holds p.mu has room in the queue.                                  *)
THEOREM WorkersSafety ==
  ASSUME Labour!PoolAssumption PROVE Labour!Spec => []WorkersInBounds
<1>1. ASSUME PoolInv PROVE WorkersInBounds
  <2>1. Busy \subseteq Labour!Alive
    BY DEF Busy, Labour!At, Labour!Alive, Labour!Gone
  <2>2. Cardinality(Busy) <= Cardinality(Labour!Alive)
    BY <2>1, WorkersCounted, FS_Subset
  <2>3. busyWorkers \in 0..MaxWorkers
    BY <1>1, <2>2 DEF PoolInv, PoolTypes, PoolCounts, Labour!PoolAssumption, Labour!Resolved
  <2>4. Labour!TypeOK
    BY <1>1, <2>3 DEF PoolInv, PoolTypes, Slots, Labour!TypeOK, Labour!Tasks
  <2>5. \A S : Labour!Cardinality(S) = Cardinality(S)
    BY DEF Labour!Cardinality, Cardinality
  <2>6. mu # Nobody /\ ~sent => Len(tasks) < QueueLimit /\ ~closed
    BY <1>1 DEF PoolInv, PoolClosing
  <2> QED BY <1>1, <2>4, <2>5, <2>6
          DEF PoolInv, PoolCounts, Busy, WorkersInBounds, Labour!WorkersInBounds
<1> QED BY <1>1, PoolInvariance, PTL

(* TaskOnce: an accepted task is in one place - queued, with a worker, or  *)
(* finished - and finished when a Close that waited has returned.          *)
THEOREM TaskOnceSafety ==
  ASSUME Labour!PoolAssumption PROVE Labour!Spec => []TaskOnce
<1>1. ASSUME PoolInv PROVE TaskOnce
  <2> SUFFICES ASSUME NEW t \in 1..accepted
               PROVE  /\ Cardinality({i \in DOMAIN tasks : tasks[i] = t})
                           + Cardinality({w \in Workers : worker[w].task = t})
                           + ends[t] = 1
                      /\ (\E c \in Closers : close[c] = "done") => ends[t] = 1
    BY DEF TaskOnce, Labour!TaskOnce, Labour!Cardinality, Cardinality
  <2> DEFINE Q == {i \in DOMAIN tasks : tasks[i] = t}
             W == {w \in Workers : worker[w].task = t}
  <2>1. DOMAIN tasks = 1..Len(tasks) /\ t # 0 /\ t \in 1..MaxTasks /\ t <= accepted
    BY <1>1, LenProperties DEF PoolInv, PoolTypes, Labour!PoolAssumption
  <2>2. Cardinality(Q) = IF Q = {} THEN 0 ELSE 1
    <3>1. \A x, y \in Q : x = y
      BY <1>1, <2>1 DEF PoolInv, QueuedTasks
    <3> QED BY <3>1, AtMostOne
  <2>3. Cardinality(W) = IF W = {} THEN 0 ELSE 1
    <3>1. \A x, y \in W : x = y
      BY <1>1, <2>1 DEF PoolInv, HeldTasks
    <3> QED BY <3>1, AtMostOne
  <2>4. /\ Q # {} => ends[t] = 0 /\ W = {}
        /\ W # {} => ends[t] = 0 /\ Q = {}
        /\ Q = {} /\ W = {} => ends[t] = 1
    BY <1>1, <2>1 DEF PoolInv, QueuedTasks, HeldTasks, FoundTasks
  <2>5. (\E c \in Closers : close[c] = "done") => Q = {} /\ W = {}
    <3> SUFFICES ASSUME \E c \in Closers : close[c] = "done" PROVE Q = {} /\ W = {}
      OBVIOUS
    <3>1. Labour!Alive = {} /\ tasks = <<>>
      BY <1>1 DEF PoolInv, PoolClosing
    <3>2. Q = {}
      BY <3>1
    <3>3. \A w \in Workers : worker[w].at = "gone"
      BY <1>1, <3>1, AliveAt DEF PoolInv
    <3>4. W = {}
      BY <1>1, <2>1, <3>3 DEF PoolInv, PoolTypes
    <3> QED BY <3>2, <3>4
  <2> HIDE DEF Q, W
  <2>6. Cardinality(Q) + Cardinality(W) + ends[t] = 1
    BY <2>2, <2>3, <2>4
  <2> QED BY <2>4, <2>5, <2>6 DEF Q, W
<1> QED BY <1>1, PoolInvariance, PTL

-----------------------------------------------------------------------------
(* The task scheduler.                                                     *)

(* Every task object is in one of its four places.                         *)
TaskPlaces ==
  /\ free \cup owned \cup heap \cup active = SchedulerTasks
  /\ free \cap owned = {} /\ free \cap heap = {} /\ free \cap active = {}
  /\ owned \cap heap = {} /\ owned \cap active = {} /\ heap \cap active = {}

(* The inductive invariant.                                                *)
SchedInv == Sched!TypeOK /\ TaskPlaces /\ NoLostWakeup

(* Four places without a common task hold the tasks between them.          *)
LEMMA PlacesCounted ==
  ASSUME NEW A, NEW B, NEW C, NEW D, IsFiniteSet(A \cup B \cup C \cup D),
         A \cap B = {}, A \cap C = {}, A \cap D = {}, B \cap C = {}, B \cap D = {},
         C \cap D = {}
  PROVE  Cardinality(A) + Cardinality(B) + Cardinality(C) + Cardinality(D)
           = Cardinality(A \cup B \cup C \cup D)
<1>1. IsFiniteSet(A) /\ IsFiniteSet(B) /\ IsFiniteSet(C) /\ IsFiniteSet(D)
  BY FS_Subset
<1>2. Cardinality(A) \in Nat /\ Cardinality(B) \in Nat /\ Cardinality(C) \in Nat
      /\ Cardinality(D) \in Nat
  BY <1>1, FS_CardinalityType
<1>3. IsFiniteSet(A \cup B) /\ IsFiniteSet(A \cup B \cup C)
  BY FS_Subset
<1>4. Cardinality(A \cup B) = Cardinality(A) + Cardinality(B)
  <2>1. Cardinality(A \cup B) = Cardinality(A) + Cardinality(B) - Cardinality(A \cap B)
    BY <1>1, FS_Union
  <2> QED BY <1>2, <2>1, FS_EmptySet
<1>5. Cardinality(A \cup B \cup C) = Cardinality(A \cup B) + Cardinality(C)
  <2>1. (A \cup B) \cap C = {}
    OBVIOUS
  <2>2. Cardinality((A \cup B) \cap C) = 0
    BY <2>1, FS_EmptySet
  <2>3. Cardinality(A \cup B \cup C)
          = Cardinality(A \cup B) + Cardinality(C) - Cardinality((A \cup B) \cap C)
    BY <1>1, <1>3, FS_Union
  <2> QED BY <1>2, <1>4, <2>2, <2>3
<1>6. Cardinality(A \cup B \cup C \cup D) = Cardinality(A \cup B \cup C) + Cardinality(D)
  <2>1. (A \cup B \cup C) \cap D = {}
    OBVIOUS
  <2>2. Cardinality((A \cup B \cup C) \cap D) = 0
    BY <2>1, FS_EmptySet
  <2>3. Cardinality(A \cup B \cup C \cup D)
          = Cardinality(A \cup B \cup C) + Cardinality(D)
              - Cardinality((A \cup B \cup C) \cap D)
    BY <1>1, <1>3, FS_Union
  <2> QED BY <1>2, <1>4, <1>5, <2>2, <2>3
<1> QED BY <1>2, <1>4, <1>5, <1>6

(* The invariant holds at first: every task is in the pool.                *)
LEMMA SchedInit ==
  ASSUME Sched!SchedulerAssumption, Sched!Init PROVE SchedInv
<1>1. (CHOOSE x \in Priorities : TRUE) \in Priorities
  BY DEF Sched!SchedulerAssumption
<1>2. spec \in [SchedulerTasks ->
                   [next : Sched!Times, prio : Priorities, every : Intervals \cup {0}]]
  BY <1>1 DEF Sched!Init, Sched!Times, Sched!SchedulerAssumption
<1>3. Sched!TypeOK
  <2>1. 0 \in Sched!Times /\ 0 \in 0..SchedulerCalls /\ 0 \in Nat
    BY DEF Sched!SchedulerAssumption, Sched!Times
  <2> QED BY <1>2, <2>1 DEF Sched!Init, Sched!New, Sched!TypeOK
<1>4. TaskPlaces
  BY DEF Sched!Init, Sched!New, TaskPlaces
<1>5. NoLostWakeup
  BY DEF Sched!Init, NoLostWakeup, Sched!NoLostWakeup
<1> QED BY <1>3, <1>4, <1>5 DEF SchedInv

(* A caller's operation, a step of the loop and the end of a task preserve *)
(* it.                                                                     *)
LEMMA SchedStep ==
  ASSUME Sched!SchedulerAssumption, SchedInv, [Sched!Next]_(Sched!schedulerVars)
  PROVE  SchedInv'
<1> USE DEF Sched!SchedulerAssumption, SchedInv, TaskPlaces, Sched!TypeOK, NoLostWakeup,
            Sched!NoLostWakeup, Sched!Times, Sched!queue, Sched!control
<1>1. CASE Sched!Tick
  BY <1>1 DEF Sched!Tick
<1>2. ASSUME NEW t \in SchedulerTasks, Sched!AcquireTask(t) PROVE SchedInv'
  BY <1>2 DEF Sched!AcquireTask
<1>3. ASSUME NEW t \in SchedulerTasks, Sched!ReleaseTask(t) PROVE SchedInv'
  <2>1. /\ spec' \in [SchedulerTasks -> [next : Sched!Times, prio : Priorities,
                                          every : Intervals \cup {0}]]
        /\ \A u \in SchedulerTasks : spec'[u].next = spec[u].next
    BY <1>3 DEF Sched!ReleaseTask
  <2> QED BY <1>3, <2>1 DEF Sched!ReleaseTask
<1>4. ASSUME NEW t \in SchedulerTasks, NEW next \in Sched!Times, NEW prio \in Priorities,
             NEW every \in Intervals, Sched!Schedule(t, next, prio, every)
      PROVE  SchedInv'
  <2>1. Sched!TypeOK'
    BY <1>4 DEF Sched!Schedule
  <2>2. TaskPlaces'
    BY <1>4 DEF Sched!Schedule
  <2>3. kicks' > 0
    BY <1>4 DEF Sched!Schedule
  <2> QED BY <2>1, <2>2, <2>3
<1>5. ASSUME NEW t \in SchedulerTasks, Sched!RunAgain(t) PROVE SchedInv'
  <2>1. clock + spec[t].every \in Sched!Times
    BY <1>5 DEF Sched!RunAgain
  <2>2. Sched!TypeOK'
    BY <1>5, <2>1 DEF Sched!RunAgain
  <2>3. TaskPlaces'
    BY <1>5 DEF Sched!RunAgain
  <2>4. kicks' > 0
    BY <1>5 DEF Sched!RunAgain
  <2> QED BY <2>2, <2>3, <2>4
<1>6. ASSUME NEW t \in SchedulerTasks, Sched!RunOnce(t) PROVE SchedInv'
  BY <1>6 DEF Sched!RunOnce
<1>7. CASE Sched!TriggerWake
  BY <1>7 DEF Sched!TriggerWake
<1>8. CASE Sched!Start \/ Sched!Cancel
  <2>1. /\ UNCHANGED <<clock, heap, free, owned, active, spec, kicks, wake, deadline, calls>>
        /\ ended' \in BOOLEAN
        /\ loop' = "looking" \/ loop' = loop
    BY <1>8 DEF Sched!Start, Sched!Cancel
  <2>2. Sched!TypeOK' /\ TaskPlaces'
    BY <2>1
  <2>3. NoLostWakeup'
    BY <2>1
  <2> QED BY <2>2, <2>3
<1>9. CASE Sched!Look
  <2>1. /\ UNCHANGED <<clock, free, owned, spec, kicks, wake, ended, calls>>
        /\ loop = "looking"
    BY <1>9 DEF Sched!Look
  <2>2. CASE loop' = "off" /\ UNCHANGED <<heap, active, deadline>>
    BY <2>1, <2>2
  <2>3. CASE Sched!LookIdle
    BY <2>1, <2>3 DEF Sched!LookIdle
  <2>4. CASE Sched!LookSleep
    <3>1. PICK t \in Sched!First :
            /\ deadline' = spec[t].next /\ loop' = "sleeping"
            /\ UNCHANGED <<heap, active>>
      BY <2>4 DEF Sched!LookSleep
    <3>2. t \in heap /\ \A u \in heap : ~(spec[u].next < spec[t].next)
      BY <3>1 DEF Sched!First, Sched!Less
    <3>3. \A u \in heap : spec[u].next \in Int /\ spec[t].next \in Sched!Times
      BY <3>2
    <3>4. \A u \in heap : spec[u].next >= spec[t].next
      BY <3>2, <3>3
    <3>5. Sched!TypeOK' /\ TaskPlaces'
      BY <2>1, <3>1, <3>2, <3>3
    <3>6. NoLostWakeup'
      BY <2>1, <3>1, <3>4
    <3> QED BY <3>5, <3>6
  <2>5. CASE Sched!LookRun
    BY <2>1, <2>5 DEF Sched!LookRun, Sched!First
  <2> QED BY <1>9, <2>2, <2>3, <2>4, <2>5 DEF Sched!Look
<1>10. CASE Sched!Woken \/ Sched!TimerFires \/ Sched!Stopped
  BY <1>10 DEF Sched!Woken, Sched!TimerFires, Sched!Stopped
<1>11. CASE UNCHANGED Sched!schedulerVars
  BY <1>11 DEF Sched!schedulerVars
<1> QED BY <1>1, <1>2, <1>3, <1>4, <1>5, <1>6, <1>7, <1>8, <1>9, <1>10, <1>11
        DEF Sched!Next

LEMMA SchedInvariance ==
  ASSUME Sched!SchedulerAssumption PROVE Sched!Spec => []SchedInv
<1>1. Sched!Init => SchedInv
  BY SchedInit
<1>2. SchedInv /\ [Sched!Next]_(Sched!schedulerVars) => SchedInv'
  BY SchedStep
<1> QED BY <1>1, <1>2, PTL DEF Sched!Spec

(* NoLostWakeup: a loop that sleeps has nothing due before its timer, or a *)
(* signal is there or on its way.                                          *)
THEOREM WakeupSafety ==
  ASSUME Sched!SchedulerAssumption PROVE Sched!Spec => []NoLostWakeup
<1>1. SchedInv => NoLostWakeup
  BY DEF SchedInv
<1> QED BY <1>1, SchedInvariance, PTL

(* TaskExclusive: a task object is in the pool, with a caller, queued or   *)
(* running, and in one of these places only.                               *)
THEOREM TaskSafety ==
  ASSUME Sched!SchedulerAssumption PROVE Sched!Spec => []TaskExclusive
<1>1. ASSUME SchedInv PROVE TaskExclusive
  <2>1. IsFiniteSet(free \cup owned \cup heap \cup active)
    BY <1>1 DEF SchedInv, TaskPlaces, Sched!SchedulerAssumption, Sched!IsFiniteSet, IsFiniteSet
  <2>2. Cardinality(free) + Cardinality(owned) + Cardinality(heap) + Cardinality(active)
          = Cardinality(SchedulerTasks)
    <3>1. TaskPlaces
      BY <1>1 DEF SchedInv
    <3>2. Cardinality(free) + Cardinality(owned) + Cardinality(heap) + Cardinality(active)
          = Cardinality(free \cup owned \cup heap \cup active)
      BY <2>1, <3>1, PlacesCounted DEF TaskPlaces
    <3> QED BY <3>1, <3>2 DEF TaskPlaces
  <2>3. \A S : Sched!Cardinality(S) = Cardinality(S)
    BY DEF Sched!Cardinality, Cardinality
  <2> QED BY <1>1, <2>2, <2>3 DEF SchedInv, TaskPlaces, TaskExclusive, Sched!TaskExclusive
<1> QED BY <1>1, SchedInvariance, PTL

-----------------------------------------------------------------------------
(* The sort of the service orchestrator.                                   *)

(* A slice of services, each once and after those it depends on.           *)
Grounded(seq) ==
  /\ seq \in Seq(Services)
  /\ \A i, j \in 1..Len(seq) : seq[i] = seq[j] => i = j
  /\ \A i \in 1..Len(seq) : \A n \in graph[seq[i]] :
       \E j \in 1..(i - 1) : ServiceName[seq[j]] = n

SortTypes ==
  /\ graph \in [Services -> SUBSET Names]
  /\ services \in [Names -> Services \cup {NoService}]
  /\ search \in [stack : Seq(Names), visited : SUBSET Names, sorted : Seq(Services)]

(* A service is registered under its name.                                 *)
Named == \A n \in Names : services[n] # NoService => ServiceName[services[n]] = n

(* The names on the stack form a path in the graph.                        *)
OnPath ==
  LET stack == search.stack IN
  /\ \A i \in 1..Len(stack) : services[stack[i]] # NoService /\ stack[i] \notin search.visited
  /\ \A i, j \in 1..Len(stack) : stack[i] = stack[j] => i = j
  /\ \A i \in 1..(Len(stack) - 1) : stack[i + 1] \in graph[services[stack[i]]]

(* What was visited is in the slice, and nothing else.                     *)
SortedVisited ==
  /\ \A i \in 1..Len(search.sorted) :
       \E n \in search.visited : services[n] = search.sorted[i]
  /\ \A n \in search.visited :
       /\ services[n] # NoService
       /\ \E i \in 1..Len(search.sorted) : search.sorted[i] = services[n]

Searching == phase = "sort" => OnPath /\ SortedVisited /\ Grounded(search.sorted)

(* The inductive invariant of the sort.                                    *)
SortInv == SortTypes /\ Named /\ Searching /\ SortExact

(* A set of natural numbers has a least one.                               *)
LEMMA LeastOf ==
  ASSUME NEW S, S \subseteq Nat, S # {}
  PROVE  \E x \in S : \A y \in S : x <= y
<1>1. PICK x \in S : \A y \in S : <<y, x>> \notin OpToRel(<, Nat)
  BY WFMin, NatLessThanWellFounded
<1>2. \A y \in S : y \in Nat /\ x \in Nat /\ ~(y < x)
  BY <1>1 DEF OpToRel
<1> QED BY <1>2

(* What visit leaves on the stack.                                         *)
LEMMA FrontProperties ==
  ASSUME NEW S, NEW seq \in Seq(S), seq # <<>>
  PROVE  /\ Life!Front(seq) \in Seq(S) /\ Len(Life!Front(seq)) = Len(seq) - 1
         /\ \A i \in 1..(Len(seq) - 1) : Life!Front(seq)[i] = seq[i]
<1>1. Len(seq) \in Nat \ {0}
  BY LenProperties, EmptySeq
<1>2. \A i \in 1..(Len(seq) - 1) : seq[i] \in S
  BY <1>1, ElementOfSeq
<1> DEFINE n == Len(seq) - 1
<1>3. /\ SubSeq(seq, 1, n) \in Seq(S)
      /\ Len(SubSeq(seq, 1, n)) = IF 1 <= n THEN n - 1 + 1 ELSE 0
      /\ \A i \in 1..(n - 1 + 1) : SubSeq(seq, 1, n)[i] = seq[1 + i - 1]
  BY <1>1, <1>2, SubSeqProperties
<1>4. n \in Nat
  BY <1>1
<1> HIDE DEF n
<1>5. \A i \in 1..n : i \in 1..(n - 1 + 1) /\ 1 + i - 1 = i
  BY <1>4
<1>6. Len(SubSeq(seq, 1, n)) = n
  BY <1>3, <1>4
<1> QED BY <1>3, <1>5, <1>6 DEF Life!Front, n

(* Services that each depend on another of them, or on themselves, are in  *)
(* no order: the first of them would come after another.                   *)
LEMMA CycleUnsortable ==
  ASSUME SortTypes, Named, NEW seq, Life!IsTopological(seq), NEW C \in SUBSET Names, C # {},
         \A n \in C : services[n] # NoService /\ \E m \in C : m \in graph[services[n]]
  PROVE  FALSE
<1> DEFINE P == {i \in DOMAIN seq : \E n \in C : seq[i] = services[n]}
<1>1. DOMAIN seq \subseteq Nat
  BY LenProperties DEF Life!IsTopological
<1>2. P # {}
  <2>1. PICK n \in C : services[n] # NoService
    OBVIOUS
  <2>2. services[n] \in Life!ToSet(seq)
    BY <2>1 DEF Life!IsTopological, Life!Registered
  <2> QED BY <2>2 DEF Life!ToSet
<1>3. PICK i \in P : \A j \in P : i <= j
  BY <1>1, <1>2, LeastOf
<1>4. PICK n \in C, m \in C : seq[i] = services[n] /\ m \in graph[seq[i]]
  BY <1>3
<1>5. PICK j \in 1..(i - 1) : ServiceName[seq[j]] = m
  BY <1>3, <1>4 DEF Life!IsTopological
<1>6. j \in DOMAIN seq /\ j < i /\ seq[j] \in Life!Registered
  <2>1. seq \in Seq(Life!Registered) /\ i \in DOMAIN seq
    BY <1>3 DEF Life!IsTopological
  <2>2. DOMAIN seq = 1..Len(seq) /\ Len(seq) \in Nat
    BY <2>1, LenProperties
  <2>3. j \in 1..Len(seq) /\ j < i
    BY <1>5, <2>1, <2>2
  <2> QED BY <2>1, <2>2, <2>3, ElementOfSeq
<1>7. seq[j] = services[m]
  BY <1>5, <1>6 DEF Life!Registered, Named, SortTypes
<1>8. j \in P
  BY <1>6, <1>7
<1>9. i <= j /\ i \in Nat /\ j \in Nat
  BY <1>1, <1>3, <1>6, <1>8
<1> QED BY <1>6, <1>9

(* Nor is a service with a dependency that is not registered.              *)
LEMMA MissingUnsortable ==
  ASSUME SortTypes, Named, NEW seq, Life!IsTopological(seq), NEW m \in Names, NEW n \in Names,
         services[m] # NoService, n \in graph[services[m]], services[n] = NoService
  PROVE  FALSE
<1>1. seq \in Seq(Life!Registered) /\ DOMAIN seq = 1..Len(seq) /\ Len(seq) \in Nat
  BY LenProperties DEF Life!IsTopological
<1>2. PICK i \in DOMAIN seq : seq[i] = services[m]
  <2>1. services[m] \in Life!ToSet(seq)
    BY DEF Life!IsTopological, Life!Registered
  <2> QED BY <2>1 DEF Life!ToSet
<1>3. PICK j \in 1..(i - 1) : ServiceName[seq[j]] = n
  BY <1>2 DEF Life!IsTopological
<1>4. j \in 1..Len(seq)
  BY <1>1, <1>2, <1>3
<1>5. seq[j] \in Life!Registered
  BY <1>1, <1>4, ElementOfSeq
<1> QED BY <1>3, <1>5 DEF Life!Registered, Named

(* The names that are left to the innermost loop.                          *)
LEMMA ToVisitNames ==
  ASSUME SortInv, phase = "sort"
  PROVE  /\ Life!ToVisit \in SUBSET Names /\ Life!ToVisit \cap search.visited = {}
         /\ search.stack = <<>> =>
              Life!ToVisit = {n \in Names : services[n] # NoService} \ search.visited
         /\ search.stack # <<>> =>
              LET top == search.stack[Len(search.stack)] IN
              /\ Len(search.stack) \in Nat \ {0} /\ top \in Names
              /\ services[top] \in Services /\ graph[services[top]] \in SUBSET Names
              /\ Life!ToVisit = graph[services[top]] \ search.visited
<1>1. CASE search.stack = <<>>
  BY <1>1 DEF Life!ToVisit
<1>2. CASE search.stack # <<>>
  <2> DEFINE top == search.stack[Len(search.stack)]
  <2>1. search.stack \in Seq(Names) /\ Len(search.stack) \in Nat \ {0}
    BY <1>2, LenProperties, EmptySeq DEF SortInv, SortTypes
  <2>2. top \in Names /\ services[top] # NoService
    BY <2>1, ElementOfSeq DEF SortInv, Searching, OnPath
  <2>3. services[top] \in Services /\ graph[services[top]] \in SUBSET Names
    BY <2>2 DEF SortInv, SortTypes
  <2>4. Life!ToVisit = graph[services[top]] \ search.visited
    BY <1>2 DEF Life!ToVisit, Life!Last
  <2> QED BY <1>2, <2>1, <2>2, <2>3, <2>4
<1> QED BY <1>1, <1>2

(* What the sort has found stays true as long as nothing is registered.    *)
LEMMA SortRecorded ==
  ASSUME SortExact, UNCHANGED <<graph, services, ordered>>,
         phase' = "init" => phase = "init", outcome' = "sort" => outcome = "sort"
  PROVE  SortExact'
<1>1. Life!Registered' = Life!Registered
  BY DEF Life!Registered
<1>2. \A seq : Life!IsTopological(seq)' <=> Life!IsTopological(seq)
  BY <1>1 DEF Life!IsTopological
<1> QED BY <1>1, <1>2 DEF SortExact, Life!SortExact

(* A step that leaves the search and what it reads alone.                  *)
LEMMA SortQuiet ==
  ASSUME SortInv, UNCHANGED <<graph, services, search, ordered>>,
         phase' = "sort" => phase = "sort", phase' = "init" => phase = "init",
         outcome' = "sort" => outcome = "sort"
  PROVE  SortInv'
<1>1. SortTypes' /\ Named'
  BY DEF SortInv, SortTypes, Named
<1>2. Searching'
  BY DEF SortInv, Searching, OnPath, SortedVisited, Grounded
<1> QED BY <1>1, <1>2, SortRecorded DEF SortInv

(* A call of visit.                                                        *)
LEMMA SortEnter == ASSUME SortInv, Life!VisitEnter PROVE SortInv'
<1> DEFINE stack == search.stack
<1>1. PICK n \in Life!ToVisit : /\ n \notin Life!ToSet(stack) /\ services[n] # NoService
                                /\ search' = [search EXCEPT !.stack = Append(@, n)]
  BY DEF Life!VisitEnter
<1>2. /\ phase = "sort" /\ phase' = "sort" /\ UNCHANGED <<graph, services, ordered, outcome>>
  BY DEF Life!VisitEnter
<1>3. /\ n \in Names /\ n \notin search.visited
      /\ stack # <<>> => n \in graph[services[stack[Len(stack)]]]
  BY <1>1, <1>2, ToVisitNames
<1>4. stack \in Seq(Names) /\ Len(stack) \in Nat /\ DOMAIN stack = 1..Len(stack)
  BY LenProperties DEF SortInv, SortTypes
<1> DEFINE grown == Append(stack, n)
<1>5. /\ grown \in Seq(Names) /\ Len(grown) = Len(stack) + 1
      /\ \A i \in 1..Len(stack) : grown[i] = stack[i]
      /\ grown[Len(stack) + 1] = n
  BY <1>3, <1>4, AppendProperties
<1>6. /\ search'.stack = grown /\ search'.visited = search.visited
      /\ search'.sorted = search.sorted
      /\ search' \in [stack : Seq(Names), visited : SUBSET Names, sorted : Seq(Services)]
  BY <1>1, <1>5 DEF SortInv, SortTypes
<1>7. SortTypes' /\ Named'
  BY <1>2, <1>6 DEF SortInv, SortTypes, Named
<1>8. OnPath /\ SortedVisited /\ Grounded(search.sorted)
  BY <1>2 DEF SortInv, Searching
<1>9. OnPath'
  <2>1. \A i \in 1..Len(stack) : stack[i] # n
    BY <1>1, <1>4 DEF Life!ToSet
  <2> HIDE DEF grown
  <2>2. ASSUME NEW i \in 1..Len(grown)
        PROVE  services'[grown[i]] # NoService /\ grown[i] \notin search.visited
    <3>1. i \in 1..Len(stack) \/ i = Len(stack) + 1
      BY <1>4, <1>5
    <3> QED BY <1>1, <1>2, <1>3, <1>5, <1>8, <3>1 DEF OnPath
  <2>3. ASSUME NEW i \in 1..Len(grown), NEW j \in 1..Len(grown), grown[i] = grown[j] PROVE i = j
    <3>1. /\ i \in 1..Len(stack) \/ i = Len(stack) + 1
          /\ j \in 1..Len(stack) \/ j = Len(stack) + 1
      BY <1>4, <1>5
    <3> QED BY <1>5, <1>8, <2>1, <2>3, <3>1 DEF OnPath
  <2>4. ASSUME NEW i \in 1..(Len(grown) - 1)
        PROVE  grown[i + 1] \in graph'[services'[grown[i]]]
    <3>1. CASE i \in 1..(Len(stack) - 1)
      <4>1. i \in 1..Len(stack) /\ i + 1 \in 1..Len(stack)
        BY <1>4, <3>1
      <4> QED BY <1>2, <1>5, <1>8, <3>1, <4>1 DEF OnPath
    <3>2. CASE i = Len(stack)
      <4>1. stack # <<>> /\ i \in 1..Len(stack)
        BY <1>4, <3>2, EmptySeq
      <4> QED BY <1>2, <1>3, <1>5, <3>2, <4>1
    <3> QED BY <1>4, <1>5, <3>1, <3>2
  <2> QED BY <1>6, <2>2, <2>3, <2>4 DEF OnPath
<1>10. SortedVisited' /\ Grounded(search.sorted)'
  BY <1>2, <1>6, <1>8 DEF SortedVisited, Grounded
<1>11. SortExact'
  BY <1>2, SortRecorded DEF SortInv
<1> QED BY <1>7, <1>9, <1>10, <1>11 DEF SortInv, Searching

(* The end of a visit.                                                     *)
LEMMA SortLeave == ASSUME SortInv, Life!VisitEnd PROVE SortInv'
<1> DEFINE stack == search.stack
           top == stack[Len(stack)]
           sorted == search.sorted
           front == Life!Front(stack)
           grown == Append(sorted, services[top])
<1>1. /\ phase = "sort" /\ phase' = "sort" /\ UNCHANGED <<graph, services, ordered, outcome>>
      /\ stack # <<>> /\ Life!ToVisit = {}
  BY DEF Life!VisitEnd
<1>2. /\ search'.stack = front /\ search'.visited = search.visited \cup {top}
      /\ search'.sorted = grown
      /\ search' = [stack |-> front, visited |-> search.visited \cup {top}, sorted |-> grown]
  BY DEF Life!VisitEnd, Life!Last
<1>3. /\ Len(stack) \in Nat \ {0} /\ top \in Names /\ services[top] \in Services
      /\ graph[services[top]] \subseteq search.visited
  BY <1>1, ToVisitNames
<1>4. /\ stack \in Seq(Names) /\ sorted \in Seq(Services) /\ Len(sorted) \in Nat
      /\ search.visited \in SUBSET Names
  BY LenProperties DEF SortInv, SortTypes
<1>5. /\ front \in Seq(Names) /\ Len(front) = Len(stack) - 1
      /\ \A i \in 1..(Len(stack) - 1) : front[i] = stack[i]
  BY <1>1, <1>4, FrontProperties
<1>6. /\ grown \in Seq(Services) /\ Len(grown) = Len(sorted) + 1
      /\ \A i \in 1..Len(sorted) : grown[i] = sorted[i]
      /\ grown[Len(sorted) + 1] = services[top]
  BY <1>3, <1>4, AppendProperties
<1>7. OnPath /\ SortedVisited /\ Grounded(sorted)
  BY <1>1 DEF SortInv, Searching
<1>8. services[top] # NoService /\ top \notin search.visited
  BY <1>3, <1>7 DEF OnPath
<1> HIDE DEF stack, top, sorted, front, grown
<1>9. SortTypes' /\ Named'
  BY <1>1, <1>2, <1>3, <1>4, <1>5, <1>6 DEF SortInv, SortTypes, Named
<1>10. OnPath'
  <2>1. \A i \in 1..Len(front) : i \in 1..Len(stack) /\ i # Len(stack) /\ front[i] = stack[i]
    BY <1>3, <1>5
  <2>2. \A i \in 1..(Len(front) - 1) :
          i \in 1..Len(front) /\ i + 1 \in 1..Len(front) /\ i \in 1..(Len(stack) - 1)
    BY <1>3, <1>5
  <2>3. /\ \A i \in 1..Len(stack) : services[stack[i]] # NoService /\ stack[i] \notin search.visited
        /\ \A i, j \in 1..Len(stack) : stack[i] = stack[j] => i = j
        /\ \A i \in 1..(Len(stack) - 1) : stack[i + 1] \in graph[services[stack[i]]]
    BY <1>7 DEF OnPath, stack
  <2>4. Len(stack) \in 1..Len(stack) /\ top = stack[Len(stack)]
    BY <1>3 DEF top
  <2>5. \A i \in 1..Len(front) :
          services'[front[i]] # NoService /\ front[i] \notin search.visited \cup {top}
    BY <1>1, <2>1, <2>3, <2>4
  <2>6. \A i, j \in 1..Len(front) : front[i] = front[j] => i = j
    BY <2>1, <2>3
  <2>7. \A i \in 1..(Len(front) - 1) : front[i + 1] \in graph'[services'[front[i]]]
    BY <1>1, <2>1, <2>2, <2>3
  <2> QED BY <1>2, <2>5, <2>6, <2>7 DEF OnPath
<1>11. \A i \in 1..Len(grown) : i \in 1..Len(sorted) \/ i = Len(sorted) + 1
  BY <1>4, <1>6
<1>12. /\ \A i \in 1..Len(sorted) : \E n \in search.visited : services[n] = sorted[i]
       /\ \A n \in search.visited :
            services[n] # NoService /\ \E i \in 1..Len(sorted) : sorted[i] = services[n]
       /\ Len(sorted) + 1 \in 1..Len(grown) /\ \A i \in 1..Len(sorted) : i \in 1..Len(grown)
  BY <1>4, <1>6, <1>7 DEF SortedVisited, sorted
<1>13. SortedVisited'
  <2>1. \A i \in 1..Len(grown) : \E n \in search.visited \cup {top} : services[n] = grown[i]
    BY <1>6, <1>11, <1>12
  <2>2. \A n \in search.visited \cup {top} :
          services[n] # NoService /\ \E i \in 1..Len(grown) : grown[i] = services[n]
    BY <1>6, <1>8, <1>12
  <2> QED BY <1>1, <1>2, <2>1, <2>2 DEF SortedVisited
<1>14. Grounded(search.sorted)'
  <2>1. \A n \in search.visited : services[n] # services[top]
    BY <1>3, <1>4, <1>8, <1>12 DEF SortInv, Named
  <2>2. \A i \in 1..Len(sorted) : sorted[i] # services[top]
    BY <1>12, <2>1
  <2>3. \A i, j \in 1..Len(grown) : grown[i] = grown[j] => i = j
    BY <1>6, <1>7, <1>11, <2>2 DEF Grounded
  <2>4. ASSUME NEW i \in 1..Len(grown), NEW n \in graph[grown[i]]
        PROVE  \E j \in 1..(i - 1) : ServiceName[grown[j]] = n
    <3>1. CASE i \in 1..Len(sorted)
      <4>1. PICK j \in 1..(i - 1) : ServiceName[sorted[j]] = n
        BY <1>6, <1>7, <3>1 DEF Grounded
      <4>2. j \in 1..Len(sorted)
        BY <1>4, <3>1, <4>1
      <4> QED BY <1>6, <4>1, <4>2
    <3>2. CASE i = Len(sorted) + 1
      <4>1. n \in search.visited /\ n \in Names
        BY <1>3, <1>4, <1>6, <3>2
      <4>2. PICK j \in 1..Len(sorted) : sorted[j] = services[n]
        BY <1>12, <4>1
      <4>3. ServiceName[grown[j]] = n
        BY <1>6, <1>12, <4>1, <4>2 DEF SortInv, Named
      <4>4. j \in 1..(i - 1)
        BY <1>4, <3>2, <4>2
      <4> QED BY <4>3, <4>4
    <3> QED BY <1>11, <3>1, <3>2
  <2>5. /\ grown \in Seq(Services)
        /\ \A i \in 1..Len(grown) : \A n \in graph[grown[i]] :
             \E j \in 1..(i - 1) : ServiceName[grown[j]] = n
    BY <1>6, <2>4
  <2> QED BY <1>1, <1>2, <2>3, <2>5 DEF Grounded
<1>15. SortExact'
  BY <1>1, SortRecorded DEF SortInv
<1> QED BY <1>9, <1>10, <1>13, <1>14, <1>15 DEF SortInv, Searching

(* The end of the sort: what is in the slice is what is registered.        *)
LEMMA SortReturns == ASSUME SortInv, Life!SortDone PROVE SortInv'
<1> DEFINE sorted == search.sorted
           R == Life!Registered
           f == [i \in 1..Len(sorted) |-> sorted[i]]
<1>1. /\ phase = "sort" /\ phase' = "init" /\ search.stack = <<>> /\ Life!ToVisit = {}
      /\ UNCHANGED <<graph, services, outcome>> /\ ordered' = sorted
      /\ search' = [stack |-> <<>>, visited |-> {}, sorted |-> <<>>]
  BY DEF Life!SortDone, Life!NewSearch
<1>2. OnPath /\ SortedVisited /\ Grounded(sorted)
  BY <1>1 DEF SortInv, Searching
<1>3. \A n \in Names : services[n] # NoService <=> n \in search.visited
  BY <1>1, <1>2, ToVisitNames DEF SortedVisited, SortInv, SortTypes
<1>4. sorted \in Seq(Services) /\ Len(sorted) \in Nat /\ DOMAIN sorted = 1..Len(sorted)
  BY LenProperties DEF SortInv, SortTypes
<1>5. \A i \in 1..Len(sorted) : sorted[i] \in R
  BY <1>2 DEF SortedVisited, Life!Registered, SortInv, SortTypes
<1>6. \A r \in R : \E i \in 1..Len(sorted) : sorted[i] = r
  BY <1>2, <1>3 DEF SortedVisited, Life!Registered
<1>7. Life!ToSet(sorted) = R
  BY <1>4, <1>5, <1>6 DEF Life!ToSet
<1>8. sorted \in Seq(R)
  BY <1>4, <1>5
<1>9. \A i, j \in 1..Len(sorted) : sorted[i] = sorted[j] => i = j
  BY <1>2 DEF Grounded
<1> HIDE DEF sorted, R
<1>10. f \in Surjection(1..Len(sorted), R) /\ f \in Injection(1..Len(sorted), R)
  BY <1>5, <1>6, <1>9 DEF Injection, Surjection, IsInjective
<1>11. Cardinality(R) = Len(sorted)
  <2>1. IsFiniteSet(1..Len(sorted)) /\ Cardinality(1..Len(sorted)) = Len(sorted)
    BY <1>4, FS_Interval
  <2> HIDE DEF f
  <2> QED BY <1>10, <2>1, FS_Surjection
<1>12. Life!IsTopological(sorted)
  BY <1>2, <1>4, <1>7, <1>8, <1>11
     DEF Life!IsTopological, Grounded, R, Life!Cardinality, Cardinality
<1>13. Life!Registered' = Life!Registered
  BY <1>1 DEF Life!Registered
<1>14. Life!IsTopological(ordered)'
  BY <1>1, <1>12, <1>13 DEF Life!IsTopological
<1>15. \A seq : Life!IsTopological(seq)' <=> Life!IsTopological(seq)
  BY <1>1, <1>13 DEF Life!IsTopological
<1>16. SortExact'
  BY <1>1, <1>13, <1>14, <1>15 DEF SortInv, SortExact, Life!SortExact
<1>17. <<>> \in Seq(Names) /\ <<>> \in Seq(Services)
  BY EmptySeq
<1> QED BY <1>1, <1>16, <1>17 DEF SortInv, SortTypes, Named, Searching

(* An error of the sort: there is no order.                                *)
LEMMA SortRefuses == ASSUME SortInv, Life!VisitFails PROVE SortInv'
<1> DEFINE stack == search.stack
           top == stack[Len(stack)]
<1>1. /\ phase = "sort" /\ phase' = "idle" /\ UNCHANGED <<graph, services, ordered>>
      /\ search' = [stack |-> <<>>, visited |-> {}, sorted |-> <<>>]
  BY DEF Life!VisitFails, Life!NewSearch
<1>2. PICK n \in Life!ToVisit : n \in Life!ToSet(stack) \/ services[n] = NoService
  BY DEF Life!VisitFails
<1>3. stack \in Seq(Names) /\ Len(stack) \in Nat /\ DOMAIN stack = 1..Len(stack)
  BY LenProperties DEF SortInv, SortTypes
<1>4. OnPath
  BY <1>1 DEF SortInv, Searching
<1>5. stack # <<>>
  <2> SUFFICES ASSUME stack = <<>> PROVE FALSE
    OBVIOUS
  <2>1. services[n] # NoService
    BY <1>1, <1>2, ToVisitNames
  <2>2. Len(stack) = 0
    BY <1>3, EmptySeq
  <2> QED BY <1>2, <1>3, <2>1, <2>2 DEF Life!ToSet
<1>6. /\ Len(stack) \in Nat \ {0} /\ n \in Names /\ top \in Names
      /\ services[top] \in Services /\ n \in graph[services[top]]
  BY <1>1, <1>2, <1>5, ToVisitNames
<1>7. services[top] # NoService
  BY <1>4, <1>6 DEF OnPath
<1>8. ASSUME NEW seq, Life!IsTopological(seq) PROVE FALSE
  <2>1. CASE services[n] = NoService
    BY <1>6, <1>7, <1>8, <2>1, MissingUnsortable DEF SortInv
  <2>2. CASE n \in Life!ToSet(stack)
    <3>1. PICK first \in 1..Len(stack) : stack[first] = n
      BY <1>3, <2>2 DEF Life!ToSet
    <3> DEFINE C == {stack[i] : i \in first..Len(stack)}
    <3>2. \A i \in first..Len(stack) : i \in 1..Len(stack) /\ stack[i] \in Names
      BY <1>3, <3>1, ElementOfSeq
    <3>3. C \in SUBSET Names /\ C # {} /\ n \in C
      BY <1>3, <3>1, <3>2
    <3>4. ASSUME NEW i \in first..Len(stack)
          PROVE  services[stack[i]] # NoService /\ \E m \in C : m \in graph[services[stack[i]]]
      <4>1. services[stack[i]] # NoService
        BY <1>4, <3>2 DEF OnPath
      <4>2. CASE i = Len(stack)
        BY <1>6, <3>3, <4>1, <4>2
      <4>3. CASE i # Len(stack)
        <5>1. i \in 1..(Len(stack) - 1) /\ i + 1 \in first..Len(stack)
          BY <1>3, <3>1, <4>3
        <5> QED BY <1>4, <4>1, <5>1 DEF OnPath
      <4> QED BY <4>2, <4>3
    <3>5. \A m \in C : services[m] # NoService /\ \E l \in C : l \in graph[services[m]]
      BY <3>4
    <3> HIDE DEF C
    <3> QED BY <1>8, <3>3, <3>5, CycleUnsortable DEF SortInv
  <2> QED BY <1>2, <2>1, <2>2
<1>9. \A seq : ~Life!IsTopological(seq)'
  <2>1. Life!Registered' = Life!Registered
    BY <1>1 DEF Life!Registered
  <2>2. \A seq : Life!IsTopological(seq)' <=> Life!IsTopological(seq)
    BY <1>1, <2>1 DEF Life!IsTopological
  <2> QED BY <1>8, <2>2
<1>10. SortExact'
  BY <1>1, <1>9 DEF SortExact, Life!SortExact
<1>11. <<>> \in Seq(Names) /\ <<>> \in Seq(Services)
  BY EmptySeq
<1> QED BY <1>1, <1>10, <1>11 DEF SortInv, SortTypes, Named, Searching

(* The sort is exact (lifecycle.go:135-182).                               *)
LEMMA SortInvariance ==
  ASSUME Life!LifecycleAssumption PROVE Life!Spec => []SortInv
<1>1. ASSUME Life!Init PROVE SortInv
  <2>1. SortTypes /\ Named
    BY <1>1, EmptySeq DEF Life!Init, Life!NewSearch, Life!LifecycleAssumption, SortTypes, Named
  <2> QED BY <1>1, <2>1 DEF Life!Init, SortInv, Searching, SortExact, Life!SortExact
<1>2. ASSUME SortInv, [Life!Next]_(Life!vars) PROVE SortInv'
  <2>1. ASSUME NEW s \in Services, Life!Register(s) PROVE SortInv'
    <3>1. /\ UNCHANGED <<graph, search, ordered>>
          /\ services' = [services EXCEPT ![ServiceName[s]] = s]
          /\ phase' = "idle" /\ outcome' = "ok"
      BY <2>1 DEF Life!Register
    <3>2. SortTypes' /\ Named'
      BY <1>2, <3>1 DEF SortInv, SortTypes, Named, Life!LifecycleAssumption
    <3> QED BY <3>1, <3>2 DEF SortInv, Searching, SortExact, Life!SortExact
  <2>2. CASE Life!InitAll
    <3>1. /\ UNCHANGED <<graph, services, ordered>> /\ phase' = "sort" /\ outcome' = "ok"
          /\ search' = [stack |-> <<>>, visited |-> {}, sorted |-> <<>>]
      BY <2>2 DEF Life!InitAll, Life!NewSearch
    <3>2. <<>> \in Seq(Names) /\ <<>> \in Seq(Services) /\ Len(<<>>) = 0
      BY EmptySeq
    <3>3. SortTypes' /\ Named'
      BY <1>2, <3>1, <3>2 DEF SortInv, SortTypes, Named
    <3>4. (OnPath /\ SortedVisited /\ Grounded(search.sorted))'
      BY <3>1, <3>2 DEF OnPath, SortedVisited, Grounded
    <3> QED BY <3>1, <3>3, <3>4 DEF SortInv, Searching, SortExact, Life!SortExact
  <2>3. CASE Life!VisitEnter \/ Life!VisitFails \/ Life!VisitEnd \/ Life!SortDone
    BY <1>2, <2>3, SortEnter, SortRefuses, SortLeave, SortReturns
  <2>4. CASE Life!InitOne
    BY <1>2, <2>4, SortQuiet DEF Life!InitOne
  <2>5. CASE Life!StartAll \/ Life!StartOne \/ Life!StartFails \/ Life!StartDone
    BY <1>2, <2>5, SortQuiet
       DEF Life!StartAll, Life!StartOne, Life!StartFails, Life!StartDone
  <2>6. CASE Life!StopAll \/ Life!StopOne \/ Life!StopDone
    BY <1>2, <2>6, SortQuiet DEF Life!StopAll, Life!StopOne, Life!StopDone
  <2>7. CASE UNCHANGED Life!vars
    BY <1>2, <2>7, SortQuiet DEF Life!vars
  <2> QED BY <1>2, <2>1, <2>2, <2>3, <2>4, <2>5, <2>6, <2>7 DEF Life!Next
<1> QED BY <1>1, <1>2, PTL DEF Life!Spec

(* sortDependencies returns each registered service once, after those it   *)
(* depends on, and an error only if there is no such order, however deep   *)
(* the graph (lifecycle.go:135-182).                                       *)
THEOREM SortSafety ==
  ASSUME Life!LifecycleAssumption PROVE Life!Spec => []SortExact
<1>1. SortInv => SortExact
  BY DEF SortInv
<1> QED BY <1>1, SortInvariance, PTL

-----------------------------------------------------------------------------
(* Starting and stopping the services.                                     *)

LifeTypes ==
  /\ services \in [Names -> Services \cup {NoService}]
  /\ started \in BOOLEAN
  /\ phase \in {"idle", "sort", "init", "start", "rollback", "stop"}
  /\ position \in Nat
  /\ outcome \in {"ok", "sort", "init", "start"}

StartedFirst(k) == {launched[i] : i \in 1..k}

(* Which services are up at every step of StartAll and of stopRunning.     *)
UpNow ==
  /\ phase \in {"idle", "sort", "init"} =>
       up = StartedFirst(Len(launched)) /\ (~started => launched = <<>>)
  /\ phase = "start" =>
       /\ ~started
       /\ position \in 1..(Len(ordered) + 1)
       /\ Len(launched) = position - 1
       /\ \A i \in 1..Len(launched) : launched[i] = ordered[i]
       /\ up = StartedFirst(Len(launched))
  /\ phase \in {"rollback", "stop"} =>
       position \in 0..Len(launched) /\ up = StartedFirst(position)
  /\ phase = "rollback" => ~started

(* The inductive invariant, given the one of the sort.                     *)
LifeInv == LifeTypes /\ Grounded(ordered) /\ Grounded(launched) /\ UpNow

(* What InitAll leaves in o.ordered when the sort is exact: a slice as     *)
(* long as the set of its services is large has each of them once.         *)
LEMMA TopologicalGrounded ==
  ASSUME Life!LifecycleAssumption, LifeTypes, Life!IsTopological(ordered)
  PROVE  Grounded(ordered)
<1> DEFINE R == Life!Registered
           n == Len(ordered)
           f == [i \in 1..n |-> ordered[i]]
<1>1. R \subseteq Services
  BY DEF LifeTypes, Life!Registered
<1>2. ordered \in Seq(R) /\ n = Cardinality(R) /\ Life!ToSet(ordered) = R
  BY DEF Life!IsTopological, Life!Cardinality, Cardinality
<1>3. n \in Nat /\ DOMAIN ordered = 1..n
  BY <1>2, LenProperties
<1>4. \A i \in 1..n : ordered[i] \in R
  BY <1>2, <1>3, ElementOfSeq
<1>5. \A r \in R : \E i \in 1..n : ordered[i] = r
  BY <1>2, <1>3 DEF Life!ToSet
<1> HIDE DEF R, n
<1>6. f \in Surjection(1..n, R)
  BY <1>4, <1>5 DEF Surjection
<1>7. IsFiniteSet(1..n) /\ Cardinality(1..n) = n
  BY <1>3, FS_Interval
<1>8. f \in Injection(1..n, R)
  BY <1>2, <1>6, <1>7, FS_Surjection
<1>9. \A i, j \in 1..n : ordered[i] = ordered[j] => i = j
  <2>1. \A i, j \in 1..n : f[i] = f[j] => i = j
    BY <1>8 DEF Injection, IsInjective
  <2> QED BY <2>1
<1>10. ordered \in Seq(Services)
  BY <1>1, <1>2, <1>3, <1>4
<1>11. \A i \in 1..n : \A m \in graph[ordered[i]] :
         \E j \in 1..(i - 1) : ServiceName[ordered[j]] = m
  BY <1>3 DEF Life!IsTopological
<1> QED BY <1>9, <1>10, <1>11 DEF Grounded, n

(* The invariant holds at first: nothing is registered.                    *)
LEMMA LifeInit == ASSUME Life!Init PROVE LifeInv
<1>1. ordered = <<>> /\ launched = <<>>
  BY DEF Life!Init
<1>2. ordered \in Seq(Services) /\ Len(ordered) = 0 /\ launched \in Seq(Services)
      /\ Len(launched) = 0
  BY <1>1, EmptySeq
<1>3. Grounded(ordered) /\ Grounded(launched)
  BY <1>2 DEF Grounded
<1>4. LifeTypes
  BY DEF Life!Init, LifeTypes
<1>5. UpNow
  BY <1>1, <1>2 DEF Life!Init, UpNow, StartedFirst
<1> QED BY <1>3, <1>4, <1>5 DEF LifeInv

(* A step that leaves the two slices and what is up alone.                 *)
LEMMA LifeStays ==
  ASSUME LifeInv, UNCHANGED <<graph, ordered, launched>>
  PROVE  /\ Grounded(ordered)' /\ Grounded(launched)'
         /\ \A k : StartedFirst(k)' = StartedFirst(k)
BY DEF LifeInv, Grounded, StartedFirst

(* Every step of the orchestrator preserves the invariant, when the sort   *)
(* is exact after it.                                                      *)
LEMMA LifeStep ==
  ASSUME Life!LifecycleAssumption, LifeInv, [Life!Next]_(Life!vars), SortExact'
  PROVE  LifeInv'
<1>1. ASSUME NEW s \in Services, Life!Register(s) PROVE LifeInv'
  <2>1. /\ services' = [services EXCEPT ![ServiceName[s]] = s] /\ outcome' = "ok"
        /\ UNCHANGED <<graph, ordered, launched, started, phase, position, up>>
    BY <1>1 DEF Life!Register
  <2>2. LifeTypes'
    BY <2>1 DEF LifeInv, LifeTypes, Life!LifecycleAssumption
  <2>3. UpNow'
    BY <2>1 DEF LifeInv, UpNow, StartedFirst
  <2> QED BY <2>1, <2>2, <2>3, LifeStays DEF LifeInv
<1>2. CASE Life!InitAll \/ Life!VisitEnter \/ Life!VisitFails \/ Life!VisitEnd
  <2>1. /\ phase \in {"idle", "sort"} /\ phase' \in {"idle", "sort"}
        /\ outcome' \in {"ok", "sort", outcome}
        /\ UNCHANGED <<graph, services, ordered, launched, started, up, position>>
    BY <1>2 DEF Life!InitAll, Life!VisitEnter, Life!VisitFails, Life!VisitEnd
  <2>2. LifeTypes'
    BY <2>1 DEF LifeInv, LifeTypes
  <2>3. UpNow'
    BY <2>1 DEF LifeInv, UpNow, StartedFirst
  <2> QED BY <2>1, <2>2, <2>3, LifeStays DEF LifeInv
<1>12. CASE Life!SortDone
  <2>1. /\ phase = "sort" /\ phase' = "init" /\ position' = 1
        /\ UNCHANGED <<graph, services, launched, started, up, outcome>>
    BY <1>12 DEF Life!SortDone
  <2>2. LifeTypes'
    BY <2>1 DEF LifeInv, LifeTypes
  <2>3. Grounded(launched)' /\ StartedFirst(Len(launched))' = StartedFirst(Len(launched))
    BY <2>1 DEF LifeInv, Grounded, StartedFirst
  <2>4. Grounded(ordered)'
    <3>1. Life!IsTopological(ordered)'
      BY <2>1 DEF SortExact, Life!SortExact
    <3>2. (LifeTypes /\ Life!IsTopological(ordered) => Grounded(ordered))'
      BY TopologicalGrounded, PTL
    <3> QED BY <2>2, <3>1, <3>2
  <2>5. UpNow'
    BY <2>1, <2>3 DEF LifeInv, UpNow
  <2> QED BY <2>2, <2>3, <2>4, <2>5 DEF LifeInv
<1>3. CASE Life!InitOne
  <2>1. /\ phase = "init" /\ phase' \in {"init", "idle"}
        /\ position' = position + 1 \/ position' = 0
        /\ outcome' = "init" \/ outcome' = outcome
        /\ UNCHANGED <<graph, services, ordered, launched, started, up>>
    BY <1>3 DEF Life!InitOne
  <2>2. LifeTypes'
    BY <2>1 DEF LifeInv, LifeTypes
  <2>3. UpNow'
    BY <2>1 DEF LifeInv, UpNow, StartedFirst
  <2> QED BY <2>1, <2>2, <2>3, LifeStays DEF LifeInv
<1>4. CASE Life!StartAll
  <2>1. /\ phase = "idle" /\ ~started /\ phase' = "start" /\ position' = 1
        /\ outcome' = "ok"
        /\ UNCHANGED <<graph, services, ordered, launched, started, up>>
    BY <1>4 DEF Life!StartAll
  <2>2. LifeTypes'
    BY <2>1 DEF LifeInv, LifeTypes
  <2>3. launched = <<>> /\ Len(launched) = 0 /\ up = StartedFirst(Len(launched))
    BY <2>1, EmptySeq DEF LifeInv, UpNow
  <2>4. Len(ordered) \in Nat
    BY LenProperties DEF LifeInv, Grounded
  <2>5. UpNow'
    BY <2>1, <2>3, <2>4 DEF UpNow, StartedFirst
  <2> QED BY <2>1, <2>2, <2>5, LifeStays DEF LifeInv
<1>5. CASE Life!StartOne
  <2> DEFINE s == ordered[position]
             n == Len(launched)
  <2>1. /\ phase = "start" /\ position <= Len(ordered)
        /\ launched' = Append(launched, s) /\ up' = up \cup {s}
        /\ position' = position + 1
        /\ UNCHANGED <<graph, services, ordered, started, phase, outcome>>
    BY <1>5 DEF Life!StartOne
  <2>2. /\ ~started /\ position \in 1..(Len(ordered) + 1) /\ n = position - 1
        /\ \A i \in 1..n : launched[i] = ordered[i]
        /\ up = StartedFirst(n)
        /\ ordered \in Seq(Services) /\ launched \in Seq(Services)
    BY <2>1 DEF LifeInv, UpNow, Grounded
  <2>3. Len(ordered) \in Nat /\ n \in Nat
    BY <2>2, LenProperties
  <2>4. position \in 1..Len(ordered) /\ s \in Services
    BY <2>1, <2>2, <2>3, ElementOfSeq
  <2>5. /\ launched' \in Seq(Services) /\ Len(launched') = position
        /\ \A i \in 1..n : launched'[i] = launched[i]
        /\ launched'[position] = s
    BY <2>1, <2>2, <2>3, <2>4, AppendProperties
  <2>6. \A i \in 1..position : launched'[i] = ordered[i]
    BY <2>2, <2>3, <2>4, <2>5
  <2>7. \A i \in 1..position : i \in 1..Len(ordered) /\ \A j \in 1..(i - 1) : j \in 1..position
    BY <2>3, <2>4
  <2>8. Grounded(ordered)'
    BY <2>1 DEF LifeInv, Grounded
  <2> HIDE DEF s, n
  <2>9. Grounded(launched)'
    <3>1. \A i, j \in 1..Len(launched') : launched'[i] = launched'[j] => i = j
      BY <2>5, <2>6, <2>7 DEF LifeInv, Grounded
    <3>2. ASSUME NEW i \in 1..Len(launched'), NEW m \in graph'[launched'[i]]
          PROVE  \E j \in 1..(i - 1) : ServiceName[launched'[j]] = m
      <4>1. i \in 1..Len(ordered) /\ m \in graph[ordered[i]] /\ i \in 1..position
        BY <2>1, <2>5, <2>6, <2>7, <3>2
      <4>2. PICK j \in 1..(i - 1) : ServiceName[ordered[j]] = m
        BY <4>1 DEF LifeInv, Grounded
      <4>3. launched'[j] = ordered[j]
        BY <2>6, <2>7, <4>1, <4>2
      <4> QED BY <4>2, <4>3
    <3> QED BY <2>5, <3>1, <3>2 DEF Grounded
  <2>10. up' = StartedFirst(Len(launched))'
    <3>1. 1..position = (1..n) \cup {position}
      BY <2>2, <2>3, <2>4
    <3>2. {launched'[i] : i \in 1..position} = {launched[i] : i \in 1..n} \cup {s}
      BY <2>5, <3>1
    <3> QED BY <2>1, <2>2, <2>5, <3>2 DEF StartedFirst
  <2>11. LifeTypes'
    BY <2>1 DEF LifeInv, LifeTypes
  <2>12. UpNow'
    BY <2>1, <2>2, <2>3, <2>4, <2>5, <2>6, <2>10 DEF UpNow
  <2> QED BY <2>8, <2>9, <2>11, <2>12 DEF LifeInv
<1>6. CASE Life!StartFails
  <2>1. /\ phase = "start" /\ phase' = "rollback" /\ position' = Len(launched)
        /\ outcome' = "start"
        /\ UNCHANGED <<graph, services, ordered, launched, started, up>>
    BY <1>6 DEF Life!StartFails
  <2>2. Len(launched) \in Nat
    BY LenProperties DEF LifeInv, Grounded
  <2>3. LifeTypes'
    BY <2>1, <2>2 DEF LifeInv, LifeTypes
  <2>4. UpNow'
    BY <2>1, <2>2 DEF LifeInv, UpNow, StartedFirst
  <2> QED BY <2>1, <2>3, <2>4, LifeStays DEF LifeInv
<1>7. CASE Life!StartDone
  <2>1. /\ phase = "start" /\ started' = TRUE /\ phase' = "idle" /\ position' = 0
        /\ UNCHANGED <<graph, services, ordered, launched, up, outcome>>
    BY <1>7 DEF Life!StartDone
  <2>2. LifeTypes'
    BY <2>1 DEF LifeInv, LifeTypes
  <2>3. UpNow'
    BY <2>1 DEF LifeInv, UpNow, StartedFirst
  <2> QED BY <2>1, <2>2, <2>3, LifeStays DEF LifeInv
<1>8. CASE Life!StopAll
  <2>1. /\ phase = "idle" /\ phase' = "stop" /\ position' = Len(launched)
        /\ outcome' = "ok"
        /\ UNCHANGED <<graph, services, ordered, launched, started, up>>
    BY <1>8 DEF Life!StopAll
  <2>2. Len(launched) \in Nat
    BY LenProperties DEF LifeInv, Grounded
  <2>3. LifeTypes'
    BY <2>1, <2>2 DEF LifeInv, LifeTypes
  <2>4. UpNow'
    BY <2>1, <2>2 DEF LifeInv, UpNow, StartedFirst
  <2> QED BY <2>1, <2>3, <2>4, LifeStays DEF LifeInv
<1>9. CASE Life!StopOne
  <2>1. /\ phase \in {"rollback", "stop"} /\ position > 0
        /\ up' = up \ {launched[position]} /\ position' = position - 1
        /\ UNCHANGED <<graph, services, ordered, launched, started, phase, outcome>>
    BY <1>9 DEF Life!StopOne
  <2>2. /\ position \in 0..Len(launched) /\ up = StartedFirst(position)
        /\ launched \in Seq(Services)
        /\ \A i, j \in 1..Len(launched) : launched[i] = launched[j] => i = j
    BY <2>1 DEF LifeInv, UpNow, Grounded
  <2>3. Len(launched) \in Nat
    BY <2>2, LenProperties
  <2>4. /\ position \in 1..Len(launched) /\ position - 1 \in 0..Len(launched)
        /\ 1..position = (1..(position - 1)) \cup {position}
        /\ position \notin 1..(position - 1)
        /\ \A i \in 1..(position - 1) : i \in 1..Len(launched)
    BY <2>1, <2>2, <2>3
  <2>5. up' = StartedFirst(position - 1)
    BY <2>1, <2>2, <2>4 DEF StartedFirst
  <2>6. StartedFirst(position)' = StartedFirst(position - 1)
    BY <2>1 DEF StartedFirst
  <2>7. LifeTypes'
    BY <2>1, <2>4 DEF LifeInv, LifeTypes
  <2>8. UpNow'
    BY <2>1, <2>4, <2>5, <2>6 DEF LifeInv, UpNow
  <2> QED BY <2>1, <2>7, <2>8, LifeStays DEF LifeInv
<1>10. CASE Life!StopDone
  <2>1. /\ phase \in {"rollback", "stop"} /\ position = 0 /\ launched' = <<>>
        /\ started' = (started /\ phase # "stop") /\ phase' = "idle"
        /\ UNCHANGED <<graph, services, ordered, position, up, outcome>>
    BY <1>10 DEF Life!StopDone
  <2>2. launched' \in Seq(Services) /\ Len(launched') = 0
    BY <2>1, EmptySeq
  <2>3. Grounded(ordered)' /\ Grounded(launched)'
    BY <2>1, <2>2 DEF LifeInv, Grounded
  <2>4. up = {}
    BY <2>1 DEF LifeInv, UpNow, StartedFirst
  <2>5. started' = FALSE
    BY <2>1 DEF LifeInv, UpNow
  <2>6. LifeTypes'
    BY <2>1, <2>5 DEF LifeInv, LifeTypes
  <2>7. UpNow'
    BY <2>1, <2>2, <2>4 DEF UpNow, StartedFirst
  <2> QED BY <2>3, <2>6, <2>7 DEF LifeInv
<1>11. CASE UNCHANGED Life!vars
  <2>1. LifeTypes'
    BY <1>11 DEF Life!vars, LifeInv, LifeTypes
  <2>2. UpNow'
    BY <1>11 DEF Life!vars, LifeInv, UpNow, StartedFirst
  <2> QED BY <1>11, <2>1, <2>2, LifeStays DEF Life!vars, LifeInv
<1> QED BY <1>1, <1>2, <1>3, <1>4, <1>5, <1>6, <1>7, <1>8, <1>9, <1>10, <1>11, <1>12
        DEF Life!Next

(* At every step of InitAll, StartAll and StopAll no service is up without *)
(* the ones it depends on, and between the operations o.running is what is *)
(* up, each service once, and nothing after a StartAll that failed.        *)
THEOREM RunningSafety ==
  ASSUME Life!LifecycleAssumption
  PROVE  Life!Spec => []RunningExact
<1>1. Life!Init => LifeInv
  BY LifeInit
<1>2. LifeInv /\ [Life!Next]_(Life!vars) /\ SortExact' => LifeInv'
  BY LifeStep
<1>3. ASSUME LifeInv PROVE RunningExact
  <2>1. PICK k \in 0..Len(launched) : up = StartedFirst(k)
    <3>1. Len(launched) \in Nat
      BY <1>3, LenProperties DEF LifeInv, Grounded
    <3> QED BY <1>3, <3>1 DEF LifeInv, LifeTypes, UpNow
  <2>2. /\ Len(launched) \in Nat /\ DOMAIN launched = 1..Len(launched)
        /\ \A i \in 1..Len(launched) : launched[i] \in Services
    BY <1>3, LenProperties, ElementOfSeq DEF LifeInv, Grounded
  <2>3. \A i \in 1..k : i \in 1..Len(launched) /\ \A j \in 1..(i - 1) : j \in 1..k
    BY <2>1, <2>2
  <2>4. Life!TypeOK
    BY <1>3, <2>1, <2>2, <2>3 DEF LifeInv, LifeTypes, Grounded, StartedFirst, Life!TypeOK
  <2>5. Life!DependenciesUp
    <3> SUFFICES ASSUME NEW s \in up, NEW n \in graph[s]
                 PROVE  \E d \in up : ServiceName[d] = n
      BY DEF Life!DependenciesUp
    <3>1. PICK i \in 1..k : launched[i] = s
      BY <2>1 DEF StartedFirst
    <3>2. PICK j \in 1..(i - 1) : ServiceName[launched[j]] = n
      BY <1>3, <2>3, <3>1 DEF LifeInv, Grounded
    <3> QED BY <2>1, <2>3, <3>2 DEF StartedFirst
  <2>6. ASSUME phase = "idle"
        PROVE  /\ Life!ToSet(launched) = up
               /\ Len(launched) = Life!Cardinality(up)
               /\ ~started => up = {}
    <3> DEFINE n == Len(launched)
               f == [i \in 1..n |-> launched[i]]
    <3>1. up = StartedFirst(n) /\ (~started => launched = <<>>)
      BY <1>3, <2>6 DEF LifeInv, UpNow
    <3>2. Life!ToSet(launched) = up
      BY <2>2, <3>1 DEF Life!ToSet, StartedFirst
    <3>3. n \in Nat /\ \A i, j \in 1..n : launched[i] = launched[j] => i = j
      BY <1>3, <2>2 DEF LifeInv, Grounded
    <3> HIDE DEF n
    <3>4. IsFiniteSet(1..n) /\ Cardinality(1..n) = n
      BY <3>3, FS_Interval
    <3>5. f \in Surjection(1..n, up) /\ f \in Injection(1..n, up)
      BY <3>1, <3>3 DEF StartedFirst, Surjection, Injection, IsInjective
    <3>6. Cardinality(up) = n
      BY <3>4, <3>5, FS_Surjection
    <3>7. ~started => up = {}
      BY <2>2, <3>1, EmptySeq DEF StartedFirst, n
    <3> QED BY <3>2, <3>6, <3>7 DEF n, Life!Cardinality, Cardinality
  <2> QED BY <2>4, <2>5, <2>6 DEF RunningExact, Life!RunningExact
<1>4. Life!Spec => []SortExact
  BY SortSafety
<1> QED BY <1>1, <1>2, <1>3, <1>4, PTL DEF Life!Spec

-----------------------------------------------------------------------------
(* The state machine of kata/.                                             *)

(* The record of a Transition under way.                                   *)
Transitions ==
  [at : {"before", "after"}, from : MachineStates, event : Events,
   to : MachineStates, todo : 0..MaxHooks, after : 0..MaxHooks]

(* The types, and that every rule in the map was added.                    *)
MachineTypes ==
  /\ Machine!TypeOK
  /\ call \in [Users -> Transitions \cup {Machine!Idle}]
  /\ \A x \in MachineStates, e \in Events :
       rules[<<x, e>>] # NoState =>
         [from |-> x, event |-> e, to |-> rules[<<x, e>>]] \in Addable

(* The inductive invariant.                                                *)
MachineInv == MachineTypes /\ MoveExplained

(* The invariant holds at first: nobody is in a Transition.                *)
LEMMA MachineInit ==
  ASSUME Machine!KataAssumption, Machine!Init PROVE MachineInv
BY DEF Machine!KataAssumption, Machine!Init, Machine!Idle, MachineInv, MachineTypes,
       Machine!TypeOK, MoveExplained, Machine!MoveExplained

(* Every operation of the machine preserves it.                            *)
LEMMA MachineStep ==
  ASSUME Machine!KataAssumption, MachineInv, [Machine!Next]_(Machine!vars)
  PROVE  MachineInv'
<1> USE DEF Machine!KataAssumption, MachineInv, MachineTypes, Machine!TypeOK,
            MoveExplained, Machine!MoveExplained, Transitions, Machine!Idle
<1>1. ASSUME NEW r \in Addable, Machine!AddRule(r) PROVE MachineInv'
  <2>1. /\ r.from \in MachineStates /\ r.event \in Events /\ r.to \in MachineStates
        /\ r = [from |-> r.from, event |-> r.event, to |-> r.to]
    OBVIOUS
  <2>2. /\ rules' = [rules EXCEPT ![<<r.from, r.event>>] = r.to]
        /\ UNCHANGED <<current, hooks, call, overtaken>>
    BY <1>1 DEF Machine!AddRule
  <2>3. \A x \in MachineStates, e \in Events :
          rules'[<<x, e>>] = IF x = r.from /\ e = r.event THEN r.to ELSE rules[<<x, e>>]
    BY <2>1, <2>2
  <2>4. Machine!TypeOK'
    BY <2>1, <2>2
  <2>5. \A x \in MachineStates, e \in Events :
          rules'[<<x, e>>] # NoState =>
            [from |-> x, event |-> e, to |-> rules'[<<x, e>>]] \in Addable
    BY <2>1, <2>3
  <2> QED BY <2>2, <2>4, <2>5
<1>2. ASSUME NEW e \in Events, Machine!OnBefore(e) \/ Machine!OnAfter(e) PROVE MachineInv'
  BY <1>2 DEF Machine!OnBefore, Machine!OnAfter
<1>3. ASSUME NEW s \in Forced, Machine!ForceSet(s) PROVE MachineInv'
  BY <1>3 DEF Machine!ForceSet, Machine!SetCurrent
<1>4. ASSUME NEW p \in Users, NEW e \in Events, Machine!Lookup(p, e) PROVE MachineInv'
  <2> DEFINE to == rules[<<current, e>>]
  <2>1. to \in MachineStates /\ [from |-> current, event |-> e, to |-> to] \in Addable
    BY <1>4 DEF Machine!Lookup
  <2>2. [at |-> "before", from |-> current, event |-> e, to |-> to,
         todo |-> hooks[e].before, after |-> hooks[e].after] \in Transitions
    BY <2>1
  <2> QED BY <1>4, <2>1, <2>2 DEF Machine!Lookup
<1>5. ASSUME NEW p \in Users, Machine!HookAgrees(p) PROVE MachineInv'
  <2>1. call[p] \in Transitions /\ UNCHANGED <<current, rules, hooks, overtaken>>
    BY <1>5 DEF Machine!HookAgrees
  <2>2. /\ call' \in [Users -> Transitions \cup {Machine!Idle}]
        /\ \A q \in Users : q # p => call'[q] = call[q]
        /\ call'[p].from = call[p].from /\ call'[p].event = call[p].event
        /\ call'[p].to = call[p].to /\ call'[p].at = call[p].at
    BY <1>5, <2>1 DEF Machine!HookAgrees
  <2> QED BY <2>1, <2>2
<1>6. ASSUME NEW p \in Users, Machine!HookAborts(p) PROVE MachineInv'
  BY <1>6 DEF Machine!HookAborts
<1>7. ASSUME NEW p \in Users, Machine!Apply(p) PROVE MachineInv'
  <2> DEFINE moved == [call EXCEPT ![p].at = "after", ![p].todo = call[p].after]
  <2>1. call[p] \in Transitions
    BY <1>7 DEF Machine!Apply
  <2>2. moved \in [Users -> Transitions \cup {Machine!Idle}]
    BY <2>1
  <2>3. moved[p].at = "after" /\ \A q \in Users : q # p => moved[q] = call[q]
    BY <2>1
  <2>4. /\ call' = moved /\ current' = call[p].to /\ rules' = rules /\ hooks' = hooks
        /\ overtaken' = [q \in Users |-> TRUE]
    BY <1>7 DEF Machine!Apply, Machine!SetCurrent
  <2> HIDE DEF moved
  <2> QED BY <2>1, <2>2, <2>3, <2>4
<1>8. ASSUME NEW p \in Users, Machine!After(p) PROVE MachineInv'
  <2>1. call[p] \in Transitions /\ UNCHANGED <<current, rules, hooks, overtaken>>
    BY <1>8 DEF Machine!After
  <2>2. PICK new \in Transitions \cup {Machine!Idle} :
          call' = [call EXCEPT ![p] = new] /\ new.at # "before"
    BY <1>8, <2>1 DEF Machine!After
  <2>3. call' \in [Users -> Transitions \cup {Machine!Idle}]
    BY <2>2
  <2> QED BY <2>1, <2>2, <2>3
<1>9. CASE UNCHANGED Machine!vars
  BY <1>9 DEF Machine!vars
<1> QED BY <1>1, <1>2, <1>3, <1>4, <1>5, <1>6, <1>7, <1>8, <1>9 DEF Machine!Next

(* MoveExplained: the state a transition was checked against is the one it *)
(* is applied to, unless a ForceSet or another transition wrote it         *)
(* meanwhile, and it follows a rule that was added.                        *)
THEOREM MachineSafety ==
  ASSUME Machine!KataAssumption PROVE Machine!Spec => []MoveExplained
<1>1. Machine!Init => MachineInv
  BY MachineInit
<1>2. MachineInv /\ [Machine!Next]_(Machine!vars) => MachineInv'
  BY MachineStep
<1>3. MachineInv => MoveExplained
  BY DEF MachineInv
<1> QED BY <1>1, <1>2, <1>3, PTL DEF Machine!Spec

-----------------------------------------------------------------------------
(* The orchestrator of behavior/.                                          *)

(* The inductive invariant: RunsContained itself, and the type of failFast. *)
RunsInv == RunsContained /\ failFast \in BOOLEAN

(* The invariant holds at first: nothing is registered.                    *)
LEMMA RunsInit == ASSUME Behave!Init PROVE RunsInv
BY DEF Behave!Init, RunsInv, RunsContained, Behave!RunsContained, Behave!TypeOK

(* Every operation of the orchestrator and every step of a behaviour       *)
(* preserves it.                                                           *)
LEMMA RunsStep ==
  ASSUME Behave!BehaviorAssumption, RunsInv, [Behave!Next]_(Behave!vars)
  PROVE  RunsInv'
<1> USE DEF Behave!BehaviorAssumption, RunsInv, RunsContained, Behave!RunsContained,
            Behave!TypeOK, Behave!Move
<1>1. CASE Behave!Start \/ Behave!ParentDone
  BY <1>1 DEF Behave!Start, Behave!ParentDone
<1>2. ASSUME NEW b \in Behaviors, Behave!Register(b) PROVE RunsInv'
  BY <1>2 DEF Behave!Register
<1>3. ASSUME NEW b \in Behaviors, Behave!CallBack(b) \/ Behave!Goroutine(b)
      PROVE  RunsInv'
  BY <1>3 DEF Behave!CallBack, Behave!Goroutine, Behave!CallReturns, Behave!Handle,
              Behave!RunReturns
<1>4. ASSUME NEW p \in Users, Behave!Stop(p) \/ Behave!StopReturns(p) PROVE RunsInv'
  BY <1>4 DEF Behave!Stop, Behave!StopReturns, Behave!Waited
<1>5. CASE UNCHANGED Behave!vars
  BY <1>5 DEF Behave!vars
<1> QED BY <1>1, <1>2, <1>3, <1>4, <1>5 DEF Behave!Next

(* RunsContained: no behaviour outlives its run, and what runs is what was *)
(* registered, one behaviour of a name.                                    *)
THEOREM RunsSafety ==
  ASSUME Behave!BehaviorAssumption PROVE Behave!Spec => []RunsContained
<1>1. Behave!Init => RunsInv
  BY RunsInit
<1>2. RunsInv /\ [Behave!Next]_(Behave!vars) => RunsInv'
  BY RunsStep
<1>3. RunsInv => RunsContained
  BY DEF RunsInv
<1> QED BY <1>1, <1>2, <1>3, PTL DEF Behave!Spec
=============================================================================
